------------------------------ MODULE MCSockets ------------------------------
(* Instances of Sockets for TLC: which thread performs which operations.    *)
EXTENDS Sockets

CONSTANTS main, igor, heartbeat, e1, e2, f1, f2

Op(k, s, a) == [kind |-> k, st |-> s, arg |-> a]

Attaches == {Op("attach", "Publisher", e1), Op("attach", "Subscriber", e2)}
FilterOps == {Op("addFilter", "Subscriber", f1), Op("addFilter", "Subscriber", f2),
              Op("removeFilter", "Subscriber", f1), Op("removeFilter", "Subscriber", Nothing)}
ToggleOps == {Op("toggleIPV6", "Client", TRUE), Op("toggleIPV6", "Client", FALSE)}
CloseOp == {Op("close", "Client", Nothing)}
Heartbeat == {Op("heartbeat", "Publisher", Nothing)}
Transfers == {Op("transfer", "Client", Nothing)}

\* two threads whose operations overlap, but not with a close
Quiescent == [t \in Threads |->
  IF t = main THEN Attaches \cup CloseOp \cup ToggleOps \cup {Op("addFilter", "Subscriber", f1)}
  ELSE FilterOps \cup Transfers \cup Heartbeat \cup {Op("attach", "Server", e1)}]
\* the heartbeat concurrently with zeromq_stop
HeartbeatAndStop == [t \in Threads |-> IF t = heartbeat THEN Heartbeat
  ELSE {Op("attach", "Publisher", e1)} \cup CloseOp]
=============================================================================
