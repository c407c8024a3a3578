------------------------- MODULE ConnectionService --------------------------
(***************************************************************************)
(* What the socket functions of the XOP promise callers that let no         *)
(* operation overlap a close: four sockets that always seem to exist,       *)
(* without handles, creation or mutexes.  An operation takes effect at one  *)
(* moment between its call and its return, as a whole or, if it is refused, *)
(* not at all, but for the removal of several filters, which may stop half  *)
(* way; the IPv6 setting reaches one socket after the other; a close *)
(* takes all connections, filters and settings away.                        *)
(***************************************************************************)
EXTENDS Naturals

CONSTANTS
  Threads,      \* callers
  Program,      \* Program[t]: the operations thread t may perform
  SocketTypes,
  Binding,      \* the types that bind; an endpoint is bound by one socket
  Nothing,      \* the argument of removeFilter that means all filters
  FiltersRefusable  \* may a filter be refused, or its removal?

VARIABLES
  attached,     \* attached[st]: the endpoints a socket is bound or connected to
  subscribed,   \* the subscriber's filters
  ipv6,         \* ipv6[st]: may the socket use IPv6?
  doing,        \* doing[t]: the operation thread t waits for, if any
  unset         \* unset[t]: the sockets a toggle of thread t has yet to set

connections == <<attached, subscribed, ipv6>>
vars == <<connections, doing, unset>>

NoConnections ==
  /\ attached = [st \in SocketTypes |-> {}]
  /\ subscribed = {}
  /\ ipv6 = [st \in SocketTypes |-> FALSE]

Init ==
  /\ NoConnections
  /\ doing = [t \in Threads |-> {}]
  /\ unset = [t \in Threads |-> {}]

Begin(t, o) ==
  /\ doing[t] = {}
  /\ \A u \in Threads : \A p \in doing[u] : p.kind # "close"
  /\ doing' = [doing EXCEPT ![t] = {o}]
  /\ unset' = [unset EXCEPT ![t] = IF o.kind = "toggleIPV6" THEN SocketTypes ELSE {}]

End(t) ==
  /\ doing' = [doing EXCEPT ![t] = {}]
  /\ unset' = [unset EXCEPT ![t] = {}]

Call(t, o) == o.kind # "close" /\ Begin(t, o) /\ UNCHANGED connections

Close(t, o) ==
  /\ o.kind = "close" /\ \A u \in Threads : doing[u] = {}
  /\ Begin(t, o)
  /\ NoConnections'

\* a bind to an endpoint that is bound is refused
Attach(t, o) ==
  /\ o.kind = "attach"
  /\ IF o.st \in Binding /\ \E st \in Binding : o.arg \in attached[st]
     THEN UNCHANGED attached
     ELSE attached' = [attached EXCEPT ![o.st] = @ \cup {o.arg}]
  /\ End(t) /\ UNCHANGED <<subscribed, ipv6>>

\* also refused if the filter is still noted after a removal that was refused
AddFilter(t, o) ==
  /\ o.kind = "addFilter"
  /\ \/ subscribed' = subscribed \cup {o.arg}
     \/ FiltersRefusable /\ UNCHANGED subscribed
  /\ End(t) /\ UNCHANGED <<attached, ipv6>>

\* all or, if one of them is refused, some
RemoveFilter(t, o) ==
  /\ o.kind = "removeFilter"
  /\ LET gone == IF o.arg = Nothing THEN subscribed ELSE {o.arg}
     IN  \E kept \in SUBSET (gone \cap subscribed) :
           /\ kept # {} => FiltersRefusable
           /\ subscribed' = (subscribed \ gone) \cup kept
  /\ End(t) /\ UNCHANGED <<attached, ipv6>>

Set(t, o, st) ==
  /\ o.kind = "toggleIPV6" /\ st \in unset[t]
  /\ ipv6' = [ipv6 EXCEPT ![st] = o.arg]
  /\ IF unset[t] = {st} THEN End(t)
     ELSE unset' = [unset EXCEPT ![t] = @ \ {st}] /\ UNCHANGED doing
  /\ UNCHANGED <<attached, subscribed>>

\* sends and receives leave connections alone; a close has had its effect
Return(t, o) ==
  /\ o.kind \in {"transfer", "heartbeat", "close"}
  /\ End(t) /\ UNCHANGED connections

Next ==
  \E t \in Threads :
    \/ \E o \in Program[t] : Call(t, o) \/ Close(t, o)
    \/ \E o \in doing[t] :
         \/ Attach(t, o) \/ AddFilter(t, o) \/ RemoveFilter(t, o)
         \/ \E st \in SocketTypes : Set(t, o, st)
         \/ Return(t, o)

Spec == Init /\ [][Next]_vars
=============================================================================
