--------------------------- MODULE RequestService ---------------------------
(***************************************************************************)
(* What the message handler promises its peers, without threads, locks or   *)
(* sockets: a request is taken charge of once; accepted requests are        *)
(* executed one at a time, in the order of their acceptance and each at     *)
(* most once; every request is answered at most once, an accepted one not   *)
(* before it was executed (or refused); a request whose answer cannot be    *)
(* delivered is given up.                                                   *)
(***************************************************************************)
EXTENDS Naturals, Sequences, Functions

CONSTANTS Requests, Runs   \* Runs: those of the requests that may be executed

VARIABLES
  pending,   \* accepted requests, the one being executed included
  running,   \* is the first of them being executed?
  executed,  \* the executed requests, in order
  answers,   \* the answered requests, in order
  dropped    \* requests given up without an answer

vars == <<pending, running, executed, answers, dropped>>

Seen == Range(pending) \cup Range(answers) \cup dropped

Init ==
  /\ pending = <<>> /\ running = FALSE
  /\ executed = <<>> /\ answers = <<>> /\ dropped = {}

Answer(r) == answers' = Append(answers, r) /\ UNCHANGED dropped
GiveUp(r) == dropped' = dropped \cup {r} /\ UNCHANGED answers

Accept(r) ==
  /\ r \notin Seen
  /\ pending' = Append(pending, r)
  /\ UNCHANGED <<running, executed, answers, dropped>>

Reject(r) ==
  /\ r \notin Seen
  /\ Answer(r) \/ GiveUp(r)
  /\ UNCHANGED <<pending, running, executed>>

Execute ==
  /\ pending # <<>> /\ ~running
  /\ Head(pending) \in Runs
  /\ running' = TRUE
  /\ executed' = Append(executed, Head(pending))
  /\ UNCHANGED <<pending, answers, dropped>>

Finish ==
  /\ pending # <<>>
  /\ running \/ Head(pending) \notin Runs
  /\ Answer(Head(pending)) \/ GiveUp(Head(pending))
  /\ pending' = Tail(pending) /\ running' = FALSE
  /\ UNCHANGED executed

Next ==
  \/ \E r \in Requests : Accept(r) \/ Reject(r)
  \/ Execute \/ Finish

Spec == Init /\ [][Next]_vars
=============================================================================
