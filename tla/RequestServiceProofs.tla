------------------------ MODULE RequestServiceProofs ------------------------
(* MessageHandler implements RequestService, for any requests, peers and    *)
(* threads, and whatever functions call.                                    *)
EXTENDS MessageHandlerProofs

USE DEF handlerVars, queueVars, mainVars, netVars, replyVars

Elements(s) == {s[i] : i \in 1..Len(s)}

\* the requests the service has seen; Service!Seen
Seen == Elements(reqQueue) \cup Elements(replies) \cup lost

\* requests on the way from the socket to the queue, each of them once
FreshInv ==
  /\ \A i, j \in 1..Len(inbox) : i # j => inbox[i] # inbox[j]
  /\ Elements(inbox) \subseteq sent \ Seen
  /\ Seen \subseteq sent
  /\ wpc \in {"got", "sendError"} => msg \in sent \ (Seen \cup Elements(inbox))

\* what runs was not refused
RunInv == mpc = "func" => Verdict[Head(reqQueue)] # "refuse"

Runs == {r \in Requests : Verdict[r] # "refuse"}
Running == mpc = "func" \/ (mpc = "reply" /\ Verdict[Head(reqQueue)] # "refuse")
serviceVars == <<reqQueue, Running, executed, replies, lost>>

(* The elements of a sequence without its head, and with one more.          *)
LEMMA ElementsOfTail ==
  ASSUME NEW s \in Seq(Requests), s # <<>>
  PROVE  /\ Head(s) \in Elements(s) /\ Head(s) \in Requests /\ Tail(s) \in Seq(Requests)
         /\ Elements(Tail(s)) \subseteq Elements(s)
<1>1. /\ Len(s) \in Nat \ {0} /\ Head(s) = s[1] /\ Tail(s) \in Seq(Requests)
      /\ Len(Tail(s)) = Len(s) - 1
      /\ \A i \in 1..Len(s) - 1 : Tail(s)[i] = s[i + 1]
  OBVIOUS
<1>2. Head(s) \in Elements(s)
  BY <1>1 DEF Elements
<1>3. ASSUME NEW i \in 1..Len(Tail(s)) PROVE Tail(s)[i] \in Elements(s)
  <2>1. Tail(s)[i] = s[i + 1] /\ i + 1 \in 1..Len(s)
    BY <1>1
  <2>2. QED
    BY <2>1 DEF Elements
<1>4. QED
  BY <1>1, <1>2, <1>3 DEF Elements

LEMMA ElementsOfAppend ==
  ASSUME NEW s \in Seq(Requests), NEW r \in Requests
  PROVE  Elements(Append(s, r)) = Elements(s) \cup {r}
<1>1. /\ Len(Append(s, r)) = Len(s) + 1 /\ Len(s) \in Nat
      /\ Append(s, r)[Len(s) + 1] = r
      /\ \A i \in 1..Len(s) : Append(s, r)[i] = s[i]
  OBVIOUS
<1>2. Elements(Append(s, r)) \subseteq Elements(s) \cup {r}
  BY <1>1 DEF Elements
<1>3. ASSUME NEW i \in 1..Len(s) PROVE s[i] \in Elements(Append(s, r))
  BY <1>1 DEF Elements
<1>4. r \in Elements(Append(s, r))
  BY <1>1 DEF Elements
<1>5. QED
  BY <1>2, <1>3, <1>4 DEF Elements

(* Where the mapping of RequestService meets these definitions.             *)
LEMMA SeenIsServiceSeen ==
  ASSUME TypeOK
  PROVE  Service!Seen = Seen
<1>1. DOMAIN reqQueue = 1..Len(reqQueue) /\ DOMAIN replies = 1..Len(replies)
  BY DEF TypeOK
<1>2. QED
  BY <1>1 DEF Service!Seen, Service!Range, Seen, Elements, Range

(* A step that leaves the service's variables alone is a stutter.           *)
LEMMA Stutter ==
  ASSUME UNCHANGED serviceVars
  PROVE  UNCHANGED Service!vars
BY DEF serviceVars, Running, Service!vars

LEMMA AcceptStep ==
  ASSUME TypeOK, LockInv, FreshInv, WorkerPush
  PROVE  Service!Next
<1>1. msg \in Requests /\ msg \notin Seen
  BY DEF WorkerPush, LockInv, FreshInv
<1>2. msg \notin Service!Seen
  BY <1>1, SeenIsServiceSeen
<1>3. mpc \notin {"func", "reply"} /\ mpc' = mpc
  BY MainIsThread DEF WorkerPush, LockInv
<1>4. ~ Running /\ ~ Running'
  BY <1>3 DEF Running
<1>5. /\ reqQueue' = Append(reqQueue, msg)
      /\ UNCHANGED <<executed, replies, lost>>
  BY DEF WorkerPush
<1>6. Service!Accept(msg)
  BY <1>2, <1>4, <1>5, Zenon DEF Service!Accept, Running
<1>7. QED
  BY <1>1, <1>6 DEF Service!Next

(* A request that is thrown away or answered with an error.                 *)
LEMMA RejectStep ==
  ASSUME TypeOK, FreshInv, NEW r \in Requests, r \notin Seen,
         \/ replies' = Append(replies, r) /\ lost' = lost
         \/ lost' = lost \cup {r} /\ replies' = replies,
         UNCHANGED <<reqQueue, executed, mpc>>
  PROVE  Service!Next
<1>1. r \notin Service!Seen
  BY SeenIsServiceSeen
<1>2. UNCHANGED Running
  BY DEF Running
<1>3. Service!Answer(r) \/ Service!GiveUp(r)
  BY Zenon DEF Service!Answer, Service!GiveUp
<1>4. Service!Reject(r)
  BY <1>1, <1>2, <1>3, Zenon DEF Service!Reject, Running
<1>5. QED
  BY <1>4 DEF Service!Next

LEMMA ExecuteStep ==
  ASSUME TypeOK, LockInv, ApplyCall
  PROVE  Service!Next
<1>1. /\ reqQueue # <<>> /\ Head(reqQueue) \in Runs /\ reqQueue' = reqQueue
      /\ executed' = Append(executed, Head(reqQueue)) /\ UNCHANGED <<replies, lost>>
      /\ mpc = "loop" /\ mpc' = "func"
  BY ElementsOfTail DEF ApplyCall, TypeOK, Runs
<1>2. Running' /\ ~ Running
  BY <1>1 DEF Running
<1>3. Running' = TRUE
  BY <1>2
<1>4. Service!Execute
  BY <1>1, <1>2, <1>3, Zenon DEF Service!Execute, Running, Runs
<1>5. QED
  BY <1>4 DEF Service!Next

LEMMA FinishStep ==
  ASSUME TypeOK, LockInv, ReplySend \/ ReplyThrows
  PROVE  Service!Next
<1> DEFINE r == Head(reqQueue)
<1>1. /\ mpc = "reply" /\ reqQueue # <<>> /\ reqQueue' = Tail(reqQueue)
      /\ mpc' = "loop" /\ executed' = executed
  BY DEF ReplySend, ReplyThrows, PopFront, LockInv
<1>2. r \in Requests
  BY <1>1, ElementsOfTail DEF TypeOK
<1>3. Running \/ r \notin Runs
  BY <1>1, <1>2 DEF Running, Runs
<1>4. Running' = FALSE
  BY <1>1 DEF Running
<1>5. Service!Answer(r) \/ Service!GiveUp(r)
  BY DEF ReplySend, ReplyThrows, ZeroMQServerSend, Service!Answer, Service!GiveUp
<1>6. Service!Finish
  BY <1>1, <1>3, <1>4, <1>5, Zenon DEF Service!Finish, Running, Runs
<1>7. QED
  BY <1>6 DEF Service!Next

(* Every step is one of the service's, or a stutter.                        *)
LEMMA StepSimulation ==
  TypeOK /\ LockInv /\ FreshInv /\ RunInv /\ [Next]_vars => [Service!Next]_(Service!vars)
<1> SUFFICES ASSUME TypeOK, LockInv, FreshInv, RunInv, [Next]_vars
             PROVE  Service!Next \/ UNCHANGED Service!vars
  OBVIOUS
<1> DEFINE Quiet == UNCHANGED <<reqQueue, executed, replies, lost, mpc>>
<1>1. ASSUME Quiet PROVE UNCHANGED Service!vars
  BY <1>1, Stutter DEF serviceVars, Running
<1>2. CASE WorkerInit \/ WorkerCheck \/ WorkerTimeout \/ WorkerReject
  BY <1>1, <1>2 DEF WorkerInit, WorkerCheck, WorkerTimeout, WorkerReject
<1>3. CASE WorkerReceive
  <2>1. inbox \in Seq(Requests) /\ inbox # <<>>
    BY <1>3 DEF WorkerReceive, TypeOK
  <2>2. Head(inbox) \in Requests /\ Head(inbox) \notin Seen
    BY <2>1, ElementsOfTail DEF FreshInv
  <2>3. CASE Verdict[Head(inbox)] = "malformed"
    BY <1>3, <2>2, <2>3, RejectStep DEF WorkerReceive
  <2>4. CASE Verdict[Head(inbox)] # "malformed"
    BY <1>1, <1>3, <2>4 DEF WorkerReceive
  <2>5. QED
    BY <2>3, <2>4
<1>4. CASE WorkerPush
  BY <1>4, AcceptStep
<1>5. CASE WorkerLogThrows \/ WorkerSendError
  <2>1. msg \in Requests /\ msg \notin Seen
    BY <1>5 DEF WorkerLogThrows, WorkerSendError, LockInv, FreshInv
  <2>2. QED
    BY <1>5, <2>1, RejectStep DEF WorkerLogThrows, WorkerSendError, ZeroMQServerSend
<1>6. CASE XOPEntryIdle \/ HandleNothing \/ HandleQueued \/ HandleLogFailed \/ ApplyLock \/ ApplyDone
  <2>1. UNCHANGED <<reqQueue, executed, replies, lost>>
    BY <1>6 DEF XOPEntryIdle, HandleNothing, HandleQueued, HandleLogFailed, ApplyLock, ApplyDone
  <2>2. ~ Running' /\ (~ Running \/ mpc = "func")
    BY <1>6 DEF XOPEntryIdle, HandleNothing, HandleQueued, HandleLogFailed, ApplyLock,
                ApplyDone, Running, MayCall
  <2>3. mpc # "func"
    BY <1>6 DEF XOPEntryIdle, HandleNothing, HandleQueued, HandleLogFailed, ApplyLock,
                ApplyDone, LockInv
  <2>4. UNCHANGED Running
    BY <2>2, <2>3, Zenon DEF Running
  <2>5. QED
    BY <2>1, <2>4, Stutter DEF serviceVars
<1>7. CASE ApplyRefuse
  <2>1. UNCHANGED <<reqQueue, executed, replies, lost>> /\ ~ Running /\ ~ Running'
    BY <1>7 DEF ApplyRefuse, Running
  <2>2. UNCHANGED Running
    BY <2>1, Zenon DEF Running
  <2>3. QED
    BY <2>1, <2>2, Stutter DEF serviceVars
<1>8. CASE ApplyCall
  BY <1>8, ExecuteStep
<1>9. CASE FunctionReturns
  <2>1. UNCHANGED <<reqQueue, executed, replies, lost>> /\ Running /\ Running'
    BY <1>9 DEF FunctionReturns, Running, RunInv
  <2>2. QED
    BY <2>1, Stutter DEF serviceVars
<1>10. CASE ReplySend \/ ReplyThrows
  BY <1>10, FinishStep
<1>11. CASE \E t \in Threads, c \in Calls : Enter(t, c)
  BY <1>1, <1>11 DEF Enter
<1>12. CASE StartRefused \/ Start \/ ServerBind
  BY <1>1, <1>12 DEF StartRefused, Start, ServerBind
<1>13. CASE \E t \in Threads : Stop(t) \/ CloseConnections(t)
  BY <1>1, <1>13 DEF Stop, StopNotRunning, StopRequest, StopJoined, CloseConnections
<1>14. CASE \E p \in Peers : PeerConnect(p) \/ PeerLeave(p)
  BY <1>1, <1>14 DEF PeerConnect, PeerLeave
<1>15. CASE \E r \in Requests : PeerSend(r)
  BY <1>1, <1>15 DEF PeerSend
<1>16. CASE UNCHANGED vars
  BY <1>1, <1>16 DEF vars
<1>17. QED
  BY <1>2, <1>3, <1>4, <1>5, <1>6, <1>7, <1>8, <1>9, <1>10, <1>11, <1>12, <1>13, <1>14,
     <1>15, <1>16 DEF Next, WorkerThread, HandleAllQueuedMessages

(* The inbox without its first request.                                     *)
LEMMA InboxTail ==
  ASSUME TypeOK, FreshInv, inbox # <<>>
  PROVE  /\ \A i, j \in 1..Len(Tail(inbox)) : i # j => Tail(inbox)[i] # Tail(inbox)[j]
         /\ Elements(Tail(inbox)) \subseteq Elements(inbox) \ {Head(inbox)}
         /\ Head(inbox) \in sent \ Seen
<1>1. inbox \in Seq(Requests)
  BY DEF TypeOK
<1>2. /\ Len(inbox) \in Nat \ {0} /\ Head(inbox) = inbox[1]
      /\ Len(Tail(inbox)) = Len(inbox) - 1
      /\ \A i \in 1..Len(inbox) - 1 : Tail(inbox)[i] = inbox[i + 1]
  BY <1>1
<1>3. \A i \in 1..Len(Tail(inbox)) : i + 1 \in 1..Len(inbox) /\ i + 1 # 1
  BY <1>2
<1>4. \A i, j \in 1..Len(inbox) : i # j => inbox[i] # inbox[j]
  BY DEF FreshInv
<1>5. \A i \in 1..Len(Tail(inbox)) : Tail(inbox)[i] # Head(inbox)
  BY <1>2, <1>3, <1>4
<1>6. \A i, j \in 1..Len(Tail(inbox)) : i # j => Tail(inbox)[i] # Tail(inbox)[j]
  BY <1>2, <1>3, <1>4
<1>7. Elements(Tail(inbox)) \subseteq Elements(inbox) /\ Head(inbox) \in Elements(inbox)
  BY <1>1, ElementsOfTail
<1>8. Head(inbox) \notin Elements(Tail(inbox))
  BY <1>5 DEF Elements
<1>9. QED
  BY <1>6, <1>7, <1>8 DEF FreshInv

(* Requests reach the queue once.                                           *)
LEMMA FreshStep == TypeOK /\ LockInv /\ FreshInv /\ [Next]_vars => FreshInv'
<1> SUFFICES ASSUME TypeOK, LockInv, FreshInv, [Next]_vars PROVE FreshInv'
  OBVIOUS
<1> DEFINE Holds == wpc \in {"got", "sendError"}
<1>1. ASSUME UNCHANGED inbox
      PROVE  /\ Elements(inbox)' = Elements(inbox)
             /\ \A i, j \in 1..Len(inbox') : i # j => inbox'[i] # inbox'[j]
  BY <1>1 DEF Elements, FreshInv
<1>2. ASSUME UNCHANGED <<reqQueue, replies, lost>> PROVE Seen' = Seen
  BY <1>2 DEF Seen, Elements
\* nothing arrives, nothing is taken
<1>3. ASSUME UNCHANGED <<inbox, sent>>, Seen' \subseteq Seen, Holds' => Holds /\ msg' = msg
      PROVE  FreshInv'
  BY <1>1, <1>3 DEF FreshInv
\* the request of the worker is done with, or queued
<1>4. ASSUME UNCHANGED <<inbox, sent>>, Seen' \subseteq Seen \cup {msg}, Holds, ~Holds'
      PROVE  FreshInv'
  BY <1>1, <1>4 DEF FreshInv
<1> HIDE DEF Holds
<1>5. CASE WorkerInit \/ WorkerCheck \/ WorkerTimeout
  BY <1>2, <1>3, <1>5 DEF WorkerInit, WorkerCheck, WorkerTimeout, Holds
<1>6. CASE WorkerReject
  BY <1>2, <1>3, <1>6 DEF WorkerReject, Holds
<1>7. CASE WorkerReceive
  <2>1. inbox # <<>> /\ inbox' = Tail(inbox) /\ sent' = sent /\ UNCHANGED <<reqQueue, replies>>
    BY <1>7 DEF WorkerReceive
  <2>2. /\ \A i, j \in 1..Len(inbox') : i # j => inbox'[i] # inbox'[j]
        /\ Elements(inbox)' \subseteq Elements(inbox) \ {Head(inbox)}
        /\ Head(inbox) \in sent \ Seen
    BY <2>1, InboxTail DEF Elements
  <2>3. CASE Verdict[Head(inbox)] = "malformed"
    <3>1. lost' = lost \cup {Head(inbox)} /\ wpc' = "check"
      BY <1>7, <2>3 DEF WorkerReceive
    <3>2. Seen' = Seen \cup {Head(inbox)}
      BY <2>1, <3>1 DEF Seen, Elements
    <3>3. QED
      BY <2>1, <2>2, <3>1, <3>2 DEF FreshInv
  <2>4. CASE Verdict[Head(inbox)] # "malformed"
    <3>1. lost' = lost /\ msg' = Head(inbox)
      BY <1>7, <2>4 DEF WorkerReceive
    <3>2. Seen' = Seen
      BY <1>2, <2>1, <3>1
    <3>3. QED
      BY <2>1, <2>2, <3>1, <3>2 DEF FreshInv
  <2>5. QED
    BY <2>3, <2>4
<1>8. CASE WorkerPush
  <2>1. reqQueue' = Append(reqQueue, msg) /\ UNCHANGED <<replies, lost>> /\ msg \in Requests
    BY <1>8 DEF WorkerPush, LockInv
  <2>2. Elements(reqQueue') = Elements(reqQueue) \cup {msg}
    BY <2>1, ElementsOfAppend DEF TypeOK
  <2>3. Seen' \subseteq Seen \cup {msg}
    BY <2>1, <2>2 DEF Seen, Elements
  <2>4. QED
    BY <1>4, <1>8, <2>3 DEF WorkerPush, Holds
<1>9. CASE WorkerLogThrows \/ WorkerSendError
  <2>1. /\ reqQueue' = reqQueue /\ msg \in Requests
        /\ \/ replies' = Append(replies, msg) /\ lost' = lost
           \/ replies' = replies /\ lost' = lost \cup {msg}
    BY <1>9 DEF WorkerLogThrows, WorkerSendError, ZeroMQServerSend, LockInv
  <2>2. Elements(replies') \subseteq Elements(replies) \cup {msg}
    BY <2>1, ElementsOfAppend DEF TypeOK
  <2>3. Seen' \subseteq Seen \cup {msg}
    BY <2>1, <2>2 DEF Seen, Elements
  <2>4. QED
    BY <1>4, <1>9, <2>3 DEF WorkerLogThrows, WorkerSendError, Holds
<1>10. CASE ReplySend \/ ReplyThrows
  <2> DEFINE r == Head(reqQueue)
  <2>1. /\ reqQueue # <<>> /\ reqQueue' = Tail(reqQueue)
        /\ \/ replies' = Append(replies, r) /\ lost' = lost
           \/ replies' = replies /\ lost' = lost \cup {r}
    BY <1>10 DEF ReplySend, ReplyThrows, ZeroMQServerSend, PopFront, LockInv
  <2>2. r \in Requests /\ r \in Elements(reqQueue) /\ Elements(reqQueue') \subseteq Elements(reqQueue)
    BY <2>1, ElementsOfTail DEF TypeOK
  <2> HIDE DEF r
  <2>3. Elements(replies') \subseteq Elements(replies) \cup {r}
    BY <2>1, <2>2, ElementsOfAppend DEF TypeOK
  <2>4. Seen' \subseteq Seen
    BY <2>1, <2>2, <2>3 DEF Seen, Elements
  <2>5. QED
    BY <1>3, <1>10, <2>4 DEF ReplySend, ReplyThrows, PopFront, Holds
<1>11. CASE XOPEntryIdle \/ HandleNothing \/ HandleQueued \/ HandleLogFailed
            \/ ApplyLock \/ ApplyRefuse \/ ApplyCall \/ FunctionReturns \/ ApplyDone
  BY <1>2, <1>3, <1>11 DEF XOPEntryIdle, HandleNothing, HandleQueued, HandleLogFailed, ApplyLock,
     ApplyRefuse, ApplyCall, FunctionReturns, ApplyDone, Holds
<1>12. CASE \E t \in Threads, c \in Calls : Enter(t, c)
  BY <1>2, <1>3, <1>12 DEF Enter, Holds
<1>13. CASE StartRefused \/ Start \/ ServerBind
  BY <1>2, <1>3, <1>13 DEF StartRefused, Start, ServerBind, Holds
<1>14. CASE \E t \in Threads : Stop(t)
  BY <1>2, <1>3, <1>14 DEF Stop, StopNotRunning, StopRequest, StopJoined, Holds
<1>15. CASE \E t \in Threads : CloseConnections(t)
  <2>1. inbox' = <<>> /\ UNCHANGED <<sent, wpc, msg, reqQueue, replies, lost>>
    BY <1>15 DEF CloseConnections
  <2>2. Elements(inbox)' = {} /\ Len(inbox') = 0
    BY <2>1 DEF Elements
  <2>3. QED
    BY <1>2, <2>1, <2>2 DEF FreshInv
<1>16. CASE \E p \in Peers : PeerConnect(p) \/ PeerLeave(p)
  BY <1>2, <1>3, <1>16 DEF PeerConnect, PeerLeave, Holds
<1>17. ASSUME NEW r \in Requests, PeerSend(r) PROVE FreshInv'
  <2>1. /\ r \notin sent /\ sent' = sent \cup {r} /\ inbox' = Append(inbox, r)
        /\ UNCHANGED <<wpc, msg, reqQueue, replies, lost>>
    BY <1>17 DEF PeerSend
  <2>2. inbox \in Seq(Requests) /\ Len(inbox) \in Nat
    BY DEF TypeOK
  <2>3. Elements(inbox)' = Elements(inbox) \cup {r}
    BY <2>1, <2>2, ElementsOfAppend DEF Elements
  <2>4. Seen' = Seen
    BY <1>2, <2>1
  <2>5. \A i \in 1..Len(inbox) : inbox[i] # r
    BY <2>1 DEF FreshInv, Elements
  <2>6. /\ Len(inbox') = Len(inbox) + 1 /\ inbox'[Len(inbox) + 1] = r
        /\ \A i \in 1..Len(inbox) : inbox'[i] = inbox[i]
    BY <2>1, <2>2
  <2>7. \A i, j \in 1..Len(inbox') : i # j => inbox'[i] # inbox'[j]
    BY <2>2, <2>5, <2>6 DEF FreshInv
  <2>8. QED
    BY <2>1, <2>3, <2>4, <2>7 DEF FreshInv
<1>18. CASE UNCHANGED vars
  BY <1>2, <1>3, <1>18 DEF vars, Holds
<1>19. QED
  BY <1>5, <1>6, <1>7, <1>8, <1>9, <1>10, <1>11, <1>12, <1>13, <1>14, <1>15, <1>16, <1>17,
     <1>18 DEF Next, WorkerThread, HandleAllQueuedMessages

(* The request that runs stays at the front of the queue.                   *)
LEMMA RunStep == TypeOK /\ LockInv /\ RunInv /\ [Next]_vars => RunInv'
<1> SUFFICES ASSUME TypeOK, LockInv, RunInv, [Next]_vars PROVE RunInv'
  OBVIOUS
<1> USE MainIsThread DEF RunInv
<1>1. CASE WorkerPush
  BY <1>1 DEF WorkerPush, LockInv
<1>2. CASE WorkerInit \/ WorkerCheck \/ WorkerTimeout \/ WorkerReceive \/ WorkerReject
           \/ WorkerLogThrows \/ WorkerSendError
  BY <1>2 DEF WorkerInit, WorkerCheck, WorkerTimeout, WorkerReceive, WorkerReject,
     WorkerLogThrows, WorkerSendError
<1>3. CASE XOPEntryIdle \/ HandleAllQueuedMessages
  BY <1>3 DEF XOPEntryIdle, HandleAllQueuedMessages, HandleNothing, HandleQueued,
     HandleLogFailed, ApplyLock, ApplyRefuse, ApplyCall, FunctionReturns, ReplySend,
     ReplyThrows, ApplyDone, PopFront
<1>4. CASE \E t \in Threads, c \in Calls : Enter(t, c)
  BY <1>4 DEF Enter
<1>5. CASE StartRefused \/ Start \/ ServerBind
  BY <1>5 DEF StartRefused, Start, ServerBind
<1>6. CASE \E t \in Threads : Stop(t) \/ CloseConnections(t)
  BY <1>6 DEF Stop, StopNotRunning, StopRequest, StopJoined, CloseConnections
<1>7. CASE \E p \in Peers : PeerConnect(p) \/ PeerLeave(p)
  BY <1>7 DEF PeerConnect, PeerLeave
<1>8. CASE \E r \in Requests : PeerSend(r)
  BY <1>8 DEF PeerSend
<1>9. CASE UNCHANGED vars
  BY <1>9 DEF vars
<1>10. QED
  BY <1>1, <1>2, <1>3, <1>4, <1>5, <1>6, <1>7, <1>8, <1>9 DEF Next, WorkerThread

(* The handler implements the request service: at most once, in order, one  *)
(* at a time, whatever Start, Stop and CloseConnections do in between, also *)
(* when the functions of requests call them (MessageHandler.cpp:69-129).    *)
THEOREM HandlerImplementsService == Spec => ImplementsService
<1>1. Init => Service!Init /\ FreshInv /\ RunInv
  <2> SUFFICES ASSUME Init PROVE Service!Init /\ FreshInv /\ RunInv
    OBVIOUS
  <2>1. Service!Init
    BY DEF Init, Service!Init
  <2>2. Elements(inbox) = {} /\ Elements(reqQueue) = {} /\ Elements(replies) = {} /\ Len(inbox) = 0
    BY DEF Init, Elements
  <2>3. FreshInv
    BY <2>2 DEF Init, FreshInv, Seen
  <2>4. QED
    BY <2>1, <2>3 DEF Init, RunInv
<1>2. FreshInv /\ RunInv /\ TypeOK /\ LockInv /\ [Next]_vars => FreshInv' /\ RunInv'
  BY FreshStep, RunStep
<1>3. QED
  BY Invariance, <1>1, <1>2, StepSimulation, PTL DEF Spec, ImplementsService, Service!Spec
-----------------------------------------------------------------------------
(* No request vanishes *)

\* nothing arrives at a socket that is not bound
BoundInv == ~bound => inbox = <<>> /\ routable = {}

(* Peers reach the socket only while it is bound.                           *)
LEMMA BoundStep == TypeOK /\ BoundInv /\ [Next]_vars => BoundInv'
<1> SUFFICES ASSUME TypeOK, BoundInv, [Next]_vars PROVE BoundInv'
  OBVIOUS
<1> USE DEF BoundInv
<1>1. ASSUME UNCHANGED netVars PROVE BoundInv'
  BY <1>1
<1>2. CASE WorkerThread
  <2>1. CASE WorkerReceive
    <3>1. bound
      BY <2>1 DEF WorkerReceive
    <3>2. QED
      BY <2>1, <3>1 DEF WorkerReceive
  <2>2. QED
    BY <1>1, <1>2, <2>1 DEF WorkerThread, WorkerInit, WorkerCheck, WorkerTimeout, WorkerPush,
       WorkerReject, WorkerLogThrows, WorkerSendError
<1>3. CASE XOPEntryIdle \/ HandleAllQueuedMessages
  BY <1>1, <1>3 DEF XOPEntryIdle, HandleAllQueuedMessages, HandleNothing, HandleQueued,
     HandleLogFailed, ApplyLock, ApplyRefuse, ApplyCall, FunctionReturns, ReplySend,
     ReplyThrows, ApplyDone, PopFront
<1>4. CASE \E t \in Threads, c \in Calls : Enter(t, c)
  BY <1>1, <1>4 DEF Enter
<1>5. CASE StartRefused \/ Start \/ ServerBind
  BY <1>1, <1>5 DEF StartRefused, Start, ServerBind
<1>6. CASE \E t \in Threads : Stop(t) \/ CloseConnections(t)
  BY <1>1, <1>6 DEF Stop, StopNotRunning, StopRequest, StopJoined, CloseConnections
<1>7. CASE \E p \in Peers : PeerConnect(p) \/ PeerLeave(p)
  BY <1>7 DEF PeerConnect, PeerLeave
<1>8. CASE \E r \in Requests : PeerSend(r)
  BY <1>8 DEF PeerSend
<1>9. CASE UNCHANGED vars
  BY <1>1, <1>9 DEF vars
<1>10. QED
  BY <1>2, <1>3, <1>4, <1>5, <1>6, <1>7, <1>8, <1>9 DEF Next

(* What is in a queue after its first element is taken, or one is added.    *)
LEMMA RangeOfTail ==
  ASSUME NEW s \in Seq(Requests), s # <<>>
  PROVE  Range(s) \subseteq Range(Tail(s)) \cup {Head(s)} /\ Head(s) \in Requests
<1>1. /\ Len(s) \in Nat \ {0} /\ Head(s) = s[1] /\ Tail(s) \in Seq(Requests)
      /\ Len(Tail(s)) = Len(s) - 1 /\ DOMAIN s = 1..Len(s)
      /\ DOMAIN Tail(s) = 1..Len(s) - 1
      /\ \A i \in 1..Len(s) - 1 : Tail(s)[i] = s[i + 1]
  OBVIOUS
<1>2. ASSUME NEW i \in 1..Len(s), i # 1 PROVE s[i] \in Range(Tail(s))
  <2>1. i - 1 \in 1..Len(s) - 1 /\ Tail(s)[i - 1] = s[i]
    BY <1>1, <1>2
  <2>2. QED
    BY <1>1, <2>1 DEF Range
<1>3. QED
  BY <1>1, <1>2 DEF Range

(* One more.                                                                *)
LEMMA RangeOfAppend ==
  ASSUME NEW s \in Seq(Requests), NEW r \in Requests
  PROVE  Range(Append(s, r)) = Range(s) \cup {r}
<1>1. DOMAIN s = 1..Len(s) /\ DOMAIN Append(s, r) = 1..Len(Append(s, r))
  OBVIOUS
<1>2. QED
  BY <1>1, ElementsOfAppend DEF Range, Elements

\* the requests the worker holds
WorkersHands == IF wpc \in {"got", "sendError"} THEN {msg} ELSE {}

\* what a step has to do with requests
Kept ==
  /\ Ended \subseteq Ended'
  /\ InHands \subseteq InHands' \cup Ended'
  /\ \/ Range(inbox) \subseteq Range(inbox') \cup InHands' \cup Ended'
     \/ bound /\ ~bound'

(* A send ends its request, one way or the other.                           *)
LEMMA SendEnds ==
  ASSUME TypeOK, NEW r \in Requests, ZeroMQServerSend(r)
  PROVE  Ended \cup {r} = Ended'
  BY RangeOfAppend DEF ZeroMQServerSend, Ended, TypeOK

(* Every step keeps the requests it finds.                                  *)
LEMMA KeptStep == TypeOK /\ LockInv /\ BoundInv /\ [Next]_vars => Kept
<1> SUFFICES ASSUME TypeOK, LockInv, BoundInv, [Next]_vars PROVE Kept
  OBVIOUS
<1> USE DEF TypeOK
<1>1. InHands = Range(reqQueue) \cup WorkersHands /\ InHands' = Range(reqQueue') \cup WorkersHands'
  BY DEF InHands, WorkersHands
<1>2. ASSUME UNCHANGED <<reqQueue, inbox, replies, lost>>, WorkersHands \subseteq WorkersHands'
      PROVE  Kept
  <2>1. Ended' = Ended
    BY <1>2 DEF Ended
  <2>2. InHands \subseteq InHands'
    BY <1>1, <1>2
  <2>3. Range(inbox) \subseteq Range(inbox')
    BY <1>2
  <2>4. QED
    BY <2>1, <2>2, <2>3 DEF Kept
<1>3. CASE WorkerInit \/ WorkerCheck \/ WorkerTimeout \/ WorkerReject
  BY <1>2, <1>3 DEF WorkerInit, WorkerCheck, WorkerTimeout, WorkerReject, WorkersHands
<1>4. CASE WorkerReceive
  <2>1. /\ Range(inbox) \subseteq Range(inbox') \cup {Head(inbox)}
        /\ WorkersHands = {} /\ UNCHANGED <<reqQueue, replies>>
    BY <1>4, RangeOfTail DEF WorkerReceive, WorkersHands
  <2>2. \/ lost' = lost \cup {Head(inbox)} /\ WorkersHands' = {}
        \/ lost' = lost /\ WorkersHands' = {Head(inbox)}
    BY <1>4 DEF WorkerReceive, WorkersHands
  <2>3. QED
    BY <1>1, <2>1, <2>2 DEF Kept, Ended
<1>5. CASE WorkerPush
  <2>1. msg \in Requests /\ WorkersHands = {msg}
    BY <1>5 DEF WorkerPush, LockInv, WorkersHands
  <2>2. Range(reqQueue') = Range(reqQueue) \cup {msg} /\ UNCHANGED <<inbox, replies, lost>>
    BY <1>5, <2>1, RangeOfAppend DEF WorkerPush
  <2>3. QED
    BY <1>1, <2>1, <2>2 DEF Kept, Ended
<1>6. CASE WorkerLogThrows \/ WorkerSendError
  <2>1. msg \in Requests /\ WorkersHands = {msg} /\ UNCHANGED <<inbox, reqQueue>>
    BY <1>6 DEF WorkerLogThrows, WorkerSendError, LockInv, WorkersHands
  <2>2. Ended' = Ended \cup {msg}
    BY <1>6, <2>1, SendEnds DEF WorkerLogThrows, WorkerSendError, Ended
  <2>3. QED
    BY <1>1, <2>1, <2>2 DEF Kept
<1>7. CASE XOPEntryIdle \/ HandleNothing \/ HandleQueued \/ HandleLogFailed \/ ApplyLock
           \/ ApplyRefuse \/ ApplyCall \/ FunctionReturns \/ ApplyDone
  BY <1>2, <1>7 DEF XOPEntryIdle, HandleNothing, HandleQueued, HandleLogFailed, ApplyLock,
     ApplyRefuse, ApplyCall, FunctionReturns, ApplyDone, WorkersHands
<1>8. CASE ReplySend \/ ReplyThrows
  <2>1. reqQueue # <<>> /\ reqQueue' = Tail(reqQueue) /\ UNCHANGED <<inbox, wpc, msg>>
    BY <1>8 DEF ReplySend, ReplyThrows, PopFront, LockInv
  <2>2. Range(reqQueue) \subseteq Range(reqQueue') \cup {Head(reqQueue)} /\ Head(reqQueue) \in Requests
    BY <2>1, RangeOfTail
  <2>3. Ended' = Ended \cup {Head(reqQueue)}
    BY <1>8, <2>2, SendEnds DEF ReplySend, ReplyThrows, Ended
  <2>4. QED
    BY <1>1, <2>1, <2>2, <2>3 DEF Kept, WorkersHands
<1>9. CASE \E t \in Threads, c \in Calls : Enter(t, c)
  BY <1>2, <1>9 DEF Enter, WorkersHands
<1>10. CASE StartRefused \/ Start \/ ServerBind
  BY <1>2, <1>10 DEF StartRefused, Start, ServerBind, WorkersHands
<1>11. CASE \E t \in Threads : Stop(t)
  BY <1>2, <1>11 DEF Stop, StopNotRunning, StopRequest, StopJoined, WorkersHands
<1>12. CASE \E t \in Threads : CloseConnections(t)
  <2>1. UNCHANGED <<reqQueue, replies, lost, wpc, msg>> /\ ~bound' /\ inbox' = <<>>
    BY <1>12 DEF CloseConnections
  <2>2. bound \/ inbox' = inbox
    BY <2>1 DEF BoundInv
  <2>3. QED
    BY <1>1, <2>1, <2>2 DEF Kept, Ended, WorkersHands
<1>13. CASE \E p \in Peers : PeerConnect(p) \/ PeerLeave(p)
  BY <1>2, <1>13 DEF PeerConnect, PeerLeave, WorkersHands
<1>14. CASE \E r \in Requests : PeerSend(r)
  <2>1. PICK r \in Requests : PeerSend(r)
    BY <1>14
  <2>2. Range(inbox') = Range(inbox) \cup {r} /\ UNCHANGED <<reqQueue, replies, lost, wpc, msg>>
    BY <2>1, RangeOfAppend DEF PeerSend
  <2>3. QED
    BY <1>1, <2>2 DEF Kept, Ended, WorkersHands
<1>15. CASE UNCHANGED vars
  BY <1>2, <1>15 DEF vars, WorkersHands
<1>16. QED
  BY <1>3, <1>4, <1>5, <1>6, <1>7, <1>8, <1>9, <1>10, <1>11, <1>12, <1>13, <1>14, <1>15
     DEF Next, WorkerThread, HandleAllQueuedMessages

(* A request that has reached the server socket ends with a reply or an     *)
(* EMERGENCY_OUTPUT and is kept until then, whatever Start, Stop and failed *)
(* IDLE events do; only closing the socket takes away those that it has not *)
(* delivered (MessageHandler.cpp:36-129).                                   *)
THEOREM HandlerKeepsRequests == Spec => NoRequestVanishes
<1>1. Init => BoundInv
  BY DEF Init, BoundInv
<1>2. TypeOK /\ LockInv /\ BoundInv /\ [Next]_vars => [Kept]_vars
  BY KeptStep
<1>3. [Kept]_vars => [/\ Ended \subseteq Ended'
                      /\ InHands \subseteq InHands' \cup Ended'
                      /\ \/ Range(inbox) \subseteq Range(inbox') \cup InHands' \cup Ended'
                         \/ bound /\ ~bound']_vars
  BY DEF Kept
<1>4. QED
  BY Invariance, BoundStep, <1>1, <1>2, <1>3, PTL DEF Spec, NoRequestVanishes
=============================================================================
