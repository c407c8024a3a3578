------------------------ MODULE MessageHandlerProofs ------------------------
(* Safety proofs for MessageHandler, for any requests, peers and threads.   *)
EXTENDS MessageHandler, TLAPS

\* which definitions unfold the tuples of UNCHANGED
USE DEF handlerVars, queueVars, mainVars, netVars, replyVars

(* The mutex discipline: who holds a mutex is at the matching place of the  *)
(* code, and the request a thread works on exists.                          *)
LockInv ==
  /\ \A t \in Threads : Joining(t) <=> threadMutex = t
  /\ threadMutex # NoThread => wpc # "none"
  /\ queueMutex = Main <=> mpc \in {"loop", "func", "reply"}
  /\ mpc # "rest" => idleInProgress
  /\ mpc \in {"handle", "apply", "loop", "reply"} => call[Main] = "none"
  /\ mpc \in {"func", "reply"} => reqQueue # <<>>
  /\ wpc \in {"got", "sendError"} => msg \in Requests

(* The stop flag is set for a live worker only while a Stop waits for it.   *)
FlagInv ==
  /\ wpc = "exited" => threadMutex # NoThread
  /\ (threadShouldFinish /\ wpc \notin {"none", "init"}) => threadMutex # NoThread

(* While the main thread is in zeromq_handler_start, no other thread is in  *)
(* an XOP function.                                                         *)
ApartInv == call[Main] = "Start" => \A u \in IgorThreads : call[u] = "none"

(* While a request's function runs, the main thread is in no XOP function,  *)
(* or in zeromq_handler_start, which no other thread can then keep waiting. *)
FuncInv ==
  mpc = "func" =>
    \/ call[Main] = "none"
    \/ /\ "Start" \in FunctionCalls /\ call[Main] = "Start"
       /\ \A u \in IgorThreads : call[u] = "none"

(* The main thread is a thread; no thread is the free mutex or the worker. *)
LEMMA MainIsThread == Main \in Threads /\ NoThread \notin Threads /\ Worker \notin Threads
  BY ThreadAssumption DEF Threads, Actors

(* A send only touches the replies and the lost requests. *)
LEMMA ServerSendType ==
  ASSUME NEW r \in Requests, replies \in Seq(Requests), lost \subseteq Requests,
         ZeroMQServerSend(r)
  PROVE  replies' \in Seq(Requests) /\ lost' \subseteq Requests
<1>1. CASE Sender[r] \in routable
  BY <1>1 DEF ZeroMQServerSend
<1>2. CASE Sender[r] \notin routable
  BY <1>2 DEF ZeroMQServerSend
<1>3. QED
  BY <1>1, <1>2

(* Steps of Next keep the types; the lock invariant supplies the request    *)
(* that WorkerPush, WorkerSendError and the replies work on.                *)
LEMMA TypeStep == TypeOK /\ LockInv /\ [Next]_vars => TypeOK'
<1> SUFFICES ASSUME TypeOK, LockInv, [Next]_vars PROVE TypeOK'
  OBVIOUS
<1> USE MainIsThread, RequestAssumption DEF TypeOK
<1>1. CASE WorkerInit
  BY <1>1 DEF WorkerInit, WorkerPCs
<1>2. CASE WorkerCheck
  BY <1>2 DEF WorkerCheck, WorkerPCs
<1>3. CASE WorkerTimeout
  BY <1>3 DEF WorkerTimeout, WorkerPCs
<1>4. CASE WorkerReceive
  BY <1>4 DEF WorkerReceive, WorkerPCs
<1>5. CASE WorkerPush
  BY <1>5 DEF WorkerPush, WorkerPCs, LockInv
<1>6. CASE WorkerReject \/ WorkerLogThrows
  BY <1>6 DEF WorkerReject, WorkerLogThrows, WorkerPCs, LockInv
<1>7. CASE WorkerSendError
  <2>1. msg \in Requests /\ ZeroMQServerSend(msg)
    BY <1>7 DEF WorkerSendError, LockInv
  <2>2. replies' \in Seq(Requests) /\ lost' \subseteq Requests
    BY <2>1, ServerSendType
  <2>3. QED
    BY <1>7, <2>2 DEF WorkerSendError, WorkerPCs
<1>8. CASE XOPEntryIdle
  BY <1>8 DEF XOPEntryIdle, MainPCs
<1>9. CASE HandleNothing \/ HandleQueued \/ HandleLogFailed
  BY <1>9 DEF HandleNothing, HandleQueued, HandleLogFailed, MainPCs
<1>10. CASE ApplyLock \/ ApplyRefuse \/ ApplyDone
  BY <1>10 DEF ApplyLock, ApplyRefuse, ApplyDone, MainPCs
<1>11. CASE ApplyCall
  BY <1>11 DEF ApplyCall, MainPCs
<1>12. CASE FunctionReturns
  BY <1>12 DEF FunctionReturns, MainPCs
<1>13. CASE ReplySend
  <2>1. reqQueue # <<>> /\ ZeroMQServerSend(Head(reqQueue))
    BY <1>13 DEF ReplySend, LockInv
  <2>2. replies' \in Seq(Requests) /\ lost' \subseteq Requests
    BY <2>1, ServerSendType
  <2>3. reqQueue' \in Seq(Requests)
    BY <1>13, <2>1 DEF ReplySend, PopFront
  <2>4. QED
    BY <1>13, <2>2, <2>3 DEF ReplySend, PopFront, MainPCs
<1>14. CASE ReplyThrows
  BY <1>14 DEF ReplyThrows, PopFront, MainPCs, LockInv
<1>15. ASSUME NEW t \in Threads, NEW c \in Calls, Enter(t, c)
       PROVE  TypeOK'
  BY <1>15 DEF Enter, Calls, CallPCs
<1>16. CASE StartRefused \/ Start
  BY <1>16 DEF StartRefused, Start, CallPCs, WorkerPCs
<1>17. ASSUME NEW t \in Threads, Stop(t)
       PROVE  TypeOK'
  BY <1>17 DEF Stop, StopNotRunning, StopRequest, StopJoined, AfterStop, CallPCs, WorkerPCs
<1>18. ASSUME NEW t \in Threads, CloseConnections(t)
       PROVE  TypeOK'
  <2>0. bound' = FALSE /\ inbox' = <<>> /\ routable' = {}
    BY <1>18 DEF CloseConnections
  <2>1. bound' \in BOOLEAN /\ inbox' \in Seq(Requests) /\ routable' \subseteq Peers
    <3>1. bound' \in BOOLEAN
      BY <2>0
    <3>2. inbox' \in Seq(Requests)
      BY <2>0
    <3>3. routable' \subseteq Peers
      BY <2>0
    <3>4. QED
      BY <3>1, <3>2, <3>3
  <2>2. call' \in [Threads -> CallPCs]
    BY <1>18 DEF CloseConnections, CallPCs
  <2>3. QED
    BY <1>18, <2>1, <2>2 DEF CloseConnections
<1>19. CASE ServerBind
  BY <1>19 DEF ServerBind
<1>20. ASSUME NEW p \in Peers, PeerConnect(p) \/ PeerLeave(p)
       PROVE  TypeOK'
  BY <1>20 DEF PeerConnect, PeerLeave
<1>21. ASSUME NEW r \in Requests, PeerSend(r)
       PROVE  TypeOK'
  BY <1>21 DEF PeerSend
<1>22. CASE UNCHANGED vars
  BY <1>22 DEF vars
<1>23. QED
  BY <1>1, <1>2, <1>3, <1>4, <1>5, <1>6, <1>7, <1>8, <1>9, <1>10, <1>11, <1>12, <1>13,
     <1>14, <1>15, <1>16, <1>17, <1>18, <1>19, <1>20, <1>21, <1>22
     DEF Next, WorkerThread, HandleAllQueuedMessages


(* Steps of Next keep the mutex discipline. *)
LEMMA LockStep == TypeOK /\ LockInv /\ [Next]_vars => LockInv'
<1> SUFFICES ASSUME TypeOK, LockInv, [Next]_vars PROVE LockInv'
  OBVIOUS
<1> USE MainIsThread, RequestAssumption DEF TypeOK, LockInv, Joining
<1>1. CASE WorkerInit \/ WorkerCheck \/ WorkerTimeout \/ WorkerReject \/ WorkerLogThrows
  BY <1>1 DEF WorkerInit, WorkerCheck, WorkerTimeout, WorkerReject, WorkerLogThrows
<1>2. CASE WorkerReceive
  <2>1. Head(inbox) \in Requests
    BY <1>2 DEF WorkerReceive
  <2>2. QED
    BY <1>2, <2>1 DEF WorkerReceive
<1>3. CASE WorkerPush
  <2>1. reqQueue' # <<>>
    BY <1>3 DEF WorkerPush
  <2>2. QED
    BY <1>3, <2>1 DEF WorkerPush
<1>4. CASE WorkerSendError
  BY <1>4 DEF WorkerSendError
<1>5. CASE XOPEntryIdle
  BY <1>5 DEF XOPEntryIdle, MayCall
<1>6. CASE HandleNothing \/ HandleQueued \/ HandleLogFailed
  BY <1>6 DEF HandleNothing, HandleQueued, HandleLogFailed
<1>7. CASE ApplyLock \/ ApplyRefuse \/ ApplyCall \/ ApplyDone
  BY <1>7 DEF ApplyLock, ApplyRefuse, ApplyCall, ApplyDone
<1>8. CASE FunctionReturns
  BY <1>8 DEF FunctionReturns
<1>9. CASE ReplySend \/ ReplyThrows
  BY <1>9 DEF ReplySend, ReplyThrows, PopFront
<1>10. ASSUME NEW t \in Threads, NEW c \in Calls, Enter(t, c)
       PROVE  LockInv'
  BY <1>10 DEF Enter, MayCall, Calls, MainPCs
<1>11. CASE StartRefused \/ Start
  BY <1>11 DEF StartRefused, Start
<1>12. ASSUME NEW t \in Threads, StopNotRunning(t) \/ CloseConnections(t)
       PROVE  LockInv'
  BY <1>12 DEF StopNotRunning, CloseConnections, AfterStop
<1>13. ASSUME NEW t \in Threads, StopRequest(t)
       PROVE  LockInv'
  BY <1>13 DEF StopRequest
<1>14. ASSUME NEW t \in Threads, StopJoined(t)
       PROVE  LockInv'
  BY <1>14 DEF StopJoined, AfterStop
<1>15. CASE ServerBind
  BY <1>15 DEF ServerBind
<1>16. ASSUME NEW p \in Peers, PeerConnect(p) \/ PeerLeave(p)
       PROVE  LockInv'
  BY <1>16 DEF PeerConnect, PeerLeave
<1>17. ASSUME NEW r \in Requests, PeerSend(r)
       PROVE  LockInv'
  BY <1>17 DEF PeerSend
<1>18. CASE UNCHANGED vars
  BY <1>18 DEF vars
<1>19. QED
  BY <1>1, <1>2, <1>3, <1>4, <1>5, <1>6, <1>7, <1>8, <1>9, <1>10, <1>11, <1>12, <1>13,
     <1>14, <1>15, <1>16, <1>17, <1>18
     DEF Next, WorkerThread, HandleAllQueuedMessages, Stop

(* Every state of a behaviour of the handler is well typed and obeys the    *)
(* mutex discipline (Start, Stop, apply_to_all and WorkerThread).           *)
THEOREM Invariance == Spec => [](TypeOK /\ LockInv)
<1>1. Init => TypeOK /\ LockInv
  <2> SUFFICES ASSUME Init PROVE TypeOK /\ LockInv
    OBVIOUS
  <2>1. TypeOK
    <3>1. reqQueue \in Seq(Requests) /\ inbox \in Seq(Requests)
          /\ executed \in Seq(Requests) /\ replies \in Seq(Requests)
      BY DEF Init
    <3>2. threadShouldFinish \in BOOLEAN /\ idleInProgress \in BOOLEAN /\ bound \in BOOLEAN
      BY DEF Init
    <3>3. call \in [Threads -> CallPCs]
      BY DEF Init, CallPCs
    <3>4. QED
      BY <3>1, <3>2, <3>3 DEF Init, TypeOK, WorkerPCs, MainPCs
  <2>2. LockInv
    BY MainIsThread DEF Init, LockInv, Joining
  <2>3. QED
    BY <2>1, <2>2
<1>2. TypeOK /\ LockInv /\ [Next]_vars => TypeOK' /\ LockInv'
  BY TypeStep, LockStep
<1>3. QED
  BY <1>1, <1>2, PTL DEF Spec

(* The type invariant of the handler. *)
THEOREM TypeCorrect == Spec => []TypeOK
  BY Invariance, PTL

(* Steps of Next keep the discipline of the stop flag: only Stop sets it,   *)
(* and a new worker resets it before it looks at it.                        *)
LEMMA FlagStep == TypeOK /\ LockInv /\ FlagInv /\ [Next]_vars => FlagInv'
<1> SUFFICES ASSUME TypeOK, LockInv, FlagInv, [Next]_vars PROVE FlagInv'
  OBVIOUS
<1> USE MainIsThread DEF TypeOK, FlagInv
<1>1. CASE WorkerThread
  BY <1>1 DEF WorkerThread, WorkerInit, WorkerCheck, WorkerTimeout, WorkerReceive,
     WorkerPush, WorkerReject, WorkerLogThrows, WorkerSendError
<1>2. CASE XOPEntryIdle \/ HandleAllQueuedMessages
  BY <1>2 DEF XOPEntryIdle, HandleAllQueuedMessages, HandleNothing, HandleQueued,
     HandleLogFailed, ApplyLock, ApplyRefuse, ApplyCall, FunctionReturns, ReplySend,
     ReplyThrows, ApplyDone, PopFront
<1>3. ASSUME NEW t \in Threads, NEW c \in Calls, Enter(t, c)
      PROVE  FlagInv'
  BY <1>3 DEF Enter
<1>4. CASE StartRefused \/ Start
  BY <1>4 DEF StartRefused, Start
<1>5. ASSUME NEW t \in Threads, Stop(t) \/ CloseConnections(t)
      PROVE  FlagInv'
  BY <1>5 DEF Stop, StopNotRunning, StopRequest, StopJoined, CloseConnections
<1>6. CASE ServerBind
  BY <1>6 DEF ServerBind
<1>7. ASSUME NEW p \in Peers, PeerConnect(p) \/ PeerLeave(p)
      PROVE  FlagInv'
  BY <1>7 DEF PeerConnect, PeerLeave
<1>8. ASSUME NEW r \in Requests, PeerSend(r)
      PROVE  FlagInv'
  BY <1>8 DEF PeerSend
<1>9. CASE UNCHANGED vars
  BY <1>9 DEF vars
<1>10. QED
  BY <1>1, <1>2, <1>3, <1>4, <1>5, <1>6, <1>7, <1>8, <1>9 DEF Next

(* A worker leaves its loop only for a Stop that waits to join it, whatever *)
(* flag earlier Stops left behind (MessageHandler.cpp, WorkerThread).       *)
THEOREM RunsUntilStopped == Spec => []WorkerRunsUntilStopped
<1>1. Init => FlagInv
  BY DEF Init, FlagInv
<1>2. TypeOK /\ LockInv /\ FlagInv /\ [Next]_vars => FlagInv'
  BY FlagStep
<1>3. TypeOK /\ LockInv /\ FlagInv => WorkerRunsUntilStopped
  BY DEF TypeOK, LockInv, FlagInv, WorkerRunsUntilStopped
<1>4. QED
  BY Invariance, <1>1, <1>2, <1>3, PTL DEF Spec

(* What the threads wait for is free of cycles when the main thread stops   *)
(* nothing inside of a request.                                             *)
LEMMA NoCycle == TypeOK /\ LockInv /\ FuncInv => NoDeadlock
<1> SUFFICES ASSUME TypeOK, LockInv, FuncInv,
                    NEW S \in SUBSET Actors, S # {},
                    \A a \in S : \E b \in S : WaitsFor(a, b)
             PROVE  FALSE
  BY DEF NoDeadlock
<1> USE MainIsThread
<1>1. NoThread \notin S
  BY ThreadAssumption
<1>2. Worker \notin S
  <2> SUFFICES ASSUME Worker \in S PROVE FALSE
    OBVIOUS
  <2>1. wpc = "got" /\ Main \in S /\ queueMutex = Main
    BY <1>1 DEF WaitsFor, TypeOK
  <2>2. /\ mpc \in {"loop", "func", "reply"}
        /\ \/ call[Main] = "none"
           \/ call[Main] = "Start" /\ \A u \in IgorThreads : call[u] = "none"
    BY <2>1 DEF LockInv, FuncInv
  <2>3. CASE call[Main] = "none"
    <3>1. \A b \in S : ~WaitsFor(Main, b)
      BY <2>1, <2>2, <2>3 DEF WaitsFor, ServerMutexFree, Joining
    <3>2. QED
      BY <2>1, <3>1
  <2>4. CASE call[Main] = "Start" /\ \A u \in IgorThreads : call[u] = "none"
    <3>1. threadMutex = NoThread
      BY <2>4 DEF LockInv, TypeOK, Joining, Threads
    <3>2. \A b \in S : ~WaitsFor(Main, b)
      BY <1>1, <2>1, <2>2, <2>4, <3>1 DEF WaitsFor, ServerMutexFree, Joining
    <3>3. QED
      BY <2>1, <3>2
  <2>5. QED
    BY <2>2, <2>3, <2>4
<1>3. PICK a \in S : TRUE
  OBVIOUS
<1>4. a \in Threads /\ S \subseteq Threads
  BY <1>2 DEF Actors
<1>5. PICK b \in S : WaitsFor(a, b)
  OBVIOUS
<1>6. b \in Threads /\ b # Worker
  BY <1>2, <1>4
<1>7. CASE a = Main /\ mpc \in {"handle", "apply"} /\ b = queueMutex
  BY <1>7, <1>6 DEF LockInv, TypeOK
<1>8. CASE b = threadMutex
  <2>1. Joining(b)
    BY <1>8, <1>6 DEF LockInv
  <2>2. \A c \in S : ~WaitsFor(b, c)
    BY <2>1, <1>2, <1>4, <1>6 DEF WaitsFor, Joining, LockInv
  <2>3. QED
    BY <2>2
<1>9. QED
  BY <1>2, <1>4, <1>5, <1>6, <1>7, <1>8 DEF WaitsFor

(* The threads of the XOP never deadlock as long as the functions executed  *)
(* for requests do not themselves stop the handler, and start it only while *)
(* no preemptive thread stops it.                                           *)
THEOREM DeadlockFree ==
  ASSUME \/ FunctionCalls \subseteq {"Idle"}
         \/ FunctionCalls \subseteq {"Idle", "Start"} /\ (StartApart \/ IgorThreads = {})
  PROVE  Spec => []NoDeadlock
<1>1. Init => FuncInv
  BY DEF Init, FuncInv
<1>2. TypeOK /\ LockInv /\ FuncInv /\ [Next]_vars => FuncInv'
  <2> SUFFICES ASSUME TypeOK, LockInv, FuncInv, [Next]_vars PROVE FuncInv'
    OBVIOUS
  <2>0. Threads = {Main} \cup IgorThreads /\ Main \in Threads /\ Main \notin IgorThreads
    BY ThreadAssumption DEF Threads
  <2> USE MainIsThread DEF TypeOK, FuncInv
  <2>1. CASE WorkerThread
    BY <2>1 DEF WorkerThread, WorkerInit, WorkerCheck, WorkerTimeout, WorkerReceive,
       WorkerPush, WorkerReject, WorkerLogThrows, WorkerSendError
  <2>2. CASE XOPEntryIdle \/ HandleAllQueuedMessages
    BY <2>2 DEF XOPEntryIdle, HandleAllQueuedMessages, HandleNothing, HandleQueued,
       HandleLogFailed, ApplyLock, ApplyRefuse, ApplyCall, FunctionReturns, ReplySend,
       ReplyThrows, ApplyDone, PopFront, LockInv
  <2>3. ASSUME NEW t \in Threads, NEW c \in Calls, Enter(t, c)
        PROVE  FuncInv'
    <3>1. CASE t = Main
      <4>1. mpc = "func" => c = "Start" /\ \A u \in IgorThreads : call[u] = "none"
        BY <2>3, <3>1, <2>0 DEF Enter, MayCall
      <4>2. QED
        BY <2>3, <3>1, <4>1, <2>0 DEF Enter, MayCall
    <3>2. CASE t # Main
      <4>1. call[Main] = "Start" /\ "Start" \in FunctionCalls => FALSE
        BY <2>3, <3>2, <2>0 DEF Enter
      <4>2. QED
        BY <2>3, <3>2, <4>1, <2>0 DEF Enter
    <3>3. QED
      BY <3>1, <3>2
  <2>4. CASE StartRefused \/ Start
    BY <2>4 DEF StartRefused, Start
  <2>5. ASSUME NEW t \in Threads, Stop(t) \/ CloseConnections(t)
        PROVE  FuncInv'
    <3>1. call[t] \notin {"none", "Start"}
      BY <2>5 DEF Stop, StopNotRunning, StopRequest, StopJoined, CloseConnections, Joining
    <3>2. UNCHANGED mpc /\ \A u \in Threads : u # t => call'[u] = call[u]
      BY <2>5 DEF Stop, StopNotRunning, StopRequest, StopJoined, CloseConnections, AfterStop
    <3>3. mpc # "func" \/ call[Main] = "none"
      <4>1. CASE t = Main
        BY <3>1, <4>1
      <4>2. CASE t # Main
        BY <3>1, <4>2, <2>0
      <4>3. QED
        BY <4>1, <4>2
    <3>4. CASE t # Main
      BY <3>2, <3>3, <3>4
    <3>5. CASE t = Main
      BY <3>1, <3>2, <3>3, <3>5
    <3>6. QED
      BY <3>4, <3>5
  <2>6. CASE ServerBind
    BY <2>6 DEF ServerBind
  <2>7. ASSUME NEW p \in Peers, PeerConnect(p) \/ PeerLeave(p)
        PROVE  FuncInv'
    BY <2>7 DEF PeerConnect, PeerLeave
  <2>8. ASSUME NEW r \in Requests, PeerSend(r)
        PROVE  FuncInv'
    BY <2>8 DEF PeerSend
  <2>9. CASE UNCHANGED vars
    BY <2>9 DEF vars
  <2>10. QED
    BY <2>1, <2>2, <2>3, <2>4, <2>5, <2>6, <2>7, <2>8, <2>9 DEF Next
<1>3. TypeOK /\ LockInv /\ FuncInv => NoDeadlock
  BY NoCycle
<1>4. QED
  BY Invariance, <1>1, <1>2, <1>3, PTL DEF Spec
-----------------------------------------------------------------------------
(* Starts that overlap no stop *)

(* A thread that is about to close the sockets has stopped the worker.      *)
CloseInv == \A t \in Threads : call[t] = "close" => wpc = "none"

(* A running handler has a bound socket, for any requests and threads and   *)
(* whatever requested functions call, as long as no zeromq_handler_start    *)
(* overlaps a zeromq_stop, which has joined the worker before it closes the *)
(* sockets (zeromq_stop.cpp:12-13).                                         *)
THEOREM RunningIsBound ==
  ASSUME StartApart \/ IgorThreads = {}
  PROVE  Spec => []RunningHandlerIsBound
<1> DEFINE BoundInv == CloseInv /\ ApartInv /\ RunningHandlerIsBound
<1>1. Init => BoundInv
  BY DEF Init, CloseInv, ApartInv, RunningHandlerIsBound, Threads
<1>2. TypeOK /\ LockInv /\ BoundInv /\ [Next]_vars => BoundInv'
  <2> SUFFICES ASSUME TypeOK, LockInv, BoundInv, [Next]_vars PROVE BoundInv'
    OBVIOUS
  <2>0. Threads = {Main} \cup IgorThreads /\ Main \in Threads /\ Main \notin IgorThreads
    BY ThreadAssumption DEF Threads
  <2> USE <2>0 DEF TypeOK, CloseInv, ApartInv, RunningHandlerIsBound
  <2>1. CASE WorkerThread
    <3>1. wpc # "none" /\ UNCHANGED <<call, bound>>
      BY <2>1 DEF WorkerThread, WorkerInit, WorkerCheck, WorkerTimeout, WorkerReceive,
         WorkerPush, WorkerReject, WorkerLogThrows, WorkerSendError
    <3>2. QED
      BY <3>1
  <2>2. CASE XOPEntryIdle \/ HandleAllQueuedMessages
    BY <2>2 DEF XOPEntryIdle, HandleAllQueuedMessages, HandleNothing, HandleQueued,
       HandleLogFailed, ApplyLock, ApplyRefuse, ApplyCall, FunctionReturns, ReplySend,
       ReplyThrows, ApplyDone, PopFront
  <2>3. ASSUME NEW t \in Threads, NEW c \in Calls, Enter(t, c)
        PROVE  BoundInv'
    BY <2>3 DEF Enter, Calls
  <2>4. CASE StartRefused \/ Start
    BY <2>4 DEF StartRefused, Start
  <2>5. ASSUME NEW t \in Threads, Stop(t) \/ CloseConnections(t)
        PROVE  BoundInv'
    BY <2>5 DEF Stop, StopNotRunning, StopRequest, StopJoined, CloseConnections,
       AfterStop, Joining
  <2>6. CASE ServerBind
    BY <2>6 DEF ServerBind
  <2>7. ASSUME NEW p \in Peers, PeerConnect(p) \/ PeerLeave(p)
        PROVE  BoundInv'
    BY <2>7 DEF PeerConnect, PeerLeave
  <2>8. ASSUME NEW r \in Requests, PeerSend(r)
        PROVE  BoundInv'
    BY <2>8 DEF PeerSend
  <2>9. CASE UNCHANGED vars
    BY <2>9 DEF vars
  <2>10. QED
    BY <2>1, <2>2, <2>3, <2>4, <2>5, <2>6, <2>7, <2>8, <2>9 DEF Next
<1>3. BoundInv => RunningHandlerIsBound
  OBVIOUS
<1>4. QED
  BY Invariance, <1>1, <1>2, <1>3, PTL DEF Spec
=============================================================================
