--------------------------- MODULE MessageHandler ---------------------------
(***************************************************************************)
(* The message handler of the ZeroMQ XOP (src/src/MessageHandler.cpp): a    *)
(* background worker receives requests on the server (ROUTER) socket and    *)
(* pushes them into reqQueue; Igor Pro's main thread executes them during   *)
(* IDLE events and replies.  The handler is started and stopped by XOP      *)
(* functions, called by the main thread or (zeromq_stop) by preemptive Igor *)
(* threads, and possibly by the very function a request executes.           *)
(*                                                                          *)
(* One action is one critical section of the code.  The socket registry     *)
(* behind GET_SOCKET is the subject of the module Sockets; here the server  *)
(* socket is its bind, its queue of arrived requests, the peers it can      *)
(* route to, and its mutex.                                                 *)
(***************************************************************************)
EXTENDS Naturals, Sequences, FiniteSets, Functions

CONSTANTS
  Requests,       \* the requests the peers may send, each of them once
  Peers,          \* identities of the DEALER peers
  Sender,         \* Sender[r]: the identity frame of request r
  Verdict,        \* Verdict[r]: how far request r gets, see Verdicts
  Main,           \* Igor Pro's main thread
  IgorThreads,    \* preemptive Igor threads; they may call zeromq_stop
  Worker,         \* the thread that runs WorkerThread()
  NoThread,       \* owner of a free mutex
  NoRequest,      \* the worker holds no request
  TopCalls,       \* what code running outside of a request may call
  FunctionCalls,  \* what a function executed for a request may call
  StartApart,     \* do the callers let no zeromq_handler_start overlap a stop?
  PeersMayLeave,  \* may a peer disconnect on its own?
  LogMayFail      \* is logging enabled, and may a log entry throw?

Threads == {Main} \cup IgorThreads
Actors  == Threads \cup {Worker}

\* malformed: ZeroMQServerReceive throws; reject: the RequestInterface
\* constructor throws; refuse: CanBeProcessed throws; run: it is called;
\* unprintable: it is called, and returns a text that is not UTF-8, which
\* json::dump does not accept
Verdicts == {"malformed", "reject", "refuse", "run", "unprintable"}
Calls    == {"Start", "Stop", "zeromq_stop", "Idle"}

ASSUME RequestAssumption ==
  /\ Sender \in [Requests -> Peers]
  /\ Verdict \in [Requests -> Verdicts]
  /\ NoRequest \notin Requests

ASSUME ThreadAssumption ==
  /\ NoThread \notin Actors
  /\ Worker \notin Threads
  /\ Main \notin IgorThreads

ASSUME CallAssumption ==
  /\ TopCalls \subseteq Calls
  /\ FunctionCalls \subseteq Calls
  /\ StartApart \in BOOLEAN
  /\ PeersMayLeave \in BOOLEAN
  /\ LogMayFail \in BOOLEAN

VARIABLES
  threadShouldFinish, \* the flag of MessageHandler.cpp:17
  threadMutex,        \* owner of the mutex Start and Stop hold
  wpc,                \* where the worker is; "none": m_thread is not joinable
  msg,                \* the request the worker has received
  reqQueue,           \* requests waiting for an IDLE event
  queueMutex,         \* owner of the queue's (non-recursive) mutex
  mpc,                \* where the main thread is in the IDLE handler
  idleInProgress,     \* re-entrancy guard of the IDLE handler
  call,               \* call[t]: the XOP function thread t is in
  bound,              \* HasBindsOrConnections(Server)
  inbox,              \* requests that have arrived on the server socket
  routable,           \* identities the server socket can reach
  sent,               \* requests the peers have sent
  executed,           \* requests whose function was called, in that order
  replies,            \* requests replied to, in the order of the sends
  lost                \* requests that ended in an EMERGENCY_OUTPUT

handlerVars == <<threadShouldFinish, threadMutex, wpc, msg>>
queueVars   == <<reqQueue, queueMutex>>
mainVars    == <<mpc, idleInProgress, executed>>
netVars     == <<bound, inbox, routable, sent>>
replyVars   == <<replies, lost>>
vars == <<handlerVars, queueVars, mainVars, call, netVars, replyVars>>

WorkerPCs == {"none", "init", "check", "recv", "got", "sendError", "exited"}
MainPCs   == {"rest", "handle", "apply", "loop", "func", "reply"}
CallPCs   == {"none", "Start", "Stop", "zeromq_stop", "join", "zjoin", "close"}
Joining(t) == call[t] \in {"join", "zjoin"}

\* The mutex of the server socket: the worker keeps it while it waits in
\* zmq_msg_recv and has released it before it touches the queue; all other
\* users hold it within one action.
ServerMutexFree == wpc # "recv"

Init ==
  /\ threadShouldFinish = FALSE /\ threadMutex = NoThread
  /\ wpc = "none" /\ msg = NoRequest
  /\ reqQueue = <<>> /\ queueMutex = NoThread
  /\ mpc = "rest" /\ idleInProgress = FALSE
  /\ call = [t \in Threads |-> "none"]
  /\ bound = FALSE /\ inbox = <<>> /\ routable = {} /\ sent = {}
  /\ executed = <<>> /\ replies = <<>> /\ lost = {}
-----------------------------------------------------------------------------
(* ZeroMQServerSend: routed to the request's sender, or the zmq_send of the *)
(* identity frame fails (ROUTER_MANDATORY) and ZEROMQ_ASSERT throws, which  *)
(* ends in EMERGENCY_OUTPUT and no reply.                                   *)

ZeroMQServerSend(r) ==
  /\ ServerMutexFree
  /\ IF Sender[r] \in routable
     THEN replies' = Append(replies, r) /\ UNCHANGED lost
     ELSE lost' = lost \cup {r} /\ UNCHANGED replies
-----------------------------------------------------------------------------
(* WorkerThread() *)

\* mutant: the flag of the previous Stop is not reset
WorkerInitKeepsFlag ==
  /\ wpc = "init"
  /\ wpc' = "check"
  /\ UNCHANGED <<threadShouldFinish, threadMutex, msg, queueVars, mainVars, call,
                 netVars, replyVars>>

WorkerInit ==
  /\ wpc = "init"
  /\ threadShouldFinish' = FALSE
  /\ wpc' = "check"
  /\ UNCHANGED <<threadMutex, msg, queueVars, mainVars, call, netVars, replyVars>>

WorkerCheck ==
  /\ wpc = "check"
  /\ wpc' = IF threadShouldFinish THEN "exited" ELSE "recv"
  /\ UNCHANGED <<threadShouldFinish, threadMutex, msg, queueVars, mainVars, call,
                 netVars, replyVars>>

\* mutant: a receive that times out is repeated at once
WorkerTimeoutRetries == wpc = "recv" /\ inbox = <<>> /\ UNCHANGED vars

WorkerTimeout ==
  /\ wpc = "recv" /\ inbox = <<>>
  /\ wpc' = "check"
  /\ UNCHANGED <<threadShouldFinish, threadMutex, msg, queueVars, mainVars, call,
                 netVars, replyVars>>

\* mutant: a worker that is asked to stop discards what it has received
WorkerReceiveStopping ==
  /\ wpc = "recv" /\ inbox # <<>>
  /\ inbox' = Tail(inbox)
  /\ IF Verdict[Head(inbox)] = "malformed"
     THEN /\ lost' = lost \cup {Head(inbox)}
          /\ wpc' = "check" /\ UNCHANGED msg
     ELSE /\ UNCHANGED lost
          /\ IF threadShouldFinish THEN wpc' = "exited" /\ UNCHANGED msg
             ELSE wpc' = "got" /\ msg' = Head(inbox)
  /\ UNCHANGED <<threadShouldFinish, threadMutex, queueVars, mainVars, call,
                 bound, routable, sent, replies>>

WorkerReceive ==
  /\ wpc = "recv" /\ inbox # <<>>
  /\ inbox' = Tail(inbox)
  /\ IF Verdict[Head(inbox)] = "malformed"
     THEN /\ lost' = lost \cup {Head(inbox)}
          /\ wpc' = "check" /\ UNCHANGED msg
     ELSE wpc' = "got" /\ msg' = Head(inbox) /\ UNCHANGED lost
  /\ UNCHANGED <<threadShouldFinish, threadMutex, queueVars, mainVars, call,
                 bound, routable, sent, replies>>

\* mutant: the request is moved from before it is pushed
WorkerPushAfterMove ==
  /\ wpc = "got" /\ Verdict[msg] # "reject"
  /\ queueMutex = NoThread
  /\ wpc' = "check" /\ msg' = NoRequest
  /\ reqQueue' = Append(reqQueue, msg')
  /\ UNCHANGED <<threadShouldFinish, threadMutex, queueMutex, mainVars, call,
                 netVars, replyVars>>

\* the constructor of RequestInterface succeeds
WorkerPush ==
  /\ wpc = "got" /\ Verdict[msg] # "reject"
  /\ queueMutex = NoThread
  /\ reqQueue' = Append(reqQueue, msg)
  /\ wpc' = "check" /\ msg' = NoRequest
  /\ UNCHANGED <<threadShouldFinish, threadMutex, queueMutex, mainVars, call,
                 netVars, replyVars>>

\* the constructor throws: the request is bad, or could not be logged
WorkerReject ==
  /\ wpc = "got" /\ (Verdict[msg] = "reject" \/ LogMayFail)
  /\ wpc' = "sendError"
  /\ UNCHANGED <<threadShouldFinish, threadMutex, msg, queueVars, mainVars, call,
                 netVars, replyVars>>

\* what the log entry throws is no IgorException: no error reply either
WorkerLogThrows ==
  /\ wpc = "got" /\ LogMayFail
  /\ lost' = lost \cup {msg}
  /\ wpc' = "check" /\ msg' = NoRequest
  /\ UNCHANGED <<threadShouldFinish, threadMutex, queueVars, mainVars, call, netVars, replies>>

WorkerSendError ==
  /\ wpc = "sendError"
  /\ ZeroMQServerSend(msg)
  /\ wpc' = "check" /\ msg' = NoRequest
  /\ UNCHANGED <<threadShouldFinish, threadMutex, queueVars, mainVars, call, netVars>>

WorkerThread ==
  \/ WorkerInit \/ WorkerCheck \/ WorkerTimeout \/ WorkerReceive
  \/ WorkerPush \/ WorkerReject \/ WorkerLogThrows \/ WorkerSendError
-----------------------------------------------------------------------------
(* The IDLE message of XOPEntry, HandleAllQueuedMessages and apply_to_all   *)

\* what may thread t call now?
MayCall(t, c) ==
  /\ call[t] = "none"
  /\ \/ t = Main /\ mpc = "rest" /\ c \in TopCalls
     \/ t = Main /\ mpc = "func" /\ c \in FunctionCalls
     \/ t # Main /\ c = "zeromq_stop" /\ c \in TopCalls

\* mutant: no guard against IDLE events during a request
XOPEntryIdleReentrant ==
  /\ MayCall(Main, "Idle")
  /\ idleInProgress' = TRUE
  /\ mpc' = "handle"
  /\ UNCHANGED <<handlerVars, queueVars, executed, call, netVars, replyVars>>

\* an IDLE event that finds idleInProgress set is ignored
XOPEntryIdle ==
  /\ MayCall(Main, "Idle")
  /\ ~idleInProgress
  /\ idleInProgress' = TRUE
  /\ mpc' = "handle"
  /\ UNCHANGED <<handlerVars, queueVars, executed, call, netVars, replyVars>>

\* queue empty: on to OutputQueuedNotices and out
HandleNothing ==
  /\ mpc = "handle" /\ queueMutex = NoThread /\ reqQueue = <<>>
  /\ mpc' = "rest" /\ idleInProgress' = FALSE
  /\ UNCHANGED <<handlerVars, queueVars, executed, call, netVars, replyVars>>

HandleQueued ==
  /\ mpc = "handle" /\ queueMutex = NoThread /\ reqQueue # <<>>
  /\ mpc' = "apply"
  /\ UNCHANGED <<handlerVars, queueVars, idleInProgress, executed, call, netVars,
                 replyVars>>

\* AddLogEntry throws out of the IDLE handler into XOPEntry's catch(...)
HandleLogFailed ==
  /\ mpc = "handle" /\ queueMutex = NoThread /\ reqQueue # <<>> /\ LogMayFail
  /\ mpc' = "rest"
  /\ UNCHANGED <<handlerVars, queueVars, idleInProgress, executed, call, netVars,
                 replyVars>>

ApplyLock ==
  /\ mpc = "apply" /\ queueMutex = NoThread
  /\ queueMutex' = Main
  /\ mpc' = "loop"
  /\ UNCHANGED <<handlerVars, reqQueue, idleInProgress, executed, call, netVars,
                 replyVars>>

\* CanBeProcessed throws: an error reply without a call
ApplyRefuse ==
  /\ mpc = "loop" /\ reqQueue # <<>> /\ Verdict[Head(reqQueue)] = "refuse"
  /\ mpc' = "reply"
  /\ UNCHANGED <<handlerVars, queueVars, idleInProgress, executed, call, netVars,
                 replyVars>>

ApplyCall ==
  /\ mpc = "loop" /\ reqQueue # <<>> /\ Verdict[Head(reqQueue)] # "refuse"
  /\ mpc' = "func"
  /\ executed' = Append(executed, Head(reqQueue))
  /\ UNCHANGED <<handlerVars, queueVars, idleInProgress, call, netVars, replyVars>>

FunctionReturns ==
  /\ mpc = "func" /\ call[Main] = "none"
  /\ mpc' = "reply"
  /\ UNCHANGED <<handlerVars, queueVars, idleInProgress, executed, call, netVars,
                 replyVars>>

\* mutant: apply_to_all does not pop what it has applied
PopFrontForgotten ==
  /\ mpc' = "loop"
  /\ UNCHANGED <<handlerVars, queueVars, idleInProgress, executed, call, netVars>>

PopFront ==
  /\ reqQueue' = Tail(reqQueue)
  /\ mpc' = "loop"
  /\ UNCHANGED <<handlerVars, queueMutex, idleInProgress, executed, call, netVars>>

ReplySend ==
  /\ mpc = "reply" /\ Verdict[Head(reqQueue)] # "unprintable"
  /\ ZeroMQServerSend(Head(reqQueue))
  /\ PopFront

\* CallAndReply's catch: the reply cannot be dumped, or neither it nor the
\* error reply can be logged
ReplyThrows ==
  /\ mpc = "reply" /\ (Verdict[Head(reqQueue)] = "unprintable" \/ LogMayFail)
  /\ lost' = lost \cup {Head(reqQueue)} /\ UNCHANGED replies
  /\ PopFront

\* mutant: the IDLE handler does not reset its guard
ApplyDoneKeepsGuard ==
  /\ mpc = "loop" /\ reqQueue = <<>>
  /\ queueMutex' = NoThread
  /\ mpc' = "rest"
  /\ UNCHANGED <<handlerVars, reqQueue, idleInProgress, executed, call, netVars,
                 replyVars>>

ApplyDone ==
  /\ mpc = "loop" /\ reqQueue = <<>>
  /\ queueMutex' = NoThread
  /\ mpc' = "rest" /\ idleInProgress' = FALSE
  /\ UNCHANGED <<handlerVars, reqQueue, executed, call, netVars, replyVars>>

HandleAllQueuedMessages ==
  \/ HandleNothing \/ HandleQueued \/ HandleLogFailed
  \/ ApplyLock \/ ApplyRefuse \/ ApplyCall
  \/ FunctionReturns \/ ReplySend \/ ReplyThrows \/ ApplyDone
-----------------------------------------------------------------------------
(* zeromq_handler_start, zeromq_handler_stop and zeromq_stop *)

Enter(t, c) ==
  /\ c # "Idle" /\ MayCall(t, c)
  /\ StartApart => \A u \in Threads \ {t} : call[u] # "none" => "Start" \notin {c, call[u]}
  /\ call' = [call EXCEPT ![t] = c]
  /\ UNCHANGED <<handlerVars, queueVars, mainVars, netVars, replyVars>>

StartRefused ==
  /\ call[Main] = "Start" /\ threadMutex = NoThread
  /\ wpc # "none" \/ ~bound
  /\ call' = [call EXCEPT ![Main] = "none"]
  /\ UNCHANGED <<handlerVars, queueVars, mainVars, netVars, replyVars>>

\* mutant: HasBindsOrConnections is not asked
StartUnbound ==
  /\ call[Main] = "Start" /\ threadMutex = NoThread
  /\ wpc = "none"
  /\ wpc' = "init"
  /\ call' = [call EXCEPT ![Main] = "none"]
  /\ UNCHANGED <<threadShouldFinish, threadMutex, msg, queueVars, mainVars, netVars,
                 replyVars>>

Start ==
  /\ call[Main] = "Start" /\ threadMutex = NoThread
  /\ wpc = "none" /\ bound
  /\ wpc' = "init"
  /\ call' = [call EXCEPT ![Main] = "none"]
  /\ UNCHANGED <<threadShouldFinish, threadMutex, msg, queueVars, mainVars, netVars,
                 replyVars>>

\* zeromq_stop goes on to CloseConnections, zeromq_handler_stop returns
AfterStop(t) ==
  call' = [call EXCEPT ![t] = IF @ \in {"zeromq_stop", "zjoin"} THEN "close" ELSE "none"]

StopNotRunning(t) ==
  /\ call[t] \in {"Stop", "zeromq_stop"} /\ threadMutex = NoThread
  /\ wpc = "none"
  /\ AfterStop(t)
  /\ UNCHANGED <<handlerVars, queueVars, mainVars, netVars, replyVars>>

StopRequest(t) ==
  /\ call[t] \in {"Stop", "zeromq_stop"} /\ threadMutex = NoThread
  /\ wpc # "none"
  /\ threadMutex' = t
  /\ threadShouldFinish' = TRUE
  /\ call' = [call EXCEPT ![t] = IF @ = "Stop" THEN "join" ELSE "zjoin"]
  /\ UNCHANGED <<wpc, msg, queueVars, mainVars, netVars, replyVars>>

StopJoined(t) ==
  /\ Joining(t) /\ wpc = "exited"
  /\ threadMutex' = NoThread
  /\ wpc' = "none"
  /\ AfterStop(t)
  /\ UNCHANGED <<threadShouldFinish, msg, queueVars, mainVars, netVars, replyVars>>

CloseConnections(t) ==
  /\ call[t] = "close" /\ ServerMutexFree
  /\ bound' = FALSE /\ inbox' = <<>> /\ routable' = {}
  /\ call' = [call EXCEPT ![t] = "none"]
  /\ UNCHANGED <<handlerVars, queueVars, mainVars, sent, replyVars>>

Stop(t) == StopNotRunning(t) \/ StopRequest(t) \/ StopJoined(t)
-----------------------------------------------------------------------------
(* zeromq_server_bind, and the peers at the other end of the socket *)

\* by any thread, and by the function that runs for a request as well
ServerBind ==
  /\ \E t \in Threads : call[t] = "none" /\ (t = Main => mpc \in {"rest", "func"})
  /\ ~bound /\ ServerMutexFree
  /\ bound' = TRUE
  /\ UNCHANGED <<handlerVars, queueVars, mainVars, call, inbox, routable, sent, replyVars>>

PeerConnect(p) ==
  /\ bound /\ p \notin routable
  /\ routable' = routable \cup {p}
  /\ UNCHANGED <<handlerVars, queueVars, mainVars, call, bound, inbox, sent, replyVars>>

PeerLeave(p) ==
  /\ PeersMayLeave /\ p \in routable
  /\ routable' = routable \ {p}
  /\ UNCHANGED <<handlerVars, queueVars, mainVars, call, bound, inbox, sent, replyVars>>

PeerSend(r) ==
  /\ Sender[r] \in routable /\ r \notin sent
  /\ sent' = sent \cup {r}
  /\ inbox' = Append(inbox, r)
  /\ UNCHANGED <<handlerVars, queueVars, mainVars, call, bound, routable, replyVars>>
-----------------------------------------------------------------------------
Next ==
  \/ WorkerThread
  \/ XOPEntryIdle \/ HandleAllQueuedMessages
  \/ \E t \in Threads, c \in Calls : Enter(t, c)
  \/ StartRefused \/ Start
  \/ \E t \in Threads : Stop(t) \/ CloseConnections(t)
  \/ ServerBind
  \/ \E p \in Peers : PeerConnect(p) \/ PeerLeave(p)
  \/ \E r \in Requests : PeerSend(r)

Spec == Init /\ [][Next]_vars

(***************************************************************************)
(* Fairness: running threads are scheduled; Igor Pro, whenever it is idle   *)
(* again and again, sends an IDLE event in the end, and the called functions*)
(* return; a thread waiting for a mutex that others release again and again *)
(* gets it in the end.  Nothing is assumed about what users call and what   *)
(* peers do.                                                                *)
(***************************************************************************)
Fairness ==
  /\ WF_vars(WorkerInit \/ WorkerCheck \/ WorkerTimeout \/ WorkerReceive \/ WorkerReject)
  /\ SF_vars(WorkerPush) /\ SF_vars(WorkerSendError)
  /\ SF_vars(XOPEntryIdle)
  /\ SF_vars(HandleNothing \/ HandleQueued)
  /\ SF_vars(ApplyLock)
  /\ WF_vars(ApplyRefuse \/ ApplyCall \/ ApplyDone) /\ SF_vars(FunctionReturns)
  /\ SF_vars(ReplySend \/ ReplyThrows)
  /\ WF_vars(StartRefused \/ Start)
  /\ \A t \in Threads : SF_vars(Stop(t)) /\ SF_vars(CloseConnections(t))

FairSpec == Spec /\ Fairness
-----------------------------------------------------------------------------
TypeOK ==
  /\ threadShouldFinish \in BOOLEAN
  /\ threadMutex \in Threads \cup {NoThread}
  /\ wpc \in WorkerPCs
  /\ msg \in Requests \cup {NoRequest}
  /\ reqQueue \in Seq(Requests)
  /\ queueMutex \in {Main, NoThread}
  /\ mpc \in MainPCs
  /\ idleInProgress \in BOOLEAN
  /\ call \in [Threads -> CallPCs]
  /\ bound \in BOOLEAN
  /\ inbox \in Seq(Requests)
  /\ routable \subseteq Peers
  /\ sent \subseteq Requests
  /\ executed \in Seq(Requests)
  /\ replies \in Seq(Requests)
  /\ lost \subseteq Requests

\* Actor a can go on only after a step of actor b: b holds the mutex a needs
\* next, or is the thread a joins.
WaitsFor(a, b) ==
  \/ a = Worker /\ wpc = "got" /\ Verdict[msg] # "reject" /\ b = queueMutex
  \/ a = Main /\ mpc \in {"handle", "apply"} /\ b = queueMutex
  \/ a = Main /\ mpc = "reply" /\ ~ServerMutexFree /\ b = Worker
  \/ /\ a \in Threads
     /\ \/ call[a] \in {"Start", "Stop", "zeromq_stop"} /\ b = threadMutex
        \/ Joining(a) /\ wpc # "exited" /\ b = Worker
        \/ call[a] = "close" /\ ~ServerMutexFree /\ b = Worker

(* No set of threads waits for itself: no cycle through the queue mutex     *)
(* (which apply_to_all keeps while it runs the functions, and which is not  *)
(* recursive), the mutex of Start and Stop (which Stop keeps while it       *)
(* joins), the mutex of the server socket, and join().                      *)
NoDeadlock ==
  \A S \in SUBSET Actors :
    S # {} => \E a \in S : \A b \in S : ~WaitsFor(a, b)

(* A worker leaves its loop only for a Stop that is waiting to join it: a   *)
(* handler that was started keeps receiving until it is stopped, also when  *)
(* the flag is still set from an earlier Stop (MessageHandler.cpp:24-28).   *)
WorkerRunsUntilStopped ==
  wpc = "exited" => \E t \in Threads : threadMutex = t /\ Joining(t)

(* A running handler has a bound socket: Start insists on it, and           *)
(* zeromq_stop stops the handler before it closes the sockets               *)
(* (zeromq_stop.cpp:12-13).  It holds as long as no start overlaps a        *)
(* zeromq_stop of another thread, which nothing in the code prevents: a     *)
(* handler started between the two lines loses its socket.                  *)
RunningHandlerIsBound == wpc # "none" => bound

\* the requests the handler has taken from the socket, and those it is done with
InHands == Range(reqQueue) \cup IF wpc \in {"got", "sendError"} THEN {msg} ELSE {}
Ended == Range(replies) \cup lost

(* No request vanishes: one that has reached the server socket ends with a  *)
(* reply or an EMERGENCY_OUTPUT and is kept until then, also when Stop ends *)
(* the worker that has just received it, when an IDLE event fails, and      *)
(* across a Stop and a Start.  Only closing the socket takes requests away, *)
(* those it has not delivered (MessageHandler.cpp:36-129).                  *)
NoRequestVanishes ==
  [][/\ Ended \subseteq Ended'
     /\ InHands \subseteq InHands' \cup Ended'
     /\ \/ Range(inbox) \subseteq Range(inbox') \cup InHands' \cup Ended'
        \/ bound /\ ~bound']_vars

(* The handler implements the request service: at most once, in order, one  *)
(* at a time, whatever Stop, Start and CloseConnections do in between.      *)
Service ==
  INSTANCE RequestService WITH
    Runs    <- {r \in Requests : Verdict[r] # "refuse"},
    pending <- reqQueue,
    running <- mpc = "func" \/ (mpc = "reply" /\ Verdict[Head(reqQueue)] # "refuse"),
    answers <- replies,
    dropped <- lost
ImplementsService == Service!Spec

(* A Stop whose flag the worker does not overwrite ends the worker, also    *)
(* when a preemptive thread stops it and the worker has to wait for the     *)
(* queue mutex, which the main thread keeps for the functions it runs       *)
(* (MessageHandler.cpp:40-129, ConcurrentQueue.h).                          *)
StopTakesEffect ==
  (\E t \in Threads : Joining(t) /\ threadShouldFinish /\ wpc # "init") ~> (wpc = "none")

(* zeromq_handler_stop returns. *)
StopReturns == (call[Main] = "Stop") ~> (call[Main] = "none")

(* A request that has reached the server socket of a running handler is     *)
(* replied to, if the peers stay, unless somebody asks the handler to stop; *)
(* only a request whose result cannot be dumped is dropped instead, and     *)
(* does not keep the others from their replies (MessageHandler.cpp:103).    *)
RequestsAnswered ==
  \A r \in Requests :
    (r \in Range(inbox) /\ wpc # "none")
      ~> (\/ r \in Range(replies)
          \/ r \in lost /\ Verdict[r] = "unprintable"
          \/ \E t \in Threads : call[t] \notin {"none", "Start"})

(* A queued request is executed (and leaves the queue) by later IDLE events. *)
QueuedRequestsServed ==
  \A r \in Requests : (r \in Range(reqQueue)) ~> (r \notin Range(reqQueue))
=============================================================================
