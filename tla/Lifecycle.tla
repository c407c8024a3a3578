------------------------------ MODULE Lifecycle ------------------------------
(***************************************************************************)
(* The XOP from INIT to CLEANUP (src/src/ZeroMQ.cpp) with its heartbeat     *)
(* publisher (src/src/HeartbeatPublisher.cpp), a thread that sends on the   *)
(* publisher socket every five seconds and reports failures as notices.     *)
(* The message handler, which CLEANUP stops first, is the subject of        *)
(* MessageHandler: here an IDLE event executes its requests, or fails on    *)
(* them.  The socket registry is that of Sockets: here the publisher socket *)
(* is missing, open or bound.                                               *)
(***************************************************************************)
EXTENDS Notices

CONSTANT Heartbeat  \* the thread that runs HeartbeatPublisher's WorkerThread()

ASSUME HeartbeatAssumption == Heartbeat \in Others

VARIABLES
  phase,               \* what the main thread has come to
  hpc,                 \* where the heartbeat thread is; "none": not joinable
  threadShouldFinish,  \* the flag of HeartbeatPublisher.cpp:16
  publisher,           \* the publisher socket
  idle,                \* which part of an IDLE event the main thread is in
  idleInProgress       \* re-entrancy guard of the IDLE handler

idleVars == <<idle, idleInProgress>>
lifeVars == <<phase, hpc, threadShouldFinish, publisher, idleVars>>
vars == <<lifeVars, noticeVars>>

Init ==
  /\ NoticeInit
  /\ phase = "loading" /\ hpc = "none"
  /\ threadShouldFinish = FALSE /\ publisher = "none"
  /\ idle = "rest" /\ idleInProgress = FALSE
-----------------------------------------------------------------------------
(* XOPMain, and what user code does with the publisher socket *)

\* HeartbeatPublisher::Start
StartHeartbeat == hpc = "none" /\ hpc' = "init"

XOPMain ==
  /\ phase = "loading"
  /\ StartHeartbeat
  /\ phase' = "resident"
  /\ UNCHANGED <<threadShouldFinish, publisher, noticeVars, idleVars>>

\* Igor Pro is too old, or the log file cannot be created
XOPMainFails ==
  /\ phase = "loading"
  /\ phase' = "refused"
  /\ UNCHANGED <<hpc, threadShouldFinish, publisher, noticeVars, idleVars>>

\* called by any thread; CloseConnections of Sockets, in one step
zeromq_pub_bind ==
  /\ phase = "resident" /\ publisher # "bound"
  /\ publisher' = "bound"
  /\ UNCHANGED <<phase, hpc, threadShouldFinish, noticeVars, idleVars>>

zeromq_stop ==
  /\ phase = "resident" /\ publisher # "none"
  /\ publisher' = "none"
  /\ UNCHANGED <<phase, hpc, threadShouldFinish, noticeVars, idleVars>>

-----------------------------------------------------------------------------
(* The IDLE message of XOPEntry *)

\* the main thread may be sent messages
Resting == opc = "rest" /\ idle = "rest"

\* an IDLE event that finds idleInProgress set, as those do that the executed
\* functions cause, is ignored
XOPEntryIdle ==
  /\ phase = "resident" /\ Resting /\ ~idleInProgress
  /\ idle' = "requests" /\ idleInProgress' = TRUE
  /\ UNCHANGED <<phase, hpc, threadShouldFinish, publisher, noticeVars>>

\* HandleAllQueuedMessages returns, OutputQueuedNotices begins
HandleAllQueuedMessages ==
  /\ idle = "requests" /\ Idle
  /\ idle' = "notices"
  /\ UNCHANGED <<phase, hpc, threadShouldFinish, publisher, idleInProgress>>

\* a log entry throws out of the handler into the catch(...) of XOPEntry
HandleLogFailed ==
  /\ idle = "requests" /\ opc = "rest"
  /\ idle' = "rest"
  /\ UNCHANGED <<phase, hpc, threadShouldFinish, publisher, idleInProgress, noticeVars>>

IdleDone ==
  /\ idle = "notices" /\ opc = "rest"
  /\ idle' = "rest" /\ idleInProgress' = FALSE
  /\ UNCHANGED <<phase, hpc, threadShouldFinish, publisher, noticeVars>>

IdleSteps == HandleAllQueuedMessages \/ HandleLogFailed \/ IdleDone
-----------------------------------------------------------------------------
(* The heartbeat's WorkerThread() *)

HeartbeatInit ==
  /\ hpc = "init"
  /\ hpc' = "check" /\ threadShouldFinish' = FALSE
  /\ UNCHANGED <<phase, publisher, noticeVars, idleVars>>

\* mutant: the flag is looked at only while there is a bind
HeartbeatCheckBound ==
  /\ hpc = "check"
  /\ hpc' = IF threadShouldFinish /\ publisher = "bound" THEN "exited" ELSE "poll"
  /\ UNCHANGED <<phase, threadShouldFinish, publisher, noticeVars, idleVars>>

HeartbeatCheck ==
  /\ hpc = "check"
  /\ hpc' = IF threadShouldFinish THEN "exited" ELSE "poll"
  /\ UNCHANGED <<phase, threadShouldFinish, publisher, noticeVars, idleVars>>

\* HasBindsOrConnections(Publisher)
HeartbeatPoll ==
  /\ hpc = "poll"
  /\ hpc' = IF publisher = "bound" THEN "send" ELSE "sleep"
  /\ UNCHANGED <<phase, threadShouldFinish, publisher, noticeVars, idleVars>>

\* ZeroMQPublisherSend fetches the socket, and creates it if it was closed
\* since the poll
Fetched == IF publisher = "none" THEN "open" ELSE publisher

HeartbeatSend ==
  /\ hpc = "send"
  /\ publisher' = Fetched
  /\ hpc' = "sleep"
  /\ UNCHANGED <<phase, threadShouldFinish, noticeVars, idleVars>>

\* a zmq_send fails and ZEROMQ_ASSERT throws; no sleep before the next try
HeartbeatSendThrows ==
  /\ hpc = "send"
  /\ publisher' = Fetched
  /\ BeginOther(Heartbeat)
  /\ hpc' = "report"
  /\ UNCHANGED <<phase, threadShouldFinish, idleVars>>

HeartbeatReport ==
  /\ hpc = "report"
  /\ Push(Heartbeat)
  /\ hpc' = "check"
  /\ UNCHANGED <<phase, threadShouldFinish, publisher, idleVars>>

HeartbeatSleep ==
  /\ hpc = "sleep"
  /\ hpc' = "check"
  /\ UNCHANGED <<phase, threadShouldFinish, publisher, noticeVars, idleVars>>

HeartbeatThread ==
  \/ HeartbeatInit \/ HeartbeatCheck \/ HeartbeatPoll
  \/ HeartbeatSend \/ HeartbeatSendThrows \/ HeartbeatSleep
-----------------------------------------------------------------------------
(* CLEANUP: MessageHandler::Stop, HeartbeatPublisher::Stop, CloseConnections *)

Cleanup ==
  /\ phase = "resident" /\ Resting
  /\ phase' = "cleanup"
  /\ UNCHANGED <<hpc, threadShouldFinish, publisher, noticeVars, idleVars>>

\* mutant: the heartbeat is told to stop and not waited for
StopHeartbeatNoJoin ==
  /\ phase = "cleanup" /\ opc = "rest"
  /\ threadShouldFinish' = TRUE
  /\ phase' = "close"
  /\ UNCHANGED <<hpc, publisher, noticeVars, idleVars>>

StopHeartbeat ==
  /\ phase = "cleanup" /\ opc = "rest"
  /\ threadShouldFinish' = TRUE
  /\ phase' = "join"
  /\ UNCHANGED <<hpc, publisher, noticeVars, idleVars>>

Joined ==
  /\ phase = "join" /\ hpc = "exited"
  /\ phase' = "close" /\ hpc' = "none"
  /\ UNCHANGED <<threadShouldFinish, publisher, noticeVars, idleVars>>

CloseConnections ==
  /\ phase = "close" /\ opc = "rest"
  /\ phase' = "unloaded" /\ publisher' = "none"
  /\ UNCHANGED <<hpc, threadShouldFinish, noticeVars, idleVars>>

CleanupSteps == StopHeartbeat \/ Joined \/ CloseConnections
-----------------------------------------------------------------------------
Loaded == phase \notin {"loading", "refused", "unloaded"}

\* other threads output what they like; the main thread also during CLEANUP
OtherOutput(t) ==
  Loaded /\ t # Heartbeat /\ (BeginOther(t) \/ Push(t)) /\ UNCHANGED lifeVars

MainBegins ==
  Loaded /\ phase # "join" /\ idle # "notices" /\ BeginMain /\ UNCHANGED lifeVars
MainGoesOn == MainOutput /\ UNCHANGED lifeVars

Next ==
  \/ XOPMain \/ XOPMainFails \/ zeromq_pub_bind \/ zeromq_stop
  \/ XOPEntryIdle \/ IdleSteps
  \/ HeartbeatThread \/ HeartbeatReport
  \/ Cleanup \/ CleanupSteps
  \/ \E t \in Others : OtherOutput(t)
  \/ MainBegins \/ MainGoesOn

Spec == Init /\ [][Next]_vars

\* threads are scheduled, a waiting thread gets the queue's mutex in the end,
\* an idle Igor Pro sends IDLE events, and the functions executed for requests
\* return; nobody has to unload the XOP
FairSpec ==
  /\ Spec
  /\ WF_vars(HeartbeatThread) /\ SF_vars(HeartbeatReport)
  /\ WF_vars(MainGoesOn) /\ SF_vars(XOPEntryIdle)
  /\ SF_vars(HandleAllQueuedMessages \/ HandleLogFailed) /\ WF_vars(IdleDone)
  /\ WF_vars(CleanupSteps)
-----------------------------------------------------------------------------
TypeOK ==
  /\ NoticeTypeOK
  /\ phase \in {"loading", "refused", "resident", "cleanup", "join", "close", "unloaded"}
  /\ hpc \in {"none", "init", "check", "poll", "send", "report", "sleep", "exited"}
  /\ threadShouldFinish \in BOOLEAN
  /\ publisher \in {"none", "open", "bound"}
  /\ idle \in {"rest", "requests", "notices"}
  /\ idleInProgress \in BOOLEAN

(* After CLEANUP nothing of the XOP is left: no thread that would run code  *)
(* of an unloaded library, and no socket, not even one the heartbeat has    *)
(* created after a zeromq_stop (ZeroMQ.cpp:39-43).                          *)
NothingAfterCleanup == phase = "unloaded" => hpc = "none" /\ publisher = "none"

(* A CLEANUP whose stop flag the heartbeat has not overwritten comes to an  *)
(* end, also while heartbeats fail without a pause in between.              *)
CleanupEnds == (phase = "join" /\ threadShouldFinish /\ hpc # "init") ~> (phase = "unloaded")

\* an IDLE event has failed, and all later ones are ignored
IdleStuck == idleInProgress /\ idle = "rest"

(* While the XOP stays loaded a queued notice reaches the history with the  *)
(* IDLE events (ConcurrentXOPNotice.h:13), unless one of them fails; any    *)
(* output of the main thread brings it there even then, and during CLEANUP, *)
(* because it outputs the queued notices first (ConcurrentXOPNotice.cpp:38).*)
NoticesAppear ==
  \A n \in 1..MaxNotices :
    /\ (n \in Range(queue)) ~> (n \in Range(history) \/ phase # "resident" \/ IdleStuck)
    /\ (n \in Range(queue) /\ opc = "flush") ~> (n \in Range(history))
=============================================================================
