------------------------------- MODULE Notices -------------------------------
(***************************************************************************)
(* Output to Igor Pro's history from all threads of the XOP                 *)
(* (src/src/ConcurrentXOPNotice.cpp).  Only the main thread may write to    *)
(* the history: other threads queue their notices (m_queue of GlobalData),  *)
(* and the main thread outputs the queued ones during IDLE events and       *)
(* before every notice of its own.                                          *)
(*                                                                          *)
(* Notices are numbered in the order in which their calls begin.  A call    *)
(* with an empty text is none: OutputToHistory drops it without a trace.    *)
(***************************************************************************)
EXTENDS Naturals, Sequences, FiniteSets, Functions

CONSTANTS
  Main,       \* Igor Pro's main thread
  Others,     \* preemptive threads and the threads of the XOP
  MaxNotices  \* bound on the number of notices

Emitters == {Main} \cup Others

ASSUME NoticeAssumption == Main \notin Others /\ MaxNotices \in Nat

VARIABLES
  queue,    \* notices waiting for the main thread
  history,  \* notices in the history
  cur,      \* cur[t]: the notice t is about to output, or 0
  opc,      \* where the main thread is; "output": inside of apply_to_all
  done,     \* notices whose output call has returned
  after     \* after[n]: done when the call of notice n began

noticeVars == <<queue, history, cur, opc, done, after>>

NoticeInit ==
  /\ queue = <<>> /\ history = <<>>
  /\ cur = [t \in Emitters |-> 0] /\ opc = "rest"
  /\ done = {} /\ after = <<>>

\* the mutex of the queue: the main thread keeps it throughout apply_to_all
MutexFree == opc # "output"

Begin(t) ==
  /\ cur[t] = 0 /\ Len(after) < MaxNotices
  /\ after' = Append(after, done)
  /\ cur' = [cur EXCEPT ![t] = Len(after) + 1]

Finish(t) ==
  /\ done' = done \cup {cur[t]}
  /\ cur' = [cur EXCEPT ![t] = 0]
  /\ UNCHANGED after

\* mutant: the queued notices are not output first
BeginMainUnflushed ==
  /\ opc = "rest"
  /\ Begin(Main)
  /\ opc' = "print"
  /\ UNCHANGED <<queue, history, done>>

\* OutputToHistory_TS in the main thread
BeginMain ==
  /\ opc = "rest"
  /\ Begin(Main)
  /\ opc' = "flush"
  /\ UNCHANGED <<queue, history, done>>

\* OutputToHistory_TS in any other thread, up to the lock in push
BeginOther(t) ==
  /\ Begin(t)
  /\ UNCHANGED <<queue, history, opc, done>>

Push(t) ==
  /\ cur[t] # 0 /\ MutexFree
  /\ queue' = Append(queue, cur[t])
  /\ Finish(t)
  /\ UNCHANGED <<history, opc>>

\* mutant: the IDLE event does nothing for the notices
IdleNotFlushing == opc = "rest" /\ UNCHANGED noticeVars

\* OutputQueuedNotices in an IDLE event
Idle ==
  /\ opc = "rest"
  /\ opc' = "flush"
  /\ UNCHANGED <<queue, history, cur, done, after>>

FlushLock ==
  /\ opc = "flush"
  /\ opc' = "output"
  /\ UNCHANGED <<queue, history, cur, done, after>>

FlushOne ==
  /\ opc = "output" /\ queue # <<>>
  /\ history' = Append(history, Head(queue))
  /\ queue' = Tail(queue)
  /\ UNCHANGED <<cur, opc, done, after>>

FlushDone ==
  /\ opc = "output" /\ queue = <<>>
  /\ opc' = IF cur[Main] = 0 THEN "rest" ELSE "print"
  /\ UNCHANGED <<queue, history, cur, done, after>>

\* mutant: the notice is moved from before it is output
OutputToHistoryMoved ==
  /\ opc = "print"
  /\ Finish(Main)
  /\ history' = Append(history, cur'[Main])
  /\ opc' = "rest"
  /\ UNCHANGED queue

\* OutputToHistory of the main thread's own notice
OutputToHistory ==
  /\ opc = "print"
  /\ history' = Append(history, cur[Main])
  /\ Finish(Main)
  /\ opc' = "rest"
  /\ UNCHANGED queue

MainOutput == FlushLock \/ FlushOne \/ FlushDone \/ OutputToHistory
-----------------------------------------------------------------------------
NoticeTypeOK ==
  /\ queue \in Seq(1..MaxNotices) /\ history \in Seq(1..MaxNotices)
  /\ cur \in [Emitters -> 0..MaxNotices]
  /\ opc \in {"rest", "flush", "output", "print"}
  /\ done \subseteq 1..MaxNotices
  /\ after \in Seq(SUBSET (1..MaxNotices))

(* "All threads, also the main thread, must use XOPNotice_ts() so that the  *)
(* messages are ordered" (ConcurrentXOPNotice.h:10-12): every notice whose  *)
(* call has returned is in the history or waits for it, once, and a notice  *)
(* never comes before one whose call had returned when its own began.       *)
NoticesKeptInOrder ==
  LET all == history \o queue IN
  /\ Len(all) = Cardinality(done) /\ Range(all) = done
  /\ \A i, j \in DOMAIN all : i < j => all[j] \notin after[all[i]]
=============================================================================
