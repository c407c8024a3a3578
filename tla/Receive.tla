------------------------------- MODULE Receive -------------------------------
(***************************************************************************)
(* Receiving on one socket: ZeroMQServerReceive, ZeroMQClientReceive and    *)
(* ZeroMQSubscriberReceive (HelperFunctions.cpp) take a multipart message   *)
(* apart frame by frame, and the XOP functions zeromq_server_recv,          *)
(* zeromq_client_recv, zeromq_sub_recv and zeromq_sub_recv_multi wait for   *)
(* them.  ZeroMQ delivers the frames of all messages as one stream in which *)
(* every frame but the last of its message has the "more" flag; a receive   *)
(* that gives up in the middle of a message leaves its other frames there.  *)
(* A message that was received is logged before it is returned; settings    *)
(* and log are those of module Settings, changed by another thread.         *)
(***************************************************************************)
EXTENDS Settings

CONSTANTS
  Shapes,      \* Shapes[st]: the messages that arrive on a socket of type st,
               \* as sequences of empty or nonempty frames
  MaxMessages  \* bound on the number of messages sent

\* the receive functions of a socket type
Receivers == [Server     |-> {"zeromq_server_recv"},
              Client     |-> {"zeromq_client_recv"},
              Subscriber |-> {"zeromq_sub_recv", "zeromq_sub_recv_multi"}]

ASSUME ReceiveAssumption ==
  /\ DOMAIN Shapes = DOMAIN Receivers
  /\ \A st \in DOMAIN Shapes : Shapes[st] \subseteq Seq({"empty", "data"}) \ {<<>>}
  /\ MaxMessages \in Nat

VARIABLES
  type,         \* the type of the socket
  stream,       \* frames that have arrived and were not received yet
  shapes,       \* shapes[n]: the shape of the n-th message
  caller,       \* the receive function being executed, or "none"
  wait,         \* its copy of m_busyWaiting
  received,     \* the frames it has received and is about to log
  results       \* what the finished calls returned, in order

receiveVars == <<type, stream, shapes, caller, wait, received, results>>

vars == <<receiveVars, settingsVars>>

Frame(n, i) == [msg |-> n, pos |-> i, more |-> i < Len(shapes'[n]),
                empty |-> shapes'[n][i] = "empty"]

Init ==
  /\ type \in DOMAIN Receivers
  /\ stream = <<>> /\ shapes = <<>>
  /\ caller = "none" /\ wait = FALSE /\ received = <<>>
  /\ results = <<>>
  /\ SettingsInit

\* all frames of a message arrive or none
Arrive(shape) ==
  /\ Len(shapes) < MaxMessages
  /\ shapes' = Append(shapes, shape)
  /\ stream' = stream \o [i \in 1..Len(shape) |-> Frame(Len(shapes'), i)]
  /\ UNCHANGED <<type, caller, wait, received, results, settingsVars>>
-----------------------------------------------------------------------------
(* The receive functions: how many frames they take off the stream, and     *)
(* which frames they hand out; <<>> when they throw INVALID_MESSAGE_FORMAT. *)

Outcome(taken, frames) == [taken |-> taken, frames |-> frames]
Throw(taken) == Outcome(taken, <<>>)

\* mutant: a missing or surplus frame is not noticed
ServerReceiveNoMoreChecks(s) ==
  IF Len(s) < 3 THEN Throw(Len(s))
  ELSE IF ~s[2].empty THEN Throw(2)
  ELSE Outcome(3, <<s[1], s[3]>>)

\* identity, empty, payload
ZeroMQServerReceive(s) ==
  IF ~s[1].more THEN Throw(1)
  ELSE IF ~s[2].empty \/ ~s[2].more THEN Throw(2)
  ELSE IF s[3].more THEN Throw(3)
  ELSE Outcome(3, <<s[1], s[3]>>)

\* mutant: both frames are received before the check
ClientReceiveChecksLate(s) ==
  IF Len(s) < 2 \/ ~s[1].more \/ s[2].more THEN Throw(2)
  ELSE Outcome(2, <<s[2]>>)

\* empty, payload; the first frame is not looked at
ZeroMQClientReceive(s) ==
  IF ~s[1].more THEN Throw(1)
  ELSE IF s[2].more THEN Throw(2)
  ELSE Outcome(2, <<s[2]>>)

\* filter, payload, and more payload only if allowed
ZeroMQSubscriberReceive(s, allowAdditionalFrames) ==
  LET last == SelectInSeq(s, LAMBDA f : ~f.more)
  IN  IF ~s[1].more THEN Throw(1)
      ELSE IF s[2].more /\ ~allowAdditionalFrames THEN Throw(2)
      ELSE Outcome(last, SubSeq(s, 1, last))

Outcomes(c, s) ==
  CASE c = "zeromq_server_recv" -> ZeroMQServerReceive(s)
    [] c = "zeromq_client_recv" -> ZeroMQClientReceive(s)
    [] c = "zeromq_sub_recv" -> ZeroMQSubscriberReceive(s, FALSE)
    [] c = "zeromq_sub_recv_multi" -> ZeroMQSubscriberReceive(s, TRUE)
-----------------------------------------------------------------------------
(* The XOP functions *)

\* mutant: the caller is reset before its result is stored
ReturnAfterReset(frames, code, logged) ==
  /\ caller' = "none" /\ wait' = FALSE /\ received' = <<>>
  /\ results' = Append(results, [by |-> caller', frames |-> frames, code |-> code, logged |-> logged])

Return(frames, code, logged) ==
  /\ results' = Append(results, [by |-> caller, frames |-> frames, code |-> code, logged |-> logged])
  /\ caller' = "none" /\ wait' = FALSE /\ received' = <<>>

Call(c) ==
  /\ caller = "none"
  /\ caller' = c /\ wait' = settings.busyWaiting
  /\ UNCHANGED <<type, stream, shapes, received, results, settingsVars>>

\* receive a message, and look whether it is to be logged
ReceiveMessage ==
  /\ caller # "none" /\ received = <<>> /\ stream # <<>>
  /\ LET o == Outcomes(caller, stream) IN
       /\ stream' = SubSeq(stream, o.taken + 1, Len(stream))
       /\ IF o.frames = <<>> THEN Return(<<>>, "INVALID_MESSAGE_FORMAT", FALSE)
          ELSE IF ~settings.logging THEN Return(o.frames, "0", FALSE)
          ELSE received' = o.frames /\ UNCHANGED <<caller, wait, results>>
  /\ UNCHANGED <<type, shapes, settingsVars>>

\* mutant: a failed log entry is ignored
LogMessageIgnoringFailure ==
  /\ received # <<>>
  /\ \E outcome \in EntryOutcomes :
       /\ AddLogEntry(received[1].msg, type = "Server", outcome)
       /\ Return(received, "0", TRUE)
  /\ UNCHANGED <<type, stream, shapes, settings, todo, period, sink, sets>>

\* log it and return; the exception of a failed entry is returned instead
LogMessage ==
  /\ received # <<>>
  /\ \E outcome \in EntryOutcomes :
       /\ AddLogEntry(received[1].msg, type = "Server", outcome)
       /\ Return(received, LogCode(outcome), TRUE)
  /\ UNCHANGED <<type, stream, shapes, settings, todo, period, sink, sets>>

\* EAGAIN, and no busy waiting: an empty result, which is not recorded
GiveUp ==
  /\ caller # "none" /\ received = <<>> /\ stream = <<>> /\ ~wait
  /\ caller' = "none"
  /\ UNCHANGED <<type, stream, shapes, wait, received, results, settingsVars>>

\* EAGAIN, and the user aborts the wait
Abort ==
  /\ caller # "none" /\ received = <<>> /\ stream = <<>> /\ wait
  /\ caller' = "none" /\ wait' = FALSE
  /\ UNCHANGED <<type, stream, shapes, received, results, settingsVars>>

\* another thread changes the settings
ChangeSettings ==
  /\ \/ \E s \in Setters : \/ \E v \in Flags : zeromq_set(s, v)
                           \/ SetFlag(s) \/ ToggleIPV6Fails(s)
     \/ \E t \in Templates : zeromq_set_logging_template(t)
  /\ UNCHANGED receiveVars

Next ==
  \/ \E s \in Shapes[type] : Arrive(s)
  \/ \E c \in Receivers[type] : Call(c)
  \/ ReceiveMessage \/ LogMessage \/ GiveUp \/ Abort
  \/ ChangeSettings

Spec == Init /\ [][Next]_vars
-----------------------------------------------------------------------------
Frames == [msg : 1..MaxMessages, pos : Nat \ {0}, more : BOOLEAN, empty : BOOLEAN]

TypeOK ==
  /\ type \in DOMAIN Receivers
  /\ stream \in Seq(Frames) /\ received \in Seq(Frames)
  /\ shapes \in Seq(Shapes[type])
  /\ wait \in BOOLEAN
  /\ caller \in Receivers[type] \cup {"none"}
  /\ results \in Seq([by : Receivers[type], frames : Seq(Frames), logged : BOOLEAN,
                      code : {"0", "INVALID_MESSAGE_FORMAT", "INTERNAL_ERROR", "UNHANDLED_CPP_EXCEPTION"}])
  /\ SettingsTypeOK

\* the message of the frames of a result
MsgOf(r) == r.frames[1].msg

(* What one receive call returns comes from one message: a call never pairs *)
(* the filter or identity of a message with the payload of another one,     *)
(* whatever was left on the stream by calls that threw.                     *)
ResultsDoNotMixMessages ==
  \A r \in Range(results) : \A i, j \in DOMAIN r.frames : r.frames[i].msg = r.frames[j].msg

\* the messages all receivers of the socket ask for
WellFormed(shape) ==
  CASE type = "Server" -> Len(shape) = 3 /\ shape[2] = "empty"
    [] OTHER -> Len(shape) = 2

(* Ill-formed messages cost their own frames only: every message of the     *)
(* expected format that has left the stream was returned, or is about to    *)
(* be, or its log entry failed; and no message is returned twice or out of  *)
(* order.                                                                   *)
WellFormedDelivered ==
  LET gone == {n \in DOMAIN shapes : \A i \in DOMAIN stream : stream[i].msg # n}
      all  == Append(results, [frames |-> received])
      got  == {k \in DOMAIN all : all[k].frames # <<>>}
  IN  /\ \A n \in gone : WellFormed(shapes[n]) => \E k \in got : MsgOf(all[k]) = n
      /\ \A j, k \in got : j < k => MsgOf(all[j]) < MsgOf(all[k])

(* While logging is on the log is complete: the messages that were returned *)
(* have a line, no message has two, the lines are in the order in which the *)
(* messages were received, and a line that is torn or without a returned    *)
(* message is one whose write was reported as failed.                       *)
ReturnedIsLogged ==
  LET lines    == {i \in DOMAIN log : log[i].kind = "entry"}
      returned == {MsgOf(r) : r \in {x \in Range(results) : x.logged /\ x.code = "0"}}
      failed   == {MsgOf(r) : r \in {x \in Range(results) : x.frames # <<>> /\ x.code # "0"}}
      complete == {i \in lines : log[i].msg \notin failed}
  IN  /\ {log[i].msg : i \in complete} = returned
      /\ \A i, j \in lines : i < j => log[i].msg < log[j].msg
      /\ \A i \in complete : ~log[i].torn
=============================================================================
