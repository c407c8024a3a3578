------------------------------- MODULE Payload -------------------------------
(***************************************************************************)
(* What the send functions put into a message, and what                     *)
(* zeromq_sub_recv_multi does with the frames of one: GatherPubData and     *)
(* ConvertSubData (send_struct.cpp) turn the rows of a wave reference wave  *)
(* into frames and back.  The publisher is connected to the subscriber of   *)
(* the same Igor Pro, which also hears foreign publishers.  Module Receive  *)
(* takes messages off the sockets; module Settings writes the log.          *)
(***************************************************************************)
EXTENDS Waves

CONSTANTS
  Heaps,     \* the waves Igor Pro starts with
  Texts,     \* Igor Pro strings, sequences of bytes
  Foreign,   \* messages of other publishers, sequences of frames
  MaxCalls   \* bound on the number of calls

ASSUME PayloadAssumption ==
  /\ \A h \in Heaps : IsHeap(h) /\ HeldByRows(h)
  /\ Texts \subseteq Seq(Byte) /\ NullWave \notin Texts
  /\ Foreign \subseteq Seq(Seq(Byte)) /\ \A m \in Foreign : Len(m) >= 2
  /\ MaxCalls \in Nat

VARIABLES
  heap,     \* the waves
  inbox,    \* messages the subscriber has not received yet
  queued,   \* frames the publisher was given of a message whose last one failed
  phase,    \* "ready", "converting" or, after undefined behaviour, "undefined"
  target,   \* the container of the last zeromq_sub_recv_multi
  vec,      \* the frames it received
  row,      \* how many of them ConvertSubData has stored
  last,     \* the last call that returned: its arguments, its code and what it
            \* returned or gave to zmq_send
  calls,    \* the number of calls
  before    \* history variable: the waves when zeromq_sub_recv_multi was called

vars == <<heap, inbox, queued, phase, target, vec, row, last, calls, before>>

converting == <<phase, target, vec, row, before>>

Init ==
  /\ heap \in Heaps /\ inbox = <<>> /\ queued = <<>>
  /\ phase = "ready" /\ target = NullWave /\ vec = <<>> /\ row = 0
  /\ last = [fn |-> "none", args |-> <<>>, code |-> "0", out |-> <<>>]
  /\ calls = 0 /\ before = heap

\* the end of a call (END_OUTER_CATCH): an exception becomes the return code
Return(fn, args, code, out) ==
  last' = [fn |-> fn, args |-> args, code |-> code, out |-> out]

\* a call begins
Call == phase = "ready" /\ calls < MaxCalls /\ calls' = calls + 1

GetStringFromHandle(h) == IF h = NullWave THEN <<>> ELSE h
-----------------------------------------------------------------------------
(* Sending *)

\* the frame of a numeric wave (SendStorage(ptr, len))
NumericFrame(wave) == SubSeq(wave.data, 1, WavePoints(wave) * GetWaveElementSize(wave.type))

\* why GatherPubData rejects row i of the container, or "0"
RowError(h, c, i) ==
  LET w == h[c].data[i] IN
    IF w = NullWave THEN "NOWAV"
    ELSE IF \/ h[w].type \in {DATAFOLDER_TYPE, WAVE_TYPE}
            \/ i <= 2 /\ h[w].type # TEXT_WAVE_TYPE
            \/ h[w].type = TEXT_WAVE_TYPE /\ ~CheckWaveDimension(h[w], <<1>>)
         THEN "ERR_INVALID_TYPE"
    ELSE "0"

RowFrame(wave) == IF wave.type = TEXT_WAVE_TYPE THEN GetWaveElement(wave, <<0>>) ELSE NumericFrame(wave)

\* the error of the first row that has one
ContainerError(h, c) ==
  IF c = NullWave THEN "NOWAV"
  ELSE IF \/ h[c].type # WAVE_TYPE
          \/ h[c].dims = <<>> \/ h[c].dims[1] < 2
          \/ Len(h[c].dims) > 1 /\ h[c].dims[2] > 1
       THEN "ERR_INVALID_TYPE"
  ELSE LET rejected == {i \in 1..h[c].dims[1] : RowError(h, c, i) # "0"}
       IN  IF rejected = {} THEN "0" ELSE RowError(h, c, Min(rejected))

GatherPubData(h, c) == [i \in 1..h[c].dims[1] |-> RowFrame(h[h[c].data[i]])]

\* mutant: what zmq_send returns is not looked at
SendFramesUnchecked(fn, args, msg, k, whole) == Return(fn, args, whole, <<SubSeq(msg, 1, k)>>)

\* one zmq_send after the other (ZEROMQ_ASSERT); the one after frame k fails.
\* whole is the code when all frames were sent
SendFrames(fn, args, msg, k, whole) ==
  Return(fn, args, IF k = Len(msg) THEN whole ELSE "INVALID_ARG", <<SubSeq(msg, 1, k)>>)

\* ZeroMQPublisherSend: the subscriber hears the message when it has its last
\* frame; the frames of an incomplete one stay, and the next message continues
\* them.  The log entry comes first; when that fails nothing is sent
Publish(fn, args, msg) ==
  \/ \E k \in 0..Len(msg) :
       /\ SendFrames(fn, args, msg, k, "0")
       /\ inbox'  = IF k = Len(msg) THEN Append(inbox, queued \o msg) ELSE inbox
       /\ queued' = IF k = Len(msg) THEN <<>> ELSE queued \o SubSeq(msg, 1, k)
  \/ Return(fn, args, "INTERNAL_ERROR", <<>>) /\ UNCHANGED <<inbox, queued>>

zeromq_pub_send_multi(c) ==
  LET error == ContainerError(heap, c) IN
  /\ Call
  /\ \/ error # "0" /\ Return("zeromq_pub_send_multi", <<c>>, error, <<>>)
                    /\ UNCHANGED <<inbox, queued>>
     \/ error = "0" /\ Publish("zeromq_pub_send_multi", <<c>>, GatherPubData(heap, c))
  /\ UNCHANGED <<heap, converting>>

zeromq_pub_send(filter, msg) ==
  LET frames == <<GetStringFromHandle(filter), GetStringFromHandle(msg)>> IN
  /\ Call
  /\ Publish("zeromq_pub_send", frames, frames)
  /\ UNCHANGED <<heap, converting>>

\* the payload, which is the last frame, is sent also when it is empty, but
\* reported as an error then; the log entry may fail
SendPayload(fn, args, msg) ==
  \/ \E k \in 0..Len(msg) :
       SendFrames(fn, args, msg, k, IF Last(msg) = <<>> THEN "INVALID_ARG" ELSE "0")
  \/ Return(fn, args, "INTERNAL_ERROR", <<>>)

zeromq_client_send(h) ==
  LET payload == GetStringFromHandle(h) IN
  /\ Call
  /\ SendPayload("zeromq_client_send", <<payload>>, << <<>>, payload>>)
  /\ UNCHANGED <<heap, inbox, queued, converting>>

\* an empty identity is refused
zeromq_server_send(identity, h) ==
  LET id      == GetStringFromHandle(identity)
      payload == GetStringFromHandle(h)
  IN
  /\ Call
  /\ \/ id # <<>> /\ SendPayload("zeromq_server_send", <<id, payload>>, <<id, <<>>, payload>>)
     \/ id = <<>> /\ Return("zeromq_server_send", <<id, payload>>, "INVALID_ARG", <<>>)
  /\ UNCHANGED <<heap, inbox, queued, converting>>
-----------------------------------------------------------------------------
(* Receiving *)

\* another publisher's message
Arrive(msg) ==
  /\ phase = "ready" /\ inbox = <<>>
  /\ inbox' = <<msg>>
  /\ UNCHANGED <<heap, queued, converting, last, calls>>

\* ConvertSubData up to its loop; the message is gone whatever follows
zeromq_sub_recv_multi(c) ==
  /\ Call /\ inbox # <<>>
  /\ inbox' = Tail(inbox) /\ UNCHANGED queued
  /\ target' = c /\ vec' = Head(inbox) /\ row' = 0 /\ before' = heap
  /\ LET error == CASE c = NullWave -> "NOWAV"
                    [] c # NullWave /\ heap[c].type # WAVE_TYPE -> "ERR_INVALID_TYPE"
                    [] c # NullWave /\ heap[c].type = WAVE_TYPE ->
                         IF CanRedimension(heap, c) THEN "0" ELSE "INTERNAL_ERROR"
     IN  IF error = "0"
         THEN /\ heap' = RedimensionWave(heap, c, Len(Head(inbox)))
              /\ phase' = "converting" /\ UNCHANGED last
         ELSE /\ Return("zeromq_sub_recv_multi", <<c>>, error, <<>>)
              /\ UNCHANGED <<heap, phase>>

\* an exception ends the conversion and leaves the rows as they are
ConvertThrows(code) ==
  /\ Return("zeromq_sub_recv_multi", <<target>>, code, <<>>)
  /\ phase' = "ready" /\ UNCHANGED <<heap, row>>

RowStored(h) == heap' = h /\ row' = row + 1 /\ UNCHANGED <<phase, last>>

\* store a text, or copy the frame into the memory of a numeric wave; a copy
\* beyond its end is undefined
StoreFrame(h, w, frame) ==
  IF h[w].type = TEXT_WAVE_TYPE
  THEN RowStored(SetTextElement(h, w, <<0>>, frame))
  ELSE LET size == Len(h[w].data)
           copy == [h EXCEPT ![w].data = [k \in 1..size |-> IF k <= Len(frame) THEN frame[k] ELSE @[k]]]
       IN  IF Len(frame) <= size THEN RowStored(copy)
           ELSE heap' = copy /\ row' = row + 1 /\ phase' = "undefined" /\ UNCHANGED last

\* mutant: the new wave is not held
NewRowWaveNotHeld(i, frame) ==
  IF i <= 2 THEN MakeFreeWave(TEXT_WAVE_TYPE, 1) ELSE MakeFreeWave(Uint8, Len(frame))

\* the free wave for a null row; HoldWave makes the container's reference count
NewRowWave(i, frame) ==
  [IF i <= 2 THEN MakeFreeWave(TEXT_WAVE_TYPE, 1) ELSE MakeFreeWave(Uint8, Len(frame))
   EXCEPT !.refs = 1]

\* Igor Pro may have no memory left for the wave
ConvertNullRow(i, frame) ==
  LET unused == WaveHandles \ DOMAIN heap
      w == CHOOSE u \in unused : TRUE
      made == [u \in DOMAIN heap \cup {w} |-> IF u = w THEN NewRowWave(i, frame) ELSE heap[u]]
  IN  \/ ConvertThrows("GENERAL_BAD_VIBS")
      \/ unused # {} /\ StoreFrame(SetWaveElement(made, target, <<i - 1>>, w), w, frame)

\* mutant: one point per byte
RowPointsInBytes(type, frame) == IF type = TEXT_WAVE_TYPE THEN 1 ELSE Len(frame)

\* the size a row's wave gets for a frame
RowPoints(type, frame) ==
  IF type = TEXT_WAVE_TYPE THEN 1 ELSE Len(frame) \div GetWaveElementSize(type)

\* a wave is resized to the frame; dividing by its element size of 0 is
\* undefined
ConvertWaveRow(i, w, frame) ==
  LET type     == heap[w].type
      isText   == type = TEXT_WAVE_TYPE
      rejected == type \in {DATAFOLDER_TYPE, WAVE_TYPE} \/ (i <= 2 /\ ~isText)
      divides  == isText \/ GetWaveElementSize(type) > 0
  IN  \/ rejected /\ ConvertThrows("ERR_INVALID_TYPE")
      \/ ~rejected /\ ~divides /\ phase' = "undefined" /\ UNCHANGED <<heap, row, last>>
      \/ ~rejected /\ divides /\ ~CanRedimension(heap, w) /\ ConvertThrows("INTERNAL_ERROR")
      \/ ~rejected /\ divides /\ CanRedimension(heap, w)
         /\ StoreFrame(RedimensionWave(heap, w, RowPoints(type, frame)), w, frame)

\* one turn of the loop of ConvertSubData
ConvertRow ==
  /\ phase = "converting" /\ row < Len(vec)
  /\ LET i == row + 1
         w == GetWaveElement(heap[target], <<row>>)
     IN  IF w = NullWave THEN ConvertNullRow(i, vec[i]) ELSE ConvertWaveRow(i, w, vec[i])
  /\ UNCHANGED <<inbox, queued, target, vec, calls, before>>

\* the log entry comes last, and may fail
ConvertDone ==
  /\ phase = "converting" /\ row = Len(vec)
  /\ \E code \in {"0", "INTERNAL_ERROR"} :
       Return("zeromq_sub_recv_multi", <<target>>, code, <<>>)
  /\ phase' = "ready"
  /\ UNCHANGED <<heap, inbox, queued, target, vec, row, calls, before>>

\* the waves a caller can pass
Arguments == DOMAIN heap \cup {NullWave}

Next ==
  \/ \E c \in Arguments : zeromq_pub_send_multi(c) \/ zeromq_sub_recv_multi(c)
  \/ \E t, u \in Texts \cup {NullWave} : zeromq_pub_send(t, u) \/ zeromq_server_send(t, u)
  \/ \E t \in Texts \cup {NullWave} : zeromq_client_send(t)
  \/ \E m \in Foreign : Arrive(m)
  \/ ConvertRow \/ ConvertDone

Spec == Init /\ [][Next]_vars
-----------------------------------------------------------------------------
TypeOK ==
  /\ IsHeap(heap) /\ inbox \in Seq(Seq(Seq(Byte)))
  /\ queued \in Seq(Seq(Byte)) /\ vec \in Seq(Seq(Byte))
  /\ phase \in {"ready", "converting", "undefined"}
  /\ target \in WaveHandles \cup {NullWave}
  /\ row \in 0..Len(vec) /\ calls \in 0..MaxCalls

\* the waves of the rows of the container, in the order of the frames
Rows == IF target = NullWave \/ heap[target].type # WAVE_TYPE THEN <<>> ELSE heap[target].data

\* the wave holds the frame: a text up to its first NUL, a number as it is
HoldsFrame(wave, frame) ==
  IF wave.type # TEXT_WAVE_TYPE THEN wave.data = frame
  ELSE /\ Len(wave.data) = 1
       /\ IsPrefix(wave.data[1], frame) /\ NUL \notin Range(wave.data[1])
       /\ wave.data[1] = frame \/ frame[Len(wave.data[1]) + 1] = NUL

\* row i has no wave in common with the rows in S
Unshared(i, S) == \A j \in S \ {i} : Rows[j] # Rows[i]

(* zeromq_sub_recv_multi converts the rows in order: those before the one   *)
(* it works on, or threw at, hold their frames, the others and all waves    *)
(* that are not in the container are as they were; a call that returns 0    *)
(* has converted all of them.                                               *)
RowsConverted ==
  phase # "undefined" /\ row > 0 =>
    /\ \A i \in 1..row : Unshared(i, 1..row) => HoldsFrame(heap[Rows[i]], vec[i])
    /\ \A w \in DOMAIN before \cap DOMAIN heap :
         w # target /\ (\A i \in 1..row : Rows[i] # w) =>
           [heap[w] EXCEPT !.refs = 0] = [before[w] EXCEPT !.refs = 0]
    /\ phase = "ready" /\ last.fn = "zeromq_sub_recv_multi" /\ last.code = "0" =>
         row = Len(vec) /\ Len(Rows) = Len(vec)

\* what a wave contributes to a message
Content(wave) == IF wave.type = TEXT_WAVE_TYPE THEN wave.data[1] ELSE wave.data

(* "All contained waves will be resized to a single point for text waves    *)
(* and to the appropriate number of rows to store the message for numeric   *)
(* types" (ZeroMQ.ihf): a numeric row that was converted holds its message. *)
NumericRowsStoreMessage ==
  \A i \in 1..row : Unshared(i, 1..row) /\ heap[Rows[i]].type # TEXT_WAVE_TYPE =>
    Content(heap[Rows[i]]) = vec[i]

\* complex integers have no element size
ComplexInteger(type) == "NT_CMPLX" \in type /\ GetWaveElementSize(type) = 0

SendFunctions ==
  {"zeromq_pub_send_multi", "zeromq_pub_send", "zeromq_client_send", "zeromq_server_send"}

\* the message the call of a send function asks for: the rows as they are, or
\* the strings around the empty frame that ends the identities
Message(h, fn, args) ==
  CASE fn = "zeromq_pub_send_multi" ->
         [i \in 1..h[args[1]].dims[1] |-> Content(h[h[args[1]].data[i]])]
    [] fn = "zeromq_pub_send"    -> args
    [] fn = "zeromq_client_send" -> << <<>>, args[1]>>
    [] fn = "zeromq_server_send" -> <<args[1], <<>>, args[2]>>

\* the element size of complex integers is 0, so nothing of them is sent
SendsNothingOf(h, fn, args, i) ==
  fn = "zeromq_pub_send_multi" /\ ComplexInteger(h[h[args[1]].data[i]].type)

(* A send function gives the frames of its message to the library in their  *)
(* order, from the first to the one that fails, if any does; it returns 0   *)
(* exactly if it gave all of them, empty payloads apart, which are sent and *)
(* reported as an error.                                                    *)
ZeroMeansSent ==
  phase = "ready" /\ last.fn \in SendFunctions =>
    /\ last.code = "0" => last.out # <<>>
    /\ last.out # <<>> =>
         LET sent == last.out[1]
             msg  == Message(heap, last.fn, last.args)
         IN  /\ Len(sent) <= Len(msg)
             /\ \A i \in DOMAIN sent :
                  sent[i] = msg[i] \/ SendsNothingOf(heap, last.fn, last.args, i)
             /\ last.code = "0" <=>
                  /\ Len(sent) = Len(msg)
                  /\ last.fn \in {"zeromq_client_send", "zeromq_server_send"} => Last(msg) # <<>>

(* Reference counts: every free wave has as many references as rows that    *)
(* refer to it, and no row refers to a wave that is gone.                   *)
RowsHoldWaves == HeldByRows(heap)
=============================================================================
