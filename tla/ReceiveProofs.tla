---------------------------- MODULE ReceiveProofs ----------------------------
(* Safety proofs for Receive, for any message shapes, flags and templates.  *)
EXTENDS Receive, WellFoundedInduction, TLAPS

(* A nonempty set of natural numbers has a least element.                   *)
LEMMA LeastElement ==
  ASSUME NEW S \in SUBSET Nat, S # {}
  PROVE  Min(S) \in S /\ \A y \in S : Min(S) <= y
<1>1. PICK m \in S : \A y \in S : ~ (<<y, m>> \in OpToRel(<, Nat))
  BY NatLessThanWellFounded, WFMin
<1>2. ASSUME NEW y \in S PROVE m <= y
  <2>1. ~ (<<y, m>> \in OpToRel(<, Nat))
    BY <1>1
  <2>2. ~ (y < m)
    BY <2>1, Zenon DEF OpToRel
  <2>3. QED
    BY <2>2
<1>3. QED
  BY <1>2 DEF Min
-----------------------------------------------------------------------------
(* Streams of whole messages, of which the first may lack a beginning *)

\* frames that are linked by "more" belong to one message
Chained(s) ==
  \A i, j \in 1..Len(s) :
    i <= j /\ (\A k \in i..j - 1 : s[k].more) => s[j].msg = s[i].msg

\* the last frame has no "more"
Ended(s) == s # <<>> => ~s[Len(s)].more

OneMessage(frames) == \A i, j \in 1..Len(frames) : frames[i].msg = frames[j].msg

StreamOK(s) == s \in Seq(Frames) /\ Chained(s) /\ Ended(s)

(* Taking frames off the front keeps a stream whole.                        *)
LEMMA RestIsStream ==
  ASSUME NEW s, StreamOK(s), NEW n \in 0..Len(s)
  PROVE  StreamOK(SubSeq(s, n + 1, Len(s)))
<1> DEFINE t == SubSeq(s, n + 1, Len(s))
<1>1. /\ t \in Seq(Frames) /\ Len(t) = Len(s) - n
      /\ \A i \in 1..Len(t) : t[i] = s[n + i]
  BY DEF StreamOK
<1> HIDE DEF t
<1>2. Chained(t)
  <2> SUFFICES ASSUME NEW i \in 1..Len(t), NEW j \in 1..Len(t), i <= j,
                      \A k \in i..j - 1 : t[k].more
               PROVE  t[j].msg = t[i].msg
    BY DEF Chained
  <2>1. n + i \in 1..Len(s) /\ n + j \in 1..Len(s) /\ n + i <= n + j
    BY <1>1 DEF StreamOK
  <2>2. ASSUME NEW k \in n + i..n + j - 1 PROVE s[k].more
    <3>1. k - n \in i..j - 1 /\ k - n \in 1..Len(t) /\ n + (k - n) = k
      BY <1>1
    <3>2. QED
      BY <3>1, <1>1
  <2>3. s[n + j].msg = s[n + i].msg
    BY <2>1, <2>2 DEF StreamOK, Chained
  <2>4. QED
    BY <2>3, <1>1
<1>3. Ended(t)
  BY <1>1 DEF StreamOK, Ended
<1>4. QED
  BY <1>1, <1>2, <1>3 DEF StreamOK, t

(* A message that arrives leaves the stream whole.                          *)
LEMMA ArrivalIsStream ==
  ASSUME NEW s, StreamOK(s), NEW m \in Seq(Frames), m # <<>>,
         OneMessage(m), Ended(m)
  PROVE  StreamOK(s \o m)
<1> DEFINE t == s \o m
<1>1. /\ t \in Seq(Frames) /\ Len(t) = Len(s) + Len(m)
      /\ \A i \in 1..Len(s) : t[i] = s[i]
      /\ \A i \in 1..Len(m) : t[Len(s) + i] = m[i]
  BY DEF StreamOK
<1> HIDE DEF t
<1>2. Chained(t)
  <2> SUFFICES ASSUME NEW i \in 1..Len(t), NEW j \in 1..Len(t), i <= j,
                      \A k \in i..j - 1 : t[k].more
               PROVE  t[j].msg = t[i].msg
    BY DEF Chained
  <2>1. CASE j <= Len(s)
    <3>1. i \in 1..Len(s) /\ j \in 1..Len(s)
      BY <2>1, <1>1
    <3>2. \A k \in i..j - 1 : k \in 1..Len(s) /\ s[k].more
      BY <3>1, <1>1
    <3>3. s[j].msg = s[i].msg
      BY <3>1, <3>2 DEF StreamOK, Chained
    <3>4. QED
      BY <3>1, <3>3, <1>1
  <2>2. CASE i > Len(s)
    <3>1. i - Len(s) \in 1..Len(m) /\ j - Len(s) \in 1..Len(m)
      BY <2>2, <1>1
    <3>2. i = Len(s) + (i - Len(s)) /\ j = Len(s) + (j - Len(s))
      BY <1>1 DEF StreamOK
    <3>3. t[i] = m[i - Len(s)] /\ t[j] = m[j - Len(s)]
      BY <3>1, <3>2, <1>1
    <3>4. QED
      BY <3>1, <3>3 DEF OneMessage
  <2>3. CASE i <= Len(s) /\ j > Len(s)
    <3> Len(s) \in Nat
      BY DEF StreamOK
    <3>1. Len(s) \in i..j - 1 /\ Len(s) \in 1..Len(s) /\ s # <<>>
      BY <2>3, <1>1
    <3>2. ~t[Len(s)].more
      BY <3>1, <1>1 DEF StreamOK, Ended
    <3>3. QED
      BY <3>1, <3>2
  <2>4. QED
    BY <2>1, <2>2, <2>3, <1>1 DEF StreamOK
<1>3. Ended(t)
  <2>1. Len(m) \in 1..Len(m) /\ Len(t) = Len(s) + Len(m)
    BY <1>1
  <2>2. t[Len(t)] = m[Len(m)]
    BY <2>1, <1>1
  <2>3. QED
    BY <2>2 DEF Ended
<1>4. QED
  BY <1>1, <1>2, <1>3 DEF StreamOK, t
-----------------------------------------------------------------------------
(* What the receive functions make of a whole stream *)

\* frames were taken, and those returned belong to one message
OutcomeOK(o, s) ==
  o.taken \in 1..Len(s) /\ o.frames \in Seq(Frames) /\ OneMessage(o.frames)

(* The frame after one with "more" is there and of the same message.        *)
LEMMA NextFrame ==
  ASSUME NEW s, StreamOK(s), NEW i \in 1..Len(s), s[i].more
  PROVE  i + 1 \in 1..Len(s) /\ s[i + 1].msg = s[i].msg
<1>1. i # Len(s)
  BY DEF StreamOK, Ended
<1>2. i + 1 \in 1..Len(s) /\ \A k \in i..(i + 1) - 1 : s[k].more
  BY <1>1 DEF StreamOK
<1>3. QED
  BY <1>2 DEF StreamOK, Chained

(* Throwing returns nothing.                                                *)
LEMMA ThrowOK ==
  ASSUME NEW s, NEW n \in 1..Len(s)
  PROVE  OutcomeOK(Throw(n), s)
BY DEF OutcomeOK, Throw, Outcome, OneMessage

(* HelperFunctions.cpp:403-433.                                             *)
LEMMA ServerOutcome ==
  ASSUME NEW s, StreamOK(s), s # <<>>
  PROVE  OutcomeOK(ZeroMQServerReceive(s), s)
<1>1. 1 \in 1..Len(s)
  BY DEF StreamOK
<1>2. CASE ~s[1].more
  BY <1>1, <1>2, ThrowOK DEF ZeroMQServerReceive
<1>3. CASE s[1].more
  <2>1. 2 \in 1..Len(s) /\ s[2].msg = s[1].msg
    BY <1>1, <1>3, NextFrame
  <2>2. CASE ~s[2].empty \/ ~s[2].more
    BY <1>3, <2>1, <2>2, ThrowOK DEF ZeroMQServerReceive
  <2>3. CASE s[2].empty /\ s[2].more
    <3>1. 3 \in 1..Len(s) /\ s[3].msg = s[1].msg
      BY <2>1, <2>3, NextFrame
    <3>2. CASE s[3].more
      BY <1>3, <2>3, <3>1, <3>2, ThrowOK DEF ZeroMQServerReceive
    <3>3. CASE ~s[3].more
      <4>1. ZeroMQServerReceive(s) = Outcome(3, <<s[1], s[3]>>)
        BY <1>3, <2>3, <3>3 DEF ZeroMQServerReceive
      <4>2. s[1] \in Frames /\ s[3] \in Frames
        BY <1>1, <3>1 DEF StreamOK
      <4>3. <<s[1], s[3]>> \in Seq(Frames) /\ OneMessage(<<s[1], s[3]>>)
        BY <3>1, <4>2 DEF OneMessage
      <4>4. QED
        BY <3>1, <4>1, <4>3 DEF OutcomeOK, Outcome
    <3>4. QED
      BY <3>2, <3>3
  <2>4. QED
    BY <2>2, <2>3
<1>4. QED
  BY <1>2, <1>3

(* HelperFunctions.cpp:438-463.                                             *)
LEMMA ClientOutcome ==
  ASSUME NEW s, StreamOK(s), s # <<>>
  PROVE  OutcomeOK(ZeroMQClientReceive(s), s)
<1>1. 1 \in 1..Len(s)
  BY DEF StreamOK
<1>2. CASE ~s[1].more
  BY <1>1, <1>2, ThrowOK DEF ZeroMQClientReceive
<1>3. CASE s[1].more
  <2>1. 2 \in 1..Len(s)
    BY <1>1, <1>3, NextFrame
  <2>2. CASE s[2].more
    BY <1>3, <2>1, <2>2, ThrowOK DEF ZeroMQClientReceive
  <2>3. CASE ~s[2].more
    <3>1. ZeroMQClientReceive(s) = Outcome(2, <<s[2]>>)
      BY <1>3, <2>3 DEF ZeroMQClientReceive
    <3>2. <<s[2]>> \in Seq(Frames) /\ OneMessage(<<s[2]>>)
      BY <2>1 DEF StreamOK, OneMessage
    <3>3. QED
      BY <2>1, <3>1, <3>2 DEF OutcomeOK, Outcome
  <2>4. QED
    BY <2>2, <2>3
<1>4. QED
  BY <1>2, <1>3

(* The first frame without "more".                                          *)
LEMMA FirstWithoutMore ==
  ASSUME NEW s, StreamOK(s), s # <<>>
  PROVE  LET last == SelectInSeq(s, LAMBDA f : ~f.more) IN
           last \in 1..Len(s) /\ ~s[last].more /\ \A k \in 1..last - 1 : s[k].more
<1> DEFINE I == {i \in 1..Len(s) : ~s[i].more}
           last == Min(I)
<1>1. Len(s) \in 1..Len(s)
  BY DEF StreamOK
<1>2. I \in SUBSET Nat /\ Len(s) \in I
  BY <1>1 DEF StreamOK, Ended
<1>3. last \in I /\ \A y \in I : last <= y
  BY <1>2, LeastElement
<1>4. SelectInSeq(s, LAMBDA f : ~f.more) = last
  BY <1>2, Zenon DEF SelectInSeq
<1> HIDE DEF last
<1>5. ASSUME NEW k \in 1..last - 1 PROVE s[k].more
  <2>1. k \in 1..Len(s) /\ ~(last <= k)
    BY <1>3 DEF StreamOK
  <2>2. QED
    BY <1>3, <2>1
<1>6. QED
  BY <1>3, <1>4, <1>5

(* HelperFunctions.cpp:471-521: the frames up to the first without "more".  *)
LEMMA SubscriberOutcome ==
  ASSUME NEW s, StreamOK(s), s # <<>>, NEW b \in BOOLEAN
  PROVE  OutcomeOK(ZeroMQSubscriberReceive(s, b), s)
<1> DEFINE last == SelectInSeq(s, LAMBDA f : ~f.more)
<1>1. 1 \in 1..Len(s)
  BY DEF StreamOK
<1>3. last \in 1..Len(s) /\ \A k \in 1..last - 1 : s[k].more
  BY FirstWithoutMore
<1> HIDE DEF last
<1>5. CASE ~s[1].more
  BY <1>1, <1>5, ThrowOK DEF ZeroMQSubscriberReceive
<1>6. CASE s[1].more
  <2>1. 2 \in 1..Len(s)
    BY <1>1, <1>6, NextFrame
  <2>2. CASE s[2].more /\ ~b
    BY <1>6, <2>1, <2>2, ThrowOK DEF ZeroMQSubscriberReceive
  <2>3. CASE ~(s[2].more /\ ~b)
    <3> DEFINE t == SubSeq(s, 1, last)
    <3>1. ZeroMQSubscriberReceive(s, b) = Outcome(last, t)
      BY <1>6, <2>3 DEF ZeroMQSubscriberReceive, last
    <3>2. t \in Seq(Frames) /\ Len(t) = last /\ \A i \in 1..last : t[i] = s[i]
      BY <1>3 DEF StreamOK
    <3> HIDE DEF t
    <3>3. ASSUME NEW i \in 1..last PROVE s[i].msg = s[1].msg
      <4>1. 1 <= i /\ i \in 1..Len(s) /\ \A k \in 1..i - 1 : s[k].more
        BY <1>3
      <4>2. QED
        BY <1>1, <4>1 DEF StreamOK, Chained
    <3>4. OneMessage(t)
      BY <3>2, <3>3 DEF OneMessage
    <3>5. QED
      BY <1>3, <3>1, <3>2, <3>4 DEF OutcomeOK, Outcome
  <2>4. QED
    BY <2>2, <2>3
<1>7. QED
  BY <1>5, <1>6
-----------------------------------------------------------------------------
(* The settings and the log *)

SettingNames == {"debugging", "busyWaiting", "logging", "ipv6"}
AssignmentRecords == [flag : SettingNames, to : BOOLEAN]

(* zeromq_set plans assignments to settings only.                           *)
LEMMA PlannedAssignments ==
  ASSUME NEW v
  PROVE  ApplyFlags(v).todo \in Seq(AssignmentRecords)
<1>1. ASSUME NEW val PROVE Assignments(val) \in Seq(AssignmentRecords)
  <2>1. \A f \in SettingNames, b \in BOOLEAN : Assign(f, b) \in AssignmentRecords
    BY DEF Assign, AssignmentRecords
  <2>2. \A p, q, r, s \in AssignmentRecords : /\ <<p, q, r, s>> \in Seq(AssignmentRecords)
                                             /\ <<p>> \in Seq(AssignmentRecords)
    OBVIOUS
  <2> DEFINE defaults == <<Assign("debugging", FALSE), Assign("busyWaiting", TRUE),
                           Assign("logging", FALSE), Assign("ipv6", FALSE)>>
             part(bit, seq) == IF IsSet(val, bit) THEN seq ELSE <<>>
             P1 == part(DEFAULT, defaults)
             P2 == part(DEBUG, <<Assign("debugging", TRUE)>>)
             P3 == part(IPV6, <<Assign("ipv6", TRUE)>>)
             P4 == part(NO_RECV_BUSY_WAITING, <<Assign("busyWaiting", FALSE)>>)
             P5 == part(LOGGING, <<Assign("logging", TRUE)>>)
  <2>3. /\ defaults \in Seq(AssignmentRecords)
        /\ <<Assign("debugging", TRUE)>> \in Seq(AssignmentRecords)
        /\ <<Assign("ipv6", TRUE)>> \in Seq(AssignmentRecords)
        /\ <<Assign("busyWaiting", FALSE)>> \in Seq(AssignmentRecords)
        /\ <<Assign("logging", TRUE)>> \in Seq(AssignmentRecords)
    <3>1. /\ Assign("debugging", FALSE) \in AssignmentRecords /\ Assign("debugging", TRUE) \in AssignmentRecords
          /\ Assign("busyWaiting", TRUE) \in AssignmentRecords /\ Assign("busyWaiting", FALSE) \in AssignmentRecords
          /\ Assign("logging", FALSE) \in AssignmentRecords /\ Assign("logging", TRUE) \in AssignmentRecords
          /\ Assign("ipv6", FALSE) \in AssignmentRecords /\ Assign("ipv6", TRUE) \in AssignmentRecords
      BY <2>1 DEF SettingNames
    <3>2. QED
      BY <3>1, <2>2, Zenon
  <2>4. Assignments(val) = P1 \o P2 \o P3 \o P4 \o P5
    BY Zenon DEF Assignments
  <2>5. <<>> \in Seq(AssignmentRecords)
    OBVIOUS
  <2>6. \A seq \in Seq(AssignmentRecords) : \A bit : part(bit, seq) \in Seq(AssignmentRecords)
    BY <2>5
  <2>7. /\ P1 \in Seq(AssignmentRecords) /\ P2 \in Seq(AssignmentRecords)
        /\ P3 \in Seq(AssignmentRecords) /\ P4 \in Seq(AssignmentRecords)
        /\ P5 \in Seq(AssignmentRecords)
    BY <2>3, <2>6, Zenon
  <2> HIDE DEF P1, P2, P3, P4, P5
  <2>8. QED
    BY <2>4, <2>7
<1>2. <<>> \in Seq(AssignmentRecords)
  OBVIOUS
<1>3. QED
  BY <1>1, <1>2 DEF ApplyFlags, Plan

(* No step that changes settings changes their types.                       *)
LEMMA SettingsKeepTypes ==
  ASSUME SettingsTypeOK, ChangeSettings
  PROVE  SettingsTypeOK'
<1>1. DOMAIN settings = SettingNames /\ todo \in [Setters -> Seq(AssignmentRecords)]
  BY DEF SettingsTypeOK, SettingNames, AssignmentRecords
<1>2. SUFFICES /\ settings' \in [SettingNames -> BOOLEAN]
               /\ todo' \in [Setters -> Seq(AssignmentRecords)]
               /\ sink' \in Templates \cup {DEFAULT_TEMPLATE}
               /\ sets' \in 0..MaxSets
  BY DEF SettingsTypeOK, SettingNames, AssignmentRecords
<1>3. ASSUME NEW s \in Setters, NEW v \in Flags, zeromq_set(s, v)
      PROVE  /\ settings' \in [SettingNames -> BOOLEAN]
             /\ todo' \in [Setters -> Seq(AssignmentRecords)]
             /\ sink' \in Templates \cup {DEFAULT_TEMPLATE}
             /\ sets' \in 0..MaxSets
  <2>1. todo' \in [Setters -> Seq(AssignmentRecords)]
    BY <1>1, <1>3, PlannedAssignments DEF zeromq_set
  <2>2. QED
    BY <1>3, <2>1, SettingsAssumption DEF zeromq_set, SettingsTypeOK, SettingNames
<1>4. ASSUME NEW s \in Setters, SetFlag(s)
      PROVE  /\ settings' \in [SettingNames -> BOOLEAN]
             /\ todo' \in [Setters -> Seq(AssignmentRecords)]
             /\ sink' = sink /\ sets' = sets
  <2>1. /\ todo[s] \in Seq(AssignmentRecords) /\ todo[s] # <<>>
        /\ todo' = [todo EXCEPT ![s] = Tail(todo[s])]
        /\ settings' = [settings EXCEPT ![Head(todo[s]).flag] = Head(todo[s]).to]
    BY <1>1, <1>4 DEF SetFlag
  <2>2. Head(todo[s]) \in AssignmentRecords /\ Tail(todo[s]) \in Seq(AssignmentRecords)
    BY <2>1
  <2>3. Head(todo[s]).flag \in SettingNames /\ Head(todo[s]).to \in BOOLEAN
    BY <2>2 DEF AssignmentRecords
  <2>4. settings \in [SettingNames -> BOOLEAN]
    BY DEF SettingsTypeOK, SettingNames
  <2>5. settings' \in [SettingNames -> BOOLEAN]
    BY <2>1, <2>3, <2>4, Zenon
  <2>6. todo' \in [Setters -> Seq(AssignmentRecords)]
    BY <1>1, <2>1, <2>2
  <2>7. QED
    BY <1>4, <2>5, <2>6 DEF SetFlag
<1>5. ASSUME NEW s \in Setters, ToggleIPV6Fails(s)
      PROVE  /\ settings' \in [SettingNames -> BOOLEAN]
             /\ todo' \in [Setters -> Seq(AssignmentRecords)]
             /\ sink' = sink /\ sets' = sets
  <2>1. todo' \in [Setters -> Seq(AssignmentRecords)]
    BY <1>1, <1>5 DEF ToggleIPV6Fails
  <2>2. QED
    BY <1>5, <2>1 DEF ToggleIPV6Fails, SettingsTypeOK, SettingNames
<1>6. ASSUME NEW t \in Templates, zeromq_set_logging_template(t)
      PROVE  /\ settings' \in [SettingNames -> BOOLEAN]
             /\ todo' \in [Setters -> Seq(AssignmentRecords)]
             /\ sink' \in Templates \cup {DEFAULT_TEMPLATE}
             /\ sets' \in 0..MaxSets
  BY <1>1, <1>6, SettingsAssumption DEF zeromq_set_logging_template, SettingsTypeOK, SettingNames
<1>7. sink \in Templates \cup {DEFAULT_TEMPLATE} /\ sets \in 0..MaxSets
  BY DEF SettingsTypeOK
<1>8. QED
  BY <1>3, <1>4, <1>5, <1>6, <1>7 DEF ChangeSettings
-----------------------------------------------------------------------------
(* Types, and one message per result *)

ResultTypes ==
  [by : Receivers[type], frames : Seq(Frames), logged : BOOLEAN,
   code : {"0", "INVALID_MESSAGE_FORMAT", "INTERNAL_ERROR", "UNHANDLED_CPP_EXCEPTION"}]

RecvInv ==
  /\ TypeOK
  /\ StreamOK(stream)
  /\ OneMessage(received)
  /\ received # <<>> => caller # "none"
  /\ \A n \in 1..Len(results) : OneMessage(results[n].frames)

(* What Return stores keeps the invariant of the results.                   *)
LEMMA ReturnStep ==
  ASSUME RecvInv, NEW frames \in Seq(Frames), OneMessage(frames), NEW logged \in BOOLEAN,
         NEW code \in {"0", "INVALID_MESSAGE_FORMAT", "INTERNAL_ERROR", "UNHANDLED_CPP_EXCEPTION"},
         caller # "none", type' = type, Return(frames, code, logged)
  PROVE  /\ results' \in Seq(ResultTypes')
         /\ \A n \in 1..Len(results') : OneMessage(results'[n].frames)
         /\ caller' = "none" /\ wait' \in BOOLEAN /\ received' = <<>>
<1> DEFINE r == [by |-> caller, frames |-> frames, code |-> code, logged |-> logged]
<1>1. r \in ResultTypes /\ results \in Seq(ResultTypes) /\ ResultTypes' = ResultTypes
  BY DEF RecvInv, TypeOK, ResultTypes
<1>2. results' = Append(results, r) /\ r.frames = frames
  BY DEF Return
<1> HIDE DEF r
<1>3. /\ results' \in Seq(ResultTypes) /\ Len(results') = Len(results) + 1
      /\ \A n \in 1..Len(results) : results'[n] = results[n]
      /\ results'[Len(results) + 1] = r
  BY <1>1, <1>2
<1>4. ASSUME NEW n \in 1..Len(results') PROVE OneMessage(results'[n].frames)
  <2>1. n \in 1..Len(results) \/ n = Len(results) + 1
    BY <1>1, <1>3
  <2>2. QED
    BY <1>2, <1>3, <2>1 DEF RecvInv
<1>5. QED
  BY <1>1, <1>3, <1>4 DEF Return

(* A message that arrives.                                                  *)
LEMMA ArriveStep ==
  ASSUME RecvInv, NEW shape \in Shapes[type], Arrive(shape)
  PROVE  RecvInv'
<1> DEFINE m == [i \in 1..Len(shape) |-> Frame(Len(shapes'), i)]
<1>1. type \in DOMAIN Shapes /\ shape \in Seq({"empty", "data"}) /\ shape # <<>>
  BY ReceiveAssumption DEF RecvInv, TypeOK
<1>2. /\ shapes \in Seq(Shapes[type]) /\ shapes' = Append(shapes, shape)
      /\ Len(shapes) < MaxMessages /\ stream' = stream \o m
  BY DEF RecvInv, TypeOK, Arrive
<1>3. /\ shapes' \in Seq(Shapes[type]) /\ Len(shapes') = Len(shapes) + 1
      /\ Len(shapes') \in 1..MaxMessages /\ shapes'[Len(shapes')] = shape
  BY <1>2, ReceiveAssumption
<1>4. ASSUME NEW i \in 1..Len(shape)
      PROVE  /\ Frame(Len(shapes'), i) \in Frames
             /\ Frame(Len(shapes'), i).msg = Len(shapes')
             /\ i = Len(shape) => ~Frame(Len(shapes'), i).more
  <2>1. Len(shape) \in Nat /\ shapes'[Len(shapes')] = shape
    BY <1>1, <1>3
  <2>2. Frame(Len(shapes'), i).more <=> i < Len(shape)
    BY <2>1, Zenon DEF Frame
  <2>3. i = Len(shape) => ~Frame(Len(shapes'), i).more
    BY <2>1, <2>2
  <2>4. QED
    BY <1>1, <1>3, <2>3 DEF Frame, Frames
<1>5. m \in Seq(Frames) /\ Len(m) = Len(shape) /\ m # <<>>
  BY <1>1, <1>4
<1>6. OneMessage(m) /\ Ended(m)
  <2>1. \A i \in 1..Len(m) : m[i].msg = Len(shapes') /\ (i = Len(m) => ~m[i].more)
    <3> SUFFICES ASSUME NEW i \in 1..Len(m)
                 PROVE  m[i].msg = Len(shapes') /\ (i = Len(m) => ~m[i].more)
      OBVIOUS
    <3>1. i \in 1..Len(shape) /\ m[i] = Frame(Len(shapes'), i)
      BY <1>5
    <3>2. i = Len(m) => ~Frame(Len(shapes'), i).more
      BY <1>4, <1>5
    <3> HIDE DEF m
    <3>3. QED
      BY <1>4, <3>1, <3>2
  <2>2. Len(m) \in 1..Len(m)
    BY <1>5
  <2> HIDE DEF m
  <2>3. QED
    BY <2>1, <2>2 DEF OneMessage, Ended
<1>7. StreamOK(stream')
  BY <1>2, <1>5, <1>6, ArrivalIsStream DEF RecvInv
<1>8. UNCHANGED <<type, caller, wait, received, results, settingsVars>>
  BY DEF Arrive
<1>9. TypeOK'
  BY <1>3, <1>7, <1>8 DEF RecvInv, TypeOK, StreamOK, SettingsTypeOK, settingsVars
<1>10. QED
  BY <1>7, <1>8, <1>9 DEF RecvInv

(* A message that is received.                                              *)
LEMMA ReceiveStep ==
  ASSUME RecvInv, ReceiveMessage
  PROVE  RecvInv'
<1> DEFINE o == Outcomes(caller, stream)
<1>1. caller # "none" /\ stream # <<>> /\ UNCHANGED <<type, shapes, settingsVars>>
  BY DEF ReceiveMessage
<1>2. OutcomeOK(o, stream)
  <2>1. caller \in {"zeromq_server_recv", "zeromq_client_recv", "zeromq_sub_recv", "zeromq_sub_recv_multi"}
    BY <1>1 DEF RecvInv, TypeOK, Receivers
  <2>2. QED
    BY <1>1, <2>1, ServerOutcome, ClientOutcome, SubscriberOutcome DEF RecvInv, Outcomes
<1>3. stream' = SubSeq(stream, o.taken + 1, Len(stream))
  BY DEF ReceiveMessage
<1>4. \/ o.frames = <<>> /\ Return(<<>>, "INVALID_MESSAGE_FORMAT", FALSE)
      \/ Return(o.frames, "0", FALSE)
      \/ received' = o.frames /\ UNCHANGED <<caller, wait, results>>
  BY DEF ReceiveMessage
<1> HIDE DEF o
<1>5. StreamOK(stream')
  BY <1>2, <1>3, RestIsStream DEF OutcomeOK, RecvInv
<1>6. <<>> \in Seq(Frames) /\ OneMessage(<<>>)
  BY DEF OneMessage
<1>7. \/ /\ results' \in Seq(ResultTypes')
         /\ \A n \in 1..Len(results') : OneMessage(results'[n].frames)
         /\ caller' = "none" /\ wait' \in BOOLEAN /\ received' = <<>>
      \/ received' = o.frames /\ UNCHANGED <<caller, wait, results>>
  BY <1>1, <1>2, <1>4, <1>6, ReturnStep DEF OutcomeOK
<1>8. received' \in Seq(Frames) /\ OneMessage(received') /\ (received' # <<>> => caller' # "none")
  BY <1>1, <1>2, <1>6, <1>7 DEF OutcomeOK
<1>9. results' \in Seq(ResultTypes') /\ \A n \in 1..Len(results') : OneMessage(results'[n].frames)
  BY <1>1, <1>7 DEF RecvInv, TypeOK, ResultTypes
<1>10. caller' \in Receivers[type'] \cup {"none"} /\ wait' \in BOOLEAN
  BY <1>1, <1>7 DEF RecvInv, TypeOK
<1>11. SettingsTypeOK'
  BY <1>1 DEF RecvInv, TypeOK, SettingsTypeOK, settingsVars
<1>12. TypeOK'
  BY <1>1, <1>5, <1>8, <1>9, <1>10, <1>11 DEF RecvInv, TypeOK, StreamOK, ResultTypes
<1>13. QED
  BY <1>5, <1>8, <1>9, <1>12 DEF RecvInv

(* A message that is logged and returned.                                   *)
LEMMA LogStep ==
  ASSUME RecvInv, LogMessage
  PROVE  RecvInv'
<1>1. PICK outcome \in EntryOutcomes : Return(received, LogCode(outcome), TRUE)
  BY DEF LogMessage
<1>2. received # <<>> /\ UNCHANGED <<type, stream, shapes, settings, todo, period, sink, sets>>
  BY DEF LogMessage
<1>3. LogCode(outcome) \in {"0", "INVALID_MESSAGE_FORMAT", "INTERNAL_ERROR", "UNHANDLED_CPP_EXCEPTION"}
  BY DEF LogCode
<1>4. received \in Seq(Frames) /\ OneMessage(received) /\ caller # "none"
  BY <1>2 DEF RecvInv, TypeOK
<1>5. /\ results' \in Seq(ResultTypes')
      /\ \A n \in 1..Len(results') : OneMessage(results'[n].frames)
      /\ caller' = "none" /\ wait' \in BOOLEAN /\ received' = <<>>
  BY <1>1, <1>2, <1>3, <1>4, ReturnStep
<1>6. TypeOK'
  BY <1>2, <1>5 DEF RecvInv, TypeOK, SettingsTypeOK, ResultTypes
<1>7. QED
  BY <1>2, <1>5, <1>6 DEF RecvInv, OneMessage

(* Calls, and waits that end without a message.                             *)
LEMMA CallStep ==
  ASSUME RecvInv, (\E c \in Receivers[type] : Call(c)) \/ GiveUp \/ Abort
  PROVE  RecvInv'
<1>1. /\ UNCHANGED <<type, shapes, stream, received, results, settingsVars>>
      /\ caller' \in Receivers[type] \cup {"none"}
      /\ wait' \in {wait, settings.busyWaiting, FALSE}
      /\ received = <<>> \/ caller = "none"
  BY DEF Call, GiveUp, Abort
<1>2. settings.busyWaiting \in BOOLEAN
  BY DEF RecvInv, TypeOK, SettingsTypeOK
<1>3. received = <<>> /\ wait' \in BOOLEAN
  BY <1>1, <1>2 DEF RecvInv, TypeOK
<1>4. SettingsTypeOK'
  BY <1>1 DEF RecvInv, TypeOK, SettingsTypeOK, settingsVars
<1>5. TypeOK'
  BY <1>1, <1>3, <1>4 DEF RecvInv, TypeOK
<1>6. QED
  BY <1>1, <1>3, <1>5 DEF RecvInv

(* Other threads' changes of the settings.                                  *)
LEMMA SettingsStep ==
  ASSUME RecvInv, ChangeSettings
  PROVE  RecvInv'
<1>1. UNCHANGED receiveVars
  BY DEF ChangeSettings
<1>2. SettingsTypeOK'
  BY SettingsKeepTypes DEF RecvInv, TypeOK
<1>3. TypeOK'
  BY <1>1, <1>2 DEF RecvInv, TypeOK, receiveVars
<1>4. QED
  BY <1>1, <1>3 DEF RecvInv, receiveVars

(* The invariant holds at the start, is kept by every step, and implies the *)
(* two properties.                                                          *)
LEMMA RecvInvHolds == Spec => []RecvInv
<1>1. Init => RecvInv
  <2> SUFFICES ASSUME Init PROVE RecvInv
    OBVIOUS
  <2>1. settings \in [SettingNames -> BOOLEAN]
    BY DEF Init, SettingsInit, Defaults, SettingNames
  <2>2. SettingsTypeOK
    BY <2>1, SettingsAssumption DEF Init, SettingsInit, SettingsTypeOK, SettingNames
  <2>3. caller = "none" /\ wait \in BOOLEAN /\ type \in DOMAIN Receivers
    BY DEF Init
  <2>4. stream = <<>> /\ shapes = <<>> /\ received = <<>> /\ results = <<>>
    BY DEF Init
  <2>5. TypeOK
    BY <2>2, <2>3, <2>4 DEF TypeOK
  <2>6. QED
    BY <2>4, <2>5 DEF Init, RecvInv, StreamOK, Chained, Ended, OneMessage, TypeOK
<1>2. RecvInv /\ [Next]_vars => RecvInv'
  <2> SUFFICES ASSUME RecvInv, [Next]_vars PROVE RecvInv'
    OBVIOUS
  <2>1. CASE UNCHANGED vars
    BY <2>1 DEF RecvInv, TypeOK, SettingsTypeOK, vars, receiveVars, settingsVars
  <2>2. QED
    BY <2>1, ArriveStep, ReceiveStep, LogStep, CallStep, SettingsStep DEF Next
<1>3. QED
  BY <1>1, <1>2, PTL DEF Spec

(* The variables of the receive functions, the settings and the template    *)
(* keep their types.                                                        *)
THEOREM ReceiveTypeCorrect == Spec => []TypeOK
<1>1. RecvInv => TypeOK
  BY DEF RecvInv
<1>2. QED
  BY <1>1, RecvInvHolds, PTL

(* No receive call pairs frames of different messages, for any shapes and   *)
(* any number of messages that were rejected before                         *)
(* (HelperFunctions.cpp:403-521).                                           *)
THEOREM MessagesNeverMixed == Spec => []ResultsDoNotMixMessages
<1>1. RecvInv => ResultsDoNotMixMessages
  <2> SUFFICES ASSUME RecvInv, NEW r \in Range(results) PROVE OneMessage(r.frames) /\ DOMAIN r.frames = 1..Len(r.frames)
    BY DEF ResultsDoNotMixMessages, OneMessage
  <2>1. PICK n \in 1..Len(results) : r = results[n]
    BY DEF Range, RecvInv, TypeOK
  <2>2. QED
    BY <2>1 DEF RecvInv, TypeOK
<1>2. QED
  BY <1>1, RecvInvHolds, PTL
-----------------------------------------------------------------------------
(* The log *)

Sinks == Templates \cup {DEFAULT_TEMPLATE}
AllKeys == RESERVED_KEYS \cup {IDENTITY_KEY} \cup UNION {t.keys : t \in Sinks}
Lines == [kind : {"marker", "entry"}, template : Sinks, keys : SUBSET AllKeys,
          msg : Nat, torn : BOOLEAN]

\* the marker of template t is the last of an accepted template before line i
InForce(lines, t, i) ==
  \E j \in 1..i - 1 :
    /\ lines[j] = Marker(t)
    /\ \A k \in j + 1..i - 1 : lines[k].kind = "entry" => lines[k].template = t

EntryKeys(l) == l.keys \ (RESERVED_KEYS \cup {IDENTITY_KEY}) = l.template.keys \ {IDENTITY_KEY}

\* what EntriesFollowTemplate says of line i
Follows(lines, i) ==
  lines[i].kind = "entry" => EntryKeys(lines[i]) /\ InForce(lines, lines[i].template, i)

LogOK(lines, t) ==
  /\ lines \in Seq(Lines) /\ t \in Sinks /\ t.keys \cap RESERVED_KEYS = {}
  /\ InForce(lines, t, Len(lines) + 1)
  /\ \A i \in 1..Len(lines) : Follows(lines, i)

LogInv == LogOK(log, sink)

(* A line that is appended leaves what the lines before it say.             *)
LEMMA LineAppended ==
  ASSUME NEW lines \in Seq(Lines), NEW l \in Lines
  PROVE  LET new == Append(lines, l) IN
         /\ new \in Seq(Lines) /\ Len(new) = Len(lines) + 1 /\ new[Len(lines) + 1] = l
         /\ \A i \in 1..Len(lines) : new[i] = lines[i]
         /\ \A t : \A i \in 1..Len(lines) + 1 : InForce(new, t, i) <=> InForce(lines, t, i)
         /\ \A i \in 1..Len(lines) : Follows(new, i) <=> Follows(lines, i)
<1> DEFINE new == Append(lines, l)
<1>1. /\ new \in Seq(Lines) /\ Len(new) = Len(lines) + 1 /\ new[Len(lines) + 1] = l
      /\ \A i \in 1..Len(lines) : new[i] = lines[i]
  OBVIOUS
<1> HIDE DEF new
<1>2. ASSUME NEW t, NEW i \in 1..Len(lines) + 1
      PROVE  InForce(new, t, i) <=> InForce(lines, t, i)
  <2>1. \A j \in 1..i - 1 : j \in 1..Len(lines)
    OBVIOUS
  <2>2. \A j \in 1..i - 1 : new[j] = lines[j]
    BY <1>1, <2>1
  <2>3. \A j \in 1..i - 1 : \A k \in j + 1..i - 1 : k \in 1..i - 1
    OBVIOUS
  <2>4. ASSUME InForce(lines, t, i) PROVE InForce(new, t, i)
    <3>1. PICK j \in 1..i - 1 :
            /\ lines[j] = Marker(t)
            /\ \A k \in j + 1..i - 1 : lines[k].kind = "entry" => lines[k].template = t
      BY <2>4 DEF InForce
    <3>2. \A k \in j + 1..i - 1 : new[k] = lines[k]
      BY <2>2, <2>3
    <3>3. QED
      BY <2>2, <3>1, <3>2, Zenon DEF InForce
  <2>5. ASSUME InForce(new, t, i) PROVE InForce(lines, t, i)
    <3>1. PICK j \in 1..i - 1 :
            /\ new[j] = Marker(t)
            /\ \A k \in j + 1..i - 1 : new[k].kind = "entry" => new[k].template = t
      BY <2>5 DEF InForce
    <3>2. \A k \in j + 1..i - 1 : new[k] = lines[k]
      BY <2>2, <2>3
    <3>3. QED
      BY <2>2, <3>1, <3>2, Zenon DEF InForce
  <2>6. QED
    BY <2>4, <2>5
<1>3. ASSUME NEW i \in 1..Len(lines) PROVE Follows(new, i) <=> Follows(lines, i)
  <2>1. i \in 1..Len(lines) + 1
    OBVIOUS
  <2>2. QED
    BY <1>1, <1>2, <2>1, Zenon DEF Follows
<1>4. QED
  BY <1>1, <1>2, <1>3, Zenon DEF new

(* The line of a template that is not in force.                             *)
LEMMA MarkerWritten ==
  ASSUME NEW lines, NEW t, LogOK(lines, t), NEW l \in Lines, l.kind = "marker"
  PROVE  LogOK(Append(lines, l), t)
<1> DEFINE new == Append(lines, l)
<1>1. /\ new \in Seq(Lines) /\ Len(new) = Len(lines) + 1 /\ new[Len(lines) + 1] = l
      /\ \A i \in 1..Len(lines) : new[i] = lines[i] /\ Follows(new, i)
  BY LineAppended DEF LogOK
<1> HIDE DEF new
<1>2. PICK j \in 1..Len(lines) :
        /\ lines[j] = Marker(t)
        /\ \A k \in j + 1..Len(lines) : lines[k].kind = "entry" => lines[k].template = t
  BY DEF LogOK, InForce
<1>3. ASSUME NEW k \in j + 1..Len(lines) + 1, new[k].kind = "entry" PROVE new[k].template = t
  <2>1. k \in j + 1..Len(lines) /\ k \in 1..Len(lines)
    BY <1>1, <1>3
  <2>2. QED
    BY <1>1, <1>2, <1>3, <2>1
<1>4. InForce(new, t, Len(new) + 1)
  <2>1. j \in 1..(Len(lines) + 2) - 1 /\ new[j] = Marker(t)
    BY <1>1, <1>2
  <2>2. QED
    BY <1>1, <1>3, <2>1 DEF InForce
<1>5. Follows(new, Len(lines) + 1)
  BY <1>1 DEF Follows
<1>6. \A i \in 1..Len(new) : Follows(new, i)
  BY <1>1, <1>5 DEF LogOK
<1>7. QED
  BY <1>1, <1>4, <1>6 DEF LogOK, new

(* The line of a template that takes force.                                 *)
LEMMA TemplateSet ==
  ASSUME NEW lines, NEW t, LogOK(lines, t), NEW u \in Sinks, u.keys \cap RESERVED_KEYS = {}
  PROVE  LogOK(Append(lines, Marker(u)), u)
<1> DEFINE new == Append(lines, Marker(u))
<1>1. Marker(u) \in Lines /\ Marker(u).kind = "marker"
  BY DEF Marker, Lines
<1>2. LogOK(new, t)
  BY <1>1, MarkerWritten
<1>3. Len(new) = Len(lines) + 1 /\ new[Len(lines) + 1] = Marker(u) /\ Len(lines) \in Nat
  BY <1>1, LineAppended DEF LogOK
<1> HIDE DEF new
<1>4. InForce(new, u, Len(new) + 1)
  BY <1>3 DEF InForce
<1>5. QED
  BY <1>2, <1>4 DEF LogOK, new

(* The line of a message.                                                   *)
LEMMA EntryWritten ==
  ASSUME NEW lines, NEW t, LogOK(lines, t), NEW l \in Lines, l.template = t, EntryKeys(l),
         l.kind = "entry"
  PROVE  LogOK(Append(lines, l), t)
<1> DEFINE new == Append(lines, l)
<1>1. /\ new \in Seq(Lines) /\ Len(new) = Len(lines) + 1 /\ new[Len(lines) + 1] = l
      /\ \A i \in 1..Len(lines) : new[i] = lines[i] /\ Follows(new, i)
      /\ \A i \in 1..Len(lines) + 1 : InForce(new, t, i) <=> InForce(lines, t, i)
      /\ Len(lines) \in Nat
  BY LineAppended DEF LogOK
<1> HIDE DEF new
<1>2. InForce(new, t, Len(lines) + 1)
  BY <1>1 DEF LogOK
<1>3. Follows(new, Len(lines) + 1)
  BY <1>1, <1>2 DEF Follows
<1>4. InForce(new, t, Len(new) + 1)
  <2>1. PICK j \in 1..Len(lines) :
          /\ new[j] = Marker(t)
          /\ \A k \in j + 1..Len(lines) : new[k].kind = "entry" => new[k].template = t
    BY <1>1, <1>2 DEF InForce
  <2>2. \A k \in j + 1..Len(lines) + 1 : new[k].kind = "entry" => new[k].template = t
    BY <1>1, <2>1
  <2>3. QED
    BY <1>1, <2>1, <2>2 DEF InForce
<1>5. \A i \in 1..Len(new) : Follows(new, i)
  BY <1>1, <1>3
<1>6. QED
  BY <1>1, <1>4, <1>5 DEF LogOK, new

(* zeromq_set_logging_template keeps the log in order (Logging.cpp:91-101).  *)
LEMMA TemplateStep ==
  ASSUME LogOK(log, sink), NEW t \in Templates, zeromq_set_logging_template(t)
  PROVE  LogOK(log', sink')
<1>1. CASE UNCHANGED <<sink, log>>
  BY <1>1
<1>2. ASSUME ParseLoggingTemplate(t), NEW outcome \in WriteOutcomes,
             log' = WriteIntoLogfile(log, Marker(t), outcome),
             sink' = IF outcome = "ok" THEN t ELSE sink
      PROVE  LogOK(log', sink')
  <2>1. t \in Sinks /\ t.keys \cap RESERVED_KEYS = {}
    BY <1>2 DEF Sinks, ParseLoggingTemplate
  <2>2. Marker(t) \in Lines /\ Marker(t).kind = "marker"
    BY <2>1 DEF Marker, Lines
  <2>3. /\ [Marker(t) EXCEPT !.torn = TRUE] \in Lines
        /\ [Marker(t) EXCEPT !.torn = TRUE].kind = "marker"
    BY <2>1 DEF Marker, Lines
  <2>4. CASE outcome = "ok"
    BY <1>2, <2>1, <2>4, TemplateSet DEF WriteIntoLogfile
  <2>5. CASE outcome = "close_failed"
    BY <1>2, <2>2, <2>5, MarkerWritten DEF WriteIntoLogfile
  <2>6. CASE outcome = "torn"
    BY <1>2, <2>3, <2>6, MarkerWritten DEF WriteIntoLogfile
  <2>7. CASE outcome = "no_file"
    BY <1>2, <2>7 DEF WriteIntoLogfile
  <2>8. QED
    BY <1>2, <2>4, <2>5, <2>6, <2>7 DEF WriteOutcomes
<1>3. QED
  BY <1>1, <1>2 DEF zeromq_set_logging_template

(* AddLogEntry keeps the log in order (Logging.cpp:103-129).                *)
LEMMA EntryStep ==
  ASSUME LogOK(log, sink), NEW n \in Nat, NEW fromServer \in BOOLEAN,
         NEW outcome \in EntryOutcomes, AddLogEntry(n, fromServer, outcome), sink' = sink
  PROVE  LogOK(log', sink')
<1> DEFINE l == LogEntry(n, fromServer)
           torn == [l EXCEPT !.torn = TRUE]
           keys == sink.keys \cup {"str", "direction", "ts"}
                     \cup (IF fromServer THEN {IDENTITY_KEY} ELSE {})
<1>1. sink \in Sinks /\ sink.keys \cap RESERVED_KEYS = {}
  BY DEF LogOK
<1>2. keys \in SUBSET AllKeys
  BY <1>1 DEF AllKeys, RESERVED_KEYS
<1>3. keys \ (RESERVED_KEYS \cup {IDENTITY_KEY}) = sink.keys \ {IDENTITY_KEY}
  BY <1>1 DEF RESERVED_KEYS
<1>4. l = [kind |-> "entry", template |-> sink, msg |-> n, torn |-> FALSE, keys |-> keys]
  BY DEF LogEntry
<1>5. torn = [kind |-> "entry", template |-> sink, msg |-> n, torn |-> TRUE, keys |-> keys]
  <2> HIDE DEF l, keys
  <2>1. torn = [l EXCEPT !.torn = TRUE]
    OBVIOUS
  <2> HIDE DEF torn
  <2>2. QED
    BY <1>4, <2>1
<1> HIDE DEF l, torn, keys
<1>6. l \in Lines /\ l.template = sink /\ l.kind = "entry" /\ EntryKeys(l)
  BY <1>1, <1>2, <1>3, <1>4 DEF Lines, EntryKeys
<1>7. torn \in Lines /\ torn.template = sink /\ torn.kind = "entry" /\ EntryKeys(torn)
  BY <1>1, <1>2, <1>3, <1>5 DEF Lines, EntryKeys
<1>8. log' \in {Append(log, l), Append(log, torn), log}
  BY DEF AddLogEntry, WriteIntoLogfile, EntryOutcomes, WriteOutcomes, l, torn
<1>9. QED
  BY <1>6, <1>7, <1>8, EntryWritten

(* The log is in order in every state.                                      *)
LEMMA LogInvHolds == Spec => []LogInv
<1>1. Init => LogInv
  <2> USE DEF LogInv
  <2> SUFFICES ASSUME Init PROVE LogOK(log, sink)
    OBVIOUS
  <2>1. log = <<Marker(DEFAULT_TEMPLATE)>> /\ sink = DEFAULT_TEMPLATE
    BY DEF Init, SettingsInit
  <2>2. DEFAULT_TEMPLATE \in Sinks /\ DEFAULT_TEMPLATE.keys = {}
    BY DEF Sinks, DEFAULT_TEMPLATE
  <2>3. Marker(DEFAULT_TEMPLATE) \in Lines /\ Marker(DEFAULT_TEMPLATE).kind = "marker"
    BY <2>2 DEF Marker, Lines
  <2>4. log \in Seq(Lines) /\ Len(log) = 1 /\ log[1] = Marker(sink) /\ log[1].kind = "marker"
    BY <2>1, <2>3
  <2>5. InForce(log, sink, Len(log) + 1) /\ \A i \in 1..Len(log) : Follows(log, i)
    BY <2>4 DEF InForce, Follows
  <2>6. QED
    BY <2>1, <2>2, <2>4, <2>5 DEF LogOK
<1>2. RecvInv /\ LogInv /\ [Next]_vars => LogInv'
  <2> USE DEF LogInv
  <2> SUFFICES ASSUME RecvInv, LogOK(log, sink), [Next]_vars PROVE LogOK(log', sink')
    OBVIOUS
  <2>1. CASE LogMessage
    <3>1. received[1].msg \in Nat
      <4>1. received[1] \in Frames
        BY <2>1 DEF LogMessage, RecvInv, TypeOK
      <4>2. QED
        BY <4>1, ReceiveAssumption DEF Frames
    <3>2. PICK outcome \in EntryOutcomes : AddLogEntry(received[1].msg, type = "Server", outcome)
      BY <2>1 DEF LogMessage
    <3>3. QED
      BY <2>1, <3>1, <3>2, EntryStep DEF LogMessage
  <2>2. CASE ChangeSettings
    <3>1. ASSUME NEW t \in Templates, zeromq_set_logging_template(t)
          PROVE  LogOK(log', sink')
      BY <3>1, TemplateStep
    <3>2. QED
      BY <2>2, <3>1 DEF ChangeSettings, zeromq_set, SetFlag, ToggleIPV6Fails
  <2>3. CASE UNCHANGED <<log, sink>>
    BY <2>3
  <2>4. QED
    BY <2>1, <2>2, <2>3
    DEF Next, Arrive, Call, ReceiveMessage, GiveUp, Abort, vars, settingsVars
<1>3. QED
  BY <1>1, <1>2, RecvInvHolds, PTL DEF Spec

(* Every entry of the log has the keys of the template in force, for any    *)
(* templates, messages, flags and failing writes (Logging.cpp:28-156).      *)
THEOREM LogFollowsTemplate == Spec => []EntriesFollowTemplate
<1>1. LogInv => EntriesFollowTemplate
  <2> USE DEF LogInv
  <2> SUFFICES ASSUME LogOK(log, sink), NEW i \in DOMAIN log, log[i].kind = "entry"
               PROVE  EntryKeys(log[i]) /\ InForce(log, log[i].template, i)
    BY DEF EntriesFollowTemplate, EntryKeys, InForce
  <2>1. i \in 1..Len(log)
    BY DEF LogOK
  <2>2. QED
    BY <2>1 DEF LogOK, Follows
<1>2. QED
  BY <1>1, LogInvHolds, PTL
-----------------------------------------------------------------------------
(* zeromq_set *)

\* executing the assignments in order makes b of a value a of setting f
Makes(seq, f, a, b) ==
  \/ a = b /\ \A i \in 1..Len(seq) : seq[i].flag # f
  \/ \E i \in 1..Len(seq) : /\ seq[i].flag = f /\ seq[i].to = b
                            /\ \A j \in i + 1..Len(seq) : seq[j].flag # f

\* the flags in val ask for every assignment, if only as a default to begin with
Moderate(seq, val) ==
  \A i \in 1..Len(seq) : /\ Concerns(val, seq[i].flag)
                         /\ seq[i].to \in {Defaults[seq[i].flag], Requested(val, seq[i].flag)}

(* Assignments one after the other.                                         *)
LEMMA MakesConcat ==
  ASSUME NEW s \in Seq(AssignmentRecords), NEW t \in Seq(AssignmentRecords), NEW val
  PROVE  /\ s \o t \in Seq(AssignmentRecords)
         /\ Moderate(s, val) /\ Moderate(t, val) => Moderate(s \o t, val)
         /\ \A f, a, b, c : Makes(s, f, a, b) /\ Makes(t, f, b, c) => Makes(s \o t, f, a, c)
<1> DEFINE u == s \o t
           m == Len(s)
           n == Len(t)
<1>1. /\ u \in Seq(AssignmentRecords) /\ Len(u) = m + n /\ m \in Nat /\ n \in Nat
      /\ \A i \in 1..m : u[i] = s[i]
      /\ \A i \in 1..n : u[m + i] = t[i]
  OBVIOUS
<1> HIDE DEF u, m, n
<1>2. \A i \in 1..m + n : i \in 1..m \/ (i - m \in 1..n /\ u[i] = t[i - m])
  <2>1. ASSUME NEW i \in 1..m + n, i \notin 1..m PROVE i - m \in 1..n /\ m + (i - m) = i
    BY <1>1, <2>1
  <2>2. QED
    BY <1>1, <2>1
<1>3. ASSUME Moderate(s, val), Moderate(t, val) PROVE Moderate(u, val)
  <2> SUFFICES ASSUME NEW i \in 1..m + n
               PROVE  /\ Concerns(val, u[i].flag)
                      /\ u[i].to \in {Defaults[u[i].flag], Requested(val, u[i].flag)}
    BY <1>1 DEF Moderate
  <2>1. CASE i \in 1..m
    BY <1>1, <1>3, <2>1 DEF Moderate, m
  <2>2. CASE i - m \in 1..n /\ u[i] = t[i - m]
    BY <1>3, <2>2 DEF Moderate, n
  <2>3. QED
    BY <1>2, <2>1, <2>2
<1>4. ASSUME NEW f, NEW a, NEW b, NEW c, Makes(s, f, a, b), Makes(t, f, b, c) PROVE Makes(u, f, a, c)
  <2>1. CASE b = c /\ \A i \in 1..n : t[i].flag # f
    <3>1. CASE a = b /\ \A i \in 1..m : s[i].flag # f
      BY <1>1, <1>2, <2>1, <3>1 DEF Makes
    <3>2. ASSUME NEW i \in 1..m, s[i].flag = f, s[i].to = b, \A j \in i + 1..m : s[j].flag # f
          PROVE  Makes(u, f, a, c)
      <4>1. i \in 1..m + n /\ u[i] = s[i]
        BY <1>1
      <4>2. ASSUME NEW j \in i + 1..m + n PROVE u[j].flag # f
        <5>1. j \in 1..m + n /\ (j \in 1..m => j \in i + 1..m)
          BY <1>1
        <5>2. QED
          BY <1>1, <1>2, <2>1, <3>2, <5>1
      <4>3. QED
        BY <1>1, <2>1, <3>2, <4>1, <4>2 DEF Makes
    <3>3. QED
      BY <1>4, <3>1, <3>2 DEF Makes, m
  <2>2. ASSUME NEW i \in 1..n, t[i].flag = f, t[i].to = c, \A j \in i + 1..n : t[j].flag # f
        PROVE  Makes(u, f, a, c)
    <3>1. m + i \in 1..m + n /\ u[m + i] = t[i]
      BY <1>1
    <3>2. ASSUME NEW j \in m + i + 1..m + n PROVE u[j].flag # f
      <4>1. j - m \in i + 1..n /\ j - m \in 1..n /\ j \in 1..m + n /\ j \notin 1..m
        BY <1>1
      <4>2. QED
        BY <1>2, <2>2, <4>1
    <3>3. QED
      BY <1>1, <2>2, <3>1, <3>2 DEF Makes
  <2>3. QED
    BY <1>4, <2>1, <2>2 DEF Makes, n
<1>5. QED
  BY <1>1, <1>3, <1>4 DEF u

(* The assignment for one flag.                                             *)
LEMMA OnePart ==
  ASSUME NEW p, NEW g \in SettingNames, NEW x \in BOOLEAN, NEW val,
         p => Concerns(val, g) /\ Requested(val, g) = x
  PROVE  LET seq == IF p THEN <<Assign(g, x)>> ELSE <<>> IN
           /\ seq \in Seq(AssignmentRecords) /\ Moderate(seq, val)
           /\ \A f, a : Makes(seq, f, a, IF p /\ f = g THEN x ELSE a)
<1> DEFINE r == Assign(g, x)
<1>1. r \in AssignmentRecords /\ r.flag = g /\ r.to = x
  BY DEF Assign, AssignmentRecords
<1> HIDE DEF r
<1>2. CASE p
  <2> DEFINE seq == <<r>>
  <2>1. seq \in Seq(AssignmentRecords) /\ Len(seq) = 1 /\ seq[1] = r
    BY <1>1
  <2> HIDE DEF seq
  <2>2. Moderate(seq, val)
    BY <1>1, <1>2, <2>1 DEF Moderate
  <2>3. ASSUME NEW f, NEW a PROVE Makes(seq, f, a, IF f = g THEN x ELSE a)
    <3>1. 1 \in 1..Len(seq) /\ \A j \in 1 + 1..Len(seq) : FALSE
      BY <2>1
    <3>2. \A i \in 1..Len(seq) : i = 1
      BY <2>1
    <3>3. QED
      BY <1>1, <2>1, <3>1, <3>2 DEF Makes
  <2>4. QED
    BY <1>2, <2>1, <2>2, <2>3 DEF seq, r
<1>3. CASE ~p
  BY <1>3 DEF Moderate, Makes
<1>4. QED
  BY <1>2, <1>3

(* The assignments for flag DEFAULT.                                        *)
LEMMA DefaultPart ==
  ASSUME NEW val, NEW p, p => IsSet(val, DEFAULT)
  PROVE  LET seq == IF p THEN <<Assign("debugging", FALSE), Assign("busyWaiting", TRUE),
                                Assign("logging", FALSE), Assign("ipv6", FALSE)>> ELSE <<>> IN
           /\ seq \in Seq(AssignmentRecords) /\ Moderate(seq, val)
           /\ \A f \in SettingNames : \A a : Makes(seq, f, a, IF p THEN Defaults[f] ELSE a)
<1> DEFINE r1 == Assign("debugging", FALSE)
           r2 == Assign("busyWaiting", TRUE)
           r3 == Assign("logging", FALSE)
           r4 == Assign("ipv6", FALSE)
<1>1. /\ r1 \in AssignmentRecords /\ r1.flag = "debugging" /\ r1.to = Defaults["debugging"]
      /\ r2 \in AssignmentRecords /\ r2.flag = "busyWaiting" /\ r2.to = Defaults["busyWaiting"]
      /\ r3 \in AssignmentRecords /\ r3.flag = "logging" /\ r3.to = Defaults["logging"]
      /\ r4 \in AssignmentRecords /\ r4.flag = "ipv6" /\ r4.to = Defaults["ipv6"]
  BY DEF Assign, AssignmentRecords, SettingNames, Defaults
<1> HIDE DEF r1, r2, r3, r4
<1>2. CASE p
  <2> DEFINE seq == <<r1, r2, r3, r4>>
  <2>1. /\ seq \in Seq(AssignmentRecords) /\ Len(seq) = 4
        /\ seq[1] = r1 /\ seq[2] = r2 /\ seq[3] = r3 /\ seq[4] = r4
    BY <1>1
  <2> HIDE DEF seq
  <2>2. \A i \in 1..Len(seq) : i \in {1, 2, 3, 4}
    BY <2>1
  <2>3. Moderate(seq, val)
    BY <1>1, <1>2, <2>1, <2>2 DEF Moderate, Concerns
  <2>4. ASSUME NEW f \in SettingNames, NEW a PROVE Makes(seq, f, a, Defaults[f])
    <3>1. PICK i \in 1..Len(seq) : seq[i].flag = f /\ seq[i].to = Defaults[f]
      BY <1>1, <2>1 DEF SettingNames
    <3>2. \A j \in 1..Len(seq) : seq[j].flag = f => j = i
      BY <1>1, <2>1, <2>2, <3>1
    <3>3. \A j \in i + 1..Len(seq) : j \in 1..Len(seq) /\ j # i
      BY <2>1
    <3>4. QED
      BY <3>1, <3>2, <3>3 DEF Makes
  <2>5. QED
    BY <1>2, <2>1, <2>3, <2>4 DEF seq, r1, r2, r3, r4
<1>3. CASE ~p
  BY <1>3 DEF Moderate, Makes
<1>4. QED
  BY <1>2, <1>3

(* ApplyFlags plans what the flags ask for (HelperFunctions.cpp).           *)
LEMMA AssignmentsMake ==
  ASSUME NEW val
  PROVE  /\ Assignments(val) \in Seq(AssignmentRecords)
         /\ Moderate(Assignments(val), val)
         /\ \A f \in SettingNames : \A a \in BOOLEAN :
              Makes(Assignments(val), f, a, IF Concerns(val, f) THEN Requested(val, f) ELSE a)
<1> DEFINE def == IsSet(val, DEFAULT)
           dbg == IsSet(val, DEBUG)
           ip6 == IsSet(val, IPV6)
           nbw == IsSet(val, NO_RECV_BUSY_WAITING)
           lgg == IsSet(val, LOGGING)
           P1 == IF def THEN <<Assign("debugging", FALSE), Assign("busyWaiting", TRUE),
                               Assign("logging", FALSE), Assign("ipv6", FALSE)>> ELSE <<>>
           P2 == IF dbg THEN <<Assign("debugging", TRUE)>> ELSE <<>>
           P3 == IF ip6 THEN <<Assign("ipv6", TRUE)>> ELSE <<>>
           P4 == IF nbw THEN <<Assign("busyWaiting", FALSE)>> ELSE <<>>
           P5 == IF lgg THEN <<Assign("logging", TRUE)>> ELSE <<>>
           A1(f, a) == IF def THEN Defaults[f] ELSE a
           A2(f, a) == IF dbg /\ f = "debugging" THEN TRUE ELSE A1(f, a)
           A3(f, a) == IF ip6 /\ f = "ipv6" THEN TRUE ELSE A2(f, a)
           A4(f, a) == IF nbw /\ f = "busyWaiting" THEN FALSE ELSE A3(f, a)
           A5(f, a) == IF lgg /\ f = "logging" THEN TRUE ELSE A4(f, a)
           new(f, a) == IF Concerns(val, f) THEN Requested(val, f) ELSE a
<1>1. Assignments(val) = P1 \o P2 \o P3 \o P4 \o P5
  BY Zenon DEF Assignments
<1>2. /\ Defaults["debugging"] = FALSE /\ Defaults["ipv6"] = FALSE
      /\ Defaults["busyWaiting"] = TRUE /\ Defaults["logging"] = FALSE
  BY DEF Defaults
<1>3. /\ Bit["debugging"] = DEBUG /\ Bit["ipv6"] = IPV6
      /\ Bit["busyWaiting"] = NO_RECV_BUSY_WAITING /\ Bit["logging"] = LOGGING
  BY DEF Bit
<1>4. /\ Concerns(val, "debugging") <=> def \/ dbg
      /\ Concerns(val, "ipv6") <=> def \/ ip6
      /\ Concerns(val, "busyWaiting") <=> def \/ nbw
      /\ Concerns(val, "logging") <=> def \/ lgg
  BY <1>3 DEF Concerns
<1>5. /\ Requested(val, "debugging") = IF dbg THEN TRUE ELSE FALSE
      /\ Requested(val, "ipv6") = IF ip6 THEN TRUE ELSE FALSE
      /\ Requested(val, "busyWaiting") = IF nbw THEN FALSE ELSE TRUE
      /\ Requested(val, "logging") = IF lgg THEN TRUE ELSE FALSE
  <2>1. ASSUME NEW f \in SettingNames, NEW p, p <=> IsSet(val, Bit[f]), NEW d \in BOOLEAN, Defaults[f] = d
        PROVE  Requested(val, f) = IF p THEN ~d ELSE d
    BY <2>1 DEF Requested
  <2>2. QED
    BY <1>2, <1>3, <2>1 DEF SettingNames
<1>6. \A f \in SettingNames : \A a \in BOOLEAN : A5(f, a) = new(f, a)
  <2> SUFFICES ASSUME NEW f \in SettingNames, NEW a \in BOOLEAN PROVE A5(f, a) = new(f, a)
    OBVIOUS
  <2>1. CASE f = "debugging"
    BY <1>2, <1>4, <1>5, <2>1
  <2>2. CASE f = "ipv6"
    BY <1>2, <1>4, <1>5, <2>2
  <2>3. CASE f = "busyWaiting"
    BY <1>2, <1>4, <1>5, <2>3
  <2>4. CASE f = "logging"
    BY <1>2, <1>4, <1>5, <2>4
  <2>5. QED
    BY <2>1, <2>2, <2>3, <2>4 DEF SettingNames
<1> HIDE DEF new
<1>7. P1 \in Seq(AssignmentRecords) /\ Moderate(P1, val)
      /\ \A f \in SettingNames : \A a : Makes(P1, f, a, A1(f, a))
  BY DefaultPart, Zenon
<1>8. P2 \in Seq(AssignmentRecords) /\ Moderate(P2, val)
      /\ \A f, a : Makes(P2, f, a, IF dbg /\ f = "debugging" THEN TRUE ELSE a)
  <2>1. "debugging" \in SettingNames /\ (dbg => Concerns(val, "debugging") /\ Requested(val, "debugging") = TRUE)
    BY <1>4, <1>5 DEF SettingNames
  <2>2. QED
    BY <2>1, OnePart, Zenon
<1>9. P3 \in Seq(AssignmentRecords) /\ Moderate(P3, val)
      /\ \A f, a : Makes(P3, f, a, IF ip6 /\ f = "ipv6" THEN TRUE ELSE a)
  <2>1. "ipv6" \in SettingNames /\ (ip6 => Concerns(val, "ipv6") /\ Requested(val, "ipv6") = TRUE)
    BY <1>4, <1>5 DEF SettingNames
  <2>2. QED
    BY <2>1, OnePart, Zenon
<1>10. P4 \in Seq(AssignmentRecords) /\ Moderate(P4, val)
      /\ \A f, a : Makes(P4, f, a, IF nbw /\ f = "busyWaiting" THEN FALSE ELSE a)
  <2>1. "busyWaiting" \in SettingNames /\ (nbw => Concerns(val, "busyWaiting") /\ Requested(val, "busyWaiting") = FALSE)
    BY <1>4, <1>5 DEF SettingNames
  <2>2. QED
    BY <2>1, OnePart, Zenon
<1>11. P5 \in Seq(AssignmentRecords) /\ Moderate(P5, val)
      /\ \A f, a : Makes(P5, f, a, IF lgg /\ f = "logging" THEN TRUE ELSE a)
  <2>1. "logging" \in SettingNames /\ (lgg => Concerns(val, "logging") /\ Requested(val, "logging") = TRUE)
    BY <1>4, <1>5 DEF SettingNames
  <2>2. QED
    BY <2>1, OnePart, Zenon
<1> HIDE DEF P1, P2, P3, P4, P5
<1> DEFINE Q2 == P1 \o P2
           Q3 == Q2 \o P3
           Q4 == Q3 \o P4
           Q5 == Q4 \o P5
<1>12. \A f \in SettingNames : \A a : /\ Makes(P2, f, A1(f, a), A2(f, a))
                                      /\ Makes(P3, f, A2(f, a), A3(f, a))
                                      /\ Makes(P4, f, A3(f, a), A4(f, a))
                                      /\ Makes(P5, f, A4(f, a), A5(f, a))
  BY <1>8, <1>9, <1>10, <1>11
<1> HIDE DEF A1, A2, A3, A4, A5
<1>13. Q2 \in Seq(AssignmentRecords) /\ Moderate(Q2, val)
       /\ \A f \in SettingNames : \A a : Makes(Q2, f, a, A2(f, a))
  BY <1>7, <1>8, <1>12, MakesConcat, Zenon
<1> HIDE DEF Q2
<1>14. Q3 \in Seq(AssignmentRecords) /\ Moderate(Q3, val)
       /\ \A f \in SettingNames : \A a : Makes(Q3, f, a, A3(f, a))
  BY <1>9, <1>12, <1>13, MakesConcat, Zenon
<1> HIDE DEF Q3
<1>15. Q4 \in Seq(AssignmentRecords) /\ Moderate(Q4, val)
       /\ \A f \in SettingNames : \A a : Makes(Q4, f, a, A4(f, a))
  BY <1>10, <1>12, <1>14, MakesConcat, Zenon
<1> HIDE DEF Q4
<1>16. Q5 \in Seq(AssignmentRecords) /\ Moderate(Q5, val)
       /\ \A f \in SettingNames : \A a : Makes(Q5, f, a, A5(f, a))
  BY <1>11, <1>12, <1>15, MakesConcat, Zenon
<1>17. Assignments(val) = Q5
  BY <1>1 DEF Q2, Q3, Q4
<1>18. \A f \in SettingNames : \A a \in BOOLEAN : Makes(Assignments(val), f, a, new(f, a))
  BY <1>6, <1>16, <1>17
<1>19. QED
  BY <1>16, <1>17, <1>18 DEF new

(* What ApplyFlags decides.                                                 *)
LEMMA PlannedFlags ==
  ASSUME NEW v
  PROVE  LET plan == ApplyFlags(v) IN
           \/ plan.code \notin {"0", "INVALID_ARG"} /\ plan.todo = <<>>
           \/ plan.code = "0" /\ plan.val # 0 /\ plan.todo = Assignments(plan.val)
<1> DEFINE int == lockToIntegerRange(v)
<1>1. int.code \in {"0", "kDoesNotSupportNaNorINF", "kParameterOutOfRange"}
  BY DEF lockToIntegerRange, Error, Value
<1> HIDE DEF int
<1>2. ApplyFlags(v) =
        IF int.code # "0" THEN Plan(int.code, 0, <<>>)
        ELSE IF int.val <= 0 \/ Assignments(int.val) = <<>> THEN Plan("UNKNOWN_SET_FLAG", 0, <<>>)
        ELSE Plan("0", int.val, Assignments(int.val))
  BY DEF ApplyFlags, int
<1>3. 0 <= 0
  OBVIOUS
<1>4. QED
  BY <1>1, <1>2, <1>3 DEF Plan

\* the assignments left are asked for by one of the flags in vals, the last ones
\* for a setting with the value they want
Within(seq, vals) ==
  \A i \in 1..Len(seq) :
    LET asked == Asked(vals, seq[i].flag) IN
      /\ asked # {} /\ seq[i].to \in {Defaults[seq[i].flag]} \cup asked
      /\ (\A j \in i + 1..Len(seq) : seq[j].flag # seq[i].flag) => seq[i].to \in asked

\* seq has an assignment to f
Sets(seq, f) == \E i \in 1..Len(seq) : seq[i].flag = f

(* The plan for flags that are accepted.                                    *)
LEMMA PlanWithin ==
  ASSUME NEW val, NEW vals, val \in vals
  PROVE  /\ Within(Assignments(val), vals)
         /\ \A f \in SettingNames : Concerns(val, f) => Sets(Assignments(val), f)
<1> DEFINE seq == Assignments(val)
<1>1. seq \in Seq(AssignmentRecords) /\ Moderate(seq, val)
  BY AssignmentsMake
<1>2. ASSUME NEW f \in SettingNames, Concerns(val, f)
      PROVE  \E i \in 1..Len(seq) : /\ seq[i].flag = f /\ seq[i].to = Requested(val, f)
                                    /\ \A j \in i + 1..Len(seq) : seq[j].flag # f
  <2>1. PICK b \in BOOLEAN : b # Requested(val, f)
    <3>1. TRUE # FALSE
      OBVIOUS
    <3>2. QED
      BY <3>1
  <2>2. Makes(seq, f, b, Requested(val, f))
    BY <1>2, AssignmentsMake
  <2> HIDE DEF seq
  <2>3. QED
    BY <2>1, <2>2 DEF Makes
<1> HIDE DEF seq
<1>3. \A f : Concerns(val, f) => Requested(val, f) \in Asked(vals, f)
  BY DEF Asked
<1>4. ASSUME NEW i \in 1..Len(seq)
      PROVE  LET asked == Asked(vals, seq[i].flag) IN
               /\ asked # {} /\ seq[i].to \in {Defaults[seq[i].flag]} \cup asked
               /\ (\A j \in i + 1..Len(seq) : seq[j].flag # seq[i].flag) => seq[i].to \in asked
  <2>1. seq[i].flag \in SettingNames
    <3>1. seq[i] \in AssignmentRecords
      BY <1>1
    <3>2. QED
      BY <3>1 DEF AssignmentRecords
  <2>2. Concerns(val, seq[i].flag) /\ seq[i].to \in {Defaults[seq[i].flag], Requested(val, seq[i].flag)}
    BY <1>1 DEF Moderate
  <2>3. ASSUME \A j \in i + 1..Len(seq) : seq[j].flag # seq[i].flag
        PROVE  seq[i].to = Requested(val, seq[i].flag)
    <3>1. PICK k \in 1..Len(seq) : /\ seq[k].flag = seq[i].flag
                                   /\ seq[k].to = Requested(val, seq[i].flag)
                                   /\ \A j \in k + 1..Len(seq) : seq[j].flag # seq[i].flag
      BY <1>2, <2>1, <2>2
    <3>2. Len(seq) \in Nat
      BY <1>1
    <3>3. i = k
      BY <2>3, <3>1, <3>2
    <3>4. QED
      BY <3>1, <3>3
  <2>4. QED
    BY <1>3, <2>2, <2>3
<1>5. \A f \in SettingNames : Concerns(val, f) => Sets(seq, f)
  BY <1>2 DEF Sets
<1>6. Within(seq, vals)
  BY <1>4 DEF Within
<1>7. QED
  BY <1>5, <1>6 DEF seq

(* More accepted flags ask for more.                                        *)
LEMMA WithinMore ==
  ASSUME NEW seq, NEW vals, NEW more, vals \subseteq more, Within(seq, vals)
  PROVE  Within(seq, more)
<1>1. \A f : Asked(vals, f) \subseteq Asked(more, f)
  BY DEF Asked
<1>2. QED
  BY <1>1 DEF Within

(* What is left after the first assignment.                                 *)
LEMMA WithinTail ==
  ASSUME NEW seq \in Seq(AssignmentRecords), seq # <<>>, NEW vals, Within(seq, vals)
  PROVE  /\ Within(Tail(seq), vals)
         /\ LET r == Head(seq) IN
              /\ r.flag \in SettingNames /\ r.to \in BOOLEAN
              /\ Asked(vals, r.flag) # {} /\ r.to \in {Defaults[r.flag]} \cup Asked(vals, r.flag)
              /\ Sets(Tail(seq), r.flag) \/ r.to \in Asked(vals, r.flag)
         /\ \A f : Sets(seq, f) => Sets(Tail(seq), f) \/ f = Head(seq).flag
<1> DEFINE t == Tail(seq)
           r == Head(seq)
<1>1. /\ Len(seq) \in Nat /\ Len(seq) >= 1 /\ r = seq[1] /\ r \in AssignmentRecords
      /\ Len(t) = Len(seq) - 1 /\ \A i \in 1..Len(t) : t[i] = seq[i + 1] /\ i + 1 \in 1..Len(seq)
  OBVIOUS
<1> HIDE DEF t, r
<1>2. \A i \in 1..Len(seq) : i = 1 \/ (i - 1 \in 1..Len(t) /\ seq[i] = t[i - 1])
  <2>1. ASSUME NEW i \in 1..Len(seq), i # 1 PROVE i - 1 \in 1..Len(t) /\ (i - 1) + 1 = i
    BY <1>1, <2>1
  <2>2. QED
    BY <1>1, <2>1
<1>3. Within(t, vals)
  <2>1. ASSUME NEW i \in 1..Len(t), \A j \in i + 1..Len(t) : t[j].flag # t[i].flag
        PROVE  \A j \in (i + 1) + 1..Len(seq) : seq[j].flag # t[i].flag
    <3>1. ASSUME NEW j \in (i + 1) + 1..Len(seq) PROVE j - 1 \in i + 1..Len(t) /\ j # 1 /\ j \in 1..Len(seq)
      BY <1>1
    <3>2. QED
      BY <1>2, <2>1, <3>1
  <2>2. QED
    BY <1>1, <2>1 DEF Within
<1>4. r.flag \in SettingNames /\ r.to \in BOOLEAN
  BY <1>1 DEF AssignmentRecords
<1>5. 1 \in 1..Len(seq)
  BY <1>1
<1>6. Asked(vals, r.flag) # {} /\ r.to \in {Defaults[r.flag]} \cup Asked(vals, r.flag)
  BY <1>1, <1>5 DEF Within
<1>7. ASSUME ~Sets(t, r.flag) PROVE r.to \in Asked(vals, r.flag)
  <2>1. ASSUME NEW j \in 1 + 1..Len(seq) PROVE seq[j].flag # r.flag
    <3>1. j \in 1..Len(seq) /\ j # 1
      BY <1>1
    <3>2. QED
      BY <1>2, <1>7, <3>1 DEF Sets
  <2>2. QED
    BY <1>1, <1>5, <2>1 DEF Within
<1>8. ASSUME NEW f, Sets(seq, f) PROVE Sets(t, f) \/ f = r.flag
  BY <1>1, <1>2, <1>8 DEF Sets
<1>9. QED
  BY <1>3, <1>4, <1>6, <1>7, <1>8 DEF t, r

Pending(f) == \E s \in Setters : Sets(todo[s], f)

\* setting f has a value it may have
SettingOK(f) ==
  LET asked == Asked(period.vals, f) IN
    /\ asked = {} => settings[f] = period.old[f]
    /\ settings[f] \in {period.old[f], Defaults[f]} \cup asked
    /\ asked # {} /\ ~period.failed => settings[f] \in asked \/ Pending(f)

\* what the assignments that are left will make of the settings
SettingsInv ==
  /\ DOMAIN period = {"old", "vals", "failed"}
  /\ \A s \in Setters : Within(todo[s], period.vals)
  /\ \A f \in SettingNames : SettingOK(f)

(* Flags are accepted or rejected.                                          *)
LEMMA FlagsPlanned ==
  ASSUME SettingsTypeOK, SettingsInv, NEW s \in Setters, NEW v, zeromq_set(s, v)
  PROVE  SettingsInv'
<1> DEFINE plan     == ApplyFlags(v)
           accepted == IF plan.code = "0" THEN {plan.val} ELSE {}
           vals     == period'.vals
<1>1. todo \in [Setters -> Seq(AssignmentRecords)] /\ todo[s] = <<>>
  BY DEF SettingsTypeOK, AssignmentRecords, SettingNames, zeromq_set
<1>2. todo' = [todo EXCEPT ![s] = plan.todo] /\ settings' = settings
  BY DEF zeromq_set
<1>3. \/ accepted = {} /\ plan.todo = <<>>
      \/ accepted = {plan.val} /\ plan.todo = Assignments(plan.val)
  BY PlannedFlags
<1>4. period' = IF Quiet THEN [old |-> settings, vals |-> accepted, failed |-> FALSE]
                ELSE [period EXCEPT !.vals = period.vals \cup accepted]
  BY DEF zeromq_set
<1> HIDE DEF plan, accepted
<1>5. /\ DOMAIN period' = {"old", "vals", "failed"} /\ accepted \subseteq vals
      /\ vals = accepted \/ vals = period.vals \cup accepted
  BY <1>4 DEF SettingsInv
<1>6. \A f : Sets(<<>>, f) <=> FALSE
  BY DEF Sets
<1>7. \A r \in Setters : todo'[r] = IF r = s THEN plan.todo ELSE todo[r]
  BY <1>1, <1>2
<1>8. Within(<<>>, vals)
  BY DEF Within
<1>9. Within(plan.todo, vals) /\ \A x \in accepted : \A f \in SettingNames : Concerns(x, f) => Sets(plan.todo, f)
  BY <1>3, <1>5, <1>8, PlanWithin
<1>10. ASSUME NEW r \in Setters PROVE Within(todo'[r], vals)
  <2>1. CASE r = s
    BY <1>7, <1>9, <2>1
  <2>2. CASE r # s /\ Quiet
    BY <1>7, <1>8, <2>2 DEF Quiet
  <2>3. CASE r # s /\ ~Quiet
    <3>1. vals = period.vals \cup accepted
      BY <1>4, <2>3 DEF SettingsInv
    <3>2. Within(todo[r], period.vals)
      BY DEF SettingsInv
    <3>3. QED
      BY <1>7, <2>3, <3>1, <3>2, WithinMore
  <2>4. QED
    BY <2>1, <2>2, <2>3
<1>11. ASSUME NEW f \in SettingNames PROVE SettingOK(f)'
  <2>1. \A x \in accepted : Concerns(x, f) => Pending(f)'
    BY <1>7, <1>9 DEF Pending
  <2>2. CASE Quiet
    <3>1. period'.old = settings /\ vals = accepted
      BY <1>4, <2>2
    <3>2. Asked(vals, f) # {} => Pending(f)'
      BY <2>1, <3>1 DEF Asked
    <3>3. QED
      BY <1>2, <3>1, <3>2 DEF SettingOK
  <2>3. CASE ~Quiet
    <3>1. period'.old = period.old /\ vals = period.vals \cup accepted /\ period'.failed = period.failed
      BY <1>4, <2>3 DEF SettingsInv
    <3>2. Asked(period.vals, f) \subseteq Asked(vals, f)
      BY <3>1 DEF Asked
    <3>3. Asked(vals, f) = Asked(period.vals, f) \/ \E x \in accepted : Concerns(x, f)
      BY <3>1 DEF Asked
    <3>4. Pending(f) => Pending(f)'
      BY <1>1, <1>6, <1>7 DEF Pending
    <3>5. SettingOK(f)
      BY DEF SettingsInv
    <3>6. QED
      BY <1>2, <2>1, <3>1, <3>2, <3>3, <3>4, <3>5 DEF SettingOK
  <2>4. QED
    BY <2>2, <2>3
<1>12. QED
  BY <1>5, <1>10, <1>11 DEF SettingsInv

(* The first of the planned assignments is made.                            *)
LEMMA FlagSet ==
  ASSUME SettingsTypeOK, SettingsInv, NEW s \in Setters, SetFlag(s)
  PROVE  SettingsInv'
<1> DEFINE r == Head(todo[s])
<1>1. /\ todo \in [Setters -> Seq(AssignmentRecords)] /\ todo[s] # <<>>
      /\ settings \in [SettingNames -> BOOLEAN] /\ settings' = [settings EXCEPT ![r.flag] = r.to]
      /\ todo' = [todo EXCEPT ![s] = Tail(todo[s])] /\ period' = period
  BY DEF SetFlag, SettingsTypeOK, AssignmentRecords, SettingNames
<1>2. /\ Within(Tail(todo[s]), period.vals)
      /\ r.flag \in SettingNames /\ r.to \in BOOLEAN
      /\ Asked(period.vals, r.flag) # {}
      /\ r.to \in {Defaults[r.flag]} \cup Asked(period.vals, r.flag)
      /\ Sets(Tail(todo[s]), r.flag) \/ r.to \in Asked(period.vals, r.flag)
      /\ \A f : Sets(todo[s], f) => Sets(Tail(todo[s]), f) \/ f = r.flag
  <2>1. todo[s] \in Seq(AssignmentRecords) /\ todo[s] # <<>> /\ Within(todo[s], period.vals)
    BY <1>1 DEF SettingsInv
  <2>2. QED
    BY <2>1, WithinTail
<1> HIDE DEF r
<1>3. \A q \in Setters : todo'[q] = IF q = s THEN Tail(todo[s]) ELSE todo[q]
  BY <1>1
<1>4. \A f \in SettingNames : settings'[f] = IF f = r.flag THEN r.to ELSE settings[f]
  BY <1>1, <1>2
<1>5. \A q \in Setters : Within(todo'[q], period.vals)
  BY <1>2, <1>3 DEF SettingsInv
<1>6. ASSUME NEW f \in SettingNames PROVE SettingOK(f)'
  <2>1. SettingOK(f)
    BY DEF SettingsInv
  <2>2. CASE f = r.flag
    <3>1. Sets(Tail(todo[s]), f) => Pending(f)'
      BY <1>3 DEF Pending
    <3>2. QED
      BY <1>1, <1>2, <1>4, <2>2, <3>1 DEF SettingOK
  <2>3. CASE f # r.flag
    <3>1. Pending(f) => Pending(f)'
      BY <1>2, <1>3, <2>3 DEF Pending
    <3>2. QED
      BY <1>1, <1>4, <2>1, <2>3, <3>1 DEF SettingOK
  <2>4. QED
    BY <2>2, <2>3
<1>7. QED
  BY <1>1, <1>5, <1>6 DEF SettingsInv

(* A socket refuses IPv6.                                                   *)
LEMMA ToggleFailed ==
  ASSUME SettingsTypeOK, SettingsInv, NEW s \in Setters, ToggleIPV6Fails(s)
  PROVE  SettingsInv'
<1>1. /\ todo' = [todo EXCEPT ![s] = <<>>] /\ settings' = settings
      /\ period' = [period EXCEPT !.failed = TRUE] /\ todo \in [Setters -> Seq(AssignmentRecords)]
  BY DEF ToggleIPV6Fails, SettingsTypeOK, AssignmentRecords, SettingNames
<1>2. /\ DOMAIN period' = {"old", "vals", "failed"}
      /\ period'.old = period.old /\ period'.vals = period.vals /\ period'.failed = TRUE
  BY <1>1 DEF SettingsInv
<1>3. Within(<<>>, period.vals)
  BY DEF Within
<1>4. \A q \in Setters : Within(todo'[q], period'.vals)
  BY <1>1, <1>2, <1>3 DEF SettingsInv
<1>5. ASSUME NEW f \in SettingNames PROVE SettingOK(f)'
  <2>1. SettingOK(f)
    BY DEF SettingsInv
  <2>2. QED
    BY <1>1, <1>2, <2>1 DEF SettingOK
<1>6. QED
  BY <1>2, <1>4, <1>5 DEF SettingsInv

(* When all calls of zeromq_set have returned and none failed, a setting    *)
(* they concern has a value that one of them asked for; rejected flags      *)
(* change nothing, whatever the threads that call it do meanwhile.          *)
THEOREM AllFlagsOrNone == Spec => []SettingsApplied
<1>1. Init => SettingsInv
  <2> SUFFICES ASSUME Init PROVE SettingsInv
    OBVIOUS
  <2>1. /\ settings = Defaults /\ todo = [s \in Setters |-> <<>>]
        /\ period = [old |-> settings, vals |-> {}, failed |-> FALSE]
    BY DEF Init, SettingsInit
  <2>2. /\ DOMAIN period = {"old", "vals", "failed"}
        /\ period.old = settings /\ period.vals = {}
    BY <2>1
  <2>3. \A f : Asked({}, f) = {}
    BY DEF Asked
  <2>4. \A s \in Setters : Within(todo[s], period.vals)
    BY <2>1 DEF Within
  <2>5. \A f \in SettingNames : SettingOK(f)
    BY <2>2, <2>3 DEF SettingOK
  <2>6. QED
    BY <2>2, <2>4, <2>5 DEF SettingsInv
<1>2. RecvInv /\ SettingsInv /\ [Next]_vars => SettingsInv'
  <2> SUFFICES ASSUME RecvInv, SettingsInv, [Next]_vars PROVE SettingsInv'
    OBVIOUS
  <2>0. SettingsTypeOK
    BY DEF RecvInv, TypeOK
  <2>1. ASSUME NEW s \in Setters, NEW v \in Flags, zeromq_set(s, v) PROVE SettingsInv'
    BY <2>0, <2>1, FlagsPlanned
  <2>2. ASSUME NEW s \in Setters, SetFlag(s) PROVE SettingsInv'
    BY <2>0, <2>2, FlagSet
  <2>3. ASSUME NEW s \in Setters, ToggleIPV6Fails(s) PROVE SettingsInv'
    BY <2>0, <2>3, ToggleFailed
  <2>4. CASE UNCHANGED <<settings, todo, period>>
    BY <2>4 DEF SettingsInv, SettingOK, Pending
  <2>5. QED
    BY <2>1, <2>2, <2>3, <2>4
    DEF Next, Arrive, Call, ReceiveMessage, LogMessage, GiveUp, Abort, ChangeSettings,
        zeromq_set_logging_template, vars, settingsVars
<1>3. SettingsTypeOK /\ SettingsInv => SettingsApplied
  <2> SUFFICES ASSUME SettingsTypeOK, SettingsInv, NEW f \in DOMAIN settings
               PROVE  LET asked == Asked(period.vals, f) IN
                        /\ asked = {} => settings[f] = period.old[f]
                        /\ asked # {} /\ Quiet /\ ~period.failed => settings[f] \in asked
                        /\ settings[f] \in {period.old[f], Defaults[f]} \cup asked
    BY DEF SettingsApplied
  <2>1. f \in SettingNames
    BY DEF SettingsTypeOK, SettingNames
  <2>2. SettingOK(f)
    BY <2>1 DEF SettingsInv
  <2>3. Quiet => ~Pending(f)
    BY DEF Quiet, Pending, Sets
  <2>4. QED
    BY <2>2, <2>3 DEF SettingOK
<1>4. RecvInv => SettingsTypeOK
  BY DEF RecvInv, TypeOK
<1>5. QED
  BY <1>1, <1>2, <1>3, <1>4, RecvInvHolds, PTL DEF Spec
-----------------------------------------------------------------------------
(* Which messages are still on the stream, and which were returned *)

\* frame f, in the place its message has for it
InShape(f) ==
  /\ f.msg \in 1..Len(shapes) /\ f.pos \in 1..Len(shapes[f.msg])
  /\ f.more <=> f.pos < Len(shapes[f.msg])
  /\ f.empty <=> shapes[f.msg][f.pos] = "empty"

\* g is the frame that was sent after f
Follow(f, g) == IF f.more THEN g.msg = f.msg /\ g.pos = f.pos + 1
                ELSE g.msg = f.msg + 1 /\ g.pos = 1

\* the stream: all frames sent after some frame
Contiguous(s) ==
  /\ \A i \in 1..Len(s) : InShape(s[i])
  /\ \A i \in 1..Len(s) - 1 : Follow(s[i], s[i + 1])
  /\ s # <<>> => s[Len(s)].msg = Len(shapes) /\ ~s[Len(s)].more
  /\ \A i, j \in 1..Len(s) : i <= j => s[i].msg <= s[j].msg
  /\ s # <<>> => \A n \in s[1].msg..Len(shapes) : \E i \in 1..Len(s) : s[i].msg = n

\* the first message of which a frame may still be received
FirstLeft(s) == IF s = <<>> THEN Len(shapes) + 1 ELSE s[1].msg

\* the results that hold a message
Got == {k \in 1..Len(results) : results[k].frames # <<>>}

Delivered(n) ==
  \/ \E k \in Got : MsgOf(results[k]) = n
  \/ received # <<>> /\ received[1].msg = n

StreamInv ==
  /\ Contiguous(stream)
  /\ stream # <<>> /\ stream[1].pos > 1 => ~WellFormed(shapes[stream[1].msg])

DeliveryInv ==
  /\ \A n \in 1..FirstLeft(stream) - 1 : WellFormed(shapes[n]) => Delivered(n)
  /\ \A j, k \in Got : j < k => MsgOf(results[j]) < MsgOf(results[k])
  /\ \A k \in Got : MsgOf(results[k]) \in 1..FirstLeft(stream) - 1
  /\ received # <<>> => /\ received[1].msg \in 1..FirstLeft(stream) - 1
                        /\ \A k \in Got : MsgOf(results[k]) < received[1].msg

\* the lines of messages, and the results whose lines are complete
EntryLines == {i \in 1..Len(log) : log[i].kind = "entry"}
Logged  == {k \in 1..Len(results) : results[k].logged /\ results[k].code = "0"}

CompleteInv ==
  /\ \A k \in 1..Len(results) : results[k].logged => results[k].frames # <<>>
  /\ \A i \in EntryLines : \E k \in Got : results[k].logged /\ log[i].msg = MsgOf(results[k])
  /\ \A i \in EntryLines : (\E k \in Logged : log[i].msg = MsgOf(results[k])) => ~log[i].torn
  /\ \A k \in Logged : \E i \in EntryLines : log[i].msg = MsgOf(results[k])
  /\ \A i, j \in EntryLines : i < j => log[i].msg < log[j].msg

\* what a receive function may do to a stream: it takes frames of one message,
\* returns a message only with its last frame, and throws only if the message
\* is not what it expects
Fate(o, s) ==
  /\ o.taken \in 1..Len(s)
  /\ \A k \in 1..o.taken - 1 : s[k].more
  /\ o.frames # <<>> => ~s[o.taken].more /\ o.frames[1].msg = s[1].msg
  /\ o.frames = <<>> /\ s[1].pos = 1 => ~WellFormed(shapes[s[1].msg])

(* The frames at the front of the stream, and what they say of the shape of *)
(* their message.                                                           *)
LEMMA FrontFrames ==
  ASSUME RecvInv, Contiguous(stream), stream # <<>>
  PROVE  LET s == stream
             n == s[1].msg
             size == Len(shapes[n]) IN
           /\ 1 \in 1..Len(s) /\ Len(s) \in Nat /\ n \in 1..Len(shapes) /\ size \in Nat
           /\ s[1].pos = 1 => (s[1].more <=> 1 < size)
           /\ s[1].more => /\ 2 \in 1..Len(s) /\ s[2].msg = n
                           /\ s[1].pos = 1 => /\ s[2].more <=> 2 < size
                                              /\ s[2].empty <=> shapes[n][2] = "empty"
           /\ s[1].more /\ s[2].more => /\ 3 \in 1..Len(s) /\ s[3].msg = n
                                        /\ s[1].pos = 1 => (s[3].more <=> 3 < size)
<1> DEFINE s == stream
           n == s[1].msg
<1>1. StreamOK(s) /\ s \in Seq(Frames) /\ Len(s) \in Nat /\ 1 \in 1..Len(s)
  BY DEF RecvInv, StreamOK
<1>2. InShape(s[1]) /\ n \in 1..Len(shapes)
  BY <1>1 DEF Contiguous, InShape
<1>3. Len(shapes[n]) \in Nat
  <2>1. shapes[n] \in Shapes[type] /\ type \in DOMAIN Shapes
    BY <1>2, ReceiveAssumption DEF RecvInv, TypeOK
  <2>2. QED
    BY <2>1, ReceiveAssumption
<1>4. ASSUME s[1].more
      PROVE  2 \in 1..Len(s) /\ InShape(s[2]) /\ s[2].msg = n /\ (s[1].pos = 1 => s[2].pos = 2)
  <2>1. 1 + 1 \in 1..Len(s) /\ s[1 + 1].msg = s[1].msg
    BY <1>1, <1>4, NextFrame
  <2>2. 1 \in 1..Len(s) - 1 /\ 1 + 1 = 2
    BY <1>1, <2>1
  <2>3. Follow(s[1], s[2])
    BY <2>2 DEF Contiguous
  <2>4. QED
    BY <1>4, <2>1, <2>2, <2>3 DEF Contiguous, Follow
<1>5. ASSUME s[1].more, s[2].more
      PROVE  3 \in 1..Len(s) /\ InShape(s[3]) /\ s[3].msg = n /\ (s[1].pos = 1 => s[3].pos = 3)
  <2>1. 2 + 1 \in 1..Len(s) /\ s[2 + 1].msg = s[2].msg
    BY <1>1, <1>4, <1>5, NextFrame
  <2>2. 2 \in 1..Len(s) - 1 /\ 2 + 1 = 3
    BY <1>1, <2>1
  <2>3. Follow(s[2], s[3])
    BY <2>2 DEF Contiguous
  <2>4. QED
    BY <1>4, <1>5, <2>1, <2>2, <2>3 DEF Contiguous, Follow
<1>6. s[1].pos = 1 => (s[1].more <=> 1 < Len(shapes[n]))
  BY <1>2 DEF InShape
<1>7. s[1].more /\ s[1].pos = 1 => (s[2].more <=> 2 < Len(shapes[n])) /\ (s[2].empty <=> shapes[n][2] = "empty")
  BY <1>4 DEF InShape
<1>8. s[1].more /\ s[2].more /\ s[1].pos = 1 => (s[3].more <=> 3 < Len(shapes[n]))
  BY <1>5 DEF InShape
<1>9. QED
  BY <1>1, <1>2, <1>3, <1>4, <1>5, <1>6, <1>7, <1>8

(* HelperFunctions.cpp:403-433.                                             *)
LEMMA ServerFate ==
  ASSUME RecvInv, Contiguous(stream), stream # <<>>, type = "Server"
  PROVE  Fate(ZeroMQServerReceive(stream), stream)
<1> DEFINE s == stream
           n == s[1].msg
           o == ZeroMQServerReceive(s)
<1>1. ASSUME s[1].pos = 1, WellFormed(shapes[n])
      PROVE  s[1].more /\ s[2].empty /\ s[2].more /\ ~s[3].more
  <2>1. Len(shapes[n]) = 3 /\ shapes[n][2] = "empty"
    BY <1>1 DEF WellFormed
  <2>2. s[1].more
    BY <1>1, <2>1, FrontFrames
  <2>3. (s[2].more <=> 2 < Len(shapes[n])) /\ (s[2].empty <=> shapes[n][2] = "empty")
    BY <1>1, <2>2, FrontFrames
  <2>4. s[2].more /\ s[2].empty
    BY <2>1, <2>3
  <2>5. s[3].more <=> 3 < Len(shapes[n])
    BY <1>1, <2>2, <2>4, FrontFrames
  <2>6. QED
    BY <2>1, <2>2, <2>4, <2>5
<1>2. CASE ~s[1].more
  BY <1>1, <1>2, FrontFrames DEF Fate, ZeroMQServerReceive, Throw, Outcome
<1>3. CASE s[1].more /\ (~s[2].empty \/ ~s[2].more)
  <2>1. o = [taken |-> 2, frames |-> <<>>]
    BY <1>3 DEF ZeroMQServerReceive, Throw, Outcome
  <2>2. 2 \in 1..Len(s) /\ \A k \in 1..2 - 1 : s[k].more
    BY <1>3, FrontFrames
  <2>3. s[1].pos = 1 => ~WellFormed(shapes[n])
    BY <1>1, <1>3
  <2>4. QED
    BY <2>1, <2>2, <2>3 DEF Fate
<1>4. CASE s[1].more /\ s[2].empty /\ s[2].more
  <2>1. 3 \in 1..Len(s) /\ \A k \in 1..3 - 1 : s[k].more
    BY <1>4, FrontFrames
  <2>2. CASE s[3].more
    <3>1. o = [taken |-> 3, frames |-> <<>>]
      BY <1>4, <2>2 DEF ZeroMQServerReceive, Throw, Outcome
    <3>2. s[1].pos = 1 => ~WellFormed(shapes[n])
      BY <1>1, <1>4, <2>2
    <3>3. QED
      BY <2>1, <3>1, <3>2 DEF Fate
  <2>3. CASE ~s[3].more
    <3>1. o = [taken |-> 3, frames |-> <<s[1], s[3]>>]
      BY <1>4, <2>3 DEF ZeroMQServerReceive, Outcome
    <3>2. QED
      BY <2>1, <2>3, <3>1 DEF Fate
  <2>4. QED
    BY <2>2, <2>3
<1>5. QED
  BY <1>2, <1>3, <1>4

(* HelperFunctions.cpp:438-463.                                             *)
LEMMA ClientFate ==
  ASSUME RecvInv, Contiguous(stream), stream # <<>>, type # "Server"
  PROVE  Fate(ZeroMQClientReceive(stream), stream)
<1> DEFINE s == stream
           n == s[1].msg
           o == ZeroMQClientReceive(s)
<1>1. ASSUME s[1].pos = 1, WellFormed(shapes[n])
      PROVE  s[1].more /\ ~s[2].more
  <2>1. Len(shapes[n]) = 2
    BY <1>1 DEF WellFormed
  <2>2. s[1].more
    BY <1>1, <2>1, FrontFrames
  <2>3. s[2].more <=> 2 < Len(shapes[n])
    BY <1>1, <2>2, FrontFrames
  <2>4. QED
    BY <2>1, <2>2, <2>3
<1>2. CASE ~s[1].more
  BY <1>1, <1>2, FrontFrames DEF Fate, ZeroMQClientReceive, Throw, Outcome
<1>3. CASE s[1].more
  <2>1. 2 \in 1..Len(s) /\ s[2].msg = n /\ \A k \in 1..2 - 1 : s[k].more
    BY <1>3, FrontFrames
  <2>2. CASE s[2].more
    <3>1. o = [taken |-> 2, frames |-> <<>>]
      BY <1>3, <2>2 DEF ZeroMQClientReceive, Throw, Outcome
    <3>2. s[1].pos = 1 => ~WellFormed(shapes[n])
      BY <1>1, <1>3, <2>2
    <3>3. QED
      BY <2>1, <3>1, <3>2 DEF Fate
  <2>3. CASE ~s[2].more
    <3>1. o = [taken |-> 2, frames |-> <<s[2]>>]
      BY <1>3, <2>3 DEF ZeroMQClientReceive, Outcome
    <3>2. QED
      BY <2>1, <2>3, <3>1 DEF Fate
  <2>4. QED
    BY <2>2, <2>3
<1>4. QED
  BY <1>2, <1>3

(* HelperFunctions.cpp:471-521.                                             *)
LEMMA SubscriberFate ==
  ASSUME RecvInv, Contiguous(stream), stream # <<>>, type # "Server", NEW b \in BOOLEAN
  PROVE  Fate(ZeroMQSubscriberReceive(stream, b), stream)
<1> DEFINE s == stream
           n == s[1].msg
           o == ZeroMQSubscriberReceive(s, b)
<1>1. ASSUME s[1].pos = 1, WellFormed(shapes[n])
      PROVE  s[1].more /\ ~s[2].more
  <2>1. Len(shapes[n]) = 2
    BY <1>1 DEF WellFormed
  <2>2. s[1].more
    BY <1>1, <2>1, FrontFrames
  <2>3. s[2].more <=> 2 < Len(shapes[n])
    BY <1>1, <2>2, FrontFrames
  <2>4. QED
    BY <2>1, <2>2, <2>3
<1>2. CASE ~s[1].more
  BY <1>1, <1>2, FrontFrames DEF Fate, ZeroMQSubscriberReceive, Throw, Outcome
<1>3. CASE s[1].more /\ s[2].more /\ ~b
  <2>1. 2 \in 1..Len(s) /\ \A k \in 1..2 - 1 : s[k].more
    BY <1>3, FrontFrames
  <2>2. o = [taken |-> 2, frames |-> <<>>]
    BY <1>3 DEF ZeroMQSubscriberReceive, Throw, Outcome
  <2>3. s[1].pos = 1 => ~WellFormed(shapes[n])
    BY <1>1, <1>3
  <2>4. QED
    BY <2>1, <2>2, <2>3 DEF Fate
<1>4. CASE s[1].more /\ ~(s[2].more /\ ~b)
  <2> DEFINE last == SelectInSeq(s, LAMBDA f : ~f.more)
  <2>1. o = [taken |-> last, frames |-> SubSeq(s, 1, last)]
    BY <1>4 DEF ZeroMQSubscriberReceive, Outcome
  <2>2. last \in 1..Len(s) /\ ~s[last].more /\ \A k \in 1..last - 1 : s[k].more
    BY FirstWithoutMore DEF RecvInv
  <2> HIDE DEF last
  <2>3. SubSeq(s, 1, last) # <<>> /\ SubSeq(s, 1, last)[1] = s[1]
    BY <2>2 DEF RecvInv, StreamOK
  <2>4. QED
    BY <2>1, <2>2, <2>3 DEF Fate
<1>5. QED
  BY <1>2, <1>3, <1>4

(* The receive function that is being executed.                             *)
LEMMA ReceiveFate ==
  ASSUME RecvInv, Contiguous(stream), stream # <<>>, caller # "none"
  PROVE  Fate(Outcomes(caller, stream), stream)
<1>1. \/ caller = "zeromq_server_recv" /\ type = "Server"
      \/ caller \in {"zeromq_client_recv", "zeromq_sub_recv", "zeromq_sub_recv_multi"} /\ type # "Server"
  BY DEF RecvInv, TypeOK, Receivers
<1>2. QED
  BY <1>1, ServerFate, ClientFate, SubscriberFate DEF Outcomes

(* What is left of a stream after a receive function has been at it.        *)
LEMMA RestOfStream ==
  ASSUME RecvInv, StreamInv, stream # <<>>, NEW o, Fate(o, stream), shapes' = shapes,
         stream' = SubSeq(stream, o.taken + 1, Len(stream))
  PROVE  /\ Contiguous(stream)'
         /\ stream[o.taken].more => /\ stream' # <<>> /\ stream'[1].msg = stream[1].msg
                                    /\ stream'[1].pos > 1
         /\ ~stream[o.taken].more => /\ FirstLeft(stream)' = stream[1].msg + 1
                                     /\ stream' # <<>> => stream'[1].pos = 1
<1> DEFINE s == stream
           t == stream'
           n == o.taken
<1>1. StreamOK(s) /\ s \in Seq(Frames) /\ Len(s) \in Nat /\ n \in 1..Len(s) /\ 1 \in 1..Len(s)
  BY DEF RecvInv, StreamOK, Fate
<1>2. /\ t \in Seq(Frames) /\ Len(t) = Len(s) - n
      /\ \A i \in 1..Len(t) : t[i] = s[n + i]
  BY <1>1
<1>3. s[n].msg = s[1].msg
  <2>1. 1 <= n /\ n \in 1..Len(s) /\ \A k \in 1..n - 1 : s[k].more
    BY <1>1 DEF Fate
  <2> HIDE DEF n
  <2>2. QED
    BY <1>1, <2>1 DEF StreamOK, Chained
<1>4. /\ \A i \in 1..Len(s) : InShape(s[i])
      /\ \A i \in 1..Len(s) - 1 : Follow(s[i], s[i + 1])
      /\ s[Len(s)].msg = Len(shapes) /\ ~s[Len(s)].more
      /\ \A i, j \in 1..Len(s) : i <= j => s[i].msg <= s[j].msg
      /\ \A m \in s[1].msg..Len(shapes) : \E i \in 1..Len(s) : s[i].msg = m
  BY DEF StreamInv, Contiguous
<1>5. \A i \in 1..Len(s) : s[i].msg \in Nat /\ s[i].pos \in Nat
  <2>1. \A i \in 1..Len(s) : s[i] \in Frames
    BY <1>1
  <2>2. 1..MaxMessages \subseteq Nat
    BY ReceiveAssumption
  <2>3. QED
    BY <2>1, <2>2 DEF Frames
<1>6. Len(shapes) \in Nat
  BY DEF RecvInv, TypeOK
<1> HIDE DEF n, t
<1>7. \A i \in 1..Len(t) : n + i \in 1..Len(s) /\ t[i] = s[n + i]
  BY <1>1, <1>2
<1>8. \A i \in 1..Len(t) : InShape(t[i])
  BY <1>4, <1>7
<1>9. ASSUME NEW i \in 1..Len(t) - 1 PROVE Follow(t[i], t[i + 1])
  <2>1. i \in 1..Len(t) /\ i + 1 \in 1..Len(t) /\ n + i \in 1..Len(s) - 1 /\ n + (i + 1) = (n + i) + 1
    BY <1>1, <1>2
  <2>2. QED
    BY <1>4, <1>7, <2>1
<1>10. t # <<>> => Len(t) \in 1..Len(t) /\ n + Len(t) = Len(s)
  BY <1>1, <1>2
<1>11. t # <<>> => t[Len(t)].msg = Len(shapes) /\ ~t[Len(t)].more
  BY <1>4, <1>7, <1>10
<1>12. ASSUME NEW i \in 1..Len(t), NEW j \in 1..Len(t), i <= j PROVE t[i].msg <= t[j].msg
  <2>1. n + i \in 1..Len(s) /\ n + j \in 1..Len(s) /\ n + i <= n + j
    BY <1>1, <1>7, <1>12
  <2>2. QED
    BY <1>4, <1>7, <2>1
<1>13. ASSUME t # <<>>, NEW m \in t[1].msg..Len(shapes) PROVE \E i \in 1..Len(t) : t[i].msg = m
  <2>1. 1 \in 1..Len(t) /\ t[1] = s[n + 1] /\ n + 1 \in 1..Len(s)
    BY <1>2, <1>7, <1>13
  <2>2. CASE m = t[1].msg
    BY <2>1, <2>2
  <2>3. CASE m # t[1].msg
    <3>1. s[1].msg <= t[1].msg
      BY <1>1, <1>4, <2>1
    <3>2. m \in s[1].msg..Len(shapes) /\ m > t[1].msg
      BY <1>1, <1>5, <1>6, <2>1, <2>3, <3>1
    <3>3. PICK i \in 1..Len(s) : s[i].msg = m
      BY <1>4, <3>2
    <3>4. ~(i <= n + 1)
      <4>1. i <= n + 1 => s[i].msg <= s[n + 1].msg
        BY <1>4, <2>1
      <4>2. QED
        BY <1>5, <2>1, <3>2, <3>3, <4>1
    <3>5. i - n \in 1..Len(t) /\ n + (i - n) = i
      BY <1>1, <1>2, <3>4
    <3>6. QED
      BY <1>7, <3>3, <3>5
  <2>4. QED
    BY <2>2, <2>3
<1>14. Contiguous(stream)'
  <2>1. Contiguous(t)
    BY <1>8, <1>9, <1>11, <1>12, <1>13 DEF Contiguous
  <2>2. QED
    BY <2>1 DEF Contiguous, InShape, t
<1>15. ASSUME s[n].more PROVE t # <<>> /\ t[1].msg = s[1].msg /\ t[1].pos > 1
  <2>1. n # Len(s)
    BY <1>4, <1>15
  <2>2. n \in 1..Len(s) - 1 /\ 1 \in 1..Len(t) /\ t[1] = s[n + 1]
    BY <1>1, <1>2, <1>7, <2>1
  <2>3. Follow(s[n], s[n + 1])
    BY <1>4, <2>2
  <2>4. s[n].pos \in 1..Len(shapes[s[n].msg])
    BY <1>1, <1>4 DEF InShape
  <2>5. t # <<>>
    BY <2>2, <1>2
  <2>6. QED
    BY <1>1, <1>3, <1>5, <1>15, <2>2, <2>3, <2>4, <2>5 DEF Follow
<1>16. ASSUME ~s[n].more
       PROVE  FirstLeft(stream)' = s[1].msg + 1 /\ (t # <<>> => t[1].pos = 1)
  <2>1. CASE t = <<>>
    <3>1. n = Len(s)
      BY <1>1, <1>2, <2>1
    <3>2. FirstLeft(stream)' = Len(shapes) + 1
      BY <2>1 DEF FirstLeft, t
    <3>3. QED
      BY <1>3, <1>4, <2>1, <3>1, <3>2
  <2>2. CASE t # <<>>
    <3>1. n \in 1..Len(s) - 1 /\ 1 \in 1..Len(t) /\ t[1] = s[n + 1]
      BY <1>1, <1>2, <1>7, <2>2
    <3>2. Follow(s[n], s[n + 1])
      BY <1>4, <3>1
    <3>3. FirstLeft(stream)' = t[1].msg
      BY <2>2 DEF FirstLeft, t
    <3>4. QED
      BY <1>3, <1>16, <3>1, <3>2, <3>3 DEF Follow
  <2>3. QED
    BY <2>1, <2>2
<1>17. QED
  BY <1>14, <1>15, <1>16 DEF n, t

(* The frames of a message that arrives follow those on the stream.         *)
LEMMA ArrivalFollows ==
  ASSUME RecvInv, StreamInv, NEW shape \in Shapes[type], Arrive(shape)
  PROVE  /\ StreamInv' /\ FirstLeft(stream)' = FirstLeft(stream)
         /\ Len(shapes') = Len(shapes) + 1 /\ \A n \in 1..Len(shapes) : shapes'[n] = shapes[n]
<1> DEFINE m == [i \in 1..Len(shape) |-> Frame(Len(shapes'), i)]
           s == stream
           t == stream'
           N == Len(shapes')
           z == Len(shape)
<1>1. type \in DOMAIN Shapes /\ shape \in Seq({"empty", "data"}) /\ shape # <<>>
  BY ReceiveAssumption DEF RecvInv, TypeOK
<1>2. /\ shapes \in Seq(Shapes[type]) /\ shapes' = Append(shapes, shape)
      /\ stream' = stream \o m /\ type' = type /\ s \in Seq(Frames)
  BY DEF RecvInv, TypeOK, Arrive
<1>3. /\ N = Len(shapes) + 1 /\ Len(shapes) \in Nat /\ shapes'[N] = shape
      /\ \A n \in 1..Len(shapes) : shapes'[n] = shapes[n]
  BY <1>2
<1>4. z \in Nat /\ z >= 1
  BY <1>1
<1>5. ASSUME NEW i \in 1..z
      PROVE  /\ m[i].msg = N /\ m[i].pos = i /\ (m[i].more <=> i < z)
             /\ (m[i].empty <=> shapes'[N][i] = "empty")
  <2>1. m[i] = Frame(N, i)
    OBVIOUS
  <2>2. Frame(N, i).more <=> i < Len(shapes'[N])
    BY Zenon DEF Frame
  <2>3. Frame(N, i).empty <=> shapes'[N][i] = "empty"
    BY Zenon DEF Frame
  <2>4. Frame(N, i).msg = N /\ Frame(N, i).pos = i
    BY DEF Frame
  <2> HIDE DEF m
  <2>5. QED
    BY <1>3, <2>1, <2>2, <2>3, <2>4
<1>6. /\ Len(t) = Len(s) + z /\ Len(s) \in Nat
      /\ \A i \in 1..Len(s) : t[i] = s[i]
      /\ \A i \in 1..z : t[Len(s) + i] = m[i]
  <2> DEFINE T == {Frame(Len(shapes'), i) : i \in 1..z}
  <2>1. m \in Seq(T) /\ Len(m) = z
    BY <1>4
  <2>2. t = s \o m /\ s \in Seq(Frames) /\ Len(s) \in Nat
    BY <1>2
  <2> HIDE DEF m, z, t, T
  <2>3. /\ Len(s \o m) = Len(s) + Len(m)
        /\ \A i \in 1..Len(s) : (s \o m)[i] = s[i]
        /\ \A i \in 1..Len(m) : (s \o m)[Len(s) + i] = m[i]
    <3>1. s \in Seq(Frames \cup T) /\ m \in Seq(Frames \cup T)
      BY <2>1, <2>2
    <3>2. QED
      BY <3>1
  <2>4. QED
    BY <2>1, <2>2, <2>3
<1>7. /\ \A i \in 1..Len(s) : InShape(s[i]) /\ s[i].msg \in Nat
      /\ \A i \in 1..Len(s) - 1 : Follow(s[i], s[i + 1])
      /\ s # <<>> => s[Len(s)].msg = Len(shapes) /\ ~s[Len(s)].more
      /\ \A i, j \in 1..Len(s) : i <= j => s[i].msg <= s[j].msg
      /\ s # <<>> => \A k \in s[1].msg..Len(shapes) : \E i \in 1..Len(s) : s[i].msg = k
  BY DEF StreamInv, Contiguous, InShape
<1> HIDE DEF m, z, N, t
<1>8. \A i \in 1..Len(t) : i \in 1..Len(s) \/ (i - Len(s) \in 1..z /\ t[i] = m[i - Len(s)])
  <2>1. ASSUME NEW i \in 1..Len(t), i \notin 1..Len(s)
        PROVE  i - Len(s) \in 1..z /\ Len(s) + (i - Len(s)) = i
    BY <1>4, <1>6, <2>1
  <2>2. QED
    BY <1>6, <2>1
<1>9. ASSUME NEW i \in 1..Len(t) PROVE InShape(stream[i])'
  <2>1. CASE i \in 1..Len(s)
    <3>1. InShape(s[i]) /\ t[i] = s[i]
      BY <1>6, <1>7, <2>1
    <3>2. QED
      BY <1>3, <3>1 DEF InShape, N, t
  <2>2. CASE i - Len(s) \in 1..z /\ t[i] = m[i - Len(s)]
    <3>1. z = Len(shapes'[N]) /\ N \in 1..N
      BY <1>3 DEF z
    <3>2. /\ t[i].msg = N /\ t[i].pos \in 1..z /\ (t[i].more <=> t[i].pos < z)
          /\ (t[i].empty <=> shapes'[N][t[i].pos] = "empty")
      BY <1>5, <2>2
    <3>3. QED
      BY <3>1, <3>2 DEF InShape, N, t
  <2>3. QED
    BY <1>8, <2>1, <2>2
<1>10. ASSUME NEW i \in 1..Len(t) - 1 PROVE Follow(t[i], t[i + 1])
  <2>1. CASE i + 1 <= Len(s)
    <3>1. i \in 1..Len(s) - 1 /\ i \in 1..Len(s) /\ i + 1 \in 1..Len(s)
      BY <1>6, <2>1
    <3>2. QED
      BY <1>6, <1>7, <3>1
  <2>2. CASE i = Len(s)
    <3>1. i \in 1..Len(s) /\ s # <<>> /\ t[i] = s[Len(s)] /\ t[i + 1] = m[1] /\ 1 \in 1..z
      BY <1>4, <1>6, <2>2
    <3>2. QED
      BY <1>3, <1>5, <1>7, <3>1 DEF Follow
  <2>3. CASE i > Len(s)
    <3>1. /\ i - Len(s) \in 1..z /\ (i - Len(s)) + 1 \in 1..z /\ i - Len(s) < z
          /\ Len(s) + (i - Len(s)) = i /\ Len(s) + ((i - Len(s)) + 1) = i + 1
      BY <1>4, <1>6, <2>3
    <3>2. t[i] = m[i - Len(s)] /\ t[i + 1] = m[(i - Len(s)) + 1]
      BY <1>6, <3>1
    <3>3. QED
      BY <1>5, <3>1, <3>2 DEF Follow
  <2>4. QED
    BY <1>6, <2>1, <2>2, <2>3
<1>11. t[Len(t)].msg = N /\ ~t[Len(t)].more /\ Len(t) \in 1..Len(t)
  <2>1. z \in 1..z /\ t[Len(t)] = m[z] /\ ~(z < z)
    BY <1>4, <1>6
  <2>2. QED
    BY <1>4, <1>5, <1>6, <2>1
<1>12. ASSUME NEW i \in 1..Len(t), NEW j \in 1..Len(t), i <= j PROVE t[i].msg <= t[j].msg
  <2>1. CASE j \in 1..Len(s)
    <3>1. i \in 1..Len(s)
      BY <1>6, <1>12, <2>1
    <3>2. QED
      BY <1>6, <1>7, <1>12, <2>1, <3>1
  <2>2. CASE j - Len(s) \in 1..z /\ t[j] = m[j - Len(s)]
    <3>1. t[j].msg = N
      BY <1>5, <2>2
    <3>2. CASE i \in 1..Len(s)
      <4>1. s[i].msg \in 1..Len(shapes)
        BY <1>7, <3>2 DEF InShape
      <4>2. QED
        BY <1>3, <1>6, <3>1, <3>2, <4>1
    <3>3. CASE i - Len(s) \in 1..z /\ t[i] = m[i - Len(s)]
      <4>1. t[i].msg = N
        BY <1>5, <3>3
      <4>2. QED
        BY <1>3, <3>1, <4>1
    <3>4. QED
      BY <1>8, <3>2, <3>3
  <2>3. QED
    BY <1>8, <2>1, <2>2
<1>13. 1 \in 1..Len(t) /\ t # <<>>
       /\ t[1] = IF s = <<>> THEN m[1] ELSE s[1]
  <2>1. s = <<>> => Len(s) = 0
    OBVIOUS
  <2>2. s # <<>> => 1 \in 1..Len(s)
    BY <1>2
  <2>3. 1 \in 1..z /\ 1 \in 1..Len(t)
    BY <1>4, <1>6
  <2>4. t # <<>>
    BY <2>3
  <2>5. s = <<>> => t[1] = m[1]
    BY <1>6, <2>1, <2>3
  <2>6. QED
    BY <1>6, <2>2, <2>3, <2>4, <2>5
<1>14. FirstLeft(stream)' = FirstLeft(stream)
  <2>1. FirstLeft(stream)' = t[1].msg
    BY <1>13 DEF FirstLeft, t
  <2>2. s = <<>> => t[1].msg = Len(shapes) + 1
    BY <1>3, <1>4, <1>5, <1>13
  <2>3. QED
    BY <1>13, <2>1, <2>2 DEF FirstLeft
<1>15. ASSUME NEW k \in t[1].msg..N PROVE \E i \in 1..Len(t) : t[i].msg = k
  <2>1. CASE k = N
    BY <1>11, <2>1
  <2>2. CASE k # N
    <3>1. s # <<>>
      <4>1. SUFFICES ASSUME s = <<>> PROVE FALSE
        OBVIOUS
      <4>2. t[1].msg = N
        BY <1>4, <1>5, <1>13, <4>1
      <4>3. QED
        BY <1>3, <2>2, <4>2
    <3>2. k \in s[1].msg..Len(shapes)
      BY <1>3, <1>13, <2>2, <3>1
    <3>3. PICK i \in 1..Len(s) : s[i].msg = k
      BY <1>7, <3>1, <3>2
    <3>4. QED
      BY <1>4, <1>6, <3>3
  <2>3. QED
    BY <2>1, <2>2
<1>16. Contiguous(stream)'
  BY <1>9, <1>10, <1>11, <1>12, <1>15 DEF Contiguous, N, t
<1>17. ASSUME t # <<>>, t[1].pos > 1 PROVE ~WellFormed(shapes[stream[1].msg])'
  <2>1. s # <<>>
    <3>1. SUFFICES ASSUME s = <<>> PROVE FALSE
      OBVIOUS
    <3>2. t[1].pos = 1
      BY <1>4, <1>5, <1>13, <3>1
    <3>3. QED
      BY <1>17, <3>2
  <2>2. t[1] = s[1] /\ 1 \in 1..Len(s)
    BY <1>2, <1>13, <2>1
  <2>3. s[1].msg \in 1..Len(shapes)
    BY <1>7, <2>2 DEF InShape
  <2>4. ~WellFormed(shapes[s[1].msg])
    BY <1>17, <2>1, <2>2 DEF StreamInv
  <2>5. QED
    BY <1>2, <1>3, <2>2, <2>3, <2>4 DEF WellFormed, t
<1>18. QED
  BY <1>3, <1>14, <1>16, <1>17 DEF StreamInv, N, t

(* The result of a call, and the messages returned with it.                 *)
LEMMA ResultAppended ==
  ASSUME RecvInv, NEW frames, NEW code, NEW logged, Return(frames, code, logged)
  PROVE  LET N == Len(results) + 1 IN
         /\ Len(results) \in Nat /\ Len(results') = N /\ received' = <<>>
         /\ results'[N].frames = frames /\ results'[N].code = code /\ results'[N].logged = logged
         /\ \A k \in 1..Len(results) : results'[k] = results[k]
         /\ \A k : k \in Got' <=> k \in Got \/ (k = N /\ frames # <<>>)
         /\ Got \subseteq 1..Len(results)
<1> DEFINE r == [by |-> caller, frames |-> frames, code |-> code, logged |-> logged]
           N == Len(results) + 1
<1>1. results \in Seq(ResultTypes) /\ Len(results) \in Nat
  BY DEF RecvInv, TypeOK, ResultTypes
<1>2. results' = Append(results, r) /\ received' = <<>>
  BY DEF Return
<1>3. r.frames = frames /\ r.code = code /\ r.logged = logged
  OBVIOUS
<1> HIDE DEF r
<1>4. Len(results') = N /\ results'[N] = r /\ \A k \in 1..Len(results) : results'[k] = results[k]
  BY <1>1, <1>2
<1>5. \A k : k \in 1..N <=> k \in 1..Len(results) \/ k = N
  BY <1>1
<1>6. ASSUME NEW k PROVE k \in Got' <=> k \in Got \/ (k = N /\ frames # <<>>)
  <2>1. k \in Got' <=> k \in 1..N /\ results'[k].frames # <<>>
    BY <1>4 DEF Got
  <2>2. k \in Got <=> k \in 1..Len(results) /\ results[k].frames # <<>>
    BY DEF Got
  <2>3. CASE k \in 1..Len(results)
    <3>1. k # N
      BY <1>1, <2>3
    <3>2. QED
      BY <1>4, <1>5, <2>1, <2>2, <2>3, <3>1
  <2>4. CASE k \notin 1..Len(results)
    BY <1>3, <1>4, <1>5, <2>1, <2>2, <2>4
  <2>5. QED
    BY <2>3, <2>4
<1>7. QED
  BY <1>1, <1>2, <1>3, <1>4, <1>6 DEF Got

(* A message that is received (HelperFunctions.cpp:403-521).                *)
LEMMA ReceiveDelivers ==
  ASSUME RecvInv, StreamInv, DeliveryInv, ReceiveMessage
  PROVE  StreamInv' /\ DeliveryInv'
<1> DEFINE o == Outcomes(caller, stream)
           s == stream
           n == s[1].msg
           F == FirstLeft(stream)
           G == FirstLeft(stream)'
           N == Len(results) + 1
<1>1. /\ caller # "none" /\ s # <<>> /\ received = <<>>
      /\ type' = type /\ shapes' = shapes /\ stream' = SubSeq(s, o.taken + 1, Len(s))
  BY DEF ReceiveMessage
<1>2. \/ o.frames = <<>> /\ Return(<<>>, "INVALID_MESSAGE_FORMAT", FALSE)
      \/ o.frames # <<>> /\ Return(o.frames, "0", FALSE)
      \/ o.frames # <<>> /\ received' = o.frames /\ results' = results
  BY DEF ReceiveMessage
<1>3. Fate(o, s)
  BY <1>1, ReceiveFate DEF StreamInv
<1> HIDE DEF o
<1>4. /\ Contiguous(stream)'
      /\ s[o.taken].more => stream' # <<>> /\ stream'[1].msg = n /\ stream'[1].pos > 1
      /\ ~s[o.taken].more => G = n + 1 /\ (stream' # <<>> => stream'[1].pos = 1)
  BY <1>1, <1>3, RestOfStream
<1>5. F = n /\ n \in Nat /\ n >= 1 /\ InShape(s[1]) /\ s[1].pos \in Nat /\ s[1].pos >= 1
  <2>1. 1 \in 1..Len(s) /\ n \in 1..Len(shapes) /\ Len(shapes[n]) \in Nat /\ Len(shapes) \in Nat
    BY <1>1, FrontFrames DEF StreamInv, RecvInv, TypeOK
  <2>2. InShape(s[1])
    BY <2>1 DEF StreamInv, Contiguous
  <2>3. s[1].pos \in 1..Len(shapes[n])
    BY <2>2 DEF InShape
  <2>4. QED
    BY <1>1, <2>1, <2>2, <2>3 DEF FirstLeft
<1>6. o.frames = <<>> => ~WellFormed(shapes[n])
  BY <1>1, <1>3, <1>5 DEF Fate, StreamInv
<1>7. o.frames # <<>> => ~s[o.taken].more /\ o.frames[1].msg = n
  BY <1>3 DEF Fate
<1>8. s[o.taken].more => G = n
  BY <1>4 DEF FirstLeft
<1> HIDE DEF F, G
<1>9. (G = n \/ G = n + 1) /\ (o.frames # <<>> => G = n + 1)
  BY <1>4, <1>7, <1>8
<1>10. \A shape : WellFormed(shape)' <=> WellFormed(shape)
  BY <1>1 DEF WellFormed
<1>11. StreamInv'
  <2>1. SUFFICES ASSUME stream' # <<>>, stream'[1].pos > 1
                 PROVE  ~WellFormed(shapes[stream[1].msg])'
    BY <1>4 DEF StreamInv
  <2>2. s[o.taken].more
    BY <1>4, <2>1
  <2>3. ~WellFormed(shapes[n]) /\ stream'[1].msg = n
    BY <1>4, <1>6, <1>7, <2>2
  <2>4. QED
    BY <1>1, <1>10, <2>3
<1>12. \A m \in 1..n - 1 : WellFormed(shapes[m]) => \E k \in Got : MsgOf(results[k]) = m
  BY <1>1, <1>5 DEF DeliveryInv, Delivered, F
<1>13. \A k \in Got : MsgOf(results[k]) \in 1..n - 1
  BY <1>5 DEF DeliveryInv, F
<1>14. \A j, k \in Got : j < k => MsgOf(results[j]) < MsgOf(results[k])
  BY DEF DeliveryInv
<1>15. \A m \in 1..G - 1 : m \in 1..n - 1 \/ m = n
  BY <1>5, <1>9
<1>16. 1..n - 1 \subseteq 1..G - 1
  BY <1>5, <1>9
<1>17. CASE o.frames = <<>> /\ Return(<<>>, "INVALID_MESSAGE_FORMAT", FALSE)
  <2>1. Got' = Got /\ received' = <<>> /\ \A k \in Got : results'[k] = results[k]
    BY <1>17, ResultAppended
  <2>2. \A k \in Got : MsgOf(results'[k]) = MsgOf(results[k])
    BY <2>1 DEF MsgOf
  <2>3. \A m \in 1..G - 1 : WellFormed(shapes[m]) => \E k \in Got : MsgOf(results'[k]) = m
    BY <1>6, <1>12, <1>15, <1>17, <2>2
  <2>4. \A j, k \in Got : j < k => MsgOf(results'[j]) < MsgOf(results'[k])
    BY <1>14, <2>2
  <2>5. \A k \in Got : MsgOf(results'[k]) \in 1..G - 1
    BY <1>13, <1>16, <2>2
  <2>6. QED
    BY <1>1, <1>10, <1>11, <2>1, <2>3, <2>4, <2>5 DEF DeliveryInv, Delivered, G
<1>18. CASE o.frames # <<>> /\ Return(o.frames, "0", FALSE)
  <2>1. /\ \A k : k \in Got' <=> k \in Got \/ k = N
        /\ received' = <<>> /\ \A k \in 1..Len(results) : results'[k] = results[k]
        /\ results'[N].frames = o.frames /\ Len(results) \in Nat /\ Got \subseteq 1..Len(results)
    BY <1>18, ResultAppended
  <2>2. (\A k \in Got : MsgOf(results'[k]) = MsgOf(results[k])) /\ MsgOf(results'[N]) = n
    BY <1>7, <1>18, <2>1 DEF MsgOf
  <2>3. (\A k \in Got : k \in Nat /\ k < N) /\ N \in Nat
    BY <2>1
  <2> HIDE DEF N
  <2>4. \A m \in 1..G - 1 : WellFormed(shapes[m]) => \E k \in Got' : MsgOf(results'[k]) = m
    BY <1>12, <1>15, <2>1, <2>2
  <2>5. ASSUME NEW j \in Got', NEW k \in Got', j < k PROVE MsgOf(results'[j]) < MsgOf(results'[k])
    <3>1. j \in Got
      <4>1. (j \in Got \/ j = N) /\ (k \in Got \/ k = N)
        BY <2>1, <2>5
      <4> HIDE DEF Got
      <4>2. QED
        BY <2>3, <2>5, <4>1
    <3>2. CASE k \in Got
      BY <1>14, <2>2, <2>5, <3>1, <3>2
    <3>3. CASE k = N
      BY <1>5, <1>13, <2>2, <3>1, <3>3
    <3>4. QED
      BY <2>1, <3>2, <3>3
  <2>6. \A k \in Got' : MsgOf(results'[k]) \in 1..G - 1
    <3>1. n \in 1..G - 1
      BY <1>5, <1>9, <1>18
    <3>2. \A k \in Got : MsgOf(results[k]) \in 1..G - 1
      BY <1>13, <1>16
    <3> HIDE DEF n
    <3>3. QED
      BY <2>1, <2>2, <3>1, <3>2
  <2>7. QED
    BY <1>1, <1>10, <1>11, <2>1, <2>4, <2>5, <2>6 DEF DeliveryInv, Delivered, G
<1>19. CASE o.frames # <<>> /\ received' = o.frames /\ results' = results
  <2>1. Got' = Got
    BY <1>19 DEF Got
  <2>2. received' # <<>> /\ received'[1].msg = n
    BY <1>7, <1>19
  <2>3. \A m \in 1..G - 1 : WellFormed(shapes[m]) =>
          (\E k \in Got : MsgOf(results[k]) = m) \/ received'[1].msg = m
    BY <1>12, <1>15, <2>2
  <2>4. \A k \in Got : MsgOf(results[k]) \in 1..G - 1 /\ MsgOf(results[k]) < n
    BY <1>5, <1>13, <1>16
  <2>5. n \in 1..G - 1
    BY <1>5, <1>9, <1>19
  <2>6. QED
    BY <1>1, <1>10, <1>11, <1>14, <1>19, <2>1, <2>2, <2>3, <2>4, <2>5 DEF DeliveryInv, Delivered, G
<1>20. QED
  BY <1>2, <1>11, <1>17, <1>18, <1>19

(* A message that is logged and returned (ZeroMQ.cpp, the receive calls).   *)
LEMMA LogDelivers ==
  ASSUME RecvInv, StreamInv, DeliveryInv, LogMessage
  PROVE  StreamInv' /\ DeliveryInv'
<1> DEFINE n == received[1].msg
           F == FirstLeft(stream)
           N == Len(results) + 1
<1>1. received # <<>> /\ type' = type /\ stream' = stream /\ shapes' = shapes
  BY DEF LogMessage
<1>2. PICK outcome \in EntryOutcomes : Return(received, LogCode(outcome), TRUE)
  BY DEF LogMessage
<1>3. StreamInv' /\ FirstLeft(stream)' = F
  BY <1>1 DEF StreamInv, Contiguous, InShape, WellFormed, FirstLeft
<1>4. /\ \A k : k \in Got' <=> k \in Got \/ k = N
      /\ received' = <<>> /\ \A k \in 1..Len(results) : results'[k] = results[k]
      /\ results'[N].frames = received /\ Len(results) \in Nat /\ Got \subseteq 1..Len(results)
  <2>1. /\ Len(results) \in Nat /\ Len(results') = N /\ received' = <<>>
        /\ results'[N].frames = received
        /\ \A k \in 1..Len(results) : results'[k] = results[k]
        /\ \A k : k \in Got' <=> k \in Got \/ (k = N /\ received # <<>>)
        /\ Got \subseteq 1..Len(results)
    BY <1>2, ResultAppended
  <2>2. QED
    BY <1>1, <2>1
<1>5. (\A k \in Got : MsgOf(results'[k]) = MsgOf(results[k])) /\ MsgOf(results'[N]) = n
  BY <1>4 DEF MsgOf
<1>6. (\A k \in Got : k \in Nat /\ k < N) /\ N \in Nat
  <2>1. Len(results) \in Nat /\ Got \subseteq 1..Len(results)
    BY <1>4
  <2>2. QED
    BY <2>1
<1>7. \A shape : WellFormed(shape)' <=> WellFormed(shape)
  BY <1>1 DEF WellFormed
<1>8. /\ \A m \in 1..F - 1 : WellFormed(shapes[m]) => (\E k \in Got : MsgOf(results[k]) = m) \/ m = n
      /\ \A j, k \in Got : j < k => MsgOf(results[j]) < MsgOf(results[k])
      /\ \A k \in Got : MsgOf(results[k]) \in 1..F - 1 /\ MsgOf(results[k]) < n
      /\ n \in 1..F - 1
  BY <1>1 DEF DeliveryInv, Delivered
<1> HIDE DEF n, F, N
<1>9. \A m \in 1..F - 1 : WellFormed(shapes[m]) => \E k \in Got' : MsgOf(results'[k]) = m
  BY <1>4, <1>5, <1>8
<1>10. ASSUME NEW j \in Got', NEW k \in Got', j < k PROVE MsgOf(results'[j]) < MsgOf(results'[k])
  <2>1. j \in Got
    <3>1. (j \in Got \/ j = N) /\ (k \in Got \/ k = N)
      BY <1>4
    <3>2. QED
      BY <1>6, <1>10, <3>1
  <2>2. CASE k \in Got
    BY <1>5, <1>8, <1>10, <2>1, <2>2
  <2>3. CASE k = N
    BY <1>5, <1>8, <2>1, <2>3
  <2>4. QED
    BY <1>4, <2>2, <2>3
<1>11. \A k \in Got' : MsgOf(results'[k]) \in 1..F - 1
  BY <1>4, <1>5, <1>8
<1>12. DeliveryInv'
  BY <1>1, <1>3, <1>4, <1>7, <1>9, <1>10, <1>11 DEF DeliveryInv, Delivered
<1>13. QED
  BY <1>3, <1>12

(* A message that arrives is behind all that were there.                    *)
LEMMA ArriveDelivers ==
  ASSUME RecvInv, StreamInv, DeliveryInv, NEW shape \in Shapes[type], Arrive(shape)
  PROVE  StreamInv' /\ DeliveryInv'
<1> DEFINE F == FirstLeft(stream)
<1>1. type' = type /\ received' = received /\ results' = results
  BY DEF Arrive
<1>2. /\ StreamInv' /\ FirstLeft(stream)' = F
      /\ \A n \in 1..Len(shapes) : shapes'[n] = shapes[n]
  BY ArrivalFollows
<1>3. Len(shapes) \in Nat /\ F \in Nat /\ F <= Len(shapes) + 1
  <2>1. Len(shapes) \in Nat
    BY DEF RecvInv, TypeOK
  <2>2. stream # <<>> => stream[1].msg \in 1..Len(shapes)
    BY FrontFrames DEF StreamInv
  <2>3. QED
    BY <2>1, <2>2 DEF FirstLeft
<1> HIDE DEF F
<1>4. \A n \in 1..F - 1 : n \in 1..Len(shapes)
  BY <1>3
<1>5. \A n \in 1..F - 1 : WellFormed(shapes[n])' <=> WellFormed(shapes[n])
  BY <1>1, <1>2, <1>4 DEF WellFormed
<1>6. Got' = Got /\ \A n : Delivered(n)' <=> Delivered(n)
  BY <1>1 DEF Got, Delivered, MsgOf
<1>7. /\ \A n \in 1..F - 1 : WellFormed(shapes[n]) => Delivered(n)
      /\ \A j, k \in Got : j < k => MsgOf(results[j]) < MsgOf(results[k])
      /\ \A k \in Got : MsgOf(results[k]) \in 1..F - 1
      /\ received # <<>> => /\ received[1].msg \in 1..F - 1
                            /\ \A k \in Got : MsgOf(results[k]) < received[1].msg
  BY DEF DeliveryInv, F
<1>8. DeliveryInv'
  BY <1>1, <1>2, <1>5, <1>6, <1>7 DEF DeliveryInv
<1>9. QED
  BY <1>2, <1>8

(* What the stream holds, and what was made of the messages before it.      *)
LEMMA DeliveryInvHolds == Spec => [](StreamInv /\ DeliveryInv)
<1>1. Init => StreamInv /\ DeliveryInv
  <2> SUFFICES ASSUME Init PROVE StreamInv /\ DeliveryInv
    OBVIOUS
  <2>1. stream = <<>> /\ shapes = <<>> /\ received = <<>> /\ results = <<>>
    BY DEF Init
  <2>2. Len(stream) = 0 /\ Len(shapes) = 0 /\ Len(results) = 0
    BY <2>1
  <2>3. StreamInv /\ FirstLeft(stream) = 1
    BY <2>1, <2>2 DEF StreamInv, Contiguous, FirstLeft
  <2>4. Got = {}
    BY <2>2 DEF Got
  <2>5. QED
    BY <2>1, <2>3, <2>4 DEF DeliveryInv
<1>2. RecvInv /\ StreamInv /\ DeliveryInv /\ [Next]_vars => (StreamInv /\ DeliveryInv)'
  <2> SUFFICES ASSUME RecvInv, StreamInv, DeliveryInv, [Next]_vars PROVE StreamInv' /\ DeliveryInv'
    OBVIOUS
  <2>1. ASSUME NEW shape \in Shapes[type], Arrive(shape) PROVE StreamInv' /\ DeliveryInv'
    BY <2>1, ArriveDelivers
  <2>2. CASE ReceiveMessage
    BY <2>2, ReceiveDelivers
  <2>3. CASE LogMessage
    BY <2>3, LogDelivers
  <2>4. CASE UNCHANGED <<type, stream, shapes, received, results>>
    BY <2>4 DEF StreamInv, Contiguous, InShape, WellFormed, DeliveryInv, Delivered, FirstLeft, Got, MsgOf
  <2>5. QED
    BY <2>1, <2>2, <2>3, <2>4 DEF Next, Call, GiveUp, Abort, ChangeSettings, receiveVars, vars
<1>3. QED
  BY <1>1, <1>2, RecvInvHolds, PTL DEF Spec

(* No well-formed message is lost, none is returned twice or out of order,  *)
(* for any messages and settings: receives that throw take frames of the    *)
(* message that is at fault only (HelperFunctions.cpp:403-521).             *)
THEOREM MessagesDelivered == Spec => []WellFormedDelivered
<1>1. RecvInv /\ StreamInv /\ DeliveryInv => WellFormedDelivered
  <2> SUFFICES ASSUME RecvInv, StreamInv, DeliveryInv PROVE WellFormedDelivered
    OBVIOUS
  <2> DEFINE r   == [frames |-> received]
             all == Append(results, r)
             got == {k \in DOMAIN all : all[k].frames # <<>>}
             N   == Len(results) + 1
  <2>1. results \in Seq(ResultTypes) /\ Len(results) \in Nat /\ shapes \in Seq(Shapes[type]) /\ stream \in Seq(Frames)
    BY DEF RecvInv, TypeOK, ResultTypes
  <2>2. r.frames = received
    OBVIOUS
  <2> HIDE DEF r
  <2>3. DOMAIN all = 1..N /\ all[N] = r /\ \A k \in 1..Len(results) : all[k] = results[k]
    <3>1. results \in Seq(ResultTypes \cup {r})
      BY <2>1
    <3>2. QED
      BY <3>1
  <2> HIDE DEF all
  <2>4. \A k : k \in 1..N <=> k \in 1..Len(results) \/ k = N
    BY <2>1
  <2>5. Got \subseteq 1..Len(results) /\ \A k \in Got : k < N /\ k \in Nat
    BY <2>1 DEF Got
  <2>6. \A k : k \in got <=> k \in Got \/ (k = N /\ received # <<>>)
    <3> SUFFICES ASSUME NEW k PROVE k \in got <=> k \in Got \/ (k = N /\ received # <<>>)
      OBVIOUS
    <3>1. k \in got <=> k \in 1..N /\ all[k].frames # <<>>
      BY <2>3
    <3>2. CASE k \in 1..Len(results)
      <4>1. k # N
        BY <2>1, <3>2
      <4>2. QED
        BY <2>3, <2>4, <3>1, <3>2, <4>1 DEF Got
    <3>3. CASE k \notin 1..Len(results)
      BY <2>2, <2>3, <2>4, <3>1, <3>3 DEF Got
    <3>4. QED
      BY <3>2, <3>3
  <2>7. (\A k \in Got : MsgOf(all[k]) = MsgOf(results[k])) /\ (MsgOf(all[N]) = received[1].msg)
    BY <2>2, <2>3, <2>5 DEF MsgOf
  <2> HIDE DEF got, N
  <2>8. ASSUME NEW n \in DOMAIN shapes, \A i \in DOMAIN stream : stream[i].msg # n, WellFormed(shapes[n])
        PROVE  \E k \in got : MsgOf(all[k]) = n
    <3>1. n \in 1..Len(shapes) /\ Len(shapes) \in Nat /\ DOMAIN stream = 1..Len(stream)
      BY <2>1
    <3>2. n \in 1..FirstLeft(stream) - 1
      <4>1. CASE stream = <<>>
        BY <3>1, <4>1 DEF FirstLeft
      <4>2. CASE stream # <<>>
        <5>1. FirstLeft(stream) = stream[1].msg /\ stream[1].msg \in 1..Len(shapes)
          BY <4>2, FrontFrames DEF StreamInv, FirstLeft
        <5>2. n \notin stream[1].msg..Len(shapes)
          BY <2>8, <3>1, <4>2 DEF StreamInv, Contiguous
        <5>3. QED
          BY <3>1, <5>1, <5>2
      <4>3. QED
        BY <4>1, <4>2
    <3>3. Delivered(n)
      BY <2>8, <3>2 DEF DeliveryInv
    <3>4. QED
      BY <2>6, <2>7, <3>3 DEF Delivered
  <2>9. ASSUME NEW j \in got, NEW k \in got, j < k PROVE MsgOf(all[j]) < MsgOf(all[k])
    <3>1. N \in Nat
      BY <2>1 DEF N
    <3>2. j \in Got
      <4>1. (j \in Got \/ j = N) /\ (k \in Got \/ k = N)
        BY <2>6, <2>9
      <4>2. CASE k \in Got
        BY <2>5, <2>9, <3>1, <4>1, <4>2
      <4>3. CASE k = N
        BY <2>9, <3>1, <4>1, <4>3
      <4>4. QED
        BY <4>1, <4>2, <4>3
    <3>3. CASE k \in Got
      BY <2>7, <2>9, <3>2, <3>3 DEF DeliveryInv
    <3>4. CASE k = N /\ received # <<>>
      BY <2>7, <3>2, <3>4 DEF DeliveryInv
    <3>5. QED
      BY <2>6, <3>3, <3>4
  <2>10. QED
    BY <2>8, <2>9 DEF WellFormedDelivered, all, got, r
<1>2. QED
  BY <1>1, DeliveryInvHolds, RecvInvHolds, PTL
-----------------------------------------------------------------------------
(* The lines of the messages in the log *)

(* A line at the end of the log.                                            *)
LEMMA LineAdded ==
  ASSUME LogInv, NEW l, log' = Append(log, l)
  PROVE  LET M == Len(log) + 1 IN
         /\ M \in Nat /\ log'[M] = l /\ \A i \in 1..Len(log) : log'[i] = log[i]
         /\ \A i : i \in EntryLines' <=> i \in EntryLines \/ (i = M /\ l.kind = "entry")
         /\ \A i \in EntryLines : i \in 1..Len(log) /\ i < M
<1> DEFINE M == Len(log) + 1
<1>1. log \in Seq(Lines \cup {l}) /\ Len(log) \in Nat
  BY DEF LogInv, LogOK
<1>2. Len(log') = M /\ log'[M] = l /\ \A i \in 1..Len(log) : log'[i] = log[i]
  BY <1>1
<1>3. \A i : i \in 1..M <=> i \in 1..Len(log) \/ i = M
  BY <1>1
<1>4. \A i \in 1..Len(log) : i # M /\ i < M
  BY <1>1
<1>5. ASSUME NEW i PROVE i \in EntryLines' <=> i \in EntryLines \/ (i = M /\ l.kind = "entry")
  <2>1. i \in EntryLines' <=> i \in 1..M /\ log'[i].kind = "entry"
    BY <1>2 DEF EntryLines
  <2>2. i \in EntryLines <=> i \in 1..Len(log) /\ log[i].kind = "entry"
    BY DEF EntryLines
  <2>3. CASE i \in 1..Len(log)
    BY <1>2, <1>3, <1>4, <2>1, <2>2, <2>3
  <2>4. CASE i \notin 1..Len(log)
    BY <1>2, <1>3, <2>1, <2>2, <2>4
  <2>5. QED
    BY <2>3, <2>4
<1>6. \A i \in EntryLines : i \in 1..Len(log) /\ i < M
  BY <1>4 DEF EntryLines
<1>7. QED
  BY <1>1, <1>2, <1>5, <1>6

(* What AddLogEntry does to the log (Logging.cpp:103-129).                  *)
LEMMA EntryAdded ==
  ASSUME NEW n, NEW fromServer, NEW outcome \in EntryOutcomes, AddLogEntry(n, fromServer, outcome)
  PROVE  \/ log' = log /\ LogCode(outcome) # "0"
         \/ \E l : /\ log' = Append(log, l) /\ l.kind = "entry" /\ l.msg = n
                   /\ LogCode(outcome) = "0" => ~l.torn
<1> DEFINE l == LogEntry(n, fromServer)
           torn == [l EXCEPT !.torn = TRUE]
<1>1. l.kind = "entry" /\ l.msg = n /\ ~l.torn
  BY DEF LogEntry
<1>2. torn.kind = "entry" /\ torn.msg = n
  BY DEF LogEntry
<1>3. LogCode(outcome) = "0" <=> outcome = "ok"
  BY DEF LogCode, EntryOutcomes, WriteOutcomes
<1>4. log' = WriteIntoLogfile(log, l, outcome)
  BY DEF AddLogEntry
<1>5. CASE outcome \in {"ok", "close_failed"}
  <2>1. log' = Append(log, l)
    BY <1>4, <1>5 DEF WriteIntoLogfile
  <2>2. QED
    BY <1>1, <2>1
<1>6. CASE outcome = "torn"
  <2>1. log' = Append(log, torn)
    BY <1>4, <1>6 DEF WriteIntoLogfile
  <2> HIDE DEF torn
  <2>2. QED
    BY <1>2, <1>3, <1>6, <2>1
<1>7. CASE outcome \in {"no_file", "not_utf8"}
  BY <1>3, <1>4, <1>7 DEF WriteIntoLogfile
<1>8. QED
  BY <1>5, <1>6, <1>7 DEF EntryOutcomes, WriteOutcomes

(* A message that is logged and returned.                                   *)
LEMMA LogCompletes ==
  ASSUME RecvInv, LogInv, DeliveryInv, CompleteInv, LogMessage
  PROVE  CompleteInv'
<1> DEFINE n == received[1].msg
           N == Len(results) + 1
           M == Len(log) + 1
<1>1. received # <<>>
  BY DEF LogMessage
<1>2. PICK outcome \in EntryOutcomes :
        AddLogEntry(n, type = "Server", outcome) /\ Return(received, LogCode(outcome), TRUE)
  BY DEF LogMessage
<1> DEFINE code == LogCode(outcome)
<1>3. /\ Len(results) \in Nat /\ Len(results') = N
      /\ results'[N].frames = received /\ results'[N].code = code /\ results'[N].logged
      /\ \A k \in 1..Len(results) : results'[k] = results[k]
      /\ \A k : k \in Got' <=> k \in Got \/ (k = N /\ received # <<>>)
      /\ Got \subseteq 1..Len(results)
  BY <1>2, ResultAppended
<1>4. \/ log' = log /\ code # "0"
      \/ \E l : /\ log' = Append(log, l) /\ l.kind = "entry" /\ l.msg = n
                /\ code = "0" => ~l.torn
  BY <1>2, EntryAdded
<1>5. \A k \in Got : MsgOf(results[k]) < n /\ k \in 1..Len(results)
  BY <1>1, <1>3 DEF DeliveryInv
<1> HIDE DEF n, code
<1>6. \A k : k \in 1..N <=> k \in 1..Len(results) \/ k = N
  BY <1>3
<1>7. N \notin 1..Len(results)
  BY <1>3
<1> HIDE DEF N
<1>8. \A k : k \in Logged' <=> k \in Logged \/ (k = N /\ code = "0")
  <2> SUFFICES ASSUME NEW k PROVE k \in Logged' <=> k \in Logged \/ (k = N /\ code = "0")
    OBVIOUS
  <2>1. k \in Logged' <=> k \in 1..N /\ results'[k].logged /\ results'[k].code = "0"
    BY <1>3 DEF Logged
  <2>2. k \in Logged <=> k \in 1..Len(results) /\ results[k].logged /\ results[k].code = "0"
    BY DEF Logged
  <2>3. CASE k \in 1..Len(results)
    BY <1>3, <1>6, <1>7, <2>1, <2>2, <2>3
  <2>4. CASE k \notin 1..Len(results)
    BY <1>3, <1>6, <2>1, <2>2, <2>4
  <2>5. QED
    BY <2>3, <2>4
<1>9. /\ \A k \in 1..Len(results) : results[k].logged => results[k].frames # <<>>
      /\ \A i \in EntryLines : \E k \in Got : results[k].logged /\ log[i].msg = MsgOf(results[k])
      /\ \A i \in EntryLines : (\E k \in Logged : log[i].msg = MsgOf(results[k])) => ~log[i].torn
      /\ \A k \in Logged : \E i \in EntryLines : log[i].msg = MsgOf(results[k])
      /\ \A i, j \in EntryLines : i < j => log[i].msg < log[j].msg
  BY DEF CompleteInv
<1>10. \A k \in 1..N : results'[k].logged => results'[k].frames # <<>>
  BY <1>1, <1>3, <1>6, <1>9
<1>11. \A k \in Got : MsgOf(results'[k]) = MsgOf(results[k]) /\ results'[k] = results[k]
  BY <1>3, <1>5 DEF MsgOf
<1>12. MsgOf(results'[N]) = n /\ N \in Got' /\ Got \subseteq Got'
  BY <1>1, <1>3 DEF MsgOf, n
<1>13. Logged \subseteq Got
  BY <1>9 DEF Logged, Got
<1>14. \A i \in EntryLines : log[i].msg < n /\ \E k \in Got' : results'[k].logged /\ log[i].msg = MsgOf(results'[k])
  <2> SUFFICES ASSUME NEW i \in EntryLines
               PROVE  log[i].msg < n /\ \E k \in Got' : results'[k].logged /\ log[i].msg = MsgOf(results'[k])
    OBVIOUS
  <2>1. PICK k \in Got : results[k].logged /\ log[i].msg = MsgOf(results[k])
    BY <1>9
  <2>2. k \in Got' /\ results'[k].logged /\ log[i].msg = MsgOf(results'[k])
    BY <1>11, <1>12, <2>1
  <2>3. QED
    BY <1>5, <2>1, <2>2
<1>15. n \in Nat
  <2>1. received[1] \in Frames
    BY <1>1 DEF RecvInv, TypeOK
  <2>2. QED
    BY <2>1, ReceiveAssumption DEF Frames, n
<1>16. \A i \in EntryLines : (\E k \in Logged' : log[i].msg = MsgOf(results'[k])) => ~log[i].torn
  <2> SUFFICES ASSUME NEW i \in EntryLines, NEW k \in Logged', log[i].msg = MsgOf(results'[k])
               PROVE  ~log[i].torn
    OBVIOUS
  <2>1. CASE k \in Logged
    BY <1>9, <1>11, <1>13, <2>1
  <2>2. CASE k = N
    BY <1>12, <1>14, <1>15, <2>2
  <2>3. QED
    BY <1>8, <2>1, <2>2
<1>17. CASE log' = log /\ code # "0"
  <2>1. Logged' = Logged /\ EntryLines' = EntryLines
    BY <1>8, <1>17 DEF EntryLines
  <2>2. \A k \in Logged : \E i \in EntryLines : log[i].msg = MsgOf(results'[k])
    BY <1>9, <1>11, <1>13
  <2>3. QED
    BY <1>3, <1>9, <1>10, <1>14, <1>16, <1>17, <2>1, <2>2 DEF CompleteInv
<1>18. ASSUME NEW l, log' = Append(log, l), l.kind = "entry", l.msg = n, code = "0" => ~l.torn
       PROVE  CompleteInv'
  <2>1. /\ M \in Nat /\ log'[M] = l /\ \A i \in 1..Len(log) : log'[i] = log[i]
        /\ \A i : i \in EntryLines' <=> i \in EntryLines \/ i = M
        /\ \A i \in EntryLines : i \in 1..Len(log) /\ i < M /\ i \in Nat
    <3>1. /\ M \in Nat /\ log'[M] = l /\ \A i \in 1..Len(log) : log'[i] = log[i]
          /\ \A i : i \in EntryLines' <=> i \in EntryLines \/ (i = M /\ l.kind = "entry")
          /\ \A i \in EntryLines : i \in 1..Len(log) /\ i < M
      BY <1>18, LineAdded
    <3>2. 1..Len(log) \subseteq Nat
      BY DEF LogInv, LogOK
    <3> HIDE DEF M
    <3>3. QED
      BY <1>18, <3>1, <3>2
  <2> HIDE DEF M
  <2>2. \A i \in EntryLines : log'[i] = log[i]
    BY <2>1
  <2>3. \A i \in EntryLines' : \E k \in Got' : results'[k].logged /\ log'[i].msg = MsgOf(results'[k])
    <3>1. N \in Got' /\ results'[N].logged /\ log'[M].msg = MsgOf(results'[N])
      BY <1>3, <1>12, <1>18, <2>1
    <3>2. \A i \in EntryLines : \E k \in Got' : results'[k].logged /\ log'[i].msg = MsgOf(results'[k])
      BY <1>14, <2>2
    <3> HIDE DEF N
    <3>3. QED
      BY <2>1, <3>1, <3>2
  <2>4. ASSUME NEW i \in EntryLines', NEW k \in Logged', log'[i].msg = MsgOf(results'[k])
        PROVE  ~log'[i].torn
    <3>1. CASE i \in EntryLines
      BY <1>16, <2>2, <2>4, <3>1
    <3>2. CASE i = M
      <4>1. MsgOf(results'[k]) = n
        BY <1>18, <2>1, <2>4, <3>2
      <4>2. k \notin Logged
        BY <1>5, <1>11, <1>13, <1>15, <4>1
      <4>3. code = "0"
        BY <1>8, <4>2
      <4>4. QED
        BY <1>18, <2>1, <3>2, <4>3
    <3>3. QED
      BY <2>1, <3>1, <3>2
  <2>5. ASSUME NEW k \in Logged' PROVE \E i \in EntryLines' : log'[i].msg = MsgOf(results'[k])
    <3>1. CASE k \in Logged
      <4>1. PICK i \in EntryLines : log[i].msg = MsgOf(results[k])
        BY <1>9, <3>1
      <4>2. MsgOf(results'[k]) = MsgOf(results[k])
        BY <1>11, <1>13, <3>1
      <4>3. QED
        BY <2>1, <2>2, <4>1, <4>2
    <3>2. CASE k = N
      BY <1>12, <1>18, <2>1, <3>2
    <3>3. QED
      BY <1>8, <3>1, <3>2
  <2>6. ASSUME NEW i \in EntryLines', NEW j \in EntryLines', i < j PROVE log'[i].msg < log'[j].msg
    <3>1. i \in EntryLines
      <4>1. (i \in EntryLines \/ i = M) /\ (j \in EntryLines \/ j = M)
        BY <2>1
      <4>2. QED
        BY <2>1, <2>6, <4>1
    <3>2. CASE j \in EntryLines
      BY <1>9, <2>2, <2>6, <3>1, <3>2
    <3>3. CASE j = M
      BY <1>14, <1>18, <2>1, <2>2, <3>1, <3>3
    <3>4. QED
      BY <2>1, <3>2, <3>3
  <2>7. QED
    BY <1>3, <1>10, <2>3, <2>4, <2>5, <2>6 DEF CompleteInv
<1>19. QED
  BY <1>4, <1>17, <1>18

(* A result whose message is not logged.                                    *)
LEMMA UnloggedReturn ==
  ASSUME RecvInv, CompleteInv, NEW frames, NEW code, Return(frames, code, FALSE), log' = log
  PROVE  CompleteInv'
<1> DEFINE N == Len(results) + 1
<1>1. /\ Len(results) \in Nat /\ Len(results') = N /\ results'[N].logged = FALSE
      /\ \A k \in 1..Len(results) : results'[k] = results[k]
      /\ \A k : k \in Got' <=> k \in Got \/ (k = N /\ frames # <<>>)
      /\ Got \subseteq 1..Len(results)
  BY ResultAppended
<1>2. \A k : k \in 1..N <=> k \in 1..Len(results) \/ k = N
  BY <1>1
<1> HIDE DEF N
<1>3. Logged' = Logged
  BY <1>1, <1>2 DEF Logged
<1>4. EntryLines' = EntryLines
  BY DEF EntryLines
<1>5. /\ \A k \in 1..Len(results) : results[k].logged => results[k].frames # <<>>
      /\ \A i \in EntryLines : \E k \in Got : results[k].logged /\ log[i].msg = MsgOf(results[k])
      /\ \A i \in EntryLines : (\E k \in Logged : log[i].msg = MsgOf(results[k])) => ~log[i].torn
      /\ \A k \in Logged : \E i \in EntryLines : log[i].msg = MsgOf(results[k])
      /\ \A i, j \in EntryLines : i < j => log[i].msg < log[j].msg
  BY DEF CompleteInv
<1>6. Logged \subseteq 1..Len(results)
  BY DEF Logged
<1>7. \A k \in 1..Len(results) : MsgOf(results'[k]) = MsgOf(results[k])
  BY <1>1 DEF MsgOf
<1>8. \A k \in 1..N : results'[k].logged => results'[k].frames # <<>>
  BY <1>1, <1>2, <1>5
<1>9. \A i \in EntryLines : \E k \in Got' : results'[k].logged /\ log[i].msg = MsgOf(results'[k])
  BY <1>1, <1>5, <1>7
<1>10. /\ \A i \in EntryLines : (\E k \in Logged : log[i].msg = MsgOf(results'[k])) => ~log[i].torn
       /\ \A k \in Logged : \E i \in EntryLines : log[i].msg = MsgOf(results'[k])
  BY <1>5, <1>6, <1>7
<1>11. QED
  BY <1>1, <1>3, <1>4, <1>5, <1>8, <1>9, <1>10 DEF CompleteInv

(* Other threads put markers into the log only.                             *)
LEMMA SettingsKeepEntries ==
  ASSUME LogInv, ChangeSettings
  PROVE  EntryLines' = EntryLines /\ \A i \in EntryLines : log'[i] = log[i]
<1>1. ASSUME NEW l, l.kind = "marker", log' = Append(log, l)
      PROVE  EntryLines' = EntryLines /\ \A i \in EntryLines : log'[i] = log[i]
  <2>1. /\ \A i : i \in EntryLines' <=> i \in EntryLines
        /\ \A i \in EntryLines : log'[i] = log[i]
    <3>1. /\ \A i \in 1..Len(log) : log'[i] = log[i]
          /\ \A i : i \in EntryLines' <=> i \in EntryLines \/ (i = Len(log) + 1 /\ l.kind = "entry")
          /\ \A i \in EntryLines : i \in 1..Len(log)
      BY <1>1, LineAdded
    <3>2. QED
      BY <1>1, <3>1
  <2>2. QED
    BY <2>1
<1>2. CASE log' = log
  BY <1>2 DEF EntryLines
<1>3. ASSUME NEW t \in Templates, zeromq_set_logging_template(t), log' # log
      PROVE  \E l : l.kind = "marker" /\ log' = Append(log, l)
  <2> DEFINE torn == [Marker(t) EXCEPT !.torn = TRUE]
  <2>1. PICK outcome \in WriteOutcomes : log' = WriteIntoLogfile(log, Marker(t), outcome)
    BY <1>3 DEF zeromq_set_logging_template
  <2>2. Marker(t).kind = "marker" /\ torn.kind = "marker"
    BY DEF Marker
  <2>3. log' = Append(log, Marker(t)) \/ log' = Append(log, torn)
    BY <1>3, <2>1 DEF WriteIntoLogfile, WriteOutcomes
  <2> HIDE DEF torn
  <2>4. QED
    BY <2>2, <2>3
<1>4. log' = log \/ \E l : l.kind = "marker" /\ log' = Append(log, l)
  BY <1>3 DEF ChangeSettings, zeromq_set, SetFlag, ToggleIPV6Fails
<1>5. QED
  BY <1>1, <1>2, <1>4

(* The entries of the log agree with the results in every state.            *)
LEMMA CompleteInvHolds == Spec => []CompleteInv
<1>1. Init => CompleteInv
  <2> SUFFICES ASSUME Init PROVE CompleteInv
    OBVIOUS
  <2>1. results = <<>> /\ log = <<Marker(DEFAULT_TEMPLATE)>>
    BY DEF Init, SettingsInit
  <2>2. Marker(DEFAULT_TEMPLATE).kind = "marker"
    BY DEF Marker
  <2>3. 1..Len(results) = {} /\ Len(log) = 1 /\ log[1].kind = "marker"
    BY <2>1, <2>2
  <2>4. EntryLines = {} /\ Logged = {}
    BY <2>3 DEF EntryLines, Logged
  <2>5. QED
    BY <2>3, <2>4 DEF CompleteInv
<1>2. RecvInv /\ LogInv /\ StreamInv /\ DeliveryInv /\ CompleteInv /\ [Next]_vars => CompleteInv'
  <2> SUFFICES ASSUME RecvInv, LogInv, StreamInv, DeliveryInv, CompleteInv, [Next]_vars
               PROVE  CompleteInv'
    OBVIOUS
  <2>1. CASE LogMessage
    BY <2>1, LogCompletes
  <2>2. CASE ReceiveMessage
    <3>1. log' = log
      BY <2>2 DEF ReceiveMessage, settingsVars
    <3>2. \/ Return(<<>>, "INVALID_MESSAGE_FORMAT", FALSE)
          \/ \E frames : Return(frames, "0", FALSE)
          \/ results' = results
      BY <2>2 DEF ReceiveMessage
    <3>3. CASE results' = results
      BY <3>1, <3>3 DEF CompleteInv, EntryLines, Logged, Got, MsgOf
    <3>4. QED
      BY <3>1, <3>2, <3>3, UnloggedReturn
  <2>3. CASE ChangeSettings
    <3>1. EntryLines' = EntryLines /\ \A i \in EntryLines : log'[i] = log[i]
      BY <2>3, SettingsKeepEntries
    <3>2. results' = results
      BY <2>3 DEF ChangeSettings, receiveVars
    <3>3. Got' = Got /\ Logged' = Logged /\ \A r : MsgOf(r)' = MsgOf(r)
      BY <3>2 DEF Got, Logged, MsgOf
    <3>4. QED
      BY <3>1, <3>2, <3>3 DEF CompleteInv
  <2>4. CASE UNCHANGED <<log, results>>
    BY <2>4 DEF CompleteInv, EntryLines, Logged, Got, MsgOf
  <2>5. QED
    BY <2>1, <2>2, <2>3, <2>4 DEF Next, Arrive, Call, GiveUp, Abort, vars, settingsVars, receiveVars
<1>3. QED
  BY <1>1, <1>2, RecvInvHolds, LogInvHolds, DeliveryInvHolds, PTL DEF Spec

(* The log is complete and in order, for any messages, settings, templates  *)
(* and failing writes: an entry is written before its message is returned,  *)
(* and a write that fails is reported (ZeroMQ.cpp, the receive calls;       *)
(* Logging.cpp:103-156).                                                    *)
THEOREM LogIsComplete == Spec => []ReturnedIsLogged
<1>1. RecvInv /\ LogInv /\ DeliveryInv /\ CompleteInv => ReturnedIsLogged
  <2> SUFFICES ASSUME RecvInv, LogInv, DeliveryInv, CompleteInv PROVE ReturnedIsLogged
    OBVIOUS
  <2> DEFINE lines    == {i \in DOMAIN log : log[i].kind = "entry"}
             failing  == {x \in Range(results) : x.frames # <<>> /\ x.code # "0"}
             fine     == {x \in Range(results) : x.logged /\ x.code = "0"}
             returned == {MsgOf(r) : r \in fine}
             failed   == {MsgOf(r) : r \in failing}
             complete == {i \in lines : log[i].msg \notin failed}
  <2>1. lines = EntryLines
    BY DEF LogInv, LogOK, EntryLines
  <2>2. \A x : x \in Range(results) <=> \E k \in 1..Len(results) : x = results[k]
    BY DEF RecvInv, TypeOK, Range
  <2>3. \A m : m \in returned <=> \E k \in Logged : m = MsgOf(results[k])
    BY <2>2 DEF Logged
  <2>4. \A m : m \in failed <=> \E k \in Got : results[k].code # "0" /\ m = MsgOf(results[k])
    BY <2>2 DEF Got
  <2> HIDE DEF lines, failing, fine, returned, failed
  <2>5. \A i \in EntryLines : \E k \in Got : results[k].logged /\ log[i].msg = MsgOf(results[k])
    BY DEF CompleteInv
  <2>6. ASSUME NEW i \in complete PROVE \E k \in Logged : log[i].msg = MsgOf(results[k])
    <3>1. i \in EntryLines /\ log[i].msg \notin failed
      BY <2>1
    <3>2. PICK k \in Got : results[k].logged /\ log[i].msg = MsgOf(results[k])
      BY <2>5, <3>1
    <3>3. results[k].code = "0" /\ k \in 1..Len(results)
      BY <2>4, <3>1, <3>2 DEF Got
    <3>4. QED
      BY <3>2, <3>3 DEF Logged
  <2>7. ASSUME NEW k \in Logged PROVE \E i \in complete : log[i].msg = MsgOf(results[k])
    <3>1. PICK i \in EntryLines : log[i].msg = MsgOf(results[k])
      BY DEF CompleteInv
    <3>2. k \in Got /\ results[k].code = "0"
      BY DEF CompleteInv, Logged, Got
    <3>3. log[i].msg \notin failed
      <4>1. SUFFICES ASSUME NEW j \in Got, results[j].code # "0", MsgOf(results[k]) = MsgOf(results[j])
                     PROVE  FALSE
        BY <2>4, <3>1
      <4>2. j # k /\ j \in Nat /\ k \in Nat
        BY <3>2, <4>1 DEF Got, RecvInv, TypeOK
      <4>3. MsgOf(results[j]) < MsgOf(results[k]) \/ MsgOf(results[k]) < MsgOf(results[j])
        BY <3>2, <4>2 DEF DeliveryInv
      <4>4. MsgOf(results[k]) \in Int
        BY <3>2 DEF DeliveryInv
      <4>5. QED
        BY <4>1, <4>3, <4>4
    <3>4. QED
      BY <2>1, <3>1, <3>3
  <2>8. {log[i].msg : i \in complete} = returned
    <3> HIDE DEF complete
    <3>1. ASSUME NEW i \in complete PROVE log[i].msg \in returned
      BY <2>3, <2>6
    <3>2. ASSUME NEW m \in returned PROVE \E i \in complete : m = log[i].msg
      BY <2>3, <2>7
    <3>3. QED
      BY <3>1, <3>2
  <2>9. \A i, j \in lines : i < j => log[i].msg < log[j].msg
    BY <2>1 DEF CompleteInv
  <2>10. \A i \in complete : ~log[i].torn
    BY <2>1, <2>6 DEF CompleteInv
  <2>11. QED
    BY <2>8, <2>9, <2>10 DEF ReturnedIsLogged, lines, failing, fine, returned, failed
<1>2. QED
  BY <1>1, RecvInvHolds, LogInvHolds, DeliveryInvHolds, CompleteInvHolds, PTL
=============================================================================
