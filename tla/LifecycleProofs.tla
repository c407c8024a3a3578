--------------------------- MODULE LifecycleProofs ---------------------------
(* Safety of the notices, and of INIT, heartbeat and CLEANUP, for any       *)
(* threads and number of notices.                                           *)
EXTENDS Lifecycle, FiniteSetTheorems, SequenceTheorems, TLAPS

-----------------------------------------------------------------------------
(* The order of the notices *)

\* what NoticesKeptInOrder says of all notices that were output, with the
\* notices they have, without repetition, spelled out
Distinct(all) == \A i, j \in 1..Len(all) : i # j => all[i] # all[j]
Ordered(all, before) ==
  \A i, j \in 1..Len(all) : i < j => all[j] \notin before[all[i]]
Elements(all) == {all[i] : i \in 1..Len(all)}

Kept(all) ==
  /\ Distinct(all) /\ Ordered(all, after) /\ Elements(all) = done
  /\ IsFiniteSet(done) /\ Len(all) = Cardinality(done)

\* the notices that are being output
Pending ==
  /\ \A t \in Emitters : cur[t] # 0 => cur[t] \in 1..Len(after) /\ cur[t] \notin done
  /\ \A t, u \in Emitters : t # u /\ cur[t] # 0 => cur[t] # cur[u]

\* the main thread prints its own notice once all that returned before are in
\* the history; notices that are queued then have begun later, or overlap
MainFlushed ==
  /\ opc = "rest" => cur[Main] = 0
  /\ opc = "print" => cur[Main] # 0 /\ after[cur[Main]] \subseteq Elements(history)

NoticeInv ==
  /\ NoticeTypeOK
  /\ done \subseteq 1..Len(after)
  /\ \A n \in 1..Len(after) : after[n] \subseteq done
  /\ Pending /\ MainFlushed
  /\ Kept(history \o queue)

(* A notice that enters the output behind those that returned before it.    *)
LEMMA Inserted ==
  ASSUME NEW h \in Seq(Nat), NEW q \in Seq(Nat), NEW c \in Nat, NEW before, NEW D,
         Distinct(h \o q), Ordered(h \o q, before), Elements(h \o q) = D, c \notin D,
         \A n \in D : c \notin before[n],
         \A i \in 1..Len(q) : q[i] \notin before[c]
  PROVE  /\ Distinct(Append(h, c) \o q) /\ Ordered(Append(h, c) \o q, before)
         /\ Elements(Append(h, c) \o q) = D \cup {c}
<1> DEFINE all == h \o q
           new == Append(h, c) \o q
           p == Len(h) + 1
           old(k) == IF k < p THEN k ELSE k - 1
<1>1. /\ Len(all) = Len(h) + Len(q) /\ Len(new) = Len(h) + 1 + Len(q)
      /\ Len(h) \in Nat /\ Len(q) \in Nat
  OBVIOUS
<1>2. new[p] = c
  OBVIOUS
<1>3. \A k \in 1..Len(new) : k # p => old(k) \in 1..Len(all) /\ new[k] = all[old(k)]
  <2>1. ASSUME NEW k \in 1..Len(new), k < p PROVE k \in 1..Len(all) /\ new[k] = all[k]
    BY <1>1, <2>1
  <2>2. ASSUME NEW k \in 1..Len(new), k > p PROVE k - 1 \in 1..Len(all) /\ new[k] = all[k - 1]
    BY <1>1, <2>2
  <2> HIDE DEF all, new
  <2>3. QED
    BY <1>1, <2>1, <2>2
<1>4. \A k \in 1..Len(all) : \E i \in 1..Len(new) : i # p /\ old(i) = k
  <2>1. SUFFICES ASSUME NEW k \in 1..Len(all)
                 PROVE \E i \in 1..Len(new) : i # p /\ old(i) = k
    OBVIOUS
  <2>2. CASE k < p
    BY <1>1, <2>2
  <2>3. CASE k >= p
    <3>1. k + 1 \in 1..Len(new) /\ k + 1 # p /\ old(k + 1) = k
      BY <1>1, <2>3
    <3>2. QED
      BY <3>1
  <2>4. QED
    BY <2>2, <2>3, <1>1
<1>5. \A i, j \in 1..Len(new) : i # p /\ j # p /\ i < j => old(i) < old(j)
  BY <1>1
<1>6. \A k \in 1..Len(new) : k > p => new[k] = q[k - p] /\ k - p \in 1..Len(q)
  BY <1>1
<1>7. p \in 1..Len(new)
  BY <1>1
<1> HIDE DEF all, new, old, p
<1>8. \A k \in 1..Len(all) : all[k] \in D
  BY DEF all, Elements
<1>9. \A k \in 1..Len(new) : k # p => new[k] \in D /\ new[k] # c
  BY <1>3, <1>8
<1>10. Distinct(new)
  <2> SUFFICES ASSUME NEW i \in 1..Len(new), NEW j \in 1..Len(new), i < j
               PROVE  new[i] # new[j]
    BY <1>1 DEF Distinct
  <2>1. CASE i # p /\ j # p
    <3>1. old(i) # old(j) /\ old(i) \in 1..Len(all) /\ old(j) \in 1..Len(all)
      BY <1>1, <1>3, <1>5, <2>1
    <3>2. all[old(i)] # all[old(j)]
      BY <3>1 DEF Distinct, all
    <3>3. QED
      BY <3>2, <1>3, <2>1
  <2>2. CASE i = p \/ j = p
    BY <1>2, <1>9, <2>2
  <2>3. QED
    BY <2>1, <2>2
<1>11. Ordered(new, before)
  <2> SUFFICES ASSUME NEW i \in 1..Len(new), NEW j \in 1..Len(new), i < j
               PROVE  new[j] \notin before[new[i]]
    BY DEF Ordered
  <2>1. CASE i # p /\ j # p
    <3>1. old(i) < old(j) /\ old(i) \in 1..Len(all) /\ old(j) \in 1..Len(all)
      BY <1>3, <1>5, <2>1
    <3>2. all[old(j)] \notin before[all[old(i)]]
      BY <3>1 DEF Ordered, all
    <3>3. QED
      BY <3>2, <1>3, <2>1
  <2>2. CASE i = p
    BY <1>1, <1>2, <1>6, <1>7, <2>2
  <2>3. CASE j = p
    <3>1. i # p /\ new[i] \in D
      BY <1>7, <1>9, <2>3
    <3>2. QED
      BY <3>1, <1>2, <2>3
  <2>4. QED
    BY <2>1, <2>2, <2>3
<1>12. Elements(new) = D \cup {c}
  <2>1. Elements(all) = D
    BY DEF all
  <2>2. ASSUME NEW x \in D PROVE \E i \in 1..Len(new) : new[i] = x
    <3>1. PICK k \in 1..Len(all) : all[k] = x
      BY <2>1, Zenon DEF Elements
    <3>2. PICK i \in 1..Len(new) : i # p /\ old(i) = k
      BY <1>4
    <3>3. QED
      BY <3>1, <3>2, <1>3
  <2>3. D \cup {c} \subseteq Elements(new)
    BY <2>2, <1>2, <1>7, Zenon DEF Elements
  <2>4. Elements(new) \subseteq D \cup {c}
    BY <1>2, <1>9, Zenon DEF Elements
  <2>5. QED
    BY <2>3, <2>4
<1>13. QED
  BY <1>10, <1>11, <1>12 DEF new
-----------------------------------------------------------------------------
(* The steps of the notices *)

(* What the type of the variables says of their sequences.                  *)
LEMMA Sequences ==
  ASSUME NoticeInv
  PROVE  /\ queue \in Seq(Nat) /\ history \in Seq(Nat) /\ history \o queue \in Seq(Nat)
         /\ Len(after) \in Nat /\ MaxNotices \in Nat
         /\ done \subseteq Nat /\ Elements(history \o queue) = done
         /\ Main \in Emitters /\ Others \subseteq Emitters
<1>1. queue \in Seq(Nat) /\ history \in Seq(Nat)
  BY NoticeAssumption DEF NoticeInv, NoticeTypeOK
<1>2. MaxNotices \in Nat /\ Len(after) \in Nat /\ after \in Seq(SUBSET (1..MaxNotices))
  BY NoticeAssumption DEF NoticeInv, NoticeTypeOK
<1>3. done \subseteq 1..Len(after) /\ Elements(history \o queue) = done
  BY DEF NoticeInv, Kept
<1>4. QED
  BY <1>1, <1>2, <1>3 DEF Emitters

(* A call begins: what has returned is noted, nothing is output.            *)
LEMMA BeginStep ==
  ASSUME NoticeInv, NEW t \in Emitters, Begin(t), UNCHANGED <<queue, history, done>>,
         \/ t # Main /\ opc' = opc
         \/ t = Main /\ opc = "rest" /\ opc' = "flush"
  PROVE  NoticeInv'
<1> DEFINE n == Len(after) + 1
<1>1. /\ after \in Seq(SUBSET (1..MaxNotices)) /\ done \subseteq 1..MaxNotices
      /\ cur \in [Emitters -> 0..MaxNotices] /\ n \in 1..MaxNotices
  BY Sequences DEF NoticeInv, NoticeTypeOK, Begin
<1>2. after' = Append(after, done) /\ cur' = [cur EXCEPT ![t] = n]
  BY DEF Begin
<1>3. /\ after' \in Seq(SUBSET (1..MaxNotices)) /\ Len(after') = n /\ after'[n] = done
      /\ \A i \in 1..Len(after) : after'[i] = after[i]
  BY <1>1, <1>2
<1>4. /\ cur' \in [Emitters -> 0..MaxNotices] /\ cur'[t] = n /\ cur[t] = 0
      /\ \A u \in Emitters : u # t => cur'[u] = cur[u]
  BY <1>1, <1>2 DEF Begin
<1>5. done \subseteq 1..Len(after)
  BY DEF NoticeInv
<1>6. NoticeTypeOK'
  BY <1>3, <1>4 DEF NoticeInv, NoticeTypeOK
<1>7. done' \subseteq 1..Len(after')
  BY <1>1, <1>3, <1>5
<1>8. \A i \in 1..Len(after') : after'[i] \subseteq done'
  BY <1>1, <1>3 DEF NoticeInv
<1>9. Pending'
  <2>1. Pending
    BY DEF NoticeInv
  <2>2. n \notin done /\ n \notin 1..Len(after) /\ n # 0
    BY <1>1, <1>5
  <2>3. \A u \in Emitters : u # t /\ cur[u] # 0 => cur[u] \in 1..Len(after) /\ cur[u] # n
    BY <2>1, <2>2 DEF Pending
  <2>4. \A u \in Emitters : cur'[u] # 0 => cur'[u] \in 1..Len(after') /\ cur'[u] \notin done'
    BY <1>1, <1>3, <1>4, <2>1, <2>2, <2>3 DEF Pending
  <2>5. \A u, v \in Emitters : u # v /\ cur'[u] # 0 => cur'[u] # cur'[v]
    BY <1>4, <2>1, <2>2, <2>3 DEF Pending
  <2>6. QED
    BY <2>4, <2>5 DEF Pending
<1>10. MainFlushed'
  <2>1. CASE t # Main /\ opc' = opc
    <3>1. cur'[Main] = cur[Main]
      BY <1>4, <2>1 DEF Emitters
    <3>2. cur[Main] # 0 => after'[cur[Main]] = after[cur[Main]]
      BY <1>3, Sequences DEF NoticeInv, Pending
    <3>3. QED
      BY <2>1, <3>1, <3>2 DEF NoticeInv, MainFlushed, Elements
  <2>2. CASE opc' = "flush"
    BY <2>2 DEF MainFlushed
  <2>3. QED
    BY <2>1, <2>2
<1>11. Kept(history \o queue)'
  <2> DEFINE all == history \o queue
  <2>1. Kept(all) /\ all' = all
    BY DEF NoticeInv
  <2> HIDE DEF all
  <2>2. \A i \in 1..Len(all) : after'[all[i]] = after[all[i]]
    BY <2>1, <1>3, <1>5 DEF Kept, Elements
  <2>3. Ordered(all, after')
    BY <2>1, <2>2 DEF Kept, Ordered
  <2>4. Kept(all)'
    BY <2>1, <2>3 DEF Kept, Distinct, Elements
  <2>5. QED
    BY <2>4 DEF all
<1>12. QED
  BY <1>6, <1>7, <1>8, <1>9, <1>10, <1>11 DEF NoticeInv

\* notice n enters the output between h and q
Inserts(h, n, q) == history' \o queue' = Append(h, n) \o q

(* A call ends: its notice has entered the output.                          *)
LEMMA FinishStep ==
  ASSUME NoticeInv, NEW t \in Emitters, cur[t] # 0, Finish(t),
         queue' \in Seq(1..MaxNotices), history' \in Seq(1..MaxNotices),
         NEW h \in Seq(Nat), NEW q \in Seq(Nat),
         Kept(h \o q), Inserts(h, cur[t], q),
         \A i \in 1..Len(q) : q[i] \notin after[cur[t]],
         \/ t # Main /\ opc' = opc /\ history' = history
         \/ t = Main /\ opc' = "rest"
  PROVE  NoticeInv'
<1> DEFINE n == cur[t]
<1>1. /\ done' = done \cup {n} /\ cur' = [cur EXCEPT ![t] = 0] /\ after' = after
      /\ cur \in [Emitters -> 0..MaxNotices] /\ done \subseteq 1..MaxNotices
  BY DEF Finish, NoticeInv, NoticeTypeOK
<1>2. n \in 1..Len(after) /\ n \notin done /\ n \in 1..MaxNotices
  BY Sequences, <1>1 DEF NoticeInv, Pending
<1>3. /\ cur' \in [Emitters -> 0..MaxNotices] /\ cur'[t] = 0
      /\ \A u \in Emitters : u # t => cur'[u] = cur[u] /\ cur[u] # n
  <2>1. 0 \in 0..MaxNotices
    BY NoticeAssumption
  <2>2. \A u \in Emitters : u # t => cur[u] # n
    BY DEF NoticeInv, Pending
  <2>3. QED
    BY <1>1, <2>1, <2>2
<1>4. NoticeTypeOK'
  <2>1. opc' \in {"rest", "flush", "output", "print"}
    BY DEF NoticeInv, NoticeTypeOK
  <2>2. QED
    BY <1>1, <1>2, <1>3, <2>1 DEF NoticeInv, NoticeTypeOK
<1>5. Pending'
  <2>1. ASSUME NEW u \in Emitters, cur'[u] # 0
        PROVE  u # t /\ cur'[u] = cur[u] /\ cur[u] # 0
    BY <1>3, <2>1
  <2>2. ASSUME NEW u \in Emitters, cur'[u] # 0
        PROVE  cur'[u] \in 1..Len(after') /\ cur'[u] \notin done'
    BY <1>1, <1>3, <2>1, <2>2 DEF NoticeInv, Pending
  <2>3. ASSUME NEW u \in Emitters, NEW v \in Emitters, u # v, cur'[u] # 0
        PROVE  cur'[u] # cur'[v]
    BY <1>1, <1>3, <2>1, <2>3 DEF NoticeInv, Pending
  <2>4. QED
    BY <2>2, <2>3 DEF Pending
<1>6. MainFlushed'
  <2>1. CASE t # Main /\ opc' = opc /\ history' = history
    BY <1>1, <1>3, <2>1 DEF NoticeInv, MainFlushed, Elements, Emitters
  <2>2. CASE t = Main /\ opc' = "rest"
    BY <1>3, <2>2 DEF MainFlushed
  <2>3. QED
    BY <2>1, <2>2
<1>7. Kept(history \o queue)'
  <2> DEFINE new == Append(h, n) \o q
  <2>1. /\ Distinct(h \o q) /\ Ordered(h \o q, after) /\ Elements(h \o q) = done
        /\ IsFiniteSet(done) /\ Len(h \o q) = Cardinality(done)
    BY DEF Kept
  <2>2. \A m \in done : n \notin after[m]
    BY <1>2 DEF NoticeInv
  <2>3. /\ Distinct(new) /\ Ordered(new, after) /\ Elements(new) = done \cup {n}
        /\ Len(new) = Len(h \o q) + 1
    <3>1. n \in Nat
      BY <1>2
    <3>2. Len(new) = Len(h \o q) + 1
      BY <3>1
    <3> HIDE DEF n
    <3>3. \A i \in 1..Len(q) : q[i] \notin after[n]
      BY DEF n
    <3>4. n \notin done
      BY <1>2
    <3>5. Distinct(Append(h, n) \o q)
      BY <2>1, <2>2, <3>1, <3>3, <3>4, Inserted
    <3>6. Ordered(Append(h, n) \o q, after)
      BY <2>1, <2>2, <3>1, <3>3, <3>4, Inserted
    <3>7. Elements(Append(h, n) \o q) = done \cup {n}
      BY <2>1, <2>2, <3>1, <3>3, <3>4, Inserted
    <3>8. QED
      BY <3>2, <3>5, <3>6, <3>7
  <2>4. IsFiniteSet(done \cup {n}) /\ Cardinality(done \cup {n}) = Cardinality(done) + 1
    BY <1>2, <2>1, FS_AddElement
  <2> HIDE DEF new
  <2>5. /\ Distinct(new) /\ Ordered(new, after') /\ Elements(new) = done'
        /\ IsFiniteSet(done') /\ Len(new) = Cardinality(done')
    BY <1>1, <2>1, <2>3, <2>4
  <2>6. (history \o queue)' = new
    BY DEF new, Inserts
  <2>7. QED
    BY <2>5, <2>6 DEF Kept, Distinct, Ordered, Elements
<1>8. QED
  BY <1>1, <1>2, <1>4, <1>5, <1>6, <1>7 DEF NoticeInv

(* Push: the notice goes behind all others.                                 *)
LEMMA PushStep ==
  ASSUME NoticeInv, NEW t \in Others, Push(t)
  PROVE  NoticeInv'
<1> DEFINE h == history \o queue
           q == <<>>
<1>1. /\ t \in Emitters /\ t # Main /\ h \in Seq(Nat) /\ q \in Seq(Nat)
      /\ queue \in Seq(1..MaxNotices) /\ history \in Seq(1..MaxNotices)
  BY Sequences, NoticeAssumption DEF NoticeInv, NoticeTypeOK
<1>2. /\ cur[t] # 0 /\ Finish(t) /\ queue' = Append(queue, cur[t])
      /\ history' = history /\ opc' = opc
  BY DEF Push
<1>3. cur[t] \in 1..MaxNotices
  BY <1>1, <1>2, NoticeAssumption DEF NoticeInv, NoticeTypeOK
<1>4. queue' \in Seq(1..MaxNotices) /\ history' \in Seq(1..MaxNotices)
  BY <1>1, <1>2, <1>3
<1>5. h \o q = h
  BY <1>1
<1>6. Kept(h \o q)
  BY <1>5 DEF NoticeInv
<1>7. Inserts(h, cur[t], q)
  BY <1>1, <1>2, <1>3 DEF Inserts
<1>8. \A i \in 1..Len(q) : q[i] \notin after[cur[t]]
  OBVIOUS
<1> HIDE DEF h, q
<1>9. QED
  BY <1>1, <1>2, <1>4, <1>6, <1>7, <1>8, FinishStep

(* The main thread prints its notice: before those that are queued, which   *)
(* had not returned when it began.                                          *)
LEMMA PrintStep ==
  ASSUME NoticeInv, OutputToHistory
  PROVE  NoticeInv'
<1>1. /\ Main \in Emitters /\ history \in Seq(Nat) /\ queue \in Seq(Nat)
      /\ queue \in Seq(1..MaxNotices) /\ history \in Seq(1..MaxNotices)
  BY Sequences DEF NoticeInv, NoticeTypeOK
<1>2. /\ opc = "print" /\ Finish(Main) /\ queue' = queue /\ opc' = "rest"
      /\ history' = Append(history, cur[Main])
  BY DEF OutputToHistory
<1>3. cur[Main] # 0 /\ after[cur[Main]] \subseteq Elements(history)
  BY <1>2 DEF NoticeInv, MainFlushed
<1>4. cur[Main] \in 1..MaxNotices
  BY <1>1, <1>3, NoticeAssumption DEF NoticeInv, NoticeTypeOK
<1>5. queue' \in Seq(1..MaxNotices) /\ history' \in Seq(1..MaxNotices)
  BY <1>1, <1>2, <1>4
<1>6. Kept(history \o queue)
  BY DEF NoticeInv
<1>7. Inserts(history, cur[Main], queue)
  BY <1>2 DEF Inserts
<1>8. ASSUME NEW i \in 1..Len(queue) PROVE queue[i] \notin Elements(history)
  <2> DEFINE all == history \o queue
             n == Len(history) + i
  <2>1. n \in 1..Len(all) /\ all[n] = queue[i]
    BY <1>1
  <2>2. \A j \in 1..Len(history) : j \in 1..Len(all) /\ j # n /\ all[j] = history[j]
    BY <1>1
  <2> HIDE DEF all, n
  <2>3. \A j \in 1..Len(all) : j # n => all[j] # all[n]
    BY <1>6, <2>1 DEF Kept, Distinct, all
  <2>4. QED
    BY <2>1, <2>2, <2>3 DEF Elements
<1>9. \A i \in 1..Len(queue) : queue[i] \notin after[cur[Main]]
  BY <1>3, <1>8
<1>10. QED
  BY <1>1, <1>2, <1>3, <1>5, <1>6, <1>7, <1>9, FinishStep

(* Flushing moves the notices from the queue to the history, in order.      *)
LEMMA FlushStep ==
  ASSUME NoticeInv, FlushLock \/ FlushOne \/ FlushDone \/ Idle
  PROVE  NoticeInv'
<1>1. /\ queue \in Seq(1..MaxNotices) /\ history \in Seq(1..MaxNotices)
      /\ queue \in Seq(Nat) /\ history \in Seq(Nat)
  BY Sequences DEF NoticeInv, NoticeTypeOK
<1>2. UNCHANGED <<cur, done, after>>
  BY DEF FlushLock, FlushOne, FlushDone, Idle
<1>3. /\ queue' \in Seq(1..MaxNotices) /\ history' \in Seq(1..MaxNotices)
      /\ history' \o queue' = history \o queue
  <2>1. CASE FlushOne
    <3>1. history' = Append(history, Head(queue)) /\ queue' = Tail(queue) /\ queue # <<>>
      BY <2>1 DEF FlushOne
    <3> DEFINE new == Append(history, Head(queue)) \o Tail(queue)
               all == history \o queue
    <3>2. Head(queue) \in 1..MaxNotices /\ Tail(queue) \in Seq(1..MaxNotices)
      BY <1>1, <3>1, HeadTailProperties
    <3>3. new \in Seq(1..MaxNotices) /\ all \in Seq(1..MaxNotices) /\ Len(new) = Len(all)
      BY <1>1, <3>1, <3>2
    <3>4. \A i \in 1..Len(all) : new[i] = all[i]
      BY <1>1, <3>1, <3>2
    <3> HIDE DEF new, all
    <3>5. new = all
      BY <3>3, <3>4, SeqEqual
    <3>6. history' \o queue' = history \o queue
      BY <3>1, <3>5, Zenon DEF new, all
    <3>7. history' \in Seq(1..MaxNotices)
      BY <1>1, <3>1, <3>2
    <3>8. QED
      BY <3>1, <3>2, <3>6, <3>7
  <2>2. CASE FlushLock \/ FlushDone \/ Idle
    BY <1>1, <2>2 DEF FlushLock, FlushDone, Idle
  <2>3. QED
    BY <2>1, <2>2
<1>4. NoticeTypeOK'
  BY <1>2, <1>3 DEF NoticeInv, NoticeTypeOK, FlushLock, FlushOne, FlushDone, Idle
<1>5. Pending'
  BY <1>2 DEF NoticeInv, Pending
<1>6. MainFlushed'
  <2>1. CASE FlushDone /\ cur[Main] # 0
    <3>1. queue = <<>> /\ history' = history
      BY <2>1 DEF FlushDone
    <3>2. Elements(history) = done
      <4>1. history \o queue = history
        BY <1>1, <3>1
      <4>2. QED
        BY <4>1 DEF NoticeInv, Kept
    <3>3. after[cur[Main]] \subseteq done
      BY <2>1, Sequences DEF NoticeInv, Pending
    <3>4. opc' = "print" /\ cur' = cur /\ after' = after
      BY <1>2, <2>1 DEF FlushDone
    <3>5. Elements(history)' = Elements(history)
      BY <3>1 DEF Elements
    <3>6. after[cur[Main]] \subseteq Elements(history)
      BY <3>2, <3>3
    <3>7. QED
      BY <2>1, <3>4, <3>5, <3>6 DEF MainFlushed
  <2>2. CASE FlushDone /\ cur[Main] = 0
    BY <1>2, <2>2 DEF MainFlushed, FlushDone
  <2>3. CASE FlushLock \/ FlushOne \/ Idle
    BY <2>3 DEF MainFlushed, FlushLock, FlushOne, Idle
  <2>4. QED
    BY <2>1, <2>2, <2>3
<1>7. Kept(history \o queue)'
  BY <1>2, <1>3 DEF NoticeInv, Kept, Distinct, Ordered, Elements
<1>8. QED
  BY <1>2, <1>4, <1>5, <1>6, <1>7 DEF NoticeInv

(* Initially nothing was output.                                            *)
LEMMA NothingOutput == NoticeInit => NoticeInv
<1> SUFFICES ASSUME NoticeInit PROVE NoticeInv
  OBVIOUS
<1>1. /\ queue = <<>> /\ history = <<>> /\ history \o queue = <<>> /\ Len(<<>>) = 0
      /\ opc = "rest" /\ done = {} /\ after = <<>> /\ \A t \in Emitters : cur[t] = 0
      /\ cur \in [Emitters -> 0..MaxNotices]
  BY NoticeAssumption DEF NoticeInit
<1>2. NoticeTypeOK
  BY <1>1, NoticeAssumption DEF NoticeTypeOK
<1>3. Pending /\ MainFlushed
  BY <1>1 DEF Pending, MainFlushed, Emitters
<1>4. Kept(history \o queue)
  BY <1>1, FS_EmptySet DEF Kept, Distinct, Ordered, Elements
<1>5. QED
  BY <1>1, <1>2, <1>3, <1>4 DEF NoticeInv

(* What the invariant says of the notices that were output.                 *)
LEMMA InvKeepsOrder == NoticeInv => NoticesKeptInOrder
<1> SUFFICES ASSUME NoticeInv PROVE NoticesKeptInOrder
  OBVIOUS
<1> DEFINE all == history \o queue
<1>1. all \in Seq(Nat)
  BY Sequences
<1>2. Kept(all)
  BY DEF NoticeInv
<1> HIDE DEF all
<1>3. DOMAIN all = 1..Len(all)
  BY <1>1
<1>4. Range(all) = done
  BY <1>2, <1>3 DEF Kept, Elements, Range
<1>5. QED
  BY <1>2, <1>3, <1>4 DEF NoticesKeptInOrder, Kept, Ordered, all
-----------------------------------------------------------------------------
(* The end of the XOP *)

(* The heartbeat thread is joinable from XOPMain until CLEANUP has joined   *)
(* it, and the sockets are closed once it is gone.                          *)
CleanupInv ==
  /\ phase \in {"close", "unloaded"} => hpc = "none"
  /\ phase = "unloaded" => publisher = "none"

(* Only the heartbeat thread and the last two steps of CLEANUP touch what   *)
(* the invariant speaks about.                                              *)
LEMMA CleanupStep == CleanupInv /\ [Next]_vars => CleanupInv'
<1> SUFFICES ASSUME CleanupInv, [Next]_vars PROVE CleanupInv'
  OBVIOUS
<1> USE DEF CleanupInv, lifeVars, idleVars
<1>0. CASE XOPEntryIdle \/ IdleSteps
  BY <1>0 DEF XOPEntryIdle, IdleSteps, HandleAllQueuedMessages, HandleLogFailed, IdleDone
<1>1. CASE XOPMain \/ XOPMainFails \/ zeromq_pub_bind \/ zeromq_stop
  BY <1>1 DEF XOPMain, StartHeartbeat, XOPMainFails, zeromq_pub_bind, zeromq_stop
<1>2. CASE HeartbeatThread
  BY <1>2 DEF HeartbeatThread, HeartbeatInit, HeartbeatCheck, HeartbeatPoll, HeartbeatSend,
              HeartbeatSendThrows, HeartbeatSleep
<1>3. CASE HeartbeatReport
  BY <1>3 DEF HeartbeatReport
<1>4. CASE Cleanup \/ CleanupSteps
  BY <1>4 DEF Cleanup, CleanupSteps, StopHeartbeat, Joined, CloseConnections
<1>5. CASE UNCHANGED lifeVars
  BY <1>5
<1>6. CASE UNCHANGED vars
  BY <1>6 DEF vars
<1>7. QED
  BY <1>0, <1>1, <1>2, <1>3, <1>4, <1>5, <1>6 DEF Next, OtherOutput, MainBegins, MainGoesOn

(* After CLEANUP neither the heartbeat thread nor a socket is left          *)
(* (ZeroMQ.cpp:39-43).                                                      *)
THEOREM NothingLeft == Spec => []NothingAfterCleanup
<1>1. Init => CleanupInv
  BY DEF Init, CleanupInv
<1>2. CleanupInv => NothingAfterCleanup
  BY DEF CleanupInv, NothingAfterCleanup
<1>3. QED
  BY <1>1, <1>2, CleanupStep, PTL DEF Spec
-----------------------------------------------------------------------------
(* Only the steps of Notices touch its variables.                           *)
LEMMA NoticeStep == NoticeInv /\ [Next]_vars => NoticeInv'
<1> SUFFICES ASSUME NoticeInv, [Next]_vars PROVE NoticeInv'
  OBVIOUS
<1>1. Main \in Emitters /\ Others \subseteq Emitters /\ Main \notin Others
  BY NoticeAssumption DEF Emitters
<1>2. ASSUME NEW t \in Others, BeginOther(t) PROVE NoticeInv'
  BY <1>1, <1>2, BeginStep DEF BeginOther
<1>3. CASE BeginMain
  BY <1>1, <1>3, BeginStep DEF BeginMain
<1>4. CASE MainOutput
  BY <1>4, FlushStep, PrintStep DEF MainOutput
<1>5. CASE HandleAllQueuedMessages
  BY <1>5, FlushStep DEF HandleAllQueuedMessages
<1>6. CASE UNCHANGED noticeVars
  <2>1. UNCHANGED <<queue, history, cur, opc, done, after>>
    BY <1>6 DEF noticeVars
  <2>2. NoticeTypeOK' /\ Pending' /\ MainFlushed'
    BY <2>1 DEF NoticeInv, NoticeTypeOK, Pending, MainFlushed, Elements
  <2>3. Kept(history \o queue)'
    BY <2>1 DEF NoticeInv, Kept, Distinct, Ordered, Elements
  <2>4. QED
    BY <2>1, <2>2, <2>3 DEF NoticeInv
<1>7. CASE HeartbeatThread \/ HeartbeatReport
  BY <1>2, <1>6, <1>7, PushStep, HeartbeatAssumption
     DEF HeartbeatThread, HeartbeatInit, HeartbeatCheck, HeartbeatPoll, HeartbeatSend,
         HeartbeatSendThrows, HeartbeatReport, HeartbeatSleep
<1>8. CASE \E t \in Others : OtherOutput(t)
  BY <1>2, <1>8, PushStep DEF OtherOutput
<1>9. CASE \/ XOPMain \/ XOPMainFails \/ zeromq_pub_bind \/ zeromq_stop \/ Cleanup \/ CleanupSteps
           \/ XOPEntryIdle \/ HandleLogFailed \/ IdleDone
  BY <1>6, <1>9 DEF XOPMain, XOPMainFails, zeromq_pub_bind, zeromq_stop, Cleanup, CleanupSteps,
                    StopHeartbeat, Joined, CloseConnections, XOPEntryIdle, HandleLogFailed, IdleDone
<1>10. CASE UNCHANGED vars
  BY <1>6, <1>10 DEF vars
<1>11. QED
  BY <1>3, <1>4, <1>5, <1>7, <1>8, <1>9, <1>10
     DEF Next, IdleSteps, MainBegins, MainGoesOn

(* Notices are in the history once and in order, or wait for it, whichever  *)
(* threads output them and while INIT, heartbeat and CLEANUP go on          *)
(* (ConcurrentXOPNotice.h:10-12).                                           *)
THEOREM NoticesOrdered == Spec => []NoticesKeptInOrder
<1>1. Init => NoticeInv
  BY NothingOutput DEF Init
<1>2. QED
  BY <1>1, NoticeStep, InvKeepsOrder, PTL DEF Spec

(* Every variable keeps its type.                                           *)
THEOREM LifecycleTypeCorrect == Spec => []TypeOK
<1> DEFINE Types == NoticeInv /\ TypeOK
<1>1. Init => Types
  BY NothingOutput DEF Init, TypeOK, NoticeInv
<1>2. Types /\ [Next]_vars => Types'
  <2> SUFFICES ASSUME NoticeInv, TypeOK, [Next]_vars PROVE Types'
    OBVIOUS
  <2>1. NoticeInv' /\ NoticeTypeOK'
    BY NoticeStep DEF NoticeInv
  <2>2. CASE XOPMain \/ XOPMainFails \/ zeromq_pub_bind \/ zeromq_stop
    BY <2>1, <2>2 DEF TypeOK, XOPMain, StartHeartbeat, XOPMainFails, zeromq_pub_bind, zeromq_stop,
                      idleVars
  <2>3. CASE HeartbeatThread \/ HeartbeatReport
    BY <2>1, <2>3 DEF TypeOK, HeartbeatThread, HeartbeatInit, HeartbeatCheck, HeartbeatPoll,
                      HeartbeatSend, HeartbeatSendThrows, HeartbeatReport, HeartbeatSleep, Fetched,
                      idleVars
  <2>4. CASE Cleanup \/ CleanupSteps
    BY <2>1, <2>4 DEF TypeOK, Cleanup, CleanupSteps, StopHeartbeat, Joined, CloseConnections,
                      idleVars
  <2>5. CASE UNCHANGED lifeVars
    BY <2>1, <2>5 DEF TypeOK, lifeVars, idleVars
  <2>6. CASE XOPEntryIdle \/ IdleSteps
    BY <2>1, <2>6 DEF TypeOK, XOPEntryIdle, IdleSteps, HandleAllQueuedMessages, HandleLogFailed,
                      IdleDone
  <2>7. QED
    BY <2>2, <2>3, <2>4, <2>5, <2>6 DEF Next, vars, OtherOutput, MainBegins, MainGoesOn
<1>3. QED
  BY <1>1, <1>2, PTL DEF Spec
=============================================================================
