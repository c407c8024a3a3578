----------------------- MODULE RequestInterfaceProofs ------------------------
(* Proofs for RequestInterface, for any documents, widths and lengths.      *)
EXTENDS RequestInterface, FiniteSetTheorems, SequenceTheorems, WellFoundedInduction, TLAPS

-----------------------------------------------------------------------------
(* The checks of the constructors *)

(* A nonempty set of natural numbers has a least element.                   *)
LEMMA LeastElement ==
  ASSUME NEW S \in SUBSET Nat, S # {}
  PROVE  Min(S) \in S /\ \A y \in S : Min(S) <= y
<1>1. PICK m \in S : \A y \in S : ~ (<<y, m>> \in OpToRel(<, Nat))
  BY NatLessThanWellFounded, WFMin
<1>2. ASSUME NEW y \in S PROVE m <= y
  <2>1. ~ (<<y, m>> \in OpToRel(<, Nat))
    BY <1>1
  <2>2. ~ (y < m)
    BY <2>1, Zenon DEF OpToRel
  <2>3. QED
    BY <2>2
<1>3. QED
  BY <1>2 DEF Min

\* the first of the checks that fails
FirstOf(checks, k) == checks[k].fails /\ \A j \in 1..k - 1 : ~checks[j].fails

(* FirstFailure finds it.                                                   *)
LEMMA FirstFailing ==
  ASSUME NEW checks, Len(checks) \in Nat
  PROVE  \/ /\ FirstFailure(checks) = "REQ_SUCCESS"
            /\ \A k \in 1..Len(checks) : ~checks[k].fails
         \/ \E k \in 1..Len(checks) : FirstOf(checks, k) /\ FirstFailure(checks) = checks[k].code
<1> DEFINE I == {i \in 1..Len(checks) : checks[i].fails}
           m == SelectInSeq(checks, LAMBDA c : c.fails)
<1>1. CASE I = {}
  <2>1. m = 0
    BY <1>1, Zenon DEF SelectInSeq
  <2>2. FirstFailure(checks) = "REQ_SUCCESS"
    BY <2>1, Zenon DEF FirstFailure
  <2>3. QED
    BY <1>1, <2>2
<1>2. CASE I # {}
  <2>1. I \in SUBSET Nat
    OBVIOUS
  <2>2. Min(I) \in I /\ \A y \in I : Min(I) <= y
    BY <1>2, <2>1, LeastElement
  <2>3. m = Min(I)
    BY <1>2, Zenon DEF SelectInSeq
  <2> DEFINE k == Min(I)
  <2>4. k # 0 /\ k \in 1..Len(checks) /\ checks[k].fails
    BY <2>2
  <2>5. FirstFailure(checks) = checks[k].code
    BY <2>3, <2>4, Zenon DEF FirstFailure
  <2> HIDE DEF k
  <2>6. ASSUME NEW j \in 1..k - 1 PROVE ~checks[j].fails
    <3>1. j \in 1..Len(checks) /\ ~(k <= j)
      BY <2>4
    <3>2. QED
      BY <2>2, <3>1 DEF k
  <2>7. QED
    BY <2>4, <2>5, <2>6 DEF FirstOf
<1>3. QED
  BY <1>1, <1>2

(* All the checks of a document, one after the other.                       *)
LEMMA AllChecks ==
  ASSUME NEW d
  PROVE  LET c == RequestChecks(d) \o OperationChecks(d) IN
         /\ Len(c) = 12
         /\ c[1] = Check(~d.json, "REQ_INVALID_JSON_OBJECT")
         /\ c[2] = Check(d.version.kind # "right", "REQ_INVALID_VERSION")
         /\ c[3] = Check(GetInt(d.version.val) # 1, "REQ_INVALID_VERSION")
         /\ c[4] = Check(d.messageID.kind = "wrong", "REQ_INVALID_MESSAGEID")
         /\ c[5] = Check(d.messageID.kind = "right" /\ ~IsValidMessageId(d.messageID.val), "REQ_INVALID_MESSAGEID")
         /\ c[6] = Check(d.call # "object", "REQ_INVALID_OPERATION")
         /\ c[7] = Check(Size(d) \notin {1, 2}, "REQ_INVALID_OPERATION_FORMAT")
         /\ c[8] = Check(d.name.kind # "right", "REQ_INVALID_OPERATION_FORMAT")
         /\ c[9] = Check(d.name.val = 0, "REQ_NON_EXISTING_FUNCTION")
         /\ c[10] = Check(d.params = "absent" /\ Size(d) # 1, "REQ_INVALID_OPERATION_FORMAT")
         /\ c[11] = Check(d.params = "wrong", "REQ_INVALID_PARAM_FORMAT")
         /\ c[12] = Check("other" \in Range(d.elems), "REQ_INVALID_PARAM_FORMAT")
<1> DEFINE r == RequestChecks(d)
           o == OperationChecks(d)
<1>1. /\ Len(r) = 6 /\ DOMAIN r = 1..6
      /\ r[1] = Check(~d.json, "REQ_INVALID_JSON_OBJECT")
      /\ r[2] = Check(d.version.kind # "right", "REQ_INVALID_VERSION")
      /\ r[3] = Check(GetInt(d.version.val) # 1, "REQ_INVALID_VERSION")
      /\ r[4] = Check(d.messageID.kind = "wrong", "REQ_INVALID_MESSAGEID")
      /\ r[5] = Check(d.messageID.kind = "right" /\ ~IsValidMessageId(d.messageID.val), "REQ_INVALID_MESSAGEID")
      /\ r[6] = Check(d.call # "object", "REQ_INVALID_OPERATION")
  BY DEF RequestChecks
<1>2. /\ Len(o) = 6 /\ DOMAIN o = 1..6
      /\ o[1] = Check(Size(d) \notin {1, 2}, "REQ_INVALID_OPERATION_FORMAT")
      /\ o[2] = Check(d.name.kind # "right", "REQ_INVALID_OPERATION_FORMAT")
      /\ o[3] = Check(d.name.val = 0, "REQ_NON_EXISTING_FUNCTION")
      /\ o[4] = Check(d.params = "absent" /\ Size(d) # 1, "REQ_INVALID_OPERATION_FORMAT")
      /\ o[5] = Check(d.params = "wrong", "REQ_INVALID_PARAM_FORMAT")
      /\ o[6] = Check("other" \in Range(d.elems), "REQ_INVALID_PARAM_FORMAT")
  BY DEF OperationChecks
<1> DEFINE T == {r[i] : i \in 1..6} \cup {o[i] : i \in 1..6}
<1>3. r \in Seq(T) /\ o \in Seq(T)
  <2>1. r = [i \in 1..6 |-> r[i]] /\ o = [i \in 1..6 |-> o[i]]
    BY <1>1, <1>2 DEF RequestChecks, OperationChecks
  <2> HIDE DEF r, o
  <2>2. QED
    BY <2>1
<1> HIDE DEF r, o, T
<1> DEFINE c == r \o o
<1>4. Len(c) = 12 /\ \A i \in 1..12 : c[i] = IF i <= 6 THEN r[i] ELSE o[i - 6]
  <2>1. /\ Len(r \o o) = Len(r) + Len(o)
        /\ \A i \in 1..Len(r) + Len(o) : (r \o o)[i] = IF i <= Len(r) THEN r[i] ELSE o[i - Len(r)]
    BY <1>3, ConcatProperties
  <2>2. Len(r) = 6 /\ Len(o) = 6
    BY <1>1, <1>2
  <2>3. Len(r) + Len(o) = 12
    BY <2>2
  <2>4. QED
    BY <2>1, <2>2, <2>3
<1> HIDE DEF c
<1>5. c[1] = r[1] /\ c[2] = r[2] /\ c[3] = r[3] /\ c[4] = r[4] /\ c[5] = r[5] /\ c[6] = r[6]
  BY <1>4
<1>6. c[7] = o[1] /\ c[8] = o[2] /\ c[9] = o[3] /\ c[10] = o[4] /\ c[11] = o[5] /\ c[12] = o[6]
  BY <1>4
<1>7. QED
  BY <1>1, <1>2, <1>4, <1>5, <1>6 DEF r, o, c

(* An entry of a document, by its kind.                                     *)
LEMMA EntryCases ==
  ASSUME NEW S, NEW e \in Entries(S)
  PROVE  \/ e = Absent /\ e.kind = "absent" /\ e.val = 0
         \/ e = Wrong /\ e.kind = "wrong" /\ e.val = 0
         \/ e = Right(e.val) /\ e.kind = "right" /\ e.val \in S
  BY DEF Entries, Absent, Wrong, Right

(* The truncation to an int makes a 1 of the numbers that are 1 in the bits *)
(* of an int, and of no others (RequestInterface.cpp:100).                  *)
LEMMA TruncatedToOne ==
  ASSUME NEW n \in Int
  PROVE  GetInt(n) = 1 <=> n % Ints = 1
<1>1. MaxInt \in Nat /\ MaxInt >= 1 /\ Ints \in Nat /\ Ints = 2 * MaxInt + 2
  BY DocumentAssumption DEF Ints
<1> HIDE DEF Ints
<1>2. n % Ints \in 0..Ints - 1
  BY <1>1
<1> DEFINE m == n % Ints
<1>3. GetInt(n) = IF m > MaxInt THEN m - Ints ELSE m
  BY DEF GetInt
<1> HIDE DEF m
<1>4. QED
  BY <1>1, <1>2, <1>3 DEF m

(* The complaints, one by one.                                              *)
LEMMA ComplaintCases ==
  ASSUME NEW d, NEW code
  PROVE  code \in Complaints(d) <=>
           \/ code = "REQ_INVALID_JSON_OBJECT" /\ ~d.json
           \/ code = "REQ_INVALID_VERSION" /\ d.json /\ (d.version.kind # "right" \/ d.version.val % Ints # 1)
           \/ code = "REQ_INVALID_MESSAGEID" /\ d.messageID # Absent
                /\ d.messageID \notin {Right(n) : n \in 1..MaxIdLength}
           \/ code = "REQ_INVALID_OPERATION" /\ d.json /\ d.call # "object"
           \/ code = "REQ_INVALID_OPERATION_FORMAT" /\ d.call = "object" /\ (d.name.kind # "right" \/ d.extra > 0)
           \/ code = "REQ_NON_EXISTING_FUNCTION" /\ d.name = Right(0)
           \/ code = "REQ_INVALID_PARAM_FORMAT" /\ (d.params = "wrong" \/ "other" \in Range(d.elems))
<1> DEFINE p1 == ~d.json
           p2 == d.json /\ (d.version.kind # "right" \/ d.version.val % Ints # 1)
           p3 == d.messageID # Absent /\ d.messageID \notin {Right(n) : n \in 1..MaxIdLength}
           p4 == d.json /\ d.call # "object"
           p5 == d.call = "object" /\ (d.name.kind # "right" \/ d.extra > 0)
           p6 == d.name = Right(0)
           p7 == d.params = "wrong" \/ "other" \in Range(d.elems)
           C == {Check(p1, "REQ_INVALID_JSON_OBJECT"), Check(p2, "REQ_INVALID_VERSION"),
                 Check(p3, "REQ_INVALID_MESSAGEID"), Check(p4, "REQ_INVALID_OPERATION"),
                 Check(p5, "REQ_INVALID_OPERATION_FORMAT"), Check(p6, "REQ_NON_EXISTING_FUNCTION"),
                 Check(p7, "REQ_INVALID_PARAM_FORMAT")}
<1>1. Complaints(d) = {c.code : c \in {x \in C : x.fails}}
  BY Zenon DEF Complaints
<1> HIDE DEF p1, p2, p3, p4, p5, p6, p7
<1>2. ASSUME NEW p, NEW c PROVE Check(p, c).fails = p /\ Check(p, c).code = c
  BY DEF Check
<1>3. code \in Complaints(d) <=> \E c \in C : c.fails /\ c.code = code
  <2> HIDE DEF C
  <2>1. QED
    BY <1>1
<1>4. (\E c \in C : c.fails /\ c.code = code) <=>
           \/ code = "REQ_INVALID_JSON_OBJECT" /\ p1
           \/ code = "REQ_INVALID_VERSION" /\ p2
           \/ code = "REQ_INVALID_MESSAGEID" /\ p3
           \/ code = "REQ_INVALID_OPERATION" /\ p4
           \/ code = "REQ_INVALID_OPERATION_FORMAT" /\ p5
           \/ code = "REQ_NON_EXISTING_FUNCTION" /\ p6
           \/ code = "REQ_INVALID_PARAM_FORMAT" /\ p7
  <2> DEFINE Q(p, k) == Check(p, k).fails /\ Check(p, k).code = code
  <2>1. (\E c \in C : c.fails /\ c.code = code) <=>
           \/ Q(p1, "REQ_INVALID_JSON_OBJECT") \/ Q(p2, "REQ_INVALID_VERSION")
           \/ Q(p3, "REQ_INVALID_MESSAGEID") \/ Q(p4, "REQ_INVALID_OPERATION")
           \/ Q(p5, "REQ_INVALID_OPERATION_FORMAT") \/ Q(p6, "REQ_NON_EXISTING_FUNCTION")
           \/ Q(p7, "REQ_INVALID_PARAM_FORMAT")
    BY Zenon
  <2>2. ASSUME NEW p \in BOOLEAN, NEW k PROVE Q(p, k) <=> code = k /\ p
    <3>1. Check(p, k).fails = p /\ Check(p, k).code = k
      BY <1>2
    <3>2. CASE p = TRUE
      BY <3>1, <3>2
    <3>3. CASE p = FALSE
      BY <3>1, <3>3
    <3>4. QED
      BY <3>2, <3>3
  <2>3. /\ p1 \in BOOLEAN /\ p2 \in BOOLEAN /\ p3 \in BOOLEAN /\ p4 \in BOOLEAN
        /\ p5 \in BOOLEAN /\ p6 \in BOOLEAN /\ p7 \in BOOLEAN
    BY Zenon DEF p1, p2, p3, p4, p5, p6, p7
  <2> HIDE DEF Q, C
  <2>4. QED
    BY <2>1, <2>2, <2>3, Zenon
<1>5. QED
  BY <1>3, <1>4, Zenon DEF p1, p2, p3, p4, p5, p6, p7

(* The verdict of the constructors: a document without fault is accepted,   *)
(* and the fault that is found first is one of those the document has       *)
(* (RequestInterface.cpp:22-138, CallFunctionOperation.cpp:10-72).          *)
LEMMA Verdict ==
  ASSUME NEW d \in Documents, Canonical(d)
  PROVE  /\ ConstructorCode(d) = "REQ_SUCCESS" <=> Complaints(d) = {}
         /\ ConstructorCode(d) # "REQ_SUCCESS" => ConstructorCode(d) \in Complaints(d)
<1> DEFINE c == RequestChecks(d) \o OperationChecks(d)
           code == ConstructorCode(d)
<1>1. /\ Len(c) = 12
      /\ c[1] = Check(~d.json, "REQ_INVALID_JSON_OBJECT")
      /\ c[2] = Check(d.version.kind # "right", "REQ_INVALID_VERSION")
      /\ c[3] = Check(GetInt(d.version.val) # 1, "REQ_INVALID_VERSION")
      /\ c[4] = Check(d.messageID.kind = "wrong", "REQ_INVALID_MESSAGEID")
      /\ c[5] = Check(d.messageID.kind = "right" /\ ~IsValidMessageId(d.messageID.val), "REQ_INVALID_MESSAGEID")
      /\ c[6] = Check(d.call # "object", "REQ_INVALID_OPERATION")
      /\ c[7] = Check(Size(d) \notin {1, 2}, "REQ_INVALID_OPERATION_FORMAT")
      /\ c[8] = Check(d.name.kind # "right", "REQ_INVALID_OPERATION_FORMAT")
      /\ c[9] = Check(d.name.val = 0, "REQ_NON_EXISTING_FUNCTION")
      /\ c[10] = Check(d.params = "absent" /\ Size(d) # 1, "REQ_INVALID_OPERATION_FORMAT")
      /\ c[11] = Check(d.params = "wrong", "REQ_INVALID_PARAM_FORMAT")
      /\ c[12] = Check("other" \in Range(d.elems), "REQ_INVALID_PARAM_FORMAT")
  BY AllChecks
<1>2. code = FirstFailure(c)
  BY DEF ConstructorCode
<1> HIDE DEF c, code
<1>3. /\ c[1].code = "REQ_INVALID_JSON_OBJECT" /\ c[2].code = "REQ_INVALID_VERSION"
      /\ c[3].code = "REQ_INVALID_VERSION" /\ c[4].code = "REQ_INVALID_MESSAGEID"
      /\ c[5].code = "REQ_INVALID_MESSAGEID" /\ c[6].code = "REQ_INVALID_OPERATION"
      /\ c[7].code = "REQ_INVALID_OPERATION_FORMAT" /\ c[8].code = "REQ_INVALID_OPERATION_FORMAT"
      /\ c[9].code = "REQ_NON_EXISTING_FUNCTION" /\ c[10].code = "REQ_INVALID_OPERATION_FORMAT"
      /\ c[11].code = "REQ_INVALID_PARAM_FORMAT" /\ c[12].code = "REQ_INVALID_PARAM_FORMAT"
  BY <1>1 DEF Check
<1>4. /\ c[1].fails <=> ~d.json
      /\ c[2].fails <=> d.version.kind # "right"
      /\ c[3].fails <=> GetInt(d.version.val) # 1
      /\ c[4].fails <=> d.messageID.kind = "wrong"
      /\ c[5].fails <=> d.messageID.kind = "right" /\ ~IsValidMessageId(d.messageID.val)
      /\ c[6].fails <=> d.call # "object"
      /\ c[7].fails <=> Size(d) \notin {1, 2}
      /\ c[8].fails <=> d.name.kind # "right"
      /\ c[9].fails <=> d.name.val = 0
      /\ c[10].fails <=> d.params = "absent" /\ Size(d) # 1
      /\ c[11].fails <=> d.params = "wrong"
      /\ c[12].fails <=> "other" \in Range(d.elems)
  <2>1. \A p \in BOOLEAN : \A k : Check(p, k).fails <=> p
    BY DEF Check
  <2>2. c[1].fails <=> ~d.json
    BY <1>1, <2>1, Zenon
  <2>3. c[2].fails <=> d.version.kind # "right"
    BY <1>1, <2>1, Zenon
  <2>4. c[3].fails <=> GetInt(d.version.val) # 1
    BY <1>1, <2>1, Zenon
  <2>5. c[4].fails <=> d.messageID.kind = "wrong"
    BY <1>1, <2>1, Zenon
  <2>6. c[5].fails <=> d.messageID.kind = "right" /\ ~IsValidMessageId(d.messageID.val)
    BY <1>1, <2>1, Zenon
  <2>7. c[6].fails <=> d.call # "object"
    BY <1>1, <2>1, Zenon
  <2>8. c[7].fails <=> Size(d) \notin {1, 2}
    BY <1>1, <2>1, Zenon
  <2>9. c[8].fails <=> d.name.kind # "right"
    BY <1>1, <2>1, Zenon
  <2>10. c[9].fails <=> d.name.val = 0
    BY <1>1, <2>1, Zenon
  <2>11. c[10].fails <=> d.params = "absent" /\ Size(d) # 1
    BY <1>1, <2>1, Zenon
  <2>12. c[11].fails <=> d.params = "wrong"
    BY <1>1, <2>1, Zenon
  <2>13. c[12].fails <=> "other" \in Range(d.elems)
    <3>1. c[12] = Check("other" \in Range(d.elems), "REQ_INVALID_PARAM_FORMAT")
      BY <1>1
    <3>2. ("other" \in Range(d.elems)) \in BOOLEAN
      OBVIOUS
    <3>3. QED
      BY <2>1, <3>1, <3>2, Zenon
  <2>14. QED
    BY <2>2, <2>3, <2>4, <2>5, <2>6, <2>7, <2>8, <2>9, <2>10, <2>11, <2>12, <2>13
<1>5. \/ /\ code = "REQ_SUCCESS"
         /\ \A k \in 1..12 : ~c[k].fails
      \/ \E k \in 1..12 : c[k].fails /\ code = c[k].code /\ \A j \in 1..k - 1 : ~c[j].fails
  <2>1. \/ /\ FirstFailure(c) = "REQ_SUCCESS"
           /\ \A k \in 1..Len(c) : ~c[k].fails
        \/ \E k \in 1..Len(c) : FirstOf(c, k) /\ FirstFailure(c) = c[k].code
    <3>1. Len(c) \in Nat
      BY <1>1
    <3>2. QED
      BY <3>1, FirstFailing, Zenon
  <2>2. QED
    BY <1>1, <1>2, <2>1, SMT DEF FirstOf
<1>6. /\ d.json \in BOOLEAN /\ d.version \in Entries(Versions) /\ d.messageID \in Entries(IdLengths)
      /\ d.call \in {"absent", "wrong", "object"} /\ d.name \in Entries({0, 1})
      /\ d.params \in {"absent", "wrong", "array"} /\ d.extra \in 0..1
  BY DEF Documents
<1>7. d.version.kind = "right" => (GetInt(d.version.val) = 1 <=> d.version.val % Ints = 1)
  <2>1. d.version.kind = "right" => d.version.val \in Int
    BY <1>6, EntryCases, DocumentAssumption DEF Absent, Wrong
  <2>2. QED
    BY <2>1, TruncatedToOne
<1>8. d.messageID \notin {Right(n) : n \in 1..MaxIdLength} /\ d.messageID # Absent
        <=> d.messageID.kind = "wrong" \/ (d.messageID.kind = "right" /\ ~IsValidMessageId(d.messageID.val))
  <2>1. MaxIdLength \in Nat /\ IdLengths \subseteq Nat
    BY DocumentAssumption
  <2>2. CASE d.messageID.kind = "right"
    <3>1. d.messageID = Right(d.messageID.val) /\ d.messageID.val \in Nat /\ d.messageID # Absent
      <4>1. \/ d.messageID = Absent /\ d.messageID.kind = "absent"
            \/ d.messageID = Wrong /\ d.messageID.kind = "wrong"
            \/ d.messageID = Right(d.messageID.val) /\ d.messageID.val \in IdLengths
        BY <1>6, EntryCases, Zenon
      <4>2. Absent.kind = "absent"
        BY DEF Absent
      <4>3. QED
        BY <2>1, <2>2, <4>1, <4>2
    <3>2. d.messageID \in {Right(n) : n \in 1..MaxIdLength} <=> d.messageID.val \in 1..MaxIdLength
      BY <3>1 DEF Right
    <3>3. IsValidMessageId(d.messageID.val) <=> d.messageID.val \in 1..MaxIdLength
      BY <2>1, <3>1 DEF IsValidMessageId
    <3>4. QED
      BY <2>2, <3>1, <3>2, <3>3
  <2>3. CASE d.messageID.kind # "right"
    <3>1. d.messageID \notin {Right(n) : n \in 1..MaxIdLength}
      BY <2>3 DEF Right
    <3>2. d.messageID = Absent \/ d.messageID = Wrong
      BY <1>6, <2>3, EntryCases
    <3>3. QED
      BY <2>3, <3>1, <3>2 DEF Absent, Wrong
  <2>4. QED
    BY <2>2, <2>3
<1>9. d.name = Right(0) <=> d.name.kind = "right" /\ d.name.val = 0
  BY <1>6, EntryCases DEF Right
<1>10. /\ Size(d) = d.extra + (IF d.name.kind = "absent" THEN 0 ELSE 1) + (IF d.params = "absent" THEN 0 ELSE 1)
  BY DEF Size
<1> DEFINE Bad(x) == x \in Complaints(d)
<1>11. /\ Bad("REQ_INVALID_JSON_OBJECT") <=> ~d.json
       /\ Bad("REQ_INVALID_VERSION") <=> d.json /\ (d.version.kind # "right" \/ d.version.val % Ints # 1)
       /\ Bad("REQ_INVALID_MESSAGEID") <=>
            d.messageID # Absent /\ d.messageID \notin {Right(n) : n \in 1..MaxIdLength}
       /\ Bad("REQ_INVALID_OPERATION") <=> d.json /\ d.call # "object"
       /\ Bad("REQ_INVALID_OPERATION_FORMAT") <=> d.call = "object" /\ (d.name.kind # "right" \/ d.extra > 0)
       /\ Bad("REQ_NON_EXISTING_FUNCTION") <=> d.name = Right(0)
       /\ Bad("REQ_INVALID_PARAM_FORMAT") <=> d.params = "wrong" \/ "other" \in Range(d.elems)
  BY ComplaintCases
<1>12. ASSUME \A k \in 1..12 : ~c[k].fails PROVE Complaints(d) = {}
  <2>1. /\ ~c[1].fails /\ ~c[2].fails /\ ~c[3].fails /\ ~c[4].fails /\ ~c[5].fails /\ ~c[6].fails
        /\ ~c[7].fails /\ ~c[8].fails /\ ~c[9].fails /\ ~c[10].fails /\ ~c[11].fails /\ ~c[12].fails
    BY <1>12
  <2>2. d.extra = 0
    BY <1>4, <1>6, <1>10, <2>1
  <2>3. /\ d.json /\ d.version.kind = "right" /\ d.version.val % Ints = 1 /\ d.call = "object"
        /\ d.name.kind = "right" /\ d.name.val # 0 /\ d.params # "wrong" /\ "other" \notin Range(d.elems)
        /\ ~(d.messageID # Absent /\ d.messageID \notin {Right(n) : n \in 1..MaxIdLength})
    BY <1>4, <1>7, <1>8, <2>1
  <2>4. \A x : x \notin Complaints(d)
    BY <1>9, <2>2, <2>3, ComplaintCases
  <2>5. QED
    BY <2>4
<1>13. ASSUME NEW k \in 1..12, c[k].fails, code = c[k].code, \A j \in 1..k - 1 : ~c[j].fails
       PROVE  Bad(code) /\ code # "REQ_SUCCESS"
  <2> HIDE DEF Bad
  <2>1. k # 1 => ~c[1].fails
    BY <1>13
  <2>2. k \notin 1..6 => ~c[6].fails
    BY <1>13
  <2>3. k \in {3} => ~c[2].fails
    BY <1>13
  <2>4. k \in {9, 10} => ~c[8].fails
    BY <1>13
  <2>5. CASE k \in {1, 2, 3}
    BY <1>3, <1>4, <1>7, <1>11, <1>13, <2>1, <2>3, <2>5
  <2>6. CASE k \in {4, 5}
    BY <1>3, <1>4, <1>8, <1>11, <1>13, <2>6
  <2>7. CASE k = 6
    BY <1>3, <1>4, <1>11, <1>13, <2>1, <2>7
  <2>8. CASE k \in {7, 8, 10}
    <3>1. d.call = "object" /\ code = "REQ_INVALID_OPERATION_FORMAT"
      BY <1>3, <1>4, <1>13, <2>2, <2>8
    <3>2. d.name.kind # "right" \/ d.extra > 0
      BY <1>4, <1>6, <1>10, <1>13, <2>4, <2>8
    <3>3. QED
      BY <1>11, <3>1, <3>2
  <2>9. CASE k \in {9, 11, 12}
    BY <1>3, <1>4, <1>9, <1>11, <1>13, <2>4, <2>9
  <2>10. QED
    BY <2>5, <2>6, <2>7, <2>8, <2>9
<1>14. QED
  BY <1>5, <1>12, <1>13 DEF code

-----------------------------------------------------------------------------
(* The requests and their replies *)

\* the length of the messageID of a document
IdOf(d) == IF d.messageID.kind = "right" THEN d.messageID.val ELSE 0
Accepted(d) == ConstructorCode(d) = "REQ_SUCCESS"

RequestInv ==
  /\ TypeOK /\ Canonical(doc)
  /\ stage = "queued" => Accepted(doc) /\ messageId = IdOf(doc)
  /\ stage = "replied" /\ ~Accepted(doc) => reply.code = ConstructorCode(doc)
  /\ stage = "replied" /\ Accepted(doc) => reply.messageID = IdOf(doc)

(* An accepted document has a valid messageID or none.                      *)
LEMMA AcceptedId ==
  ASSUME NEW d \in Documents, Canonical(d), Accepted(d)
  PROVE  /\ IdOf(d) \in IdLengths \cup {0}
         /\ d.messageID = IF IdOf(d) = 0 THEN Absent ELSE Right(IdOf(d))
         /\ IdOf(d) # 0 => IsValidMessageId(IdOf(d))
         /\ IdOf(d) = 0 => ~IsValidMessageId(IdOf(d))
<1>1. "REQ_INVALID_MESSAGEID" \notin Complaints(d)
  BY Verdict DEF Accepted
<1>2. d.messageID = Absent \/ d.messageID \in {Right(n) : n \in 1..MaxIdLength}
  BY <1>1, ComplaintCases
<1>3. d.messageID \in Entries(IdLengths)
  BY DEF Documents
<1>4. CASE d.messageID = Absent
  BY <1>4 DEF IdOf, Absent, IsValidMessageId
<1>5. CASE d.messageID \in {Right(n) : n \in 1..MaxIdLength}
  <2>1. PICK n \in 1..MaxIdLength : d.messageID = Right(n)
    BY <1>5
  <2>2. d.messageID.kind = "right" /\ d.messageID.val = n
    BY <2>1 DEF Right
  <2>3. n \in IdLengths
    BY <1>3, <2>2, EntryCases
  <2>4. IdOf(d) = n /\ n # 0
    BY <2>2 DEF IdOf
  <2>5. IsValidMessageId(n)
    BY DocumentAssumption DEF IsValidMessageId
  <2>6. QED
    BY <2>1, <2>3, <2>4, <2>5
<1>6. QED
  BY <1>2, <1>4, <1>5

(* The code of a document that is rejected is one of the codes.             *)
LEMMA RejectionCode ==
  ASSUME NEW d \in Documents, Canonical(d), ~Accepted(d)
  PROVE  ConstructorCode(d) \in Codes
<1>1. ConstructorCode(d) \in Complaints(d)
  BY Verdict DEF Accepted
<1>2. ConstructorCode(d) \in {"REQ_INVALID_JSON_OBJECT", "REQ_INVALID_VERSION", "REQ_INVALID_MESSAGEID",
        "REQ_INVALID_OPERATION", "REQ_INVALID_OPERATION_FORMAT", "REQ_NON_EXISTING_FUNCTION",
        "REQ_INVALID_PARAM_FORMAT"}
  BY <1>1, ComplaintCases
<1>3. QED
  BY <1>2 DEF Codes, CallCodes

(* The reply of a function call (HelperFunctions.cpp:541-592).              *)
LEMMA CallReplies ==
  ASSUME NEW id, NEW n, FunctionReply(id, n), printed \in Printed \cup {<<>>}
  PROVE  /\ reply'.code \in Codes /\ printed' \in Printed \cup {<<>>}
         /\ reply'.messageID = IF IsValidMessageId(id) THEN id ELSE 0
<1>1. ASSUME NEW code, NEW text, reply' = ReplyTo(code, id, text)
      PROVE  reply'.code = code /\ reply'.messageID = IF IsValidMessageId(id) THEN id ELSE 0
  BY <1>1 DEF ReplyTo
<1>2. CallCodesFor(n) \subseteq CallCodes /\ "REQ_FUNCTION_ABORTED" \in CallCodes
  BY DEF CallCodesFor, CallCodes
<1>3. CallCodes \cup {"REQ_SUCCESS"} \subseteq Codes
  BY DEF Codes
<1>4. CASE /\ \E code \in {"REQ_SUCCESS"} \cup (CallCodesFor(n) \ {"REQ_FUNCTION_ABORTED"}) :
                reply' = ReplyTo(code, id, <<>>)
           /\ UNCHANGED <<history, printed>>
  BY <1>1, <1>2, <1>3, <1>4
<1>5. CASE \E text \in Printed, fetched \in BOOLEAN :
             /\ printed' = text /\ history' = history \o text
             /\ reply' = ReplyTo("REQ_FUNCTION_ABORTED", id,
                                 IF fetched THEN GetHistoryUntilNow(history, history') ELSE <<>>)
  BY <1>1, <1>2, <1>3, <1>5
<1>6. QED
  BY <1>4, <1>5 DEF FunctionReply

(* Every reply belongs to its request.                                      *)
LEMMA RequestInvHolds == Spec => []RequestInv
<1>1. Init => RequestInv
  <2> SUFFICES ASSUME Init PROVE RequestInv
    OBVIOUS
  <2>1. doc \in Documents /\ Canonical(doc) /\ stage = "received"
    BY DEF Init
  <2>2. messageId = 0 /\ nparams = 0 /\ printed = <<>>
    BY DEF Init
  <2>3. reply.code = "none" /\ reply.messageID = 0
    BY DEF Init, NoReply
  <2>4. QED
    BY <2>1, <2>2, <2>3, DocumentAssumption DEF RequestInv, TypeOK, Codes
<1>2. RequestInv /\ [Next]_vars => RequestInv'
  <2> SUFFICES ASSUME RequestInv, [Next]_vars PROVE RequestInv'
    OBVIOUS
  <2>1. /\ doc \in Documents /\ Canonical(doc) /\ messageId \in IdLengths \cup {0} /\ nparams \in 0..MaxParams
        /\ printed \in Printed \cup {<<>>} /\ reply.code \in Codes /\ reply.messageID \in IdLengths \cup {0}
        /\ stage \in {"received", "queued", "replied"}
    BY DEF RequestInv, TypeOK
  <2>2. doc' = doc
    BY DEF Next, Accept, Reject, CallAndReply, zeromq_test_callfunction, vars
  <2>3. Canonical(doc)' /\ IdOf(doc)' = IdOf(doc) /\ (Accepted(doc)' <=> Accepted(doc))
        /\ ConstructorCode(doc)' = ConstructorCode(doc)
    BY <2>1, <2>2
  <2>4. CASE Accept
    <3>1. Accepted(doc) /\ stage' = "queued" /\ nparams' = Len(doc.elems)
      BY <2>4 DEF Accept, Accepted
    <3>2. messageId' = IdOf(doc)
      BY <2>4 DEF Accept, IdOf
    <3>3. Len(doc.elems) \in 0..MaxParams
      <4>1. PICK k \in 0..MaxParams : doc.elems \in [1..k -> Elements]
        BY <2>1 DEF Documents, ParamLists
      <4>2. Len(doc.elems) = k
        BY <4>1
      <4>3. QED
        BY <4>2
    <3>4. UNCHANGED <<history, printed, reply>>
      BY <2>4 DEF Accept
    <3>5. IdOf(doc) \in IdLengths \cup {0}
      BY <2>1, <3>1, AcceptedId
    <3>6. QED
      BY <2>1, <2>2, <2>3, <3>1, <3>2, <3>3, <3>4, <3>5 DEF RequestInv, TypeOK
  <2>5. ASSUME ~Accepted(doc), stage' = "replied", reply' = [NoReply EXCEPT !.code = ConstructorCode(doc)],
               UNCHANGED <<messageId, nparams, history, printed>>
        PROVE  RequestInv'
    <3>1. reply'.code = ConstructorCode(doc) /\ reply'.messageID = 0
      BY <2>5 DEF NoReply
    <3>2. ConstructorCode(doc) \in Codes
      BY <2>1, <2>5, RejectionCode
    <3>3. QED
      BY <2>1, <2>2, <2>3, <2>5, <3>1, <3>2 DEF RequestInv, TypeOK
  <2>6. ASSUME Accepted(doc), stage' = "replied", NEW n, FunctionReply(IdOf(doc), n),
               UNCHANGED <<messageId, nparams>>
        PROVE  RequestInv'
    <3>1. /\ reply'.code \in Codes /\ printed' \in Printed \cup {<<>>}
          /\ reply'.messageID = IF IsValidMessageId(IdOf(doc)) THEN IdOf(doc) ELSE 0
      BY <2>1, <2>6, CallReplies
    <3>2. reply'.messageID = IdOf(doc) /\ IdOf(doc) \in IdLengths \cup {0}
      BY <2>1, <2>6, <3>1, AcceptedId
    <3>3. QED
      BY <2>1, <2>2, <2>3, <2>6, <3>1, <3>2 DEF RequestInv, TypeOK
  <2>7. CASE Reject
    BY <2>5, <2>7 DEF Reject, Accepted
  <2>8. CASE CallAndReply
    <3>1. Accepted(doc) /\ messageId = IdOf(doc)
      BY <2>8 DEF CallAndReply, RequestInv
    <3>2. QED
      BY <2>6, <2>8, <3>1 DEF CallAndReply
  <2>9. CASE zeromq_test_callfunction
    <3>1. CASE Accepted(doc)
      <4>1. FunctionReply(IdOf(doc), Len(doc.elems)) /\ stage' = "replied" /\ UNCHANGED <<messageId, nparams>>
        BY <2>9, <3>1 DEF zeromq_test_callfunction, Accepted, IdOf
      <4>2. QED
        BY <2>6, <3>1, <4>1
    <3>2. CASE ~Accepted(doc)
      <4>1. /\ reply' = [NoReply EXCEPT !.code = ConstructorCode(doc)] /\ stage' = "replied"
            /\ UNCHANGED <<messageId, nparams, history, printed>>
        BY <2>9, <3>2 DEF zeromq_test_callfunction, Accepted
      <4>2. QED
        BY <2>5, <3>2, <4>1
    <3>3. QED
      BY <3>1, <3>2
  <2>10. CASE UNCHANGED vars
    BY <2>10 DEF RequestInv, TypeOK, vars
  <2>11. QED
    BY <2>4, <2>7, <2>8, <2>9, <2>10 DEF Next
<1>3. QED
  BY <1>1, <1>2, PTL DEF Spec

(* Types, for any documents and printed texts.                              *)
THEOREM RequestTypeCorrect == Spec => []TypeOK
<1>1. RequestInv => TypeOK
  BY DEF RequestInv
<1>2. QED
  BY <1>1, RequestInvHolds, PTL

(* The constructors accept exactly what the Readme describes and name a     *)
(* fault of what they reject, for any width of an int and any maximum of    *)
(* the messageID (RequestInterface.cpp:22-138, CallFunctionOperation.cpp).  *)
THEOREM ExactlyInvalidRejected == Spec => []RejectsExactlyInvalid
<1>1. RequestInv => RejectsExactlyInvalid
  <2> SUFFICES ASSUME RequestInv PROVE RejectsExactlyInvalid
    OBVIOUS
  <2>1. doc \in Documents /\ Canonical(doc)
    BY DEF RequestInv, TypeOK
  <2>2. /\ Accepted(doc) <=> Complaints(doc) = {}
        /\ ~Accepted(doc) => ConstructorCode(doc) \in Complaints(doc)
    BY <2>1, Verdict DEF Accepted
  <2>3. stage = "replied" /\ ~Accepted(doc) => reply.code = ConstructorCode(doc)
    BY DEF RequestInv
  <2>4. QED
    BY <2>2, <2>3 DEF RejectsExactlyInvalid, Accepted
<1>2. QED
  BY <1>1, RequestInvHolds, PTL

(* The reply to a request that is accepted carries its messageID, however   *)
(* the call ends (HelperFunctions.cpp:541-592, RequestInterface.cpp:57-89). *)
THEOREM RepliesCorrelate == Spec => []ReplyCorrelates
<1>1. RequestInv => ReplyCorrelates
  <2> SUFFICES ASSUME RequestInv, stage = "replied", Complaints(doc) = {}
               PROVE  doc.messageID = IF reply.messageID = 0 THEN Absent ELSE Right(reply.messageID)
    BY DEF ReplyCorrelates
  <2>1. doc \in Documents /\ Canonical(doc)
    BY DEF RequestInv, TypeOK
  <2>2. Accepted(doc)
    BY <2>1, Verdict DEF Accepted
  <2>3. reply.messageID = IdOf(doc)
    BY <2>2 DEF RequestInv
  <2>4. QED
    BY <2>1, <2>2, <2>3, AcceptedId
<1>2. QED
  BY <1>1, RequestInvHolds, PTL
-----------------------------------------------------------------------------
(* The history of an aborted function *)

\* the line ends among the first n characters of a history
LineEnds(h, n) == {j \in 1..n : h[j] = CR}

\* the greatest element of a set of positions, or 0
Greatest(S, g) == IF S = {} THEN g = 0 ELSE g \in S /\ \A j \in S : j <= g

(* A set of positions has a greatest element.                               *)
LEMMA GreatestElement ==
  ASSUME NEW n \in Nat, NEW S \in SUBSET (1..n), S # {}
  PROVE  \E g \in S : \A j \in S : j <= g
<1> DEFINE T == {n - j : j \in S}
<1>1. T \in SUBSET Nat /\ T # {}
  <2>1. \A j \in S : n - j \in Nat
    OBVIOUS
  <2>2. QED
    BY <2>1
<1>2. Min(T) \in T /\ \A y \in T : Min(T) <= y
  BY <1>1, LeastElement
<1> DEFINE m == Min(T)
<1>3. PICK g \in S : m = n - g
  BY <1>2
<1>4. \A j \in S : n - j \in T
  OBVIOUS
<1> HIDE DEF m, T
<1>5. \A j \in S : m <= n - j
  BY <1>2, <1>4 DEF m
<1>6. ASSUME NEW j \in S PROVE j <= g
  BY <1>3, <1>5
<1>7. QED
  BY <1>6

(* The last line that ends among the first n characters starts after the    *)
(* last line end.                                                           *)
LEMMA LineStartIs ==
  ASSUME NEW h \in Seq(STRING), NEW n \in 0..Len(h)
  PROVE  /\ IsFiniteSet(LineEnds(h, n)) /\ Cardinality(LineEnds(h, n)) \in Nat
         /\ Greatest(LineEnds(h, n), LineStart(h, Cardinality(LineEnds(h, n))))
<1> DEFINE S == LineEnds(h, n)
           c == Cardinality(S)
           start == LineStart(h, c)
<1>1. S \in SUBSET (1..n) /\ n \in Nat /\ IsFiniteSet(1..n) /\ DOMAIN h = 1..Len(h) /\ Len(h) \in Nat
  BY FS_Interval DEF LineEnds
<1>2. IsFiniteSet(S) /\ c \in Nat /\ (c = 0 <=> S = {})
  BY <1>1, FS_Subset, FS_CardinalityType, FS_EmptySet
<1>3. CASE S = {}
  <2>1. start = 0
    BY <1>2, <1>3 DEF LineStart
  <2>2. QED
    BY <1>2, <1>3, <2>1 DEF Greatest
<1>4. CASE S # {}
  <2>1. PICK g \in S : \A j \in S : j <= g
    BY <1>1, <1>4, GreatestElement
  <2>2. g \in 1..n /\ h[g] = CR /\ g \in DOMAIN h
    BY <1>1, <2>1 DEF LineEnds
  <2>3. LineEnds(h, g) = S
    <3>1. \A j \in S : j \in 1..g /\ h[j] = CR
      BY <1>1, <2>1, <2>2 DEF LineEnds
    <3>2. \A j \in 1..g : h[j] = CR => j \in S
      BY <1>1, <2>2 DEF LineEnds
    <3> HIDE DEF S
    <3>3. QED
      BY <3>1, <3>2 DEF LineEnds
  <2>4. ASSUME NEW i \in DOMAIN h, h[i] = CR, Cardinality(LineEnds(h, i)) = c
        PROVE  i = g
    <3>1. i \in 1..Len(h) /\ LineEnds(h, i) \in SUBSET (1..i)
      BY <1>1 DEF LineEnds
    <3>2. IsFiniteSet(LineEnds(h, i))
      <4>1. i \in Int /\ 1 \in Int
        BY <3>1
      <4>2. IsFiniteSet(1..i)
        BY <4>1, FS_Interval, Zenon
      <4>3. QED
        BY <3>1, <4>2, FS_Subset, Zenon
    <3>3. CASE i <= g
      <4>1. LineEnds(h, i) \in SUBSET S
        BY <1>1, <2>2, <2>3, <3>1, <3>3 DEF LineEnds
      <4>2. LineEnds(h, i) = S
        BY <1>2, <2>4, <4>1, FS_Subset
      <4>3. g \in 1..i
        BY <2>1, <3>1, <4>2
      <4>4. QED
        BY <1>1, <2>2, <3>1, <3>3, <4>3
    <3>4. CASE g <= i
      <4>1. S \in SUBSET LineEnds(h, i)
        BY <1>1, <2>2, <2>3, <3>1, <3>4 DEF LineEnds
      <4>2. LineEnds(h, i) = S
        BY <2>4, <3>2, <4>1, FS_Subset
      <4>3. i \in LineEnds(h, i)
        BY <2>4, <3>1 DEF LineEnds
      <4>4. i <= g
        BY <2>1, <4>2, <4>3
      <4>5. QED
        BY <1>1, <2>2, <3>1, <3>4, <4>4
    <3>5. QED
      BY <1>1, <2>2, <3>1, <3>3, <3>4
  <2>5. start = CHOOSE i \in DOMAIN h : h[i] = CR /\ Cardinality(LineEnds(h, i)) = c
    BY <1>2, <1>4, Zenon DEF LineStart, LineEnds
  <2> HIDE DEF S, c, start
  <2>6. g \in DOMAIN h /\ h[g] = CR /\ Cardinality(LineEnds(h, g)) = c
    BY <2>2, <2>3 DEF c
  <2>7. start = g
    BY <2>4, <2>5, <2>6
  <2>8. QED
    BY <1>2, <1>4, <2>1, <2>7 DEF S, c, start, Greatest
<1>5. QED
  BY <1>3, <1>4

(* Where the text between two histories starts and ends.                    *)
LEMMA FetchedText ==
  ASSUME NEW before \in Seq(STRING), NEW text \in Seq(STRING)
  PROVE  LET now   == before \o text
             start == LineStart(now, HistoryLines(before) - 1)
             end   == LineStart(now, HistoryLines(now) - 1) IN
         /\ now \in Seq(STRING) /\ Len(now) = Len(before) + Len(text)
         /\ \A i \in 1..Len(before) : now[i] = before[i]
         /\ \A i \in 1..Len(text) : now[Len(before) + i] = text[i]
         /\ Greatest(LineEnds(now, Len(before)), start)
         /\ Greatest(LineEnds(now, Len(now)), end)
<1> DEFINE now == before \o text
<1>1. /\ now \in Seq(STRING) /\ Len(now) = Len(before) + Len(text)
      /\ \A i \in 1..Len(before) : now[i] = before[i]
      /\ \A i \in 1..Len(text) : now[Len(before) + i] = text[i]
      /\ Len(before) \in 0..Len(now) /\ Len(now) \in 0..Len(now)
  OBVIOUS
<1> HIDE DEF now
<1>2. LineEnds(now, Len(before)) = {i \in DOMAIN before : before[i] = CR}
  BY <1>1 DEF LineEnds
<1>3. LineEnds(now, Len(now)) = {i \in DOMAIN now : now[i] = CR}
  BY <1>1 DEF LineEnds
<1>4. ASSUME NEW n \in 0..Len(now), NEW h, LineEnds(now, n) = {i \in DOMAIN h : h[i] = CR}
      PROVE  Greatest(LineEnds(now, n), LineStart(now, HistoryLines(h) - 1))
  <2>1. /\ Cardinality(LineEnds(now, n)) \in Nat
        /\ Greatest(LineEnds(now, n), LineStart(now, Cardinality(LineEnds(now, n))))
    BY <1>1, LineStartIs
  <2>2. HistoryLines(h) - 1 = Cardinality(LineEnds(now, n))
    BY <1>4, <2>1 DEF HistoryLines
  <2>3. QED
    BY <2>1, <2>2
<1>5. QED
  BY <1>1, <1>2, <1>3, <1>4 DEF now

(* CleanupString: nothing of an empty text, and what is between the first   *)
(* and the last other character of a text that has one (HelperFunctions.cpp).*)
LEMMA Cleanup ==
  ASSUME NEW s \in Seq(STRING)
  PROVE  /\ s = <<>> => CleanupString(s) = <<>>
         /\ (\E i \in DOMAIN s : s[i] \notin Whitespace) => CleanedUp(CleanupString(s), s)
<1> DEFINE other == {i \in DOMAIN s : s[i] \notin Whitespace}
           first == CHOOSE i \in other : \A j \in other : i <= j
           last  == CHOOSE i \in other : \A j \in other : i >= j
           kept  == IF other = {} THEN s ELSE SubSeq(s, first, last)
           text  == [i \in DOMAIN kept |-> IF kept[i] = CR THEN LF ELSE kept[i]]
<1>1. CleanupString(s) = text
  BY Zenon DEF CleanupString
<1>2. DOMAIN s = 1..Len(s) /\ Len(s) \in Nat /\ other \in SUBSET (1..Len(s)) /\ other \in SUBSET Nat
  OBVIOUS
<1>3. s = <<>> => text = <<>>
  <2>1. s = <<>> => kept = <<>>
    BY <1>2
  <2> HIDE DEF kept
  <2>2. QED
    BY <2>1
<1>4. ASSUME other # {} PROVE CleanedUp(text, s)
  <2>1. first \in other /\ \A j \in other : first <= j
    <3>1. Min(other) \in other /\ \A j \in other : Min(other) <= j
      BY <1>2, <1>4, LeastElement
    <3> HIDE DEF other
    <3>2. QED
      BY <3>1
  <2>2. last \in other /\ \A j \in other : last >= j
    <3>1. PICK g \in other : \A j \in other : j <= g
      BY <1>2, <1>4, GreatestElement
    <3>2. \A j \in other : g >= j
      BY <1>2, <3>1
    <3> HIDE DEF other
    <3>3. QED
      BY <3>2
  <2>3. kept = SubSeq(s, first, last)
    BY <1>4
  <2> HIDE DEF first, last
  <2>4. first \in 1..Len(s) /\ last \in 1..Len(s) /\ first <= last
    BY <1>2, <2>1, <2>2
  <2> HIDE DEF other, kept
  <2>5. /\ DOMAIN kept = 1..last - first + 1
        /\ \A i \in 1..last - first + 1 : kept[i] = s[first + i - 1]
    BY <2>3, <2>4
  <2>6. text = [k \in 1..last - first + 1 |-> IF s[first + k - 1] = CR THEN LF ELSE s[first + k - 1]]
    BY <2>5
  <2>7. \A k \in DOMAIN s : k < first \/ k > last => k \notin other
    BY <1>2, <2>1, <2>2, <2>4
  <2>8. \A k \in DOMAIN s : k < first \/ k > last => s[k] \in Whitespace
    BY <2>7 DEF other
  <2>9. s[first] \notin Whitespace /\ s[last] \notin Whitespace
    BY <2>1, <2>2 DEF other
  <2> HIDE DEF text
  <2>10. QED
    BY <1>2, <2>4, <2>6, <2>8, <2>9 DEF CleanedUp
<1>5. QED
  BY <1>1, <1>3, <1>4

(* The text between two histories is what was printed, if that is whole     *)
(* lines, and nothing if nothing was printed (HistoryGrabber.cpp:14-77).    *)
LEMMA PrintedText ==
  ASSUME NEW before \in Seq(STRING), NEW text \in Seq(STRING),
         GetHistoryUntilNow(before, before \o text) # <<>>
  PROVE  LET now == before \o text
             lineBefore == Len(now) = Len(text) \/ now[Len(now) - Len(text)] = CR
             wholeLines == Last(text) = CR
             visible    == \E i \in DOMAIN text : text[i] \notin Whitespace IN
         /\ text # <<>>
         /\ lineBefore /\ wholeLines /\ visible => CleanedUp(GetHistoryUntilNow(before, now), text)
<1> DEFINE now == before \o text
           start == LineStart(now, HistoryLines(before) - 1)
           end == LineStart(now, HistoryLines(now) - 1)
           fetched == SubSeq(now, start + 1, end)
<1>1. GetHistoryUntilNow(before, now) = CleanupString(fetched)
  BY DEF GetHistoryUntilNow, HistoryFetchText
<1>2. /\ now \in Seq(STRING) /\ Len(now) = Len(before) + Len(text)
      /\ \A i \in 1..Len(before) : now[i] = before[i]
      /\ \A i \in 1..Len(text) : now[Len(before) + i] = text[i]
      /\ Greatest(LineEnds(now, Len(before)), start)
      /\ Greatest(LineEnds(now, Len(now)), end)
      /\ Len(before) \in Nat /\ Len(text) \in Nat
  BY FetchedText
<1> HIDE DEF now, start, end
<1>3. start \in 0..Len(before) /\ end \in 0..Len(now)
  BY <1>2 DEF Greatest, LineEnds
<1>4. text # <<>>
  <2>1. SUFFICES ASSUME text = <<>> PROVE FALSE
    OBVIOUS
  <2>2. now = before
    BY <2>1 DEF now
  <2>3. start = end
    BY <2>2 DEF start, end
  <2>4. fetched = <<>> /\ <<>> \in Seq(STRING)
    BY <1>3, <2>3
  <2>5. CleanupString(<<>>) = <<>>
    BY <2>4, Cleanup
  <2>6. QED
    BY <1>1, <2>4, <2>5 DEF now
<1>5. ASSUME Len(now) = Len(text) \/ now[Len(now) - Len(text)] = CR, Last(text) = CR
      PROVE  fetched = text
  <2>1. start = Len(before)
    <3>1. CASE Len(now) = Len(text)
      BY <1>2, <1>3, <3>1
    <3>2. CASE Len(now) # Len(text)
      <4>1. now[Len(before)] = CR /\ Len(before) \in 1..Len(before)
        BY <1>2, <1>5, <3>2
      <4>2. Len(before) \in LineEnds(now, Len(before))
        BY <4>1 DEF LineEnds
      <4>3. Len(before) <= start
        BY <1>2, <4>2 DEF Greatest
      <4>4. QED
        BY <1>2, <1>3, <4>3
    <3>3. QED
      BY <3>1, <3>2
  <2>2. end = Len(now)
    <3>1. Len(text) \in 1..Len(text)
      BY <1>2, <1>4
    <3>2. now[Len(now)] = CR /\ Len(now) \in 1..Len(now)
      BY <1>2, <1>5, <3>1 DEF Last
    <3>3. Len(now) \in LineEnds(now, Len(now))
      BY <3>2 DEF LineEnds
    <3>4. Len(now) <= end
      BY <1>2, <3>3 DEF Greatest
    <3>5. Len(now) \in Nat /\ end \in 0..Len(now)
      BY <1>2, <1>3
    <3> HIDE DEF now
    <3>6. QED
      BY <3>4, <3>5
  <2>3. fetched = SubSeq(now, Len(before) + 1, Len(now))
    BY <2>1, <2>2
  <2> HIDE DEF fetched
  <2>4. /\ fetched \in Seq(STRING) /\ Len(fetched) = Len(text)
        /\ \A i \in 1..Len(text) : fetched[i] = now[Len(before) + i]
    BY <1>2, <2>3
  <2>5. \A i \in 1..Len(text) : fetched[i] = text[i]
    BY <1>2, <2>4
  <2>6. QED
    BY <2>4, <2>5, SeqEqual
<1>6. QED
  BY <1>1, <1>4, <1>5, Cleanup DEF now

\* the history in a reply was fetched after an aborted function
HistoryInv ==
  /\ history \in Seq(STRING) /\ printed \in Seq(STRING)
  /\ reply.history # <<>> =>
       /\ reply.code = "REQ_FUNCTION_ABORTED"
       /\ \E before \in Seq(STRING) :
            /\ history = before \o printed
            /\ reply.history = GetHistoryUntilNow(before, history)
  /\ stage # "replied" => reply.history = <<>>

(* The history in the reply to an aborted function is what the function     *)
(* printed, for any history before it and any printed lines                 *)
(* (HistoryGrabber.cpp:14-77, HelperFunctions.cpp:541-592).                 *)
THEOREM HistoryOfFunction == Spec => []HistoryIsPrinted
<1>1. Init => HistoryInv
  <2> SUFFICES ASSUME Init PROVE HistoryInv
    OBVIOUS
  <2>1. history \in Seq(STRING) /\ printed \in Seq(STRING)
    BY DocumentAssumption DEF Init
  <2>2. reply.history = <<>>
    BY DEF Init, NoReply
  <2>3. QED
    BY <2>1, <2>2 DEF HistoryInv
<1>2. HistoryInv /\ [Next]_vars => HistoryInv'
  <2> SUFFICES ASSUME HistoryInv, [Next]_vars PROVE HistoryInv'
    OBVIOUS
  <2>1. ASSUME UNCHANGED <<history, printed>>, reply'.history = <<>> PROVE HistoryInv'
    BY <2>1 DEF HistoryInv
  <2>2. ASSUME NEW id, NEW n, FunctionReply(id, n), stage' = "replied" PROVE HistoryInv'
    <3>1. ASSUME NEW code, NEW text, reply' = ReplyTo(code, id, text)
          PROVE  reply'.code = code /\ reply'.history = text
      BY <3>1 DEF ReplyTo
    <3>2. CASE /\ \E code \in {"REQ_SUCCESS"} \cup (CallCodesFor(n) \ {"REQ_FUNCTION_ABORTED"}) :
                    reply' = ReplyTo(code, id, <<>>)
               /\ UNCHANGED <<history, printed>>
      BY <2>1, <3>1, <3>2
    <3>3. ASSUME NEW text \in Printed, NEW fetched \in BOOLEAN, printed' = text, history' = history \o text,
                 reply' = ReplyTo("REQ_FUNCTION_ABORTED", id,
                                  IF fetched THEN GetHistoryUntilNow(history, history') ELSE <<>>)
          PROVE  HistoryInv'
      <4>1. text \in Seq(STRING) /\ history \in Seq(STRING) /\ history' \in Seq(STRING)
        BY <3>3, DocumentAssumption DEF HistoryInv
      <4>2. /\ reply'.code = "REQ_FUNCTION_ABORTED"
            /\ reply'.history = IF fetched THEN GetHistoryUntilNow(history, history') ELSE <<>>
        BY <3>1, <3>3
      <4>3. reply'.history # <<>> => reply'.history = GetHistoryUntilNow(history, history')
        BY <4>2
      <4>4. QED
        BY <2>2, <3>3, <4>1, <4>2, <4>3 DEF HistoryInv
    <3>4. QED
      BY <2>2, <3>2, <3>3 DEF FunctionReply
  <2>3. CASE Accept
    BY <2>1, <2>3 DEF Accept, HistoryInv
  <2>4. ASSUME reply' = [NoReply EXCEPT !.code = ConstructorCode(doc)], UNCHANGED <<history, printed>>
        PROVE  HistoryInv'
    <3>1. reply'.history = <<>>
      BY <2>4 DEF NoReply
    <3>2. QED
      BY <2>1, <2>4, <3>1
  <2>5. CASE Reject
    BY <2>4, <2>5 DEF Reject
  <2>6. CASE CallAndReply
    BY <2>2, <2>6 DEF CallAndReply
  <2>7. CASE zeromq_test_callfunction
    BY <2>2, <2>4, <2>7 DEF zeromq_test_callfunction
  <2>8. CASE UNCHANGED vars
    BY <2>8 DEF HistoryInv, vars
  <2>9. QED
    BY <2>3, <2>5, <2>6, <2>7, <2>8 DEF Next
<1>3. HistoryInv => HistoryIsPrinted
  <2> SUFFICES ASSUME HistoryInv, reply.history # <<>>
               PROVE  /\ reply.code = "REQ_FUNCTION_ABORTED" /\ printed # <<>>
                      /\ (/\ Len(history) = Len(printed) \/ history[Len(history) - Len(printed)] = CR
                          /\ Last(printed) = CR
                          /\ \E i \in DOMAIN printed : printed[i] \notin Whitespace)
                           => CleanedUp(reply.history, printed)
    BY DEF HistoryIsPrinted
  <2>1. PICK before \in Seq(STRING) :
          history = before \o printed /\ reply.history = GetHistoryUntilNow(before, history)
    BY DEF HistoryInv
  <2>2. printed \in Seq(STRING) /\ GetHistoryUntilNow(before, before \o printed) # <<>>
    BY <2>1 DEF HistoryInv
  <2>3. QED
    BY <2>1, <2>2, PrintedText DEF HistoryInv
<1>4. QED
  BY <1>1, <1>2, <1>3, PTL DEF Spec
=============================================================================
