------------------------- MODULE CallFunctionProofs -------------------------
(* Proofs for CallFunction, for any declarations and parameters.            *)
EXTENDS CallFunction, FiniteSetTheorems, SequenceTheorems, WellFoundedInduction, TLAPS

-----------------------------------------------------------------------------
(* The k-th smallest number of a set *)

Rank(S, i) == Cardinality({j \in S : j <= i})

(* A larger number has a larger rank.                                       *)
LEMMA RankGrows ==
  ASSUME NEW S \in SUBSET Nat, IsFiniteSet(S), NEW i \in S, NEW j \in S, i < j
  PROVE  Rank(S, i) < Rank(S, j)
<1> DEFINE A == {x \in S : x <= i}
           B == {x \in S : x <= j}
<1>0. IsFiniteSet(B)
  BY FS_Subset
<1>1. A \in SUBSET B
  <2>1. \A x \in S : x <= i => x <= j
    OBVIOUS
  <2>2. QED
    BY <2>1
<1>2. j \in B /\ j \notin A
  OBVIOUS
<1>3. Cardinality(A) <= Cardinality(B) /\ Cardinality(A) # Cardinality(B)
  BY <1>0, <1>1, <1>2, FS_Subset
<1>4. Cardinality(A) \in Nat /\ Cardinality(B) \in Nat
  BY <1>0, <1>1, FS_Subset, FS_CardinalityType
<1>5. QED
  BY <1>3, <1>4 DEF Rank

(* Ranks are the numbers up to the size of the set.                         *)
LEMMA RankType ==
  ASSUME NEW S \in SUBSET Nat, IsFiniteSet(S), NEW i \in S
  PROVE  Rank(S, i) \in 1..Cardinality(S)
<1> DEFINE A == {x \in S : x <= i}
<1>1. IsFiniteSet(A) /\ Cardinality(A) <= Cardinality(S)
  BY FS_Subset
<1>2. Cardinality(A) # 0
  BY <1>1, FS_EmptySet
<1>3. Cardinality(A) \in Nat /\ Cardinality(S) \in Nat
  BY <1>1, FS_CardinalityType
<1>4. QED
  BY <1>1, <1>2, <1>3 DEF Rank

(* The number of a rank is unique.                                          *)
LEMMA NthOfRank ==
  ASSUME NEW S \in SUBSET Nat, IsFiniteSet(S), NEW i \in S
  PROVE  Nth(S, Rank(S, i)) = i
<1>1. ASSUME NEW j \in S, Rank(S, j) = Rank(S, i) PROVE j = i
  <2>1. ~(i < j)
    BY <1>1, RankGrows, RankType
  <2>2. ~(j < i)
    BY <1>1, RankGrows, RankType
  <2>3. QED
    BY <2>1, <2>2
<1>2. QED
  BY <1>1 DEF Nth, Rank

(* Every rank up to the size of the set is taken.                           *)
LEMMA NthExists ==
  ASSUME NEW S \in SUBSET Nat, IsFiniteSet(S), NEW k \in 1..Cardinality(S)
  PROVE  Nth(S, k) \in S /\ Rank(S, Nth(S, k)) = k
<1> DEFINE T == 1..Cardinality(S)
           f == [i \in S |-> Rank(S, i)]
<1>1. Cardinality(S) \in Nat
  BY FS_CardinalityType
<1>2. IsFiniteSet(T) /\ Cardinality(T) = Cardinality(S)
  BY <1>1, FS_Interval
<1>3. f \in [S -> T]
  BY RankType
<1>4. ASSUME NEW i \in S, NEW j \in S, f[i] = f[j] PROVE i = j
  <2>1. Nth(S, f[i]) = i /\ Nth(S, f[j]) = j
    BY NthOfRank
  <2>2. QED
    BY <1>4, <2>1
<1>5. f \in Injection(S, T)
  BY <1>3, <1>4 DEF Injection, IsInjective
<1>6. f \in Surjection(S, T)
  BY <1>2, <1>5, FS_Injection
<1>7. PICK i \in S : Rank(S, i) = k
  BY <1>6 DEF Surjection
<1>8. QED
  BY <1>7, NthOfRank

(* The k-th smallest of the numbers from 1 on is k.                         *)
LEMMA NthOfInterval ==
  ASSUME NEW n \in Nat, NEW k \in 1..n
  PROVE  Nth(1..n, k) = k
<1>1. {j \in 1..n : j <= k} = 1..k
  OBVIOUS
<1>2. Rank(1..n, k) = k
  <2>1. Cardinality(1..k) = k
    BY FS_Interval
  <2>2. Rank(1..n, k) = Cardinality(1..k)
    BY <1>1 DEF Rank
  <2>3. QED
    BY <2>1, <2>2
<1>3. IsFiniteSet(1..n) /\ 1..n \in SUBSET Nat
  BY FS_Interval
<1>4. QED
  BY <1>2, <1>3, NthOfRank

(* A shifted set has the same ranks.                                        *)
LEMMA NthOfShifted ==
  ASSUME NEW S \in SUBSET Nat, IsFiniteSet(S), NEW n \in Nat
  PROVE  LET T == {i + n : i \in S} IN
           /\ Cardinality(T) = Cardinality(S)
           /\ \A k \in 1..Cardinality(S) : Nth(T, k) = Nth(S, k) + n
<1> DEFINE Shift(A) == {i + n : i \in A}
           T == Shift(S)
<1>1. ASSUME NEW A \in SUBSET S
      PROVE  IsFiniteSet(Shift(A)) /\ Cardinality(Shift(A)) = Cardinality(A)
  <2> DEFINE f == [i \in A |-> i + n]
  <2>1. f \in [A -> Shift(A)]
    OBVIOUS
  <2>2. \A i, j \in A : f[i] = f[j] => i = j
    OBVIOUS
  <2>3. \A t \in Shift(A) : \E i \in A : f[i] = t
    OBVIOUS
  <2> HIDE DEF f
  <2>4. f \in Bijection(A, Shift(A))
    BY <2>1, <2>2, <2>3 DEF Bijection, Injection, Surjection, IsInjective
  <2>5. IsFiniteSet(A)
    BY FS_Subset
  <2>6. QED
    BY <2>4, <2>5, FS_Bijection DEF ExistsBijection
<1>2. Cardinality(T) = Cardinality(S) /\ IsFiniteSet(T) /\ T \in SUBSET Nat
  BY <1>1
<1>3. ASSUME NEW k \in 1..Cardinality(S) PROVE Nth(T, k) = Nth(S, k) + n
  <2> DEFINE i == Nth(S, k)
  <2>1. i \in S /\ Rank(S, i) = k
    BY NthExists
  <2> HIDE DEF i
  <2>2. {j \in T : j <= i + n} = Shift({j \in S : j <= i})
    BY <2>1
  <2>3. Rank(T, i + n) = k /\ i + n \in T
    BY <1>1, <2>1, <2>2 DEF Rank
  <2>4. Nth(T, k) = i + n
    BY <1>2, <2>3, NthOfRank
  <2>5. QED
    BY <2>4 DEF i
<1>4. QED
  BY <1>2, <1>3
-----------------------------------------------------------------------------
(* Declarations and what GetFunctionInfo reports *)

\* the number of parameters in front of the inputs
Offset == IF decl.multi THEN Len(decl.rets) ELSE 0

(* Functions on 1..n are sequences.                                         *)
LEMMA FunctionIsSeq ==
  ASSUME NEW S, NEW n \in Nat, NEW s \in [1..n -> S]
  PROVE  s \in Seq(S) /\ Len(s) = n /\ DOMAIN s = 1..n
  OBVIOUS

(* Bounded sequences are sequences.                                         *)
LEMMA UpToIsSeq ==
  ASSUME NEW S, NEW n \in Nat, NEW s \in UpTo(S, n)
  PROVE  s \in Seq(S) /\ Len(s) \in 0..n /\ DOMAIN s = 1..Len(s) /\ s \in [1..Len(s) -> S]
<1>1. PICK k \in 0..n : s \in [1..k -> S]
  BY DEF UpTo
<1>2. QED
  BY <1>1

(* The parts of a declaration.                                              *)
LEMMA DeclParts ==
  ASSUME decl \in Decls
  PROVE  /\ decl.multi \in BOOLEAN
         /\ decl.rets \in Seq(Bases) /\ decl.ins \in Seq(Inputs)
         /\ Len(decl.rets) \in Nat /\ Len(decl.ins) \in Nat
         /\ DOMAIN decl.rets = 1..Len(decl.rets) /\ DOMAIN decl.ins = 1..Len(decl.ins)
         /\ Len(decl.rets) >= 1 /\ (~decl.multi => Len(decl.rets) = 1)
         /\ \A i \in 1..Len(decl.rets) : decl.rets[i] \in Bases
         /\ \A i \in 1..Len(decl.ins) : decl.ins[i].base \in Bases /\ decl.ins[i].ref \in BOOLEAN
         /\ Offset \in 0..MaxReturns /\ Len(decl.ins) <= MaxInputs
<1>1. decl.ins \in UpTo(Inputs, MaxInputs)
  BY DEF Decls
<1>2. decl.ins \in Seq(Inputs) /\ Len(decl.ins) \in 0..MaxInputs /\ DOMAIN decl.ins = 1..Len(decl.ins)
      /\ decl.ins \in [1..Len(decl.ins) -> Inputs]
  BY <1>1, UpToIsSeq, CallAssumption
<1>3. \A i \in 1..Len(decl.ins) : decl.ins[i].base \in Bases /\ decl.ins[i].ref \in BOOLEAN
  BY <1>2 DEF Inputs
<1>4. CASE decl.multi
  <2>1. decl.rets \in UpTo(Bases, MaxReturns) /\ decl.rets # <<>> /\ decl.multi = TRUE
    BY <1>4 DEF Decls
  <2>2. decl.rets \in Seq(Bases) /\ Len(decl.rets) \in 0..MaxReturns /\ DOMAIN decl.rets = 1..Len(decl.rets)
        /\ decl.rets \in [1..Len(decl.rets) -> Bases]
    BY <2>1, UpToIsSeq, CallAssumption
  <2>3. Len(decl.rets) >= 1
    BY <2>1, <2>2
  <2>4. QED
    BY <1>2, <1>3, <1>4, <2>1, <2>2, <2>3, CallAssumption DEF Offset
<1>5. CASE ~decl.multi
  <2>1. decl.rets \in [1..1 -> Bases] /\ decl.multi = FALSE
    BY <1>5 DEF Decls
  <2>2. decl.rets \in Seq(Bases) /\ Len(decl.rets) = 1 /\ DOMAIN decl.rets = 1..Len(decl.rets)
    BY <2>1, FunctionIsSeq
  <2>3. \A i \in 1..Len(decl.rets) : decl.rets[i] \in Bases
    BY <2>1, <2>2
  <2>4. Offset = 0 /\ Offset \in 0..MaxReturns
    BY <1>5, CallAssumption DEF Offset
  <2>5. QED
    <3>1. Len(decl.rets) >= 1 /\ Len(decl.rets) \in Nat /\ Len(decl.ins) \in Nat /\ Len(decl.ins) <= MaxInputs
      BY <1>2, <2>2, CallAssumption
    <3>2. decl.multi \in BOOLEAN
      BY <2>1
    <3>3. QED
      BY <1>2, <1>3, <1>5, <2>2, <2>3, <2>4, <3>1, <3>2
<1>6. QED
  BY <1>4, <1>5

(* The types of the parameters, and of the return value.                    *)
LEMMA TypesOfDecl ==
  ASSUME decl \in Decls
  PROVE  /\ Len(Types) = Offset + Len(decl.ins) /\ DOMAIN Types = 1..Len(Types)
         /\ \A i \in 1..Offset : Types[i] = Bits(decl.rets[i]) \cup {"REF"}
         /\ \A i \in 1..Len(decl.ins) :
              Types[Offset + i] = Bits(decl.ins[i].base) \cup IF decl.ins[i].ref THEN {"REF"} ELSE {}
         /\ fip.returnType = IF decl.multi THEN {"NORETURN"} ELSE Bits(decl.rets[1])
<1> DEFINE ins  == [i \in DOMAIN decl.ins |-> Bits(decl.ins[i].base) \cup IF decl.ins[i].ref THEN {"REF"} ELSE {}]
           rets == [i \in DOMAIN decl.rets |-> Bits(decl.rets[i]) \cup {"REF"}]
           I    == Len(decl.ins)
           R    == Len(decl.rets)
           S    == UNION {{ins[i] : i \in 1..I}, {rets[i] : i \in 1..R}}
<1>1. I \in Nat /\ R \in Nat /\ DOMAIN decl.ins = 1..I /\ DOMAIN decl.rets = 1..R /\ decl.multi \in BOOLEAN
  BY DeclParts
<1>2. ins \in [1..I -> S] /\ rets \in [1..R -> S]
  BY <1>1
<1>3. ins \in Seq(S) /\ rets \in Seq(S) /\ Len(ins) = I /\ Len(rets) = R
  BY <1>1, <1>2
<1>4. Types = IF decl.multi THEN rets \o ins ELSE ins
  BY DEF fip, GetFunctionInfo, Types
<1>5. fip.returnType = IF decl.multi THEN {"NORETURN"} ELSE Bits(decl.rets[1])
  BY DEF fip, GetFunctionInfo
<1>6. /\ \A i \in 1..R : rets[i] = Bits(decl.rets[i]) \cup {"REF"}
      /\ \A i \in 1..I : ins[i] = Bits(decl.ins[i].base) \cup IF decl.ins[i].ref THEN {"REF"} ELSE {}
  BY <1>1
<1> HIDE DEF ins, rets, S
<1>7. CASE decl.multi
  <2>1. Len(rets \o ins) = R + I /\ DOMAIN (rets \o ins) = 1..R + I
        /\ (\A i \in 1..R : (rets \o ins)[i] = rets[i])
        /\ (\A i \in 1..I : (rets \o ins)[R + i] = ins[i])
    <3>1. /\ Len(rets \o ins) = Len(rets) + Len(ins) /\ rets \o ins \in Seq(S)
          /\ \A i \in 1..Len(rets) + Len(ins) :
               (rets \o ins)[i] = IF i <= Len(rets) THEN rets[i] ELSE ins[i - Len(rets)]
      BY <1>3, ConcatProperties
    <3>2. Len(rets \o ins) = R + I /\ DOMAIN (rets \o ins) = 1..R + I
      BY <1>3, <3>1, LenProperties
    <3>3. ASSUME NEW i \in 1..R PROVE (rets \o ins)[i] = rets[i]
      BY <1>1, <1>3, <3>1
    <3>4. ASSUME NEW i \in 1..I PROVE (rets \o ins)[R + i] = ins[i]
      <4> HIDE DEF R, I
      <4>1. R + i \in 1..R + I /\ ~(R + i <= R) /\ R + i - R = i
        BY <1>1
      <4>2. QED
        BY <1>3, <3>1, <4>1
    <3>5. QED
      BY <3>2, <3>3, <3>4
  <2>2. Types = rets \o ins /\ Offset = R
    BY <1>4, <1>7 DEF Offset
  <2>3. \A i \in 1..R : Types[i] = Bits(decl.rets[i]) \cup {"REF"}
    BY <1>6, <2>1, <2>2
  <2>4. \A i \in 1..I : Types[R + i] = Bits(decl.ins[i].base) \cup IF decl.ins[i].ref THEN {"REF"} ELSE {}
    BY <1>6, <2>1, <2>2
  <2>5. Len(Types) = R + I /\ DOMAIN Types = 1..Len(Types)
    BY <2>1, <2>2
  <2>6. QED
    BY <1>5, <2>2, <2>3, <2>4, <2>5
<1>8. CASE ~decl.multi
  <2>1. Len(Types) = I /\ DOMAIN Types = 1..I /\ \A i \in 1..I : Types[i] = ins[i]
    BY <1>1, <1>3, <1>4, <1>8
  <2>2. QED
    BY <1>1, <1>5, <1>6, <1>8, <2>1 DEF Offset
<1>9. QED
  BY <1>7, <1>8

(* A parameter is a return value or an input.                               *)
LEMMA ParameterKinds ==
  ASSUME decl \in Decls, NEW i \in 1..Len(Types)
  PROVE  \/ i \in 1..Offset /\ decl.rets[i] \in Bases /\ Types[i] = Bits(decl.rets[i]) \cup {"REF"}
         \/ /\ i > Offset /\ i - Offset \in 1..Len(decl.ins)
            /\ decl.ins[i - Offset].base \in Bases
            /\ Types[i] = Bits(decl.ins[i - Offset].base) \cup
                            IF decl.ins[i - Offset].ref THEN {"REF"} ELSE {}
<1>1. Offset \in Nat /\ Len(decl.ins) \in Nat /\ Len(Types) = Offset + Len(decl.ins)
  BY DeclParts, TypesOfDecl
<1>2. CASE i <= Offset
  <2>1. i \in 1..Len(decl.rets)
    BY <1>1, <1>2 DEF Offset
  <2>2. QED
    BY <1>1, <1>2, <2>1, DeclParts, TypesOfDecl
<1>3. CASE i > Offset
  <2>1. i - Offset \in 1..Len(decl.ins) /\ Offset + (i - Offset) = i
    BY <1>1, <1>3
  <2>2. QED
    BY <1>3, <2>1, DeclParts, TypesOfDecl
<1>4. QED
  BY <1>1, <1>2, <1>3
-----------------------------------------------------------------------------
(* Types *)

Plain   == {"variable", "string", "dfref"}
Listed  == Plain \cup {"wave"}

(* The type code of a base never has one of the two flags.                  *)
LEMMA BitsFlags ==
  ASSUME NEW b \in AllBases, NEW X \in SUBSET {"REF"}
  PROVE  /\ "REF" \notin Bits(b) /\ "NORETURN" \notin Bits(b)
         /\ ClearBit(Bits(b) \cup X, "REF") = Bits(b)
         /\ Bits(b) # {"NORETURN"}
  BY DEF AllBases, Bits, ClearBit

(* What the checks of CanBeProcessed say of a type.                         *)
LEMMA CheckOfType ==
  ASSUME NEW b \in AllBases, NEW X \in SUBSET {"REF"}
  PROVE  /\ SupportedInput(Bits(b) \cup X) <=> b \in Plain
         /\ SupportedOutput(Bits(b) \cup X) <=> b \in Listed
         /\ IsBitSet(Bits(b) \cup X, "FP64") <=> b \in {"variable", "complex"}
         /\ IsBitSet(Bits(b) \cup X, "DATAFOLDER") <=> b = "dfref"
         /\ IsBitSet(Bits(b) \cup X, "HSTRING") <=> b = "string"
         /\ IsBitSet(Bits(b) \cup X, "REF") <=> X = {"REF"}
         /\ Bits(b) \in {{"FP64"}, {"HSTRING"}, {"WAVE"}, {"DATAFOLDER"}, {"NORETURN"}} <=> b \in Listed
  BY DEF AllBases, Bits, SupportedInput, SupportedOutput, IsBitSet, IsWaveType, Plain, Listed

(* What the switches of the parameter handler make of a type.               *)
LEMMA SwitchOfType ==
  ASSUME NEW b \in AllBases, NEW X \in SUBSET {"REF"}
  PROVE  /\ b \in Listed => HasParameterSize(Bits(b) \cup X) /\ TypeString(Bits(b) \cup X) = b
         /\ b = "variable" => Convert(Bits(b) \cup X, "number") = "value"
         /\ b = "string" => \A text : Convert(Bits(b) \cup X, text) = "string"
         /\ b = "dfref" => \A text : Convert(Bits(b) \cup X, text) =
                            CASE text = "path" -> "folder"
                              [] text = "long" -> "REQ_INVALID_PARAM_FORMAT"
                              [] OTHER -> "INTERNAL_ERROR"
<1>1. ClearBit(Bits(b) \cup X, "REF") = Bits(b) /\ ClearBit(Bits(b), "REF") = Bits(b)
  BY BitsFlags DEF ClearBit
<1>2. b \in Listed => HasParameterSize(Bits(b) \cup X)
  BY <1>1 DEF Listed, Plain, Bits, HasParameterSize, IsWaveType, IsBitSet
<1>3. b \in Listed => TypeString(Bits(b) \cup X) = b
  BY <1>1 DEF Listed, Plain, Bits, TypeString, IsWaveType, IsBitSet
<1>4. QED
  BY <1>1, <1>2, <1>3 DEF Bits, Convert, IsConvertibleToDouble

(* A nonempty set of natural numbers has a least element.                   *)
LEMMA LeastElement ==
  ASSUME NEW S \in SUBSET Nat, S # {}
  PROVE  Min(S) \in S /\ \A y \in S : Min(S) <= y
<1>1. PICK m \in S : \A y \in S : ~ (<<y, m>> \in OpToRel(<, Nat))
  BY NatLessThanWellFounded, WFMin
<1>2. ASSUME NEW y \in S PROVE m <= y
  <2>1. ~ (<<y, m>> \in OpToRel(<, Nat))
    BY <1>1
  <2>2. ~ (y < m)
    BY <2>1, Zenon DEF OpToRel
  <2>3. QED
    BY <2>2
<1>3. QED
  BY <1>2 DEF Min

(* The multiple return value syntax is recognized by the return type.       *)
LEMMA SyntaxOfDecl ==
  ASSUME decl \in Decls
  PROVE  UsesMultipleReturnValueSyntax <=> decl.multi
<1>1. fip.returnType = IF decl.multi THEN {"NORETURN"} ELSE Bits(decl.rets[1])
  BY TypesOfDecl
<1>2. ~decl.multi => decl.rets[1] \in AllBases
  BY DeclParts, CallAssumption
<1>3. ~decl.multi => Bits(decl.rets[1]) # {"NORETURN"}
  BY <1>2, BitsFlags
<1>4. QED
  BY <1>1, <1>3 DEF UsesMultipleReturnValueSyntax

(* Where the inputs begin: right after the return values, or later when     *)
(* inputs passed by reference follow them (the limitation).                 *)
LEMMA FirstInput ==
  ASSUME decl \in Decls
  PROVE  /\ GetFirstInputParameterIndex \in Offset..Len(Types)
         /\ ~Limitation => GetFirstInputParameterIndex = Offset
         /\ GetNumberOfInputParameters = Len(Types) - GetFirstInputParameterIndex
         /\ decl.multi => GetNumberOfReturnValues = GetFirstInputParameterIndex
         /\ decl.multi => \A i \in 1..GetFirstInputParameterIndex : IsBitSet(Types[i], "REF")
<1> DEFINE n == Len(Types)
           I == {i \in 1..n : ~IsBitSet(Types[i], "REF")}
<1>1. /\ Offset \in Nat /\ Len(decl.ins) \in Nat /\ n = Offset + Len(decl.ins) /\ DOMAIN Types = 1..n
      /\ decl.multi \in BOOLEAN
  BY DeclParts, TypesOfDecl
<1>2. n \in Nat /\ I \in SUBSET Nat
  BY <1>1
<1>3. CASE ~decl.multi
  <2>1. ~UsesMultipleReturnValueSyntax /\ Offset = 0
    BY <1>3, SyntaxOfDecl DEF Offset
  <2>2. QED
    BY <1>2, <1>3, <2>1 DEF GetFirstInputParameterIndex, GetNumberOfInputParameters
<1>4. CASE decl.multi
  <2>1. UsesMultipleReturnValueSyntax
    BY <1>4, SyntaxOfDecl
  <2>2. GetNumberOfReturnValues = IF I = {} THEN n ELSE Min(I) - 1
    <3>1. CASE I # {}
      <4>1. Min(I) \in I
        BY <1>2, <3>1, LeastElement
      <4>2. Min(I) # 0
        BY <1>2, <4>1
      <4>3. SelectInSeq(Types, LAMBDA ty : ~IsBitSet(ty, "REF")) = Min(I)
        BY <3>1, Zenon DEF SelectInSeq
      <4>4. QED
        BY <2>1, <3>1, <4>2, <4>3 DEF GetNumberOfReturnValues
    <3>2. CASE I = {}
      <4>1. SelectInSeq(Types, LAMBDA ty : ~IsBitSet(ty, "REF")) = 0
        BY <3>2 DEF SelectInSeq
      <4>2. QED
        BY <2>1, <3>2, <4>1 DEF GetNumberOfReturnValues
    <3>3. QED
      BY <3>1, <3>2
  <2>3. GetFirstInputParameterIndex = GetNumberOfReturnValues
        /\ GetNumberOfInputParameters = n - GetNumberOfReturnValues
    BY <2>1 DEF GetFirstInputParameterIndex, GetNumberOfInputParameters
  <2>4. \A i \in 1..Offset : IsBitSet(Types[i], "REF")
    BY TypesOfDecl DEF IsBitSet
  <2>5. CASE I = {}
    <3>1. GetNumberOfReturnValues = n /\ \A i \in 1..n : IsBitSet(Types[i], "REF")
      BY <2>2, <2>5
    <3>2. ASSUME ~Limitation PROVE Len(decl.ins) = 0
      <4>1. SUFFICES ASSUME Len(decl.ins) >= 1 PROVE FALSE
        BY <1>1
      <4>2. decl.ins # <<>> /\ 1 \in 1..Len(decl.ins) /\ decl.ins[1].ref \in BOOLEAN
            /\ decl.ins[1].base \in AllBases
        BY <4>1, DeclParts, CallAssumption
      <4>3. ~decl.ins[1].ref
        BY <1>4, <3>2, <4>2 DEF Limitation
      <4>4. Types[Offset + 1] = Bits(decl.ins[1].base) \cup {}
        BY <4>2, <4>3, TypesOfDecl, Zenon
      <4>5. Offset + 1 \in 1..n
        BY <1>1, <4>1
      <4>6. QED
        BY <3>1, <4>2, <4>4, <4>5, BitsFlags DEF IsBitSet
    <3>3. QED
      BY <1>1, <1>2, <2>3, <3>1, <3>2
  <2>6. CASE I # {}
    <3>1. /\ Min(I) \in 1..n /\ ~IsBitSet(Types[Min(I)], "REF")
          /\ \A i \in 1..Min(I) - 1 : IsBitSet(Types[i], "REF")
      <4>1. Min(I) \in I /\ \A i \in I : Min(I) <= i
        BY <1>2, <2>6, LeastElement
      <4>2. ASSUME NEW i \in 1..Min(I) - 1 PROVE IsBitSet(Types[i], "REF")
        <5>1. i \in 1..n /\ ~(Min(I) <= i)
          BY <1>2, <4>1
        <5>2. QED
          BY <4>1, <5>1
      <4>3. QED
        BY <4>1, <4>2
    <3>2. Min(I) > Offset
      BY <1>1, <2>4, <3>1
    <3>3. ASSUME ~Limitation PROVE Min(I) = Offset + 1
      <4>1. Len(decl.ins) >= 1 /\ Offset + 1 \in 1..n
        BY <1>1, <3>1, <3>2
      <4>2. decl.ins # <<>> /\ 1 \in 1..Len(decl.ins) /\ decl.ins[1].ref \in BOOLEAN
            /\ decl.ins[1].base \in AllBases
        BY <4>1, DeclParts, CallAssumption
      <4>3. ~decl.ins[1].ref
        BY <1>4, <3>3, <4>2 DEF Limitation
      <4>4. Types[Offset + 1] = Bits(decl.ins[1].base) \cup {}
        BY <4>2, <4>3, TypesOfDecl, Zenon
      <4>5. ~IsBitSet(Types[Offset + 1], "REF")
        BY <4>2, <4>4, BitsFlags DEF IsBitSet
      <4>6. QED
        BY <1>1, <3>1, <3>2, <4>1, <4>5
    <3>4. GetNumberOfReturnValues = Min(I) - 1
      BY <2>2, <2>6
    <3> HIDE DEF I
    <3>5. QED
      BY <1>1, <1>2, <2>3, <3>1, <3>2, <3>3, <3>4
  <2>7. QED
    BY <2>5, <2>6
<1>5. QED
  BY <1>1, <1>3, <1>4
-----------------------------------------------------------------------------
(* The check *)

\* the parameters of unsupported types
Bad == {i \in 1..Len(Types) : IF IsInput(i) THEN ~SupportedInput(Types[i]) ELSE ~SupportedOutput(Types[i])}

(* The signature is fine if no parameter is bad; otherwise one of two codes. *)
LEMMA SignatureCodes ==
  ASSUME decl \in Decls
  PROVE  /\ Bad = {} => SignatureCode = "REQ_SUCCESS"
         /\ Bad # {} => SignatureCode \in {"REQ_UNSUPPORTED_FUNC_SIG", "REQ_UNSUPPORTED_FUNC_RET"}
<1> DEFINE pairs == [i \in DOMAIN Types |-> <<i, Types[i]>>]
           test(p) == IF IsInput(p[1]) THEN ~SupportedInput(p[2]) ELSE ~SupportedOutput(p[2])
           it == SelectInSeq(pairs, LAMBDA p : IF IsInput(p[1]) THEN ~SupportedInput(p[2])
                                               ELSE ~SupportedOutput(p[2]))
           I == {i \in 1..Len(pairs) : test(pairs[i])}
<1>1. Len(Types) \in Nat /\ DOMAIN Types = 1..Len(Types)
  BY DeclParts, TypesOfDecl
<1>2. Len(pairs) = Len(Types) /\ \A i \in 1..Len(Types) : pairs[i] = <<i, Types[i]>>
  BY <1>1
<1>3. I = Bad
  BY <1>2 DEF Bad
<1>4. it = IF I # {} THEN Min(I) ELSE 0
  BY Zenon DEF SelectInSeq
<1>5. I # {} => Min(I) # 0
  <2>1. I \in SUBSET Nat
    BY <1>1, <1>2
  <2>2. I # {} => Min(I) \in I
    BY <2>1, LeastElement
  <2>3. \A i \in I : i # 0
    BY <1>1, <1>2
  <2> HIDE DEF I
  <2>4. QED
    BY <2>2, <2>3
<1>6. SignatureCode = CASE it = 0 -> "REQ_SUCCESS"
                        [] it # 0 /\ IsInput(it) -> "REQ_UNSUPPORTED_FUNC_SIG"
                        [] OTHER -> "REQ_UNSUPPORTED_FUNC_RET"
  BY DEF SignatureCode
<1> HIDE DEF it, I
<1>7. QED
  BY <1>3, <1>4, <1>5, <1>6

(* What is known of the parameters of a call that has passed the check.     *)
LEMMA PassedCheck ==
  ASSUME decl \in Decls, CheckCode = "REQ_SUCCESS", Len(params) \in Nat
  PROVE  /\ Len(params) = GetNumberOfInputParameters
         /\ ~decl.multi => decl.rets[1] \in Listed
         /\ \A i \in 1..Len(Types) : IsInput(i) /\ IsBitSet(Types[i], "FP64") => Text(i) = "number"
         /\ Bad = {}
<1>1. GetNumberOfInputParameters \in Nat
  <2>1. Len(Types) \in Nat
    BY DeclParts, TypesOfDecl
  <2>2. QED
    BY <2>1, FirstInput, DeclParts
<1>2. ~(Len(params) < GetNumberOfInputParameters) /\ ~(Len(params) > GetNumberOfInputParameters)
  BY DEF CheckCode
<1>3. \A i \in DOMAIN Types : IsInput(i) /\ IsBitSet(Types[i], "FP64") => IsConvertibleToDouble(Text(i))
  BY <1>2 DEF CheckCode
<1>4. fip.returnType \in {{"FP64"}, {"HSTRING"}, {"WAVE"}, {"DATAFOLDER"}, {"NORETURN"}}
  BY <1>2, <1>3 DEF CheckCode
<1>5. SignatureCode = "REQ_SUCCESS"
  BY <1>2, <1>3, <1>4 DEF CheckCode
<1>6. Bad = {}
  BY <1>5, SignatureCodes
<1>7. ASSUME ~decl.multi PROVE decl.rets[1] \in Listed
  <2>1. decl.rets[1] \in AllBases
    BY <1>7, DeclParts, CallAssumption
  <2>2. fip.returnType = Bits(decl.rets[1])
    BY <1>7, TypesOfDecl
  <2>3. Bits(decl.rets[1]) \in {{"FP64"}, {"HSTRING"}, {"WAVE"}, {"DATAFOLDER"}, {"NORETURN"}} <=> decl.rets[1] \in Listed
    BY <2>1, CheckOfType
  <2>4. QED
    BY <1>4, <2>2, <2>3
<1>8. DOMAIN Types = 1..Len(Types)
  BY TypesOfDecl
<1>9. QED
  BY <1>1, <1>2, <1>3, <1>6, <1>7, <1>8 DEF IsConvertibleToDouble

(* Each parameter has one of the bases, with or without a reference.        *)
LEMMA ParameterBase ==
  ASSUME decl \in Decls, NEW i \in 1..Len(Types)
  PROVE  \E b \in AllBases, X \in SUBSET {"REF"} : Types[i] = Bits(b) \cup X
BY ParameterKinds, CallAssumption

\* the conversion of path i fails with error e
PathFails(i, e) ==
  /\ IsInput(i) /\ IsBitSet(Types[i], "DATAFOLDER")
  /\ \/ e = "REQ_INVALID_PARAM_FORMAT" /\ Text(i) = "long"
     \/ e = "INTERNAL_ERROR" /\ Text(i) \notin {"path", "long"}

(* The switches of the parameter handler know all types that pass; what     *)
(* cannot be converted is a path.                                           *)
LEMMA PassedTypes ==
  ASSUME decl \in Decls, CheckCode = "REQ_SUCCESS", Len(params) \in Nat, NEW i \in 1..Len(Types),
         IsInput(i) => Text(i) \in Texts
  PROVE  /\ HasParameterSize(Types[i]) /\ TypeString(Types[i]) \in Listed
         /\ Converted[i] \in {"null", "value", "string", "folder"} \cup Errors
         /\ Converted[i] \in Errors => PathFails(i, Converted[i])
<1>1. PICK b \in AllBases, X \in SUBSET {"REF"} : Types[i] = Bits(b) \cup X
  BY ParameterBase
<1>2. IF IsInput(i) THEN SupportedInput(Types[i]) ELSE SupportedOutput(Types[i])
  BY PassedCheck DEF Bad
<1>3. b \in Listed /\ (IsInput(i) => b \in Plain)
  <2>1. /\ SupportedInput(Bits(b) \cup X) <=> b \in Plain
        /\ SupportedOutput(Bits(b) \cup X) <=> b \in Listed
    BY CheckOfType, Zenon
  <2>2. Plain \subseteq Listed
    BY DEF Listed
  <2>3. IF IsInput(i) THEN b \in Plain ELSE b \in Listed
    BY <1>1, <1>2, <2>1
  <2>4. QED
    BY <2>2, <2>3
<1>4. HasParameterSize(Types[i]) /\ TypeString(Types[i]) \in Listed
  <2>1. b \in Listed => HasParameterSize(Bits(b) \cup X) /\ TypeString(Bits(b) \cup X) = b
    BY SwitchOfType, Zenon
  <2>2. QED
    BY <1>1, <1>3, <2>1
<1>5. Converted[i] = IF IsInput(i) THEN Convert(Types[i], Text(i)) ELSE "null"
  <2>1. i \in DOMAIN Types
    BY TypesOfDecl
  <2>2. QED
    BY <2>1, Zenon DEF Converted
<1>6. CASE ~IsInput(i)
  BY <1>4, <1>5, <1>6 DEF Errors
<1>7. CASE IsInput(i)
  <2>0. Converted[i] = Convert(Types[i], Text(i))
    BY <1>5, <1>7
  <2>1. CASE b = "variable"
    <3>1. IsBitSet(Types[i], "FP64")
      <4>1. IsBitSet(Bits(b) \cup X, "FP64") <=> b \in {"variable", "complex"}
        BY CheckOfType
      <4>2. QED
        BY <1>1, <2>1, <4>1
    <3>2. Text(i) = "number"
      BY <1>7, <3>1, PassedCheck
    <3>3. Convert(Bits(b) \cup X, "number") = "value"
      BY <2>1, SwitchOfType
    <3>4. Converted[i] = "value"
      BY <1>1, <2>0, <3>2, <3>3
    <3>5. QED
      BY <1>4, <3>4 DEF Errors
  <2>2. CASE b = "string"
    <3>1. Convert(Bits(b) \cup X, Text(i)) = "string"
      <4>1. b = "string" => \A text : Convert(Bits(b) \cup X, text) = "string"
        BY SwitchOfType, Zenon
      <4>2. QED
        BY <2>2, <4>1
    <3>2. Converted[i] = "string"
      BY <1>1, <2>0, <3>1
    <3>3. QED
      BY <1>4, <3>2 DEF Errors
  <2>3. CASE b = "dfref"
    <3>1. IsBitSet(Types[i], "DATAFOLDER")
      <4>1. IsBitSet(Bits(b) \cup X, "DATAFOLDER") <=> b = "dfref"
        BY CheckOfType
      <4>2. QED
        BY <1>1, <2>3, <4>1
    <3>2. Convert(Bits(b) \cup X, Text(i)) =
            CASE Text(i) = "path" -> "folder"
              [] Text(i) = "long" -> "REQ_INVALID_PARAM_FORMAT"
              [] OTHER -> "INTERNAL_ERROR"
      BY <2>3, SwitchOfType
    <3>3. Converted[i] = CASE Text(i) = "path" -> "folder"
                           [] Text(i) = "long" -> "REQ_INVALID_PARAM_FORMAT"
                           [] OTHER -> "INTERNAL_ERROR"
      BY <1>1, <2>0, <3>2
    <3>4. QED
      BY <1>4, <1>7, <3>1, <3>3 DEF Errors, PathFails
  <2>4. QED
    BY <1>3, <1>7, <2>1, <2>2, <2>3 DEF Plain
<1>8. QED
  BY <1>6, <1>7
-----------------------------------------------------------------------------
(* The inductive invariant *)

Values  == {"null", "value", "string", "folder", "wave", "given"}
Filled  == slots \in [1..Len(Types) -> Values]
Running == {"checked", "ready", "called", "aborted", "results"}
Outcomes == {"REQ_SUCCESS", "REQ_FUNCTION_ABORTED", "INTERNAL_ERROR"}

\* the constructor has failed on a path
ConstructorFails(e) == \E i \in DOMAIN Types : PathFails(i, e)

\* the stages, the codes they may have, and when the storage is filled
FlowInv ==
  /\ decl \in Decls
  /\ params \in UpTo(Texts, MaxInputs)
  /\ stage \in {"new", "checked", "ready", "called", "aborted", "results", "cleanup", "replied"}
  /\ ret \in {"unset", "null", "value", "string", "folder", "wave"}
  /\ slots = <<>> \/ Filled
  /\ stage \in {"new", "checked"} => slots = <<>>
  /\ stage \in {"ready", "called", "aborted", "results", "cleanup"} => Filled
  /\ stage \in {"new"} \cup Running => code = "REQ_SUCCESS"
  /\ stage \in Running \cup {"cleanup"} => CheckCode = "REQ_SUCCESS"
  /\ stage = "cleanup" => code \in Outcomes
  /\ stage = "replied" =>
       \/ CheckCode # "REQ_SUCCESS" /\ code = CheckCode
       \/ CheckCode = "REQ_SUCCESS" /\ Filled /\ code \in Outcomes
       \/ /\ CheckCode = "REQ_SUCCESS" /\ slots = <<>>
          /\ \E e \in Errors : code = e /\ ConstructorFails(e)

\* where the string handles are
StringInv ==
  /\ freed \in [0..Len(Types) -> {0, 1}]
  /\ stage \in {"new", "checked", "ready", "called", "aborted"} => \A i \in 0..Len(Types) : freed[i] = 0
  /\ \A i \in 1..Len(Types) : freed[i] = 1 => Filled /\ slots[i] = "null"
  /\ stage \in {"called", "aborted", "results", "cleanup"} /\ code # "INTERNAL_ERROR" =>
       \A i \in 1..Len(Types) : Types[i] = {"HSTRING", "REF"} => freed[i] = 1 \/ slots[i] = "string"
  /\ stage = "replied" =>
       \A i \in 1..Len(Types) : Types[i] = {"HSTRING", "REF"} =>
         /\ Filled => slots[i] = "null"
         /\ code \in {"REQ_SUCCESS", "REQ_FUNCTION_ABORTED"} => freed[i] = 1

\* where the single returned string is
ReturnInv ==
  fip.returnType = {"HSTRING"} =>
    /\ stage \in {"called", "aborted"} => ret = "string"
    /\ stage = "results" => freed[0] = 1
    /\ stage \in {"cleanup", "replied"} /\ code = "REQ_SUCCESS" => freed[0] = 1
    /\ stage \in {"cleanup", "replied"} /\ code = "REQ_FUNCTION_ABORTED" =>
         freed[0] = 0 /\ ret = "string"

\* the inputs passed by reference, and their types in order
Refs == {i \in DOMAIN decl.ins : decl.ins[i].ref}
DeclaredByRef == [k \in 1..Cardinality(Refs) |-> decl.ins[Nth(Refs, k)].base]

\* what the reply holds so far
ResultInv ==
  /\ \A k \in DOMAIN result : result[k] \in Listed
  /\ \A k \in DOMAIN byRef : byRef[k] \in Listed
  /\ stage \in {"results", "cleanup", "replied"} /\ code = "REQ_SUCCESS" /\ ~Limitation => result = decl.rets
  /\ stage \in {"cleanup", "replied"} /\ code = "REQ_SUCCESS" /\ ~Limitation => byRef = DeclaredByRef

CallInv == FlowInv /\ StringInv /\ ReturnInv /\ ResultInv

(* No step changes the call, nor what is computed from it.                  *)
LEMMA CallIsConstant ==
  ASSUME [Next]_vars
  PROVE  /\ UNCHANGED <<decl, params>>
         /\ Types' = Types /\ CheckCode' = CheckCode /\ Limitation' = Limitation
         /\ fip' = fip /\ DeclaredByRef' = DeclaredByRef
         /\ \A e : ConstructorFails(e)' = ConstructorFails(e)
<1>1. decl' = decl /\ params' = params
  BY DEF Next, vars, CanBeProcessed, Construct, FunctionRuns, CallFails, FunctionAborted,
         GetReturnValues, GetReturnValuesFails, GetPassByRefInputArray, GetPassByRefInputArrayFails,
         ReadFails, DestroyHandler
<1>2. fip' = fip
  BY <1>1 DEF fip
<1>3. Types' = Types
  BY <1>2 DEF Types
<1>4. UsesMultipleReturnValueSyntax' = UsesMultipleReturnValueSyntax
  BY <1>2 DEF UsesMultipleReturnValueSyntax
<1>5. GetNumberOfReturnValues' = GetNumberOfReturnValues
  <2>1. GetNumberOfReturnValues =
          IF ~UsesMultipleReturnValueSyntax THEN 1
          ELSE LET I == {i \in 1..Len(Types) : ~IsBitSet(Types[i], "REF")}
                   it == IF I # {} THEN Min(I) ELSE 0
               IN  IF it = 0 THEN Len(Types) ELSE it - 1
    BY Zenon DEF GetNumberOfReturnValues, SelectInSeq
  <2>2. GetNumberOfReturnValues' =
          IF ~UsesMultipleReturnValueSyntax' THEN 1
          ELSE LET I == {i \in 1..Len(Types') : ~IsBitSet(Types'[i], "REF")}
                   it == IF I # {} THEN Min(I) ELSE 0
               IN  IF it = 0 THEN Len(Types') ELSE it - 1
    BY Zenon DEF GetNumberOfReturnValues, SelectInSeq
  <2>3. QED
    BY <1>3, <1>4, <2>1, <2>2, Zenon
<1>6. /\ GetNumberOfInputParameters' = GetNumberOfInputParameters
      /\ GetFirstInputParameterIndex' = GetFirstInputParameterIndex
  BY <1>3, <1>4, <1>5 DEF GetNumberOfInputParameters, GetFirstInputParameterIndex
<1>7. SignatureCode' = SignatureCode
  <2> DEFINE At(types, first) ==
               LET pairs == [i \in DOMAIN types |-> <<i, types[i]>>]
                   I  == {i \in 1..Len(pairs) : IF pairs[i][1] > first THEN ~SupportedInput(pairs[i][2])
                                                ELSE ~SupportedOutput(pairs[i][2])}
                   it == IF I # {} THEN Min(I) ELSE 0
               IN  CASE it = 0 -> "REQ_SUCCESS"
                     [] it # 0 /\ it > first -> "REQ_UNSUPPORTED_FUNC_SIG"
                     [] OTHER -> "REQ_UNSUPPORTED_FUNC_RET"
  <2>1. SignatureCode = At(Types, GetFirstInputParameterIndex)
    BY Zenon DEF SignatureCode, SelectInSeq, IsInput
  <2>2. SignatureCode' = At(Types', GetFirstInputParameterIndex')
    BY Zenon DEF SignatureCode, SelectInSeq, IsInput
  <2> HIDE DEF At
  <2>3. QED
    BY <1>3, <1>6, <2>1, <2>2
<1>8. CheckCode' = CheckCode
  BY <1>1, <1>2, <1>3, <1>6, <1>7 DEF CheckCode, IsInput, Text
<1>9. ASSUME NEW e PROVE ConstructorFails(e)' = ConstructorFails(e)
  BY <1>1, <1>3, <1>6 DEF ConstructorFails, PathFails, IsInput, Text
<1>10. Limitation' = Limitation
  BY <1>1 DEF Limitation
<1>11. DeclaredByRef' = DeclaredByRef
  BY <1>1 DEF DeclaredByRef, Refs
<1>12. QED
  BY <1>1, <1>2, <1>3, <1>8, <1>9, <1>10, <1>11

(* The codes of the check.                                                  *)
LEMMA CheckCodes ==
  ASSUME decl \in Decls
  PROVE  CheckCode \in {"REQ_SUCCESS", "REQ_TOO_FEW_FUNCTION_PARAMS", "REQ_TOO_MANY_FUNCTION_PARAMS",
                        "REQ_INVALID_PARAM_FORMAT", "REQ_UNSUPPORTED_FUNC_SIG", "REQ_UNSUPPORTED_FUNC_RET"}
<1>1. SignatureCode \in {"REQ_SUCCESS", "REQ_UNSUPPORTED_FUNC_SIG", "REQ_UNSUPPORTED_FUNC_RET"}
  BY SignatureCodes
<1>2. QED
  BY <1>1 DEF CheckCode

(* The text of an input is one of the call's parameters.                    *)
LEMMA InputTexts ==
  ASSUME decl \in Decls, params \in UpTo(Texts, MaxInputs), CheckCode = "REQ_SUCCESS",
         NEW i \in 1..Len(Types), IsInput(i)
  PROVE  Text(i) \in Texts
<1>1. Len(params) \in Nat /\ params \in [1..Len(params) -> Texts]
  BY UpToIsSeq, CallAssumption
<1>2. Len(params) = Len(Types) - GetFirstInputParameterIndex
  BY <1>1, PassedCheck, FirstInput
<1>3. Offset \in Nat /\ Len(Types) \in Nat
  BY DeclParts, TypesOfDecl
<1>4. i - GetFirstInputParameterIndex \in 1..Len(params)
  BY <1>2, <1>3, FirstInput DEF IsInput
<1>5. QED
  BY <1>1, <1>4 DEF Text

(* The parameters of a call that has passed the check.                      *)
LEMMA PassedParameters ==
  ASSUME FlowInv, CheckCode = "REQ_SUCCESS", NEW i \in 1..Len(Types)
  PROVE  /\ HasParameterSize(Types[i]) /\ TypeString(Types[i]) \in Listed
         /\ Converted[i] \in {"null", "value", "string", "folder"} \cup Errors
         /\ Converted[i] \in Errors => PathFails(i, Converted[i])
<1>1. Len(params) \in Nat
  BY UpToIsSeq, CallAssumption DEF FlowInv
<1>2. QED
  BY <1>1, PassedTypes, InputTexts DEF FlowInv

(* Extract fills and empties nothing else.                                  *)
LEMMA ExtractKeepsStorage ==
  ASSUME FlowInv, Filled, NEW is \in SUBSET (1..Len(Types)), freed \in [0..Len(Types) -> {0, 1}],
         \A i \in 1..Len(Types) : freed[i] = 1 => slots[i] = "null",
         Extract(is), Types' = Types
  PROVE  /\ Filled' /\ freed' \in [0..Len(Types) -> {0, 1}] /\ freed'[0] = freed[0]
         /\ \A i \in 1..Len(Types) : freed'[i] = 1 => slots'[i] = "null"
         /\ \A i \in 1..Len(Types) : freed[i] = 1 \/ slots[i] = "string" =>
              freed'[i] = 1 \/ (slots'[i] = "string" /\ i \notin is)
<1>1. Len(Types) \in Nat
  BY DeclParts, TypesOfDecl DEF FlowInv
<1>2. DOMAIN slots = 1..Len(Types) /\ DOMAIN freed = 0..Len(Types)
  BY DEF Filled
<1>3. /\ slots' = [i \in 1..Len(Types) |-> IF i \in is THEN "null" ELSE slots[i]]
      /\ freed' = [i \in 0..Len(Types) |-> freed[i] + IF i \in is /\ slots[i] = "string" THEN 1 ELSE 0]
  BY <1>2 DEF Extract
<1>4. \A i \in 1..Len(Types) : (IF i \in is THEN "null" ELSE slots[i]) \in Values
  BY DEF Filled, Values
<1>5. Filled'
  BY <1>3, <1>4 DEF Filled, Values
<1>6. ASSUME NEW i \in 1..Len(Types)
      PROVE  /\ freed[i] \in {0, 1} /\ freed'[i] \in {0, 1}
             /\ freed'[i] = 1 => slots'[i] = "null"
             /\ freed[i] = 1 \/ slots[i] = "string" => freed'[i] = 1 \/ (slots'[i] = "string" /\ i \notin is)
  <2>1. freed[i] \in {0, 1} /\ slots'[i] = IF i \in is THEN "null" ELSE slots[i]
    BY <1>1, <1>3
  <2>2. freed'[i] = freed[i] + IF i \in is /\ slots[i] = "string" THEN 1 ELSE 0
    BY <1>1, <1>3
  <2>3. QED
    BY <2>1, <2>2
<1>7. freed'[0] = freed[0] /\ freed[0] \in {0, 1}
  BY <1>1, <1>3
<1>8. freed' \in [0..Len(Types) -> {0, 1}]
  <2>1. \A i \in 0..Len(Types) : freed'[i] \in {0, 1}
    <3>1. \A i \in 0..Len(Types) : i = 0 \/ i \in 1..Len(Types)
      BY <1>1
    <3>2. QED
      BY <1>6, <1>7, <3>1
  <2>2. QED
    BY <1>3, <2>1
<1>9. QED
  BY <1>5, <1>6, <1>7, <1>8
(* An empty storage is filled only if there are no parameters.              *)
LEMMA EmptyStorage ==
  ASSUME slots = <<>>, Filled
  PROVE  1..Len(Types) = {}
<1>1. DOMAIN slots = {} /\ DOMAIN slots = 1..Len(Types)
  BY DEF Filled
<1>2. QED
  BY <1>1
-----------------------------------------------------------------------------
(* Initial states and steps *)

(* The invariant holds before the check.                                    *)
LEMMA InvInit == Init => CallInv
<1> SUFFICES ASSUME Init PROVE CallInv
  OBVIOUS
<1>1. decl \in Decls /\ Len(Types) \in Nat
  BY DeclParts, TypesOfDecl DEF Init
<1>2. FlowInv
  BY <1>1 DEF Init, FlowInv, Running
<1>3. StringInv
  <2>1. \A i \in 0..Len(Types) : freed[i] = 0
    BY <1>1 DEF Init
  <2>2. freed \in [0..Len(Types) -> {0, 1}]
    BY DEF Init
  <2>3. \A i \in 1..Len(Types) : i \in 0..Len(Types)
    BY <1>1
  <2>4. QED
    BY <2>1, <2>2, <2>3 DEF Init, StringInv
<1>4. ResultInv /\ ReturnInv
  BY DEF Init, ResultInv, ReturnInv
<1>5. QED
  BY <1>2, <1>3, <1>4 DEF CallInv

(* The check.                                                               *)
LEMMA InvCheck ==
  ASSUME CallInv, [Next]_vars, CanBeProcessed
  PROVE  CallInv'
<1> USE CallIsConstant
<1>1. /\ UNCHANGED <<slots, ret, result, byRef, freed>> /\ stage = "new" /\ code' = CheckCode
      /\ stage' = IF CheckCode = "REQ_SUCCESS" THEN "checked" ELSE "replied"
  BY DEF CanBeProcessed
<1>2. CheckCode # "REQ_FUNCTION_ABORTED" /\ slots = <<>>
  BY <1>1, CheckCodes DEF CallInv, FlowInv
<1>3. FlowInv'
  BY <1>1 DEF CallInv, FlowInv, Running, Filled
<1>4. StringInv'
  BY <1>1, <1>2, EmptyStorage DEF CallInv, StringInv, Filled
<1>5. ReturnInv' /\ ResultInv'
  BY <1>1, <1>2 DEF CallInv, ResultInv, ReturnInv
<1>6. QED
  BY <1>3, <1>4, <1>5 DEF CallInv

(* The constructor.                                                         *)
LEMMA InvConstruct ==
  ASSUME CallInv, [Next]_vars, Construct
  PROVE  CallInv'
<1> USE CallIsConstant
<1>1. UNCHANGED <<ret, result, byRef, freed>> /\ stage = "checked" /\ code = "REQ_SUCCESS"
      /\ CheckCode = "REQ_SUCCESS"
  BY DEF Construct, CallInv, FlowInv, Running
<1>2. DOMAIN Types = 1..Len(Types) /\ Len(Types) \in Nat
  BY DeclParts, TypesOfDecl DEF CallInv, FlowInv
<1>3. CASE \E e \in Errors : ConstructError(e) /\ code' = e /\ stage' = "replied" /\ slots' = slots
  <2>1. PICK e \in Errors : ConstructError(e) /\ code' = e /\ stage' = "replied" /\ slots' = slots
    BY <1>3
  <2>2. ConstructorFails(e)
    <3>1. \A i \in DOMAIN Types : HasParameterSize(Types[i])
      BY <1>1, <1>2, PassedParameters DEF CallInv
    <3>2. PICK i \in DOMAIN Types : Converted[i] = e
      BY <2>1, <3>1 DEF ConstructError
    <3>3. QED
      BY <1>1, <1>2, <2>1, <3>2, PassedParameters DEF CallInv, ConstructorFails
  <2>3. slots = <<>> /\ e # "REQ_SUCCESS" /\ e # "REQ_FUNCTION_ABORTED"
    BY <1>1 DEF CallInv, FlowInv, Errors
  <2>4. FlowInv'
    BY <1>1, <2>1, <2>2, <2>3 DEF CallInv, FlowInv, Running, Filled
  <2>5. StringInv'
    BY <1>1, <2>1, <2>3, EmptyStorage DEF CallInv, StringInv, Filled
  <2>6. ReturnInv' /\ ResultInv'
    BY <1>1, <2>1, <2>3 DEF CallInv, ResultInv, ReturnInv
  <2>7. QED
    BY <2>4, <2>5, <2>6 DEF CallInv
<1>4. CASE /\ stage' = "ready" /\ slots' = Converted /\ code' = code
           /\ (GetNumberOfInputParameters = 0 /\ ~UsesMultipleReturnValueSyntax) \/ Constructible
  <2>1. ASSUME NEW i \in 1..Len(Types) PROVE Converted[i] \in Values
    <3>1. CASE GetNumberOfInputParameters = 0 /\ ~UsesMultipleReturnValueSyntax
      <4>1. Len(Types) = 0
        BY <3>1 DEF GetNumberOfInputParameters
      <4>2. QED
        BY <4>1
    <3>2. CASE Constructible
      <4>1. Converted[i] \notin Errors
        BY <1>2, <3>2 DEF Constructible
      <4>2. QED
        BY <1>1, <4>1, PassedParameters DEF CallInv, Values
    <3>3. QED
      BY <1>4, <3>1, <3>2
  <2>2. Filled'
    <3>1. Converted = [i \in 1..Len(Types) |-> Converted[i]]
      BY <1>2 DEF Converted
    <3>2. QED
      BY <1>4, <2>1, <3>1 DEF Filled, Values
  <2>3. FlowInv'
    BY <1>1, <1>4, <2>2 DEF CallInv, FlowInv, Running
  <2>4. StringInv'
    BY <1>1, <1>4, <2>2 DEF CallInv, StringInv
  <2>5. ReturnInv' /\ ResultInv'
    BY <1>1, <1>4 DEF CallInv, ResultInv, ReturnInv
  <2>6. QED
    BY <2>3, <2>4, <2>5 DEF CallInv
<1>5. QED
  BY <1>3, <1>4 DEF Construct

(* Igor Pro runs the function.                                              *)
LEMMA InvFunctionRuns ==
  ASSUME CallInv, [Next]_vars, NEW outcome \in {"called", "aborted"}, FunctionRuns(outcome)
  PROVE  CallInv'
<1> USE CallIsConstant
<1>1. UNCHANGED <<code, result, byRef, freed>> /\ stage = "ready" /\ stage' = outcome
  BY DEF FunctionRuns
<1>2. Filled /\ code = "REQ_SUCCESS" /\ CheckCode = "REQ_SUCCESS"
  BY <1>1 DEF CallInv, FlowInv, Running
<1>3. \A type : AfterCall(type) \in {"value", "string", "folder", "wave"}
  BY DEF AfterCall
<1>4. slots' = [i \in 1..Len(Types) |-> IF IsBitSet(Types[i], "REF") THEN AfterCall(Types[i]) ELSE "given"]
  BY <1>2 DEF FunctionRuns, Filled
<1>5. Filled'
  BY <1>3, <1>4 DEF Filled, Values
<1>6. ret' \in {"unset", "null", "value", "string", "folder", "wave"}
  BY <1>3 DEF FunctionRuns
<1>7. \A i \in 1..Len(Types) : Types[i] = {"HSTRING", "REF"} => slots'[i] = "string"
  <2>1. AfterCall({"HSTRING", "REF"}) = "string" /\ IsBitSet({"HSTRING", "REF"}, "REF")
    BY DEF IsBitSet, IsWaveType, AfterCall
  <2>2. QED
    BY <1>4, <2>1
<1>8. FlowInv'
  BY <1>1, <1>2, <1>5, <1>6 DEF CallInv, FlowInv, Running
<1>9. StringInv'
  <2>1. \A i \in 0..Len(Types) : freed[i] = 0
    BY <1>1 DEF CallInv, StringInv
  <2>2. Len(Types) \in Nat
    BY DeclParts, TypesOfDecl DEF CallInv, FlowInv
  <2>3. \A i \in 1..Len(Types) : freed[i] = 0
    BY <2>1, <2>2
  <2>4. QED
    BY <1>1, <1>7, <2>1, <2>3 DEF CallInv, StringInv
<1>10. ResultInv'
  BY <1>1 DEF CallInv, ResultInv
<1>11. ReturnInv'
  <2>1. ASSUME fip.returnType = {"HSTRING"} PROVE ret' = "string"
    <3>1. /\ AfterCall({"HSTRING"}) = "string"
          /\ {"HSTRING"} # {"NORETURN"}
      <4>1. AfterCall({"HSTRING"}) = "string"
        BY DEF AfterCall, IsWaveType, IsBitSet
      <4>2. "HSTRING" # "NORETURN"
        OBVIOUS
      <4>3. {"HSTRING"} # {"NORETURN"}
        BY <4>2
      <4>4. QED
        BY <4>1, <4>3
    <3>2. ~UsesMultipleReturnValueSyntax
      BY <2>1, <3>1 DEF UsesMultipleReturnValueSyntax
    <3>3. QED
      BY <2>1, <3>1, <3>2 DEF FunctionRuns
  <2>2. QED
    BY <1>1, <2>1 DEF ReturnInv
<1>12. QED
  BY <1>8, <1>9, <1>10, <1>11 DEF CallInv

(* The call fails, or the function was aborted.                             *)
LEMMA InvFailures ==
  ASSUME CallInv, [Next]_vars, CallFails \/ FunctionAborted
  PROVE  CallInv'
<1> USE CallIsConstant
<1>1. /\ UNCHANGED <<slots, ret, result, byRef, freed>> /\ stage' = "cleanup" /\ stage \in {"ready", "aborted"}
      /\ code' = "INTERNAL_ERROR" \/ (code' = "REQ_FUNCTION_ABORTED" /\ stage = "aborted")
  BY DEF CallFails, FunctionAborted
<1>2. Filled /\ code = "REQ_SUCCESS" /\ CheckCode = "REQ_SUCCESS"
  BY <1>1 DEF CallInv, FlowInv, Running
<1>3. FlowInv'
  BY <1>1, <1>2 DEF CallInv, FlowInv, Running, Filled, Outcomes
<1>4. StringInv'
  BY <1>1, <1>2 DEF CallInv, StringInv, Filled
<1>5. ResultInv'
  BY <1>1 DEF CallInv, ResultInv
<1>6. ReturnInv'
  <2>1. Len(Types) \in Nat
    BY DeclParts, TypesOfDecl DEF CallInv, FlowInv
  <2>2. freed[0] = 0
    BY <1>1, <2>1 DEF CallInv, StringInv
  <2>3. QED
    BY <1>1, <2>2 DEF CallInv, ReturnInv
<1>7. QED
  BY <1>3, <1>4, <1>5, <1>6 DEF CallInv

(* Every value that is read back has a type name.                           *)
LEMMA ListedTypes ==
  ASSUME FlowInv, CheckCode = "REQ_SUCCESS", NEW is \in SUBSET (1..Len(Types)), NEW k \in DOMAIN TypeStrings(is)
  PROVE  TypeStrings(is)[k] \in Listed
<1>1. Len(Types) \in Nat
  BY DeclParts, TypesOfDecl DEF FlowInv
<1>2. IsFiniteSet(is) /\ is \in SUBSET Nat
  <2>1. IsFiniteSet(1..Len(Types))
    BY <1>1, FS_Interval
  <2>2. \A i \in 1..Len(Types) : i \in Nat
    BY <1>1
  <2>3. QED
    BY <2>1, <2>2, FS_Subset
<1>3. Cardinality(is) \in Nat /\ k \in 1..Cardinality(is) /\ TypeStrings(is)[k] = TypeString(Types[Nth(is, k)])
  BY <1>2, FS_CardinalityType DEF TypeStrings
<1>4. Nth(is, k) \in 1..Len(Types)
  BY <1>2, <1>3, NthExists
<1>5. QED
  BY <1>3, <1>4, PassedParameters

(* Without the limitation, the return values are read in their order.       *)
LEMMA ReturnedTypes ==
  ASSUME FlowInv, Filled, CheckCode = "REQ_SUCCESS", ~Limitation, decl.multi
  PROVE  TypeStrings(RefSlots(0, GetNumberOfReturnValues)) = decl.rets
<1> DEFINE R == Len(decl.rets)
<1>1. /\ R \in Nat /\ decl.rets \in Seq(Bases) /\ Len(decl.ins) \in Nat /\ Len(Types) = Offset + Len(decl.ins)
      /\ Offset = R /\ DOMAIN decl.rets = 1..R
  BY DeclParts, TypesOfDecl DEF FlowInv, Offset
<1>2. GetNumberOfReturnValues = R /\ GetFirstInputParameterIndex = R
  BY <1>1, FirstInput DEF FlowInv
<1>3. \A i \in 1..R : IsBitSet(Types[i], "REF")
  BY <1>2, FirstInput DEF FlowInv
<1>4. DOMAIN slots = 1..Len(Types)
  BY DEF Filled
<1>5. RefSlots(0, GetNumberOfReturnValues) = 1..R
  <2> HIDE DEF R
  <2>1. \A i \in 1..Len(Types) : 0 < i /\ i <= R <=> i \in 1..R
    BY <1>1
  <2>2. 1..R \subseteq 1..Len(Types)
    BY <1>1
  <2>3. QED
    BY <1>2, <1>3, <1>4, <2>1, <2>2 DEF RefSlots
<1>6. Cardinality(1..R) = R
  <2> HIDE DEF R
  <2>1. QED
    BY <1>1, FS_Interval
<1>7. ASSUME NEW k \in 1..R PROVE TypeString(Types[Nth(1..R, k)]) = decl.rets[k]
  <2>1. Nth(1..R, k) = k /\ k \in 1..Len(Types) /\ k \in Nat
    <3> HIDE DEF R
    <3>1. QED
      BY <1>1, NthOfInterval
  <2>2. decl.rets[k] \in AllBases /\ Types[k] = Bits(decl.rets[k]) \cup {"REF"}
    BY <1>1, DeclParts, TypesOfDecl, CallAssumption DEF FlowInv
  <2>3. Len(params) \in Nat
    BY UpToIsSeq, CallAssumption DEF FlowInv
  <2>4. ~IsInput(k)
    BY <1>1, <1>2, <2>1 DEF IsInput
  <2>5. SupportedOutput(Types[k])
    BY <2>1, <2>3, <2>4, PassedCheck DEF FlowInv, Bad
  <2>6. SupportedOutput(Bits(decl.rets[k]) \cup {"REF"}) <=> decl.rets[k] \in Listed
    BY <2>2, CheckOfType
  <2>7. decl.rets[k] \in Listed => TypeString(Bits(decl.rets[k]) \cup {"REF"}) = decl.rets[k]
    BY <2>2, SwitchOfType
  <2>8. QED
    BY <2>1, <2>2, <2>5, <2>6, <2>7
<1>8. TypeStrings(1..R) = [k \in 1..R |-> TypeString(Types[Nth(1..R, k)])]
  BY <1>6 DEF TypeStrings
<1>9. decl.rets = [k \in 1..R |-> decl.rets[k]]
  BY <1>1
<1>10. TypeStrings(1..R) = decl.rets
  BY <1>7, <1>8, <1>9
<1>11. QED
  BY <1>5, <1>10

(* Without the limitation, the inputs passed by reference are read in their *)
(* order.                                                                   *)
LEMMA ByRefTypes ==
  ASSUME FlowInv, Filled, CheckCode = "REQ_SUCCESS", ~Limitation
  PROVE  TypeStrings(RefSlots(GetFirstInputParameterIndex, Len(slots))) = DeclaredByRef
<1> DEFINE n == Offset
           T == {i + n : i \in Refs}
<1>1. /\ n \in Nat /\ Len(decl.ins) \in Nat /\ Len(Types) = n + Len(decl.ins) /\ DOMAIN decl.ins = 1..Len(decl.ins)
      /\ GetFirstInputParameterIndex = n
  BY DeclParts, TypesOfDecl, FirstInput DEF FlowInv
<1>2. DOMAIN slots = 1..Len(Types) /\ Len(slots) = Len(Types) /\ Len(Types) \in Nat
  BY <1>1 DEF Filled
<1>3. Refs \in SUBSET (1..Len(decl.ins)) /\ Refs \in SUBSET Nat /\ IsFiniteSet(Refs)
  <2>1. Refs \in SUBSET (1..Len(decl.ins))
    BY <1>1 DEF Refs
  <2>2. IsFiniteSet(1..Len(decl.ins))
    BY <1>1, FS_Interval
  <2>3. \A i \in 1..Len(decl.ins) : i \in Nat
    BY <1>1
  <2>4. QED
    BY <2>1, <2>2, <2>3, FS_Subset
<1>4. ASSUME NEW j \in 1..Len(decl.ins)
      PROVE  /\ Types[n + j] = Bits(decl.ins[j].base) \cup IF decl.ins[j].ref THEN {"REF"} ELSE {}
             /\ IsBitSet(Types[n + j], "REF") <=> j \in Refs
  <2>1. Types[n + j] = Bits(decl.ins[j].base) \cup IF decl.ins[j].ref THEN {"REF"} ELSE {}
    BY TypesOfDecl DEF FlowInv
  <2>2. decl.ins[j].base \in AllBases /\ decl.ins[j].ref \in BOOLEAN
    BY DeclParts, CallAssumption DEF FlowInv
  <2>3. "REF" \notin Bits(decl.ins[j].base)
    BY <2>2, BitsFlags
  <2>4. QED
    BY <1>1, <2>1, <2>2, <2>3 DEF IsBitSet, Refs
<1>5. RefSlots(GetFirstInputParameterIndex, Len(slots)) = T
  <2>1. RefSlots(GetFirstInputParameterIndex, Len(slots)) = {i \in 1..Len(Types) : n < i /\ IsBitSet(Types[i], "REF")}
    BY <1>1, <1>2 DEF RefSlots
  <2>2. ASSUME NEW i \in 1..Len(Types), n < i, IsBitSet(Types[i], "REF") PROVE i \in T
    <3>1. i - n \in 1..Len(decl.ins) /\ n + (i - n) = i /\ (i - n) + n = i
      BY <1>1, <2>2
    <3>2. i - n \in Refs
      BY <1>4, <2>2, <3>1
    <3>3. QED
      BY <3>1, <3>2
  <2>3. ASSUME NEW j \in Refs PROVE j + n \in 1..Len(Types) /\ n < j + n /\ IsBitSet(Types[j + n], "REF")
    <3>1. j \in 1..Len(decl.ins)
      BY <1>3
    <3>2. n + j = j + n /\ j + n \in 1..Len(Types) /\ n < j + n
      BY <1>1, <3>1
    <3>3. QED
      BY <1>4, <3>1, <3>2
  <2>4. QED
    BY <2>1, <2>2, <2>3
<1>6. Cardinality(T) = Cardinality(Refs) /\ \A k \in 1..Cardinality(Refs) : Nth(T, k) = Nth(Refs, k) + n
  BY <1>1, <1>3, NthOfShifted
<1>7. ASSUME NEW k \in 1..Cardinality(Refs) PROVE TypeString(Types[Nth(T, k)]) = decl.ins[Nth(Refs, k)].base
  <2> DEFINE j == Nth(Refs, k)
  <2>1. j \in Refs /\ j \in 1..Len(decl.ins)
    BY <1>3, NthExists
  <2>2. decl.ins[j].base \in AllBases /\ decl.ins[j].ref
    BY <2>1, DeclParts, CallAssumption DEF FlowInv, Refs
  <2>3. Nth(T, k) = n + j /\ n + j \in 1..Len(Types) /\ n + j > n
    <3> HIDE DEF j, T
    <3>1. Nth(T, k) = j + n
      BY <1>6 DEF j
    <3>2. QED
      BY <1>1, <2>1, <3>1
  <2>4. Types[n + j] = Bits(decl.ins[j].base) \cup {"REF"}
    BY <1>4, <2>1, <2>2
  <2>5. SupportedInput(Types[n + j])
    <3>1. Len(params) \in Nat
      BY UpToIsSeq, CallAssumption DEF FlowInv
    <3>2. IsInput(n + j)
      BY <1>1, <2>3 DEF IsInput
    <3>3. QED
      BY <2>3, <3>1, <3>2, PassedCheck DEF FlowInv, Bad
  <2>6. SupportedInput(Bits(decl.ins[j].base) \cup {"REF"}) <=> decl.ins[j].base \in Plain
    BY <2>2, CheckOfType
  <2>7. decl.ins[j].base \in Listed => TypeString(Bits(decl.ins[j].base) \cup {"REF"}) = decl.ins[j].base
    BY <2>2, SwitchOfType
  <2>8. QED
    BY <2>3, <2>4, <2>5, <2>6, <2>7 DEF Listed
<1>8. TypeStrings(T) = [k \in 1..Cardinality(Refs) |-> TypeString(Types[Nth(T, k)])]
  BY <1>6 DEF TypeStrings
<1>9. TypeStrings(T) = DeclaredByRef
  <2> HIDE DEF T
  <2>1. QED
    BY <1>7, <1>8 DEF DeclaredByRef
<1>10. QED
  BY <1>5, <1>9

(* The return values are read.                                              *)
LEMMA InvGetReturnValues ==
  ASSUME CallInv, [Next]_vars, GetReturnValues
  PROVE  CallInv'
<1> USE CallIsConstant
<1>1. UNCHANGED <<code, byRef>> /\ stage = "called" /\ stage' = "results"
  BY DEF GetReturnValues
<1>2. /\ FlowInv /\ StringInv /\ ResultInv /\ Filled /\ code = "REQ_SUCCESS" /\ CheckCode = "REQ_SUCCESS"
      /\ decl \in Decls /\ DOMAIN slots = 1..Len(Types)
  BY <1>1 DEF CallInv, FlowInv, Running, Filled
<1>3. CASE decl.multi
  <2> DEFINE is == RefSlots(0, GetNumberOfReturnValues)
  <2>1. result' = TypeStrings(is) /\ Extract(is) /\ ret' = ret
    BY <1>2, <1>3, SyntaxOfDecl DEF GetReturnValues
  <2>2. is \in SUBSET (1..Len(Types))
    BY <1>2 DEF RefSlots
  <2>3. ~Limitation => TypeStrings(is) = decl.rets
    BY <1>2, <1>3, ReturnedTypes
  <2> HIDE DEF is
  <2>4. /\ freed \in [0..Len(Types) -> {0, 1}] /\ \A i \in 1..Len(Types) : freed[i] = 1 => slots[i] = "null"
        /\ \A i \in 1..Len(Types) : Types[i] = {"HSTRING", "REF"} => freed[i] = 1 \/ slots[i] = "string"
    BY <1>1, <1>2 DEF StringInv
  <2>5. /\ Filled' /\ freed' \in [0..Len(Types) -> {0, 1}]
        /\ \A i \in 1..Len(Types) : freed'[i] = 1 => slots'[i] = "null"
        /\ \A i \in 1..Len(Types) : freed[i] = 1 \/ slots[i] = "string" =>
             freed'[i] = 1 \/ (slots'[i] = "string" /\ i \notin is)
    BY <1>2, <2>1, <2>2, <2>4, ExtractKeepsStorage
  <2>6. FlowInv'
    BY <1>1, <1>2, <2>1, <2>5 DEF FlowInv, Running
  <2>7. StringInv'
    BY <1>1, <2>4, <2>5 DEF StringInv
  <2>8. \A k \in DOMAIN result' : result'[k] \in Listed
    BY <1>2, <2>1, <2>2, ListedTypes
  <2>9. ResultInv'
    BY <1>1, <1>2, <2>1, <2>3, <2>8 DEF ResultInv
  <2>10. ReturnInv'
    BY <1>2, <1>3, TypesOfDecl DEF ReturnInv
  <2>11. QED
    BY <2>6, <2>7, <2>9, <2>10 DEF CallInv
<1>4. CASE ~decl.multi
  <2>1. /\ result' = <<TypeString(fip.returnType)>> /\ ret' = "null" /\ slots' = slots
        /\ freed' = [freed EXCEPT ![0] = @ + IF ret = "string" THEN 1 ELSE 0]
    BY <1>2, <1>4, SyntaxOfDecl DEF GetReturnValues
  <2>2. fip.returnType = Bits(decl.rets[1]) \cup {} /\ decl.rets[1] \in AllBases
    BY <1>2, <1>4, TypesOfDecl, DeclParts, CallAssumption
  <2>3. decl.rets[1] \in Listed
    <3>1. Len(params) \in Nat
      BY <1>2, UpToIsSeq, CallAssumption DEF FlowInv
    <3>2. QED
      BY <1>2, <1>4, <3>1, PassedCheck
  <2>4. TypeString(fip.returnType) = decl.rets[1]
    <3>1. decl.rets[1] \in Listed => TypeString(Bits(decl.rets[1]) \cup {}) = decl.rets[1]
      BY <2>2, SwitchOfType
    <3>2. QED
      BY <2>2, <2>3, <3>1
  <2>5. decl.rets = <<decl.rets[1]>>
    BY <1>2, <1>4, DeclParts
  <2>6. Len(Types) \in Nat
    BY <1>2, DeclParts, TypesOfDecl
  <2>7. freed \in [0..Len(Types) -> {0, 1}] /\ freed[0] = 0 /\ \A i \in 1..Len(Types) : i \in 0..Len(Types) /\ i # 0
    BY <1>1, <1>2, <2>6 DEF StringInv
  <2>8. freed' \in [0..Len(Types) -> {0, 1}] /\ \A i \in 1..Len(Types) : freed'[i] = freed[i]
    BY <2>1, <2>7
  <2>9. FlowInv'
    BY <1>1, <1>2, <2>1 DEF FlowInv, Running, Filled
  <2>10. StringInv'
    BY <1>1, <1>2, <2>1, <2>8 DEF StringInv, Filled
  <2>11. ResultInv'
    BY <1>1, <1>2, <2>1, <2>3, <2>4, <2>5 DEF ResultInv
  <2>12. ReturnInv'
    <3>1. fip.returnType = {"HSTRING"} => freed'[0] = 1
      BY <1>1, <1>2, <2>1, <2>7 DEF CallInv, ReturnInv
    <3>2. QED
      BY <1>1, <3>1 DEF ReturnInv
  <2>13. QED
    BY <2>9, <2>10, <2>11, <2>12 DEF CallInv
<1>5. QED
  BY <1>3, <1>4

(* The values passed by reference are read.                                 *)
LEMMA InvGetPassByRef ==
  ASSUME CallInv, [Next]_vars, GetPassByRefInputArray
  PROVE  CallInv'
<1> USE CallIsConstant
<1> DEFINE is == RefSlots(GetFirstInputParameterIndex, Len(slots))
<1>1. /\ UNCHANGED <<code, ret, result>> /\ stage = "results" /\ stage' = "cleanup"
      /\ byRef' = TypeStrings(is) /\ Extract(is)
  BY DEF GetPassByRefInputArray
<1>2. /\ FlowInv /\ StringInv /\ ResultInv /\ Filled /\ code = "REQ_SUCCESS" /\ CheckCode = "REQ_SUCCESS"
      /\ decl \in Decls /\ DOMAIN slots = 1..Len(Types)
  BY <1>1 DEF CallInv, FlowInv, Running, Filled
<1>3. is \in SUBSET (1..Len(Types))
  BY <1>2 DEF RefSlots
<1>4. ~Limitation => TypeStrings(is) = DeclaredByRef
  BY <1>2, ByRefTypes
<1> HIDE DEF is
<1>5. /\ freed \in [0..Len(Types) -> {0, 1}] /\ \A i \in 1..Len(Types) : freed[i] = 1 => slots[i] = "null"
      /\ \A i \in 1..Len(Types) : Types[i] = {"HSTRING", "REF"} => freed[i] = 1 \/ slots[i] = "string"
  BY <1>1, <1>2 DEF StringInv
<1>6. /\ Filled' /\ freed' \in [0..Len(Types) -> {0, 1}] /\ freed'[0] = freed[0]
      /\ \A i \in 1..Len(Types) : freed'[i] = 1 => slots'[i] = "null"
      /\ \A i \in 1..Len(Types) : freed[i] = 1 \/ slots[i] = "string" =>
           freed'[i] = 1 \/ (slots'[i] = "string" /\ i \notin is)
  BY <1>1, <1>2, <1>3, <1>5, ExtractKeepsStorage
<1>7. FlowInv'
  BY <1>1, <1>2, <1>6 DEF FlowInv, Running, Outcomes
<1>8. StringInv'
  BY <1>1, <1>5, <1>6 DEF StringInv
<1>9. \A k \in DOMAIN byRef' : byRef'[k] \in Listed
  BY <1>1, <1>2, <1>3, ListedTypes
<1>10. ResultInv'
  BY <1>1, <1>2, <1>4, <1>9 DEF ResultInv
<1>11. ReturnInv'
  BY <1>1, <1>2, <1>6 DEF CallInv, ReturnInv
<1>12. QED
  BY <1>7, <1>8, <1>10, <1>11 DEF CallInv

(* A value cannot be serialized.                                            *)
LEMMA InvReadFails ==
  ASSUME CallInv, [Next]_vars, GetReturnValuesFails \/ GetPassByRefInputArrayFails
  PROVE  CallInv'
<1> USE CallIsConstant
<1>1. /\ UNCHANGED <<ret, byRef>> /\ result' \in {result, <<>>} /\ stage \in {"called", "results"}
      /\ code' = "INTERNAL_ERROR" /\ stage' = "cleanup"
      /\ \/ UNCHANGED <<slots, freed>>
         \/ \E is \in SUBSET (DOMAIN slots) : Extract(is)
  <2>1. ASSUME NEW first, NEW last, ReadFails(RefSlots(first, last))
        PROVE  \E is \in SUBSET (DOMAIN slots) : Extract(is)
    BY <2>1 DEF ReadFails, RefSlots
  <2>2. QED
    BY <2>1 DEF GetReturnValuesFails, GetPassByRefInputArrayFails, ReadFails
<1>2. /\ FlowInv /\ StringInv /\ ResultInv /\ Filled /\ CheckCode = "REQ_SUCCESS"
      /\ decl \in Decls /\ DOMAIN slots = 1..Len(Types)
  BY <1>1 DEF CallInv, FlowInv, Running, Filled
<1>3. freed \in [0..Len(Types) -> {0, 1}] /\ \A i \in 1..Len(Types) : freed[i] = 1 => slots[i] = "null"
  BY <1>2 DEF StringInv
<1>4. /\ Filled' /\ freed' \in [0..Len(Types) -> {0, 1}]
      /\ \A i \in 1..Len(Types) : freed'[i] = 1 => slots'[i] = "null"
  <2>1. CASE UNCHANGED <<slots, freed>>
    BY <1>2, <1>3, <2>1 DEF Filled
  <2>2. ASSUME NEW is \in SUBSET (DOMAIN slots), Extract(is)
        PROVE  /\ Filled' /\ freed' \in [0..Len(Types) -> {0, 1}]
               /\ \A i \in 1..Len(Types) : freed'[i] = 1 => slots'[i] = "null"
    BY <1>2, <1>3, <2>2, ExtractKeepsStorage
  <2>3. QED
    BY <1>1, <2>1, <2>2
<1>5. FlowInv'
  BY <1>1, <1>2, <1>4 DEF FlowInv, Running, Outcomes
<1>6. StringInv'
  BY <1>1, <1>4 DEF StringInv
<1>7. ResultInv'
  BY <1>1, <1>2 DEF ResultInv
<1>8. ReturnInv'
  BY <1>1 DEF ReturnInv
<1>9. QED
  BY <1>5, <1>6, <1>7, <1>8 DEF CallInv

(* The destructor.                                                          *)
LEMMA InvDestroy ==
  ASSUME CallInv, [Next]_vars, DestroyHandler
  PROVE  CallInv'
<1> USE CallIsConstant
<1> DEFINE is == {i \in DOMAIN slots : Types[i] = {"HSTRING", "REF"}}
<1>1. UNCHANGED <<code, ret, result, byRef>> /\ stage = "cleanup" /\ stage' = "replied" /\ Extract(is)
  BY DEF DestroyHandler
<1>2. /\ FlowInv /\ StringInv /\ ResultInv /\ Filled /\ code \in Outcomes /\ CheckCode = "REQ_SUCCESS"
      /\ decl \in Decls /\ DOMAIN slots = 1..Len(Types)
  BY <1>1 DEF CallInv, FlowInv, Filled
<1>3. is \in SUBSET (1..Len(Types)) /\ \A i \in 1..Len(Types) : Types[i] = {"HSTRING", "REF"} => i \in is
  BY <1>2
<1> HIDE DEF is
<1>4. freed \in [0..Len(Types) -> {0, 1}] /\ \A i \in 1..Len(Types) : freed[i] = 1 => slots[i] = "null"
  BY <1>2 DEF StringInv
<1>5. /\ Filled' /\ freed' \in [0..Len(Types) -> {0, 1}] /\ freed'[0] = freed[0]
      /\ \A i \in 1..Len(Types) : freed'[i] = 1 => slots'[i] = "null"
      /\ \A i \in 1..Len(Types) : freed[i] = 1 \/ slots[i] = "string" =>
           freed'[i] = 1 \/ (slots'[i] = "string" /\ i \notin is)
  BY <1>1, <1>2, <1>3, <1>4, ExtractKeepsStorage
<1>6. code # "INTERNAL_ERROR" =>
        \A i \in 1..Len(Types) : Types[i] = {"HSTRING", "REF"} => freed[i] = 1 \/ slots[i] = "string"
  BY <1>1, <1>2 DEF StringInv
<1>7. FlowInv'
  BY <1>1, <1>2, <1>5 DEF FlowInv, Running
<1>8. StringInv'
  <2>1. \A i \in is : slots'[i] = "null"
    BY <1>1, <1>2, <1>3 DEF Extract
  <2>2. QED
    BY <1>1, <1>3, <1>5, <1>6, <2>1 DEF StringInv
<1>9. ResultInv'
  BY <1>1, <1>2 DEF ResultInv
<1>10. ReturnInv'
  BY <1>1, <1>5 DEF CallInv, ReturnInv
<1>11. QED
  BY <1>7, <1>8, <1>9, <1>10 DEF CallInv

(* The invariant holds in all reachable states.                             *)
THEOREM CallInvariant == Spec => []CallInv
<1>1. Init => CallInv
  BY InvInit
<1>2. CallInv /\ [Next]_vars => CallInv'
  <2> SUFFICES ASSUME CallInv, [Next]_vars PROVE CallInv'
    OBVIOUS
  <2>1. CASE CanBeProcessed
    BY <2>1, InvCheck
  <2>2. CASE Construct
    BY <2>2, InvConstruct
  <2>3. CASE FunctionRuns("called") \/ FunctionRuns("aborted")
    BY <2>3, InvFunctionRuns
  <2>4. CASE CallFails \/ FunctionAborted
    BY <2>4, InvFailures
  <2>5. CASE GetReturnValues
    BY <2>5, InvGetReturnValues
  <2>6. CASE GetPassByRefInputArray
    BY <2>6, InvGetPassByRef
  <2>7. CASE DestroyHandler
    BY <2>7, InvDestroy
  <2>8. CASE GetReturnValuesFails \/ GetPassByRefInputArrayFails
    BY <2>8, InvReadFails
  <2>9. CASE UNCHANGED vars
    <3>1. UNCHANGED <<stage, code, slots, ret, result, byRef, freed>>
      BY <2>9 DEF vars
    <3>2. FlowInv' /\ StringInv' /\ ReturnInv' /\ ResultInv'
      BY <3>1, CallIsConstant DEF CallInv, FlowInv, StringInv, ReturnInv, ResultInv, Filled
    <3>3. QED
      BY <3>2 DEF CallInv
  <2>10. QED
    BY <2>1, <2>2, <2>3, <2>4, <2>5, <2>6, <2>7, <2>8, <2>9 DEF Next
<1>3. QED
  BY <1>1, <1>2, PTL DEF Spec
-----------------------------------------------------------------------------
(* What a user of the operation relies on *)

(* All variables keep their types.                                          *)
THEOREM CallFunctionTypeCorrect == Spec => []TypeOK
<1>1. CallInv => TypeOK
  <2> SUFFICES ASSUME CallInv PROVE TypeOK
    OBVIOUS
  <2>1. decl \in Decls /\ (slots = <<>> \/ Filled)
    BY DEF CallInv, FlowInv
  <2>2. Len(Types) \in 0..MaxReturns + MaxInputs
    BY <2>1, DeclParts, TypesOfDecl, CallAssumption
  <2>3. slots \in UpTo(Values, MaxReturns + MaxInputs)
    <3>1. CASE Filled
      BY <2>2, <3>1 DEF Filled, UpTo
    <3>2. CASE slots = <<>>
      <4>1. slots \in [1..0 -> Values] /\ 0 \in 0..MaxReturns + MaxInputs
        BY <3>2, CallAssumption
      <4>2. QED
        BY <4>1 DEF UpTo
    <3>3. QED
      BY <2>1, <3>1, <3>2
  <2>4. QED
    BY <2>3 DEF CallInv, FlowInv, TypeOK, Values
<1>2. QED
  BY <1>1, CallInvariant, PTL

(* A string handle passed by reference is disposed of exactly once, after a *)
(* success, an abort, or a value that cannot be serialized; the single      *)
(* returned string once in a successful reply, and not at all after an      *)
(* abort.                                                                   *)
THEOREM StringsAreDisposedOnce == Spec => []StringsDisposedOnce
<1>1. CallInv => StringsDisposedOnce
  <2> SUFFICES ASSUME CallInv PROVE StringsDisposedOnce
    OBVIOUS
  <2>1. StringInv /\ FlowInv /\ ReturnInv
    BY DEF CallInv
  <2>2. \A i \in DOMAIN freed : freed[i] <= 1
    BY <2>1 DEF StringInv
  <2>3. ASSUME stage = "replied", NEW i \in DOMAIN slots, Types[i] = {"HSTRING", "REF"}
        PROVE  /\ slots[i] # "string"
               /\ code \in {"REQ_SUCCESS", "REQ_FUNCTION_ABORTED"} => freed[i] = 1
    <3>1. Filled /\ i \in 1..Len(Types)
      BY <2>1, <2>3 DEF FlowInv, Filled
    <3>2. QED
      BY <2>1, <2>3, <3>1 DEF StringInv
  <2>4. QED
    BY <2>1, <2>2, <2>3 DEF ReturnInv, StringsDisposedOnce
<1>2. QED
  BY <1>1, CallInvariant, PTL

(* After the signature check the only conversions that can fail are those   *)
(* of a path that is too long or without a data folder, and every value     *)
(* read back has a type name.                                               *)
THEOREM CheckedCallsAreConverted == Spec => []CheckedCallsConvert
<1>1. CallInv => CheckedCallsConvert
  <2> SUFFICES ASSUME CallInv PROVE CheckedCallsConvert
    OBVIOUS
  <2>1. Errors \cap (Range(result) \cup Range(byRef)) = {}
    <3>1. Errors \cap Listed = {}
      BY DEF Errors, Listed, Plain
    <3>2. QED
      BY <3>1 DEF CallInv, ResultInv, Range
  <2>2. ASSUME stage = "replied", CheckCode = "REQ_SUCCESS", slots = <<>>, Types # <<>>
        PROVE  \E i \in DOMAIN Types : PathFails(i, code)
    <3>1. Len(Types) \in Nat /\ DOMAIN Types = 1..Len(Types)
      BY DeclParts, TypesOfDecl DEF CallInv, FlowInv
    <3>2. ~Filled
      <4>1. SUFFICES ASSUME Filled PROVE FALSE
        OBVIOUS
      <4>2. 1..Len(Types) = {}
        BY <2>2, <4>1, EmptyStorage
      <4>3. Types = <<>>
        BY <3>1, <4>2
      <4>4. QED
        BY <2>2, <4>3
    <3>3. QED
      BY <2>2, <3>2 DEF CallInv, FlowInv, ConstructorFails
  <2>3. QED
    BY <2>1, <2>2 DEF CheckedCallsConvert, PathFails
<1>2. QED
  BY <1>1, CallInvariant, PTL

(* A successful reply holds the declared return values and the declared     *)
(* pass-by-reference parameters, each in the order of the declaration.      *)
THEOREM ReplyMatches == Spec => []ReplyMatchesDeclaration
<1>1. CallInv => ReplyMatchesDeclaration
  BY DEF CallInv, ResultInv, ReplyMatchesDeclaration, DeclaredByRef, Refs
<1>2. QED
  BY <1>1, CallInvariant, PTL

(* The verdict on the types, when number and format of the parameters fit.  *)
LEMMA TypeVerdict ==
  ASSUME decl \in Decls, ~Limitation, Len(params) = Len(decl.ins),
         \A i \in DOMAIN decl.ins : Bits(decl.ins[i].base) \cap {"FP64"} # {} => params[i] = "number"
  PROVE  CheckCode \in {"REQ_UNSUPPORTED_FUNC_SIG", "REQ_UNSUPPORTED_FUNC_RET"} <=> ~DocumentedAsSupported
<1> DEFINE n == Offset
           I == Len(decl.ins)
<1>1. /\ n \in Nat /\ I \in Nat /\ Len(Types) = n + I /\ DOMAIN Types = 1..Len(Types)
      /\ DOMAIN decl.ins = 1..I /\ DOMAIN decl.rets = 1..Len(decl.rets)
      /\ decl.multi \in BOOLEAN /\ (decl.multi => n = Len(decl.rets)) /\ (~decl.multi => Len(decl.rets) = 1 /\ n = 0)
  BY DeclParts, TypesOfDecl DEF Offset
<1>2. GetFirstInputParameterIndex = n /\ GetNumberOfInputParameters = Len(Types) - n
  BY FirstInput
<1> HIDE DEF n, I
<1>3. GetNumberOfInputParameters = I /\ Len(params) = I
  BY <1>1, <1>2 DEF I
<1>4. ASSUME NEW j \in 1..I
      PROVE  /\ n + j \in 1..Len(Types) /\ IsInput(n + j) /\ Text(n + j) = params[j]
             /\ decl.ins[j].base \in AllBases
             /\ Types[n + j] = Bits(decl.ins[j].base) \cup IF decl.ins[j].ref THEN {"REF"} ELSE {}
  <2>1. n + j \in 1..Len(Types) /\ n + j > n /\ (n + j) - n = j
    BY <1>1
  <2>2. decl.ins[j].base \in AllBases
    BY DeclParts, CallAssumption DEF I
  <2>3. Types[n + j] = Bits(decl.ins[j].base) \cup IF decl.ins[j].ref THEN {"REF"} ELSE {}
    BY TypesOfDecl DEF n, I
  <2>4. QED
    BY <1>2, <2>1, <2>2, <2>3 DEF IsInput, Text
<1>5. ASSUME NEW i \in 1..n
      PROVE  /\ i \in 1..Len(Types) /\ ~IsInput(i) /\ i \in 1..Len(decl.rets)
             /\ decl.rets[i] \in AllBases /\ Types[i] = Bits(decl.rets[i]) \cup {"REF"}
  <2>1. i \in 1..Len(Types) /\ ~(i > n) /\ i \in 1..Len(decl.rets)
    BY <1>1
  <2>2. decl.rets[i] \in AllBases
    BY <2>1, DeclParts, CallAssumption
  <2>3. QED
    BY <1>2, <2>1, <2>2, TypesOfDecl DEF IsInput, n
<1>6. \A i \in 1..Len(Types) : i \in 1..n \/ \E j \in 1..I : i = n + j
  <2>1. ASSUME NEW i \in 1..Len(Types), i \notin 1..n PROVE i - n \in 1..I /\ i = n + (i - n)
    BY <1>1, <2>1
  <2>2. QED
    BY <2>1
<1>7. ASSUME NEW i \in DOMAIN Types, IsInput(i), IsBitSet(Types[i], "FP64")
      PROVE  IsConvertibleToDouble(Text(i))
  <2>1. PICK j \in 1..I : i = n + j
    BY <1>1, <1>5, <1>6, <1>7
  <2>2. "FP64" \in Bits(decl.ins[j].base)
    BY <1>4, <1>7, <2>1 DEF IsBitSet
  <2>3. params[j] = "number"
    BY <1>1, <2>2
  <2>4. QED
    BY <1>4, <2>1, <2>3 DEF IsConvertibleToDouble
<1>8. CheckCode = IF fip.returnType \notin {{"FP64"}, {"HSTRING"}, {"WAVE"}, {"DATAFOLDER"}, {"NORETURN"}}
                  THEN "REQ_UNSUPPORTED_FUNC_RET" ELSE SignatureCode
  <2>1. ~(Len(params) < GetNumberOfInputParameters) /\ ~(Len(params) > GetNumberOfInputParameters)
    BY <1>1, <1>3
  <2>2. QED
    BY <1>7, <2>1 DEF CheckCode
<1>9. fip.returnType \in {{"FP64"}, {"HSTRING"}, {"WAVE"}, {"DATAFOLDER"}, {"NORETURN"}}
        <=> (~decl.multi => decl.rets[1] \in Listed)
  <2>1. CASE decl.multi
    BY <2>1, TypesOfDecl
  <2>2. CASE ~decl.multi
    <3>1. fip.returnType = Bits(decl.rets[1]) /\ decl.rets[1] \in AllBases
      BY <2>2, TypesOfDecl, DeclParts, CallAssumption
    <3>2. Bits(decl.rets[1]) \in {{"FP64"}, {"HSTRING"}, {"WAVE"}, {"DATAFOLDER"}, {"NORETURN"}}
            <=> decl.rets[1] \in Listed
      BY <3>1, CheckOfType
    <3>3. QED
      BY <2>2, <3>1, <3>2
  <2>3. QED
    BY <2>1, <2>2
<1>10. ASSUME NEW j \in 1..I PROVE n + j \in Bad <=> decl.ins[j].base \notin Plain
  <2>1. PICK X \in SUBSET {"REF"} : Types[n + j] = Bits(decl.ins[j].base) \cup X
    BY <1>4
  <2>2. SupportedInput(Bits(decl.ins[j].base) \cup X) <=> decl.ins[j].base \in Plain
    BY <1>4, CheckOfType
  <2>3. QED
    BY <1>4, <2>1, <2>2 DEF Bad
<1>11. ASSUME NEW i \in 1..n PROVE i \in Bad <=> decl.rets[i] \notin Listed
  <2>1. SupportedOutput(Bits(decl.rets[i]) \cup {"REF"}) <=> decl.rets[i] \in Listed
    BY <1>5, CheckOfType
  <2>2. QED
    BY <1>5, <2>1 DEF Bad
<1>12. Bad = {} <=> /\ \A j \in 1..I : decl.ins[j].base \in Plain
                    /\ \A i \in 1..n : decl.rets[i] \in Listed
  <2>1. \A i \in Bad : i \in 1..Len(Types)
    BY DEF Bad
  <2>2. QED
    BY <1>6, <1>10, <1>11, <2>1
<1>13. DocumentedAsSupported <=> /\ \A j \in 1..I : decl.ins[j].base \in Plain
                                 /\ \A i \in 1..Len(decl.rets) : decl.rets[i] \in Listed
  BY <1>1 DEF DocumentedAsSupported, Plain, Listed
<1>14. (\A i \in 1..Len(decl.rets) : decl.rets[i] \in Listed)
         <=> (~decl.multi => decl.rets[1] \in Listed) /\ \A i \in 1..n : decl.rets[i] \in Listed
  <2>1. CASE decl.multi
    BY <1>1, <2>1
  <2>2. CASE ~decl.multi
    <3>0. Len(decl.rets) = 1 /\ n = 0
      BY <1>1, <2>2
    <3>1. \A i \in 1..Len(decl.rets) : i = 1
      BY <3>0
    <3>2. \A i \in 1..n : FALSE
      BY <3>0
    <3>3. 1 \in 1..Len(decl.rets)
      BY <3>0
    <3>4. QED
      BY <2>2, <3>1, <3>2, <3>3
  <2>3. QED
    BY <1>1, <2>1, <2>2
<1>15. QED
  BY <1>8, <1>9, <1>12, <1>13, <1>14, SignatureCodes

(* A call with the right number of convertible parameters passes the        *)
(* signature check exactly if the Readme lists all types of the function as *)
(* supported.                                                               *)
THEOREM DocumentedTypesAreChecked == Spec => []ChecksDocumentedTypes
<1>1. CallInv => ChecksDocumentedTypes
  <2> SUFFICES ASSUME CallInv, stage # "new", ~Limitation, Len(params) = Len(decl.ins),
                      \A i \in DOMAIN decl.ins :
                        Bits(decl.ins[i].base) \cap {"FP64"} # {} => params[i] = "number"
               PROVE  code \in {"REQ_UNSUPPORTED_FUNC_SIG", "REQ_UNSUPPORTED_FUNC_RET"}
                        <=> ~DocumentedAsSupported
    BY DEF ChecksDocumentedTypes
  <2>1. code = CheckCode \/ (CheckCode = "REQ_SUCCESS" /\ code \in Outcomes \cup Errors)
    BY DEF CallInv, FlowInv, Running, Outcomes
  <2>2. decl \in Decls
    BY DEF CallInv, FlowInv
  <2>3. CheckCode \in {"REQ_UNSUPPORTED_FUNC_SIG", "REQ_UNSUPPORTED_FUNC_RET"} <=> ~DocumentedAsSupported
    BY <2>2, TypeVerdict
  <2>4. QED
    BY <2>1, <2>3 DEF Outcomes, Errors
<1>2. QED
  BY <1>1, CallInvariant, PTL
=============================================================================
