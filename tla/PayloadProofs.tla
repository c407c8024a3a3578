---------------------------- MODULE PayloadProofs ----------------------------
(* Proofs for Waves and Payload, for any waves, bytes and messages.         *)
EXTENDS Payload, FiniteSetTheorems, SequenceTheorems, WellFoundedInduction, TLAPS

-----------------------------------------------------------------------------
(* The types of waves *)

(* A numeric type has one base type.                                        *)
LEMMA BaseOfNumeric ==
  ASSUME NEW type \in NumericTypes
  PROVE  /\ BaseType(type) \in BaseTypes
         /\ \E flags \in SUBSET {"NT_UNSIGNED", "NT_CMPLX"} :
              /\ type = {BaseType(type)} \cup flags
              /\ BaseType(type) \in Floats => "NT_UNSIGNED" \notin flags
<1>1. PICK b \in BaseTypes, flags \in SUBSET {"NT_UNSIGNED", "NT_CMPLX"} :
        type = {b} \cup flags /\ (b \in Floats => "NT_UNSIGNED" \notin flags)
  BY DEF NumericTypes, IntegerTypes, FloatTypes, Floats, BaseTypes, SizeOf
<1>2. BaseType(type) \in BaseTypes /\ BaseType(type) \in type
  BY <1>1 DEF BaseType
<1>3. BaseType(type) = b
  BY <1>1, <1>2 DEF BaseTypes, SizeOf
<1>4. QED
  BY <1>1, <1>3

(* The types with bytes are the numeric ones.                               *)
LEMMA NumericOrNot ==
  ASSUME NEW type \in WaveTypes
  PROVE  /\ IsNumeric(type) <=> type \in NumericTypes
         /\ type \in NumericTypes =>
              type # TEXT_WAVE_TYPE /\ type # WAVE_TYPE /\ type # DATAFOLDER_TYPE
<1>1. CASE type \in NumericTypes
  <2>1. BaseType(type) \in BaseTypes /\ BaseType(type) \in type
    BY <1>1, BaseOfNumeric
  <2>2. IsNumeric(type)
    BY <2>1 DEF IsNumeric
  <2>3. QED
    BY <1>1, <2>1, <2>2 DEF TEXT_WAVE_TYPE, WAVE_TYPE, DATAFOLDER_TYPE, BaseTypes, SizeOf
<1>2. CASE type \in {TEXT_WAVE_TYPE, WAVE_TYPE, DATAFOLDER_TYPE} /\ type \notin NumericTypes
  BY <1>2 DEF IsNumeric, TEXT_WAVE_TYPE, WAVE_TYPE, DATAFOLDER_TYPE, BaseTypes, SizeOf
<1>3. QED
  BY <1>1, <1>2 DEF WaveTypes

(* The XOP knows the size of a point, but for complex integers.             *)
LEMMA ElementSize ==
  ASSUME NEW type \in NumericTypes
  PROVE  /\ PointSize(type) \in Nat \ {0}
         /\ GetWaveElementSize(type) \in {0, PointSize(type)}
         /\ GetWaveElementSize(type) = 0 => "NT_CMPLX" \in type
<1> DEFINE b == BaseType(type)
<1>1. PICK flags \in SUBSET {"NT_UNSIGNED", "NT_CMPLX"} :
        type = {b} \cup flags /\ (b \in Floats => "NT_UNSIGNED" \notin flags)
  BY BaseOfNumeric
<1>2. b \in BaseTypes
  BY BaseOfNumeric
<1>3. SizeOf[b] \in {1, 2, 4, 8}
  BY <1>2 DEF BaseTypes, SizeOf
<1>4. b # "NT_UNSIGNED" /\ b # "NT_CMPLX"
  BY <1>2 DEF BaseTypes, SizeOf
<1> HIDE DEF b
<1>5. CASE flags = {}
  <2>1. type = {b} /\ "NT_CMPLX" \notin type
    BY <1>1, <1>4, <1>5
  <2>2. ~ \E f \in Floats : type = {f, "NT_CMPLX"}
    BY <2>1
  <2>3. GetWaveElementSize(type) = SizeOf[b]
    BY <1>2, <2>1, <2>2 DEF GetWaveElementSize, b
  <2>4. PointSize(type) = SizeOf[b]
    BY <1>3, <2>1 DEF PointSize, b
  <2>5. QED
    BY <1>3, <2>3, <2>4
<1>6. CASE flags = {"NT_UNSIGNED"}
  <2>1. type = {b, "NT_UNSIGNED"} /\ "NT_CMPLX" \notin type /\ b \notin Floats
    BY <1>1, <1>4, <1>6
  <2>2. ~ (\E f \in Floats : type = {f, "NT_CMPLX"}) /\ ~ (\E f \in BaseTypes : type = {f})
    BY <1>4, <2>1
  <2>3. GetWaveElementSize(type) = SizeOf[b]
    BY <1>2, <2>1, <2>2 DEF GetWaveElementSize, b
  <2>4. PointSize(type) = SizeOf[b]
    BY <1>3, <2>1 DEF PointSize, b
  <2>5. QED
    BY <1>3, <2>3, <2>4
<1>7. CASE "NT_CMPLX" \in flags
  <2>1. "NT_CMPLX" \in type
    BY <1>1, <1>7
  <2>2. PointSize(type) = SizeOf[b] * 2
    BY <2>1 DEF PointSize, b
  <2>3. \A f \in BaseTypes : type # {f} /\ type # {f, "NT_UNSIGNED"}
    BY <1>4, <2>1 DEF BaseTypes, SizeOf
  <2>4. CASE \E f \in Floats : type = {f, "NT_CMPLX"}
    <3>1. GetWaveElementSize(type) = 2 * SizeOf[b]
      BY <2>3, <2>4 DEF GetWaveElementSize, b
    <3>2. QED
      BY <1>3, <2>2, <3>1
  <2>5. CASE ~ \E f \in Floats : type = {f, "NT_CMPLX"}
    <3>1. GetWaveElementSize(type) = 0
      BY <2>3, <2>5 DEF GetWaveElementSize
    <3>2. QED
      BY <1>3, <2>1, <2>2, <3>1
  <2>6. QED
    BY <2>4, <2>5
<1>8. flags = {} \/ flags = {"NT_UNSIGNED"} \/ "NT_CMPLX" \in flags
  BY <1>1
<1>9. QED
  BY <1>5, <1>6, <1>7, <1>8
-----------------------------------------------------------------------------
(* Points and data *)

(* A wave has a number of points, at least as many as rows.                 *)
LEMMA NumberOfPoints ==
  ASSUME NEW wave, wave.dims \in Seq(Nat \ {0})
  PROVE  /\ WavePoints(wave) \in Nat
         /\ wave.dims # <<>> => wave.dims[1] \in Nat /\ wave.dims[1] <= WavePoints(wave)
<1> DEFINE a == DimSize(wave, 1)
           b == DimSize(wave, 2)
           c == DimSize(wave, 3)
           d == DimSize(wave, 4)
<1>1. a \in Nat \ {0} /\ b \in Nat \ {0} /\ c \in Nat \ {0} /\ d \in Nat \ {0}
  BY DEF DimSize
<1>2. wave.dims # <<>> => a = wave.dims[1] /\ WavePoints(wave) = a * b * c * d
  BY DEF DimSize, WavePoints
<1>3. wave.dims = <<>> => WavePoints(wave) = 0
  BY DEF WavePoints
<1> HIDE DEF a, b, c, d
<1>4. a * b \in Nat /\ a <= a * b
  BY <1>1
<1> DEFINE ab == a * b
<1> HIDE DEF ab
<1>5. ab \in Nat /\ a <= ab
  BY <1>4 DEF ab
<1>6. ab * c \in Nat /\ ab <= ab * c
  BY <1>1, <1>5
<1> DEFINE abc == ab * c
<1> HIDE DEF abc
<1>7. abc \in Nat /\ ab <= abc
  BY <1>6 DEF abc
<1>8. abc * d \in Nat /\ abc <= abc * d
  BY <1>1, <1>7
<1>9. wave.dims # <<>> => WavePoints(wave) = abc * d
  BY <1>2 DEF ab, abc
<1>10. CASE wave.dims = <<>>
  BY <1>3, <1>10
<1>11. CASE wave.dims # <<>>
  <2>1. a = wave.dims[1] /\ WavePoints(wave) = abc * d
    BY <1>2, <1>9, <1>11
  <2>2. a \in Nat /\ a <= abc * d
    BY <1>1, <1>5, <1>7, <1>8
  <2>3. QED
    BY <1>8, <2>1, <2>2
<1>12. QED
  BY <1>10, <1>11

(* A wave of one dimension has as many points as rows.                      *)
LEMMA PointsOfRows ==
  ASSUME NEW n \in Nat, NEW wave, wave.dims = RowDims(n)
  PROVE  /\ wave.dims \in Seq(Nat \ {0}) /\ Len(wave.dims) <= 4
         /\ WavePoints(wave) = n
         /\ \A i \in 0..(n - 1) : GetWaveIndexInMemory(wave, <<i>>) = i
<1>1. CASE n = 0
  <2>1. wave.dims = <<>>
    BY <1>1 DEF RowDims
  <2>2. WavePoints(wave) = 0
    BY <2>1 DEF WavePoints
  <2>3. wave.dims \in Seq(Nat \ {0}) /\ Len(wave.dims) = 0
    BY <2>1
  <2>4. \A i \in 0..(n - 1) : FALSE
    BY <1>1
  <2>5. QED
    BY <1>1, <2>2, <2>3, <2>4
<1>2. CASE n # 0
  <2>1. wave.dims = <<n>>
    BY <1>2 DEF RowDims
  <2>2. DimSize(wave, 1) = n /\ DimSize(wave, 2) = 1 /\ DimSize(wave, 3) = 1 /\ DimSize(wave, 4) = 1
    BY <2>1 DEF DimSize
  <2>3. WavePoints(wave) = n
    BY <2>1, <2>2 DEF WavePoints
  <2>4. \A i \in Nat : GetWaveIndexInMemory(wave, <<i>>) = i
    BY <2>1, <2>2 DEF GetWaveIndexInMemory
  <2>5. QED
    BY <1>2, <2>1, <2>3, <2>4
<1>3. QED
  BY <1>1, <1>2

(* The data of a wave has a length.                                         *)
LEMMA DataLengths ==
  ASSUME NEW type \in WaveTypes, NEW n \in Nat
  PROVE  /\ DataLength(type, n) \in Nat
         /\ type \notin NumericTypes => DataLength(type, n) = n
<1>1. CASE type \in NumericTypes
  <2>1. IsNumeric(type) /\ PointSize(type) \in Nat
    BY <1>1, NumericOrNot, ElementSize
  <2>2. DataLength(type, n) = n * PointSize(type)
    BY <2>1 DEF DataLength
  <2>3. QED
    BY <1>1, <2>1, <2>2
<1>2. CASE type \notin NumericTypes
  BY <1>2, NumericOrNot DEF DataLength
<1>3. QED
  BY <1>1, <1>2

(* What is put into new points is data.                                     *)
LEMMA BlankFits ==
  ASSUME NEW type \in WaveTypes
  PROVE  /\ type = TEXT_WAVE_TYPE => Blank(type) \in Seq(Byte)
         /\ type = WAVE_TYPE => Blank(type) = NullWave
         /\ type \in NumericTypes => Blank(type) = NUL
<1>1. /\ TEXT_WAVE_TYPE # WAVE_TYPE /\ TEXT_WAVE_TYPE # DATAFOLDER_TYPE
      /\ WAVE_TYPE # DATAFOLDER_TYPE
  BY DEF TEXT_WAVE_TYPE, WAVE_TYPE, DATAFOLDER_TYPE
<1>2. CASE type = TEXT_WAVE_TYPE
  <2>1. Blank(type) = <<>> /\ type \notin NumericTypes
    BY <1>1, <1>2, NumericOrNot DEF Blank
  <2>2. QED
    BY <1>1, <1>2, <2>1
<1>3. CASE type = WAVE_TYPE
  <2>1. Blank(type) = NullWave /\ type \notin NumericTypes
    BY <1>1, <1>3, NumericOrNot DEF Blank
  <2>2. QED
    BY <1>1, <1>3, <2>1
<1>4. CASE type \in NumericTypes
  BY <1>4, NumericOrNot DEF Blank
<1>5. QED
  BY <1>2, <1>3, <1>4

(* Resizing keeps what fits of the data, and puts blanks into new points.   *)
LEMMA FitFits ==
  ASSUME NEW type \in WaveTypes, NEW m \in Nat, NEW n \in Nat, NEW data, DataFits(type, m, data)
  PROVE  DataFits(type, n, Fit(type, data, n))
<1> DEFINE length == DataLength(type, n)
           fit    == Fit(type, data, n)
<1>1. length \in Nat
  BY DataLengths
<1>2. fit = [i \in 1..length |-> IF i \in DOMAIN data THEN data[i] ELSE Blank(type)]
  BY DEF Fit
<1> HIDE DEF length, fit
<1>3. ASSUME NEW S, Blank(type) \in S, data \in Seq(S)
      PROVE  fit \in Seq(S)
  <2>1. \A i \in 1..length : fit[i] \in S
    BY <1>2, <1>3
  <2>2. QED
    BY <1>1, <1>2, <2>1
<1>4. type = TEXT_WAVE_TYPE => fit \in Seq(Seq(Byte))
  BY <1>3, BlankFits DEF DataFits
<1>5. type = WAVE_TYPE => fit \in Seq(WaveHandles \cup {NullWave})
  BY <1>3, BlankFits DEF DataFits
<1>6. type \in NumericTypes => fit \in Seq(Byte)
  BY <1>3, BlankFits, WavesAssumption DEF DataFits
<1>7. DOMAIN fit = 1..length
  BY <1>2
<1>8. QED
  BY <1>4, <1>5, <1>6, <1>7 DEF DataFits, length, fit

(* So does a new wave.                                                      *)
LEMMA NewDataFits ==
  ASSUME NEW type \in WaveTypes, NEW n \in Nat
  PROVE  DataFits(type, n, Fit(type, <<>>, n))
<1>1. DataLength(type, 0) = 0
  <2>1. CASE type \in NumericTypes
    BY <2>1, NumericOrNot, ElementSize DEF DataLength
  <2>2. QED
    BY <2>1, DataLengths
<1>2. DataFits(type, 0, <<>>)
  BY <1>1 DEF DataFits
<1>3. QED
  BY <1>2, FitFits

(* The data of a numeric wave is all of its bytes.                          *)
LEMMA DataOfPoints ==
  ASSUME NEW type \in WaveTypes, NEW n \in Nat, NEW data, DataFits(type, n, data)
  PROVE  /\ type = TEXT_WAVE_TYPE => data \in Seq(Seq(Byte)) /\ Len(data) = n
         /\ type = WAVE_TYPE => data \in Seq(WaveHandles \cup {NullWave}) /\ Len(data) = n
         /\ type \in NumericTypes => data \in Seq(Byte) /\ Len(data) = n * PointSize(type)
<1>1. CASE type \in NumericTypes
  <2>1. DataLength(type, n) = n * PointSize(type)
    BY <1>1, NumericOrNot DEF DataLength
  <2>2. DataLength(type, n) \in Nat
    BY DataLengths
  <2>3. data \in Seq(Byte) /\ DOMAIN data = 1..DataLength(type, n)
    BY <1>1 DEF DataFits
  <2>4. Len(data) = DataLength(type, n)
    BY <2>2, <2>3
  <2>5. QED
    BY <1>1, <2>1, <2>3, <2>4, NumericOrNot
<1>2. CASE type \notin NumericTypes
  <2>1. DOMAIN data = 1..n
    BY <1>2, DataLengths DEF DataFits
  <2>2. QED
    BY <1>2, <2>1 DEF DataFits
<1>3. QED
  BY <1>1, <1>2
-----------------------------------------------------------------------------
(* Waves that change *)

\* heap g differs from heap h in the contents of wave w only
ContentsOf(h, g, w) ==
  /\ DOMAIN g = DOMAIN h
  /\ \A v \in DOMAIN h \ {w} : g[v] = h[v]
  /\ DOMAIN g[w] = DOMAIN h[w] /\ g[w].type = h[w].type /\ g[w].free = h[w].free
  /\ g[w].refs = h[w].refs

(* A wave stays one when its reference count changes.                       *)
LEMMA RefsChanged ==
  ASSUME NEW wave, IsWave(wave), NEW r \in Int, NEW u, u = [wave EXCEPT !.refs = r]
  PROVE  /\ IsWave(u) /\ u.refs = r
         /\ u.type = wave.type /\ u.dims = wave.dims /\ u.data = wave.data
         /\ u.free = wave.free /\ u.locked = wave.locked /\ u.info = wave.info
<1>1. DOMAIN wave = {"type", "dims", "data", "free", "locked", "refs", "info"}
  BY DEF IsWave
<1>2. /\ DOMAIN u = DOMAIN wave /\ u.refs = r
      /\ u.type = wave.type /\ u.dims = wave.dims /\ u.data = wave.data
      /\ u.free = wave.free /\ u.locked = wave.locked /\ u.info = wave.info
  BY <1>1
<1>3. \A d : DimSize(u, d) = DimSize(wave, d)
  BY <1>2 DEF DimSize
<1>4. WavePoints(u) = WavePoints(wave)
  BY <1>2, <1>3 DEF WavePoints
<1>5. QED
  BY <1>1, <1>2, <1>4 DEF IsWave

(* Or when it gets data for its new number of rows.                         *)
LEMMA RowsChanged ==
  ASSUME NEW wave, IsWave(wave), NEW n \in Nat, NEW u,
         DOMAIN u = DOMAIN wave, u.type = wave.type, u.free = wave.free,
         u.refs \in Int, u.dims = RowDims(n), DataFits(u.type, n, u.data)
  PROVE  IsWave(u)
<1>1. u.dims \in Seq(Nat \ {0}) /\ Len(u.dims) <= 4 /\ WavePoints(u) = n
  BY PointsOfRows
<1>2. QED
  BY <1>1 DEF IsWave

(* A wave that is no wave reference wave changes by itself when it is       *)
(* resized.                                                                 *)
LEMMA Resized ==
  ASSUME NEW h, IsHeap(h), NEW w \in DOMAIN h, h[w].type # WAVE_TYPE, NEW n \in Nat,
         NEW g, g = RedimensionWave(h, w, n)
  PROVE  /\ ContentsOf(h, g, w) /\ IsWave(g[w])
         /\ g[w].dims = RowDims(n) /\ g[w].data = Fit(h[w].type, h[w].data, n)
<1>1. IsWave(h[w])
  BY DEF IsHeap
<1>2. DOMAIN h[w] = {"type", "dims", "data", "free", "locked", "refs", "info"}
  BY <1>1 DEF IsWave
<1>3. g = [h EXCEPT ![w].dims = RowDims(n), ![w].data = Fit(h[w].type, @, n)]
  BY DEF RedimensionWave
<1>4. DOMAIN g = DOMAIN h /\ \A v \in DOMAIN h \ {w} : g[v] = h[v]
  BY <1>3
<1>5. g[w] = [h[w] EXCEPT !.dims = RowDims(n), !.data = Fit(h[w].type, @, n)]
  BY <1>3
<1>6. /\ DOMAIN g[w] = DOMAIN h[w] /\ g[w].type = h[w].type /\ g[w].free = h[w].free
      /\ g[w].refs = h[w].refs
      /\ g[w].dims = RowDims(n) /\ g[w].data = Fit(h[w].type, h[w].data, n)
  BY <1>2, <1>5
<1>7. WavePoints(h[w]) \in Nat /\ h[w].type \in WaveTypes
  BY <1>1, NumberOfPoints DEF IsWave
<1>8. DataFits(g[w].type, n, g[w].data)
  BY <1>1, <1>6, <1>7, FitFits DEF IsWave
<1>9. h[w].refs \in Int
  BY <1>1 DEF IsWave
<1>10. IsWave(g[w])
  BY <1>1, <1>6, <1>8, <1>9, RowsChanged
<1>11. QED
  BY <1>4, <1>6, <1>10 DEF ContentsOf
-----------------------------------------------------------------------------
(* Counting rows *)

Containers(h) == {x \in DOMAIN h : h[x].type = WAVE_TYPE}
RowsIn(h, c, w) == {c} \X {i \in DOMAIN h[c].data : h[c].data[i] = w}
OtherRows(h, c, w) == UNION {RowsIn(h, x, w) : x \in Containers(h) \ {c}}

IsRow(h, w, r) ==
  \E x \in Containers(h) : \E j \in DOMAIN h[x].data : h[x].data[j] = w /\ r = <<x, j>>

(* A row is a container and a place in its data.                            *)
LEMMA InRows ==
  ASSUME NEW h, NEW w, NEW r
  PROVE  r \in RowsOf(h, w) <=> IsRow(h, w, r)
BY DEF RowsOf, Containers, IsRow

(* The rows of one container are as many as its references.                 *)
LEMMA RowsOfOne ==
  ASSUME NEW h, IsHeap(h), NEW c \in Containers(h), NEW w
  PROVE  /\ IsFiniteSet(RowsIn(h, c, w)) /\ References(h[c], w) \in Nat
         /\ Cardinality(RowsIn(h, c, w)) = References(h[c], w)
<1> DEFINE at == {i \in DOMAIN h[c].data : h[c].data[i] = w}
<1>1. IsWave(h[c]) /\ h[c].type = WAVE_TYPE
  BY DEF IsHeap, Containers
<1>2. WavePoints(h[c]) \in Nat
  BY <1>1, NumberOfPoints DEF IsWave
<1>3. h[c].data \in Seq(WaveHandles \cup {NullWave})
  BY <1>1 DEF IsWave, DataFits
<1>4. IsFiniteSet(1..Len(h[c].data)) /\ at \in SUBSET (1..Len(h[c].data))
  BY <1>3, FS_Interval
<1>5. IsFiniteSet(at)
  BY <1>4, FS_Subset
<1>6. References(h[c], w) = Cardinality(at)
  BY <1>1 DEF References
<1> HIDE DEF at
<1>7. Cardinality(at) \in Nat
  BY <1>5, FS_CardinalityType
<1>8. IsFiniteSet({c}) /\ Cardinality({c}) = 1
  BY FS_Singleton
<1>9. IsFiniteSet({c} \X at) /\ Cardinality({c} \X at) = 1 * Cardinality(at)
  BY <1>5, <1>8, FS_Product
<1>10. RowsIn(h, c, w) = {c} \X at
  BY DEF RowsIn, at
<1>11. QED
  BY <1>6, <1>7, <1>9, <1>10

(* The rows that refer to a wave are those of one container and those of    *)
(* the others.                                                              *)
LEMMA RowsSplit ==
  ASSUME NEW h, IsHeap(h), NEW c \in Containers(h), NEW w
  PROVE  /\ IsFiniteSet(OtherRows(h, c, w)) /\ Cardinality(OtherRows(h, c, w)) \in Nat
         /\ Cardinality(RowsOf(h, w)) = References(h[c], w) + Cardinality(OtherRows(h, c, w))
         /\ IsFiniteSet(RowsOf(h, w))
<1> DEFINE S == Containers(h) \ {c}
           T == {RowsIn(h, x, w) : x \in S}
           f == [x \in S |-> RowsIn(h, x, w)]
<1>1. IsFiniteSet(S)
  <2>1. IsFiniteSet(DOMAIN h) /\ S \in SUBSET DOMAIN h
    BY DEF IsHeap, Containers
  <2>2. QED
    BY <2>1, FS_Subset
<1>2. f \in Surjection(S, T)
  BY DEF Surjection
<1>3. IsFiniteSet(T)
  BY <1>1, <1>2, FS_Surjection
<1>4. \A R \in T : IsFiniteSet(R)
  BY RowsOfOne
<1>5. IsFiniteSet(UNION T)
  BY <1>3, <1>4, FS_UNION
<1>6. OtherRows(h, c, w) = UNION T
  BY DEF OtherRows
<1>7. IsFiniteSet(OtherRows(h, c, w))
  BY <1>5, <1>6
<1>8. RowsOf(h, w) = RowsIn(h, c, w) \cup OtherRows(h, c, w)
  BY DEF RowsOf, RowsIn, OtherRows, Containers
<1>9. RowsIn(h, c, w) \cap OtherRows(h, c, w) = {}
  <2>1. \A r \in RowsIn(h, c, w) : r[1] = c
    BY DEF RowsIn
  <2>2. \A r \in OtherRows(h, c, w) : r[1] # c
    BY DEF OtherRows, RowsIn
  <2>3. QED
    BY <2>1, <2>2
<1>10. IsFiniteSet(RowsIn(h, c, w)) /\ Cardinality(RowsIn(h, c, w)) = References(h[c], w)
  BY RowsOfOne
<1>11. References(h[c], w) \in Nat
  BY RowsOfOne
<1>12. Cardinality(OtherRows(h, c, w)) \in Nat
  BY <1>7, FS_CardinalityType
<1>13. /\ IsFiniteSet(RowsOf(h, w))
       /\ Cardinality(RowsOf(h, w)) =
            References(h[c], w) + Cardinality(OtherRows(h, c, w)) - Cardinality({})
  BY <1>7, <1>8, <1>9, <1>10, FS_Union
<1>14. Cardinality({}) = 0
  BY FS_EmptySet
<1>15. QED
  BY <1>7, <1>11, <1>12, <1>13, <1>14

(* Rows depend on the containers and their data.                            *)
LEMMA SameRows ==
  ASSUME NEW h, NEW g, Containers(g) = Containers(h),
         \A x \in Containers(h) : g[x].data = h[x].data
  PROVE  \A w : RowsOf(g, w) = RowsOf(h, w)
<1>1. ASSUME NEW w, NEW r
      PROVE  r \in RowsOf(g, w) <=> \E x \in Containers(g) : r \in RowsIn(g, x, w)
  BY DEF RowsOf, RowsIn, Containers
<1>2. ASSUME NEW w, NEW r
      PROVE  r \in RowsOf(h, w) <=> \E x \in Containers(h) : r \in RowsIn(h, x, w)
  BY DEF RowsOf, RowsIn, Containers
<1>3. ASSUME NEW w, NEW x \in Containers(h) PROVE RowsIn(g, x, w) = RowsIn(h, x, w)
  BY DEF RowsIn
<1>4. ASSUME NEW w PROVE RowsOf(g, w) = RowsOf(h, w)
  <2>1. \A r : r \in RowsOf(g, w) <=> r \in RowsOf(h, w)
    BY <1>1, <1>2, <1>3
  <2>2. QED
    BY <2>1
<1>5. QED
  BY <1>4

(* The contents of a wave that is no container may change.                  *)
LEMMA ContentsChanged ==
  ASSUME NEW h, IsHeap(h), HeldByRows(h), NEW w \in DOMAIN h, h[w].type # WAVE_TYPE,
         NEW g, ContentsOf(h, g, w), IsWave(g[w])
  PROVE  IsHeap(g) /\ HeldByRows(g)
<1>1. DOMAIN g = DOMAIN h /\ \A v \in DOMAIN h \ {w} : g[v] = h[v]
  BY DEF ContentsOf
<1>2. g[w].type = h[w].type /\ g[w].free = h[w].free /\ g[w].refs = h[w].refs
  BY DEF ContentsOf
<1>3. IsHeap(g)
  BY <1>1 DEF IsHeap
<1>4. Containers(g) = Containers(h)
  BY <1>1, <1>2 DEF Containers
<1>5. \A x \in Containers(h) : g[x].data = h[x].data
  BY <1>1 DEF Containers
<1>6. \A v : RowsOf(g, v) = RowsOf(h, v)
  BY <1>4, <1>5, SameRows
<1>7. ASSUME NEW v \in DOMAIN g, g[v].type = WAVE_TYPE
      PROVE  Range(g[v].data) \subseteq DOMAIN g \cup {NullWave}
  <2>1. v # w /\ g[v] = h[v]
    BY <1>1, <1>2, <1>7
  <2>2. QED
    BY <1>1, <1>7, <2>1 DEF HeldByRows
<1>8. ASSUME NEW v \in DOMAIN g, g[v].free
      PROVE  g[v].refs = Cardinality(RowsOf(g, v))
  <2>1. g[v].refs = h[v].refs /\ h[v].free
    BY <1>1, <1>2, <1>8
  <2>2. QED
    BY <1>1, <1>6, <2>1 DEF HeldByRows
<1>9. QED
  BY <1>3, <1>7, <1>8 DEF HeldByRows
-----------------------------------------------------------------------------
(* Resizing a container *)

(* References depend on the data.                                           *)
LEMMA ReferencesOfData ==
  ASSUME NEW S, NEW c, c.type = WAVE_TYPE, c.data \in Seq(S)
  PROVE  /\ \A w : References(c, w) \in Nat
         /\ \A d, w : d.type = WAVE_TYPE /\ d.data = c.data => References(d, w) = References(c, w)
<1>1. ASSUME NEW w PROVE References(c, w) \in Nat
  <2>1. IsFiniteSet(1..Len(c.data)) /\ {i \in DOMAIN c.data : c.data[i] = w} \in SUBSET (1..Len(c.data))
    BY FS_Interval
  <2>2. IsFiniteSet({i \in DOMAIN c.data : c.data[i] = w})
    BY <2>1, FS_Subset
  <2>3. Cardinality({i \in DOMAIN c.data : c.data[i] = w}) \in Nat
    BY <2>2, FS_CardinalityType
  <2>4. QED
    BY <2>3 DEF References
<1>2. ASSUME NEW d, NEW w, d.type = WAVE_TYPE, d.data = c.data
      PROVE  References(d, w) = References(c, w)
  BY <1>2 DEF References
<1>3. QED
  BY <1>1, <1>2

\* heap g is h with container c cut to n rows
CutTo(h, c, n, g) ==
  /\ \A v \in DOMAIN g \ {c} :
       IsWave(g[v]) /\ [g[v] EXCEPT !.refs = 0] = [h[v] EXCEPT !.refs = 0]
  /\ IsWave(g[c]) /\ g[c].type = WAVE_TYPE /\ g[c].dims = RowDims(n)
  /\ g[c].data = Fit(WAVE_TYPE, h[c].data, n)
  /\ \A v \in DOMAIN g :
       /\ g[v].type = h[v].type /\ g[v].free = h[v].free
       /\ g[v].locked = h[v].locked /\ (v # c => g[v].data = h[v].data)
       /\ g[v].refs = h[v].refs - (References(h[c], v) - References(g[c], v))
  /\ DOMAIN g =
       {x \in DOMAIN h : ~h[x].free \/ h[x].refs - (References(h[c], x) - References(g[c], x)) > 0}
  /\ c \in DOMAIN g

(* The wave that is resized is left with the rows that fit, the free waves  *)
(* with the references that are left; the other waves stay as they are.     *)
LEMMA ContainerFields ==
  ASSUME NEW h, IsHeap(h), NEW c \in Containers(h), NEW n \in Nat,
         NEW g, g = RedimensionWave(h, c, n)
  PROVE  CutTo(h, c, n, g)
<1> DEFINE fit     == Fit(WAVE_TYPE, h[c].data, n)
           fitted  == [h[c] EXCEPT !.data = Fit(WAVE_TYPE, @, n)]
           lost(v) == References(h[c], v) - References(fitted, v)
           counted == [v \in DOMAIN h |-> [h[v] EXCEPT !.refs = @ - lost(v)]]
           kept    == {x \in DOMAIN h : ~h[x].free \/ counted[x].refs > 0}
           freed   == [v \in kept |-> counted[v]]
<1>1. /\ IsWave(h[c]) /\ h[c].type = WAVE_TYPE /\ ~h[c].free /\ c \in DOMAIN h
      /\ WAVE_TYPE \in WaveTypes
  BY DEF IsHeap, IsWave, Containers, WaveTypes
<1>2. freed = ReleaseRows(h, c, n)
  BY DEF ReleaseRows
<1>3. g = [freed EXCEPT ![c].dims = RowDims(n), ![c].data = Fit(WAVE_TYPE, @, n)]
  BY <1>1, <1>2 DEF RedimensionWave
<1>4. fitted.type = WAVE_TYPE /\ fitted.data = fit
  BY <1>1 DEF IsWave
<1>5. WavePoints(h[c]) \in Nat /\ DataFits(WAVE_TYPE, WavePoints(h[c]), h[c].data)
  BY <1>1, NumberOfPoints DEF IsWave
<1>6. DataFits(WAVE_TYPE, n, fit)
  BY <1>1, <1>5, FitFits
<1>7. h[c].data \in Seq(WaveHandles \cup {NullWave}) /\ fit \in Seq(WaveHandles \cup {NullWave})
  BY <1>5, <1>6 DEF DataFits
<1> HIDE DEF fit, fitted
<1>8. ASSUME NEW v PROVE lost(v) \in Int
  <2>1. References(h[c], v) \in Nat
    BY <1>1, <1>7, ReferencesOfData
  <2>2. References(fitted, v) \in Nat
    BY <1>4, <1>7, ReferencesOfData
  <2>3. QED
    BY <2>1, <2>2
<1> HIDE DEF lost
<1>9. ASSUME NEW v \in DOMAIN h
      PROVE  /\ IsWave(counted[v]) /\ counted[v].refs = h[v].refs - lost(v)
             /\ counted[v].type = h[v].type /\ counted[v].data = h[v].data
             /\ counted[v].free = h[v].free /\ counted[v].locked = h[v].locked
             /\ [counted[v] EXCEPT !.refs = 0] = [h[v] EXCEPT !.refs = 0]
  <2>1. IsWave(h[v]) /\ h[v].refs \in Int
    BY DEF IsHeap, IsWave
  <2>2. h[v].refs - lost(v) \in Int
    BY <1>8, <2>1
  <2>3. counted[v] = [h[v] EXCEPT !.refs = h[v].refs - lost(v)]
    OBVIOUS
  <2>4. [counted[v] EXCEPT !.refs = 0] = [h[v] EXCEPT !.refs = 0]
    BY <2>3
  <2>5. QED
    BY <2>1, <2>2, <2>3, <2>4, RefsChanged
<1> HIDE DEF counted
<1>10. kept \subseteq DOMAIN h /\ c \in kept
  BY <1>1
<1>11. DOMAIN g = kept /\ \A v \in kept \ {c} : g[v] = counted[v]
  BY <1>3
<1>12. g[c] = [counted[c] EXCEPT !.dims = RowDims(n), !.data = Fit(WAVE_TYPE, @, n)]
  BY <1>3, <1>10
<1> HIDE DEF freed, kept
<1>13. /\ DOMAIN g[c] = DOMAIN counted[c] /\ g[c].type = WAVE_TYPE /\ g[c].free = h[c].free
       /\ g[c].refs = counted[c].refs /\ g[c].locked = h[c].locked
       /\ g[c].dims = RowDims(n) /\ g[c].data = fit
  <2>1. /\ IsWave(counted[c]) /\ counted[c].type = h[c].type /\ counted[c].data = h[c].data
        /\ counted[c].free = h[c].free /\ counted[c].locked = h[c].locked
    BY <1>1, <1>9
  <2>2. DOMAIN counted[c] = {"type", "dims", "data", "free", "locked", "refs", "info"}
    BY <2>1 DEF IsWave
  <2>3. /\ DOMAIN g[c] = DOMAIN counted[c] /\ g[c].type = counted[c].type
        /\ g[c].free = counted[c].free /\ g[c].refs = counted[c].refs
        /\ g[c].locked = counted[c].locked /\ g[c].dims = RowDims(n)
        /\ g[c].data = Fit(WAVE_TYPE, counted[c].data, n)
    BY <1>12, <2>2
  <2>4. QED
    BY <1>1, <2>1, <2>3 DEF fit
<1>14. IsWave(g[c])
  <2>1. IsWave(counted[c]) /\ counted[c].type = WAVE_TYPE /\ counted[c].free = h[c].free
    BY <1>1, <1>9
  <2>2. counted[c].refs \in Int
    BY <2>1 DEF IsWave
  <2>3. QED
    BY <1>6, <1>13, <2>1, <2>2, RowsChanged
<1>15. \A v : References(g[c], v) = References(fitted, v)
  BY <1>4, <1>7, <1>13, ReferencesOfData
<1>16. \A v \in DOMAIN h : counted[v].refs = h[v].refs - (References(h[c], v) - References(g[c], v))
  BY <1>9, <1>15 DEF lost
<1>17. DOMAIN g = {x \in DOMAIN h :
              ~h[x].free \/ h[x].refs - (References(h[c], x) - References(g[c], x)) > 0}
  BY <1>11, <1>16 DEF kept
<1>18. ASSUME NEW v \in DOMAIN g \ {c}
       PROVE  IsWave(g[v]) /\ [g[v] EXCEPT !.refs = 0] = [h[v] EXCEPT !.refs = 0]
  BY <1>9, <1>10, <1>11
<1>19. ASSUME NEW v \in DOMAIN g
       PROVE  /\ g[v].type = h[v].type /\ g[v].free = h[v].free
              /\ g[v].locked = h[v].locked /\ (v # c => g[v].data = h[v].data)
              /\ g[v].refs = h[v].refs - (References(h[c], v) - References(g[c], v))
  <2>1. v \in DOMAIN h
    BY <1>10, <1>11
  <2>2. CASE v = c
    BY <1>1, <1>13, <1>16, <2>2
  <2>3. CASE v # c
    <3>1. g[v] = counted[v]
      BY <1>11, <2>3
    <3>2. QED
      BY <1>9, <1>16, <2>1, <3>1
  <2>4. QED
    BY <2>2, <2>3
<1>20. QED
  BY <1>10, <1>11, <1>13, <1>14, <1>17, <1>18, <1>19 DEF fit, CutTo

(* Resizing a container keeps the heap one, and its free waves counted.     *)
LEMMA ContainerResized ==
  ASSUME NEW h, IsHeap(h), HeldByRows(h), NEW c \in Containers(h), NEW n \in Nat,
         NEW g, g = RedimensionWave(h, c, n)
  PROVE  IsHeap(g) /\ HeldByRows(g)
<1> DEFINE left(v) == h[v].refs - (References(h[c], v) - References(g[c], v))
<1>0. CutTo(h, c, n, g)
  BY ContainerFields
<1> HIDE DEF left
<1>1. /\ \A v \in DOMAIN g : IsWave(g[v])
      /\ c \in DOMAIN g /\ g[c].type = WAVE_TYPE /\ g[c].data = Fit(WAVE_TYPE, h[c].data, n)
      /\ \A v \in DOMAIN g : /\ g[v].type = h[v].type /\ g[v].free = h[v].free
                             /\ (v # c => g[v].data = h[v].data)
                             /\ g[v].refs = left(v)
  BY <1>0 DEF CutTo, left
<1>2. DOMAIN g = {x \in DOMAIN h : ~h[x].free \/ left(x) > 0}
  BY <1>0 DEF CutTo, left
<1>3. IsHeap(g)
  <2>1. DOMAIN g \in SUBSET DOMAIN h /\ IsFiniteSet(DOMAIN h) /\ DOMAIN h \subseteq WaveHandles
    BY <1>2 DEF IsHeap
  <2>2. IsFiniteSet(DOMAIN g)
    BY <2>1, FS_Subset
  <2>3. QED
    BY <1>1, <2>1, <2>2 DEF IsHeap
<1>4. Containers(g) = Containers(h) /\ c \in Containers(g)
  <2>1. \A x \in Containers(h) : x \in DOMAIN h /\ ~h[x].free
    BY DEF IsHeap, IsWave, Containers
  <2>2. \A x \in Containers(h) : x \in DOMAIN g
    BY <1>2, <2>1
  <2>3. QED
    BY <1>1, <1>2, <2>2 DEF Containers
<1>5. \A v : OtherRows(g, c, v) = OtherRows(h, c, v)
  <2>1. ASSUME NEW v, NEW x \in Containers(h) \ {c} PROVE RowsIn(g, x, v) = RowsIn(h, x, v)
    <3>1. g[x].data = h[x].data
      BY <1>1, <1>4 DEF Containers
    <3>2. QED
      BY <3>1 DEF RowsIn
  <2>2. ASSUME NEW v, NEW r PROVE r \in OtherRows(g, c, v) <=> r \in OtherRows(h, c, v)
    <3>1. r \in OtherRows(g, c, v) <=> \E x \in Containers(h) \ {c} : r \in RowsIn(g, x, v)
      BY <1>4 DEF OtherRows
    <3>2. r \in OtherRows(h, c, v) <=> \E x \in Containers(h) \ {c} : r \in RowsIn(h, x, v)
      BY DEF OtherRows
    <3>3. QED
      BY <2>1, <3>1, <3>2
  <2>3. QED
    BY <2>2
<1>6. ASSUME NEW v \in DOMAIN h, h[v].free
      PROVE  /\ left(v) = Cardinality(RowsOf(g, v))
             /\ IsFiniteSet(RowsOf(g, v)) /\ Cardinality(RowsOf(g, v)) \in Nat
  <2>1. h[v].refs = Cardinality(RowsOf(h, v))
    BY <1>6 DEF HeldByRows
  <2>2. /\ Cardinality(OtherRows(h, c, v)) \in Nat
        /\ Cardinality(RowsOf(h, v)) = References(h[c], v) + Cardinality(OtherRows(h, c, v))
    BY RowsSplit
  <2>3. /\ IsFiniteSet(RowsOf(g, v))
        /\ Cardinality(RowsOf(g, v)) = References(g[c], v) + Cardinality(OtherRows(g, c, v))
    BY <1>3, <1>4, RowsSplit
  <2>4. References(h[c], v) \in Nat
    BY RowsOfOne
  <2>5. References(g[c], v) \in Nat
    BY <1>3, <1>4, RowsOfOne
  <2>6. Cardinality(OtherRows(g, c, v)) = Cardinality(OtherRows(h, c, v))
    BY <1>5
  <2>7. QED
    BY <2>1, <2>2, <2>3, <2>4, <2>5, <2>6 DEF left
<1>7. ASSUME NEW v \in DOMAIN g, g[v].free
      PROVE  g[v].refs = Cardinality(RowsOf(g, v))
  <2>1. v \in DOMAIN h /\ h[v].free
    BY <1>1, <1>2, <1>7
  <2>2. QED
    BY <1>1, <1>6, <2>1
<1>8. ASSUME NEW x \in DOMAIN g, g[x].type = WAVE_TYPE, NEW i \in DOMAIN g[x].data,
             g[x].data[i] # NullWave
      PROVE  g[x].data[i] \in DOMAIN g
  <2> DEFINE v == g[x].data[i]
  <2>1. x \in DOMAIN h /\ h[x].type = WAVE_TYPE
    BY <1>1, <1>2, <1>8
  <2>2. v \in DOMAIN h
    <3>1. Range(h[x].data) \subseteq DOMAIN h \cup {NullWave}
      BY <2>1 DEF HeldByRows
    <3>2. CASE x # c
      <4>1. g[x].data = h[x].data
        BY <1>1, <3>2
      <4>2. v \in Range(h[x].data)
        BY <1>8, <4>1 DEF Range
      <4>3. QED
        BY <1>8, <3>1, <4>2
    <3>3. CASE x = c
      <4>1. i \in DOMAIN Fit(WAVE_TYPE, h[c].data, n) /\ v = Fit(WAVE_TYPE, h[c].data, n)[i]
        BY <1>1, <1>8, <3>3
      <4>2. v = IF i \in DOMAIN h[c].data THEN h[c].data[i] ELSE Blank(WAVE_TYPE)
        BY <4>1 DEF Fit
      <4>3. Blank(WAVE_TYPE) = NullWave
        BY BlankFits DEF WaveTypes
      <4>4. i \in DOMAIN h[c].data /\ v = h[c].data[i]
        BY <1>8, <4>2, <4>3
      <4>5. v \in Range(h[c].data)
        BY <4>4 DEF Range
      <4>6. QED
        BY <1>8, <3>1, <3>3, <4>5
    <3>4. QED
      BY <3>2, <3>3
  <2>3. CASE ~h[v].free
    BY <1>2, <2>2, <2>3
  <2>4. CASE h[v].free
    <3>1. <<x, i>> \in RowsOf(g, v)
      BY <1>8 DEF RowsOf
    <3>2. Cardinality(RowsOf(g, v)) # 0 /\ Cardinality(RowsOf(g, v)) \in Nat
      BY <1>6, <2>2, <2>4, <3>1, FS_EmptySet
    <3>3. left(v) = Cardinality(RowsOf(g, v))
      BY <1>6, <2>2, <2>4
    <3>4. left(v) > 0
      BY <3>2, <3>3
    <3>5. QED
      BY <1>2, <2>2, <3>4
  <2>5. QED
    BY <2>3, <2>4
<1>9. ASSUME NEW x \in DOMAIN g, g[x].type = WAVE_TYPE
      PROVE  Range(g[x].data) \subseteq DOMAIN g \cup {NullWave}
  BY <1>8, <1>9 DEF Range
<1>10. QED
  BY <1>3, <1>7, <1>9 DEF HeldByRows
-----------------------------------------------------------------------------
(* Texts and messages *)

(* A nonempty set of natural numbers has a least element.                   *)
LEMMA LeastElement ==
  ASSUME NEW S \in SUBSET Nat, S # {}
  PROVE  Min(S) \in S /\ \A y \in S : Min(S) <= y
<1>1. PICK m \in S : \A y \in S : ~ (<<y, m>> \in OpToRel(<, Nat))
  BY NatLessThanWellFounded, WFMin
<1>2. ASSUME NEW y \in S PROVE m <= y
  <2>1. ~ (<<y, m>> \in OpToRel(<, Nat))
    BY <1>1
  <2>2. ~ (y < m)
    BY <2>1, Zenon DEF OpToRel
  <2>3. QED
    BY <2>2
<1>3. QED
  BY <1>2 DEF Min

(* The first elements of a sequence.                                        *)
LEMMA FrontOf ==
  ASSUME NEW S, NEW s \in Seq(S), NEW n \in 0..Len(s)
  PROVE  /\ SubSeq(s, 1, n) \in Seq(S) /\ Len(SubSeq(s, 1, n)) = n
         /\ \A i \in 1..n : SubSeq(s, 1, n)[i] = s[i]
<1> DEFINE t == SubSeq(s, 1, n)
<1>1. Len(s) \in Nat /\ n \in Nat /\ n <= Len(s)
  OBVIOUS
<1>2. Len(t) = n /\ \A i \in 1..n : t[i] = s[i]
  BY <1>1
<1>3. \A i \in 1..n : t[i] \in S
  BY <1>1, <1>2
<1>4. QED
  BY <1>1, <1>2, <1>3

(* A C string ends at the first NUL.                                        *)
LEMMA TextUpToNul ==
  ASSUME NEW text \in Seq(Byte), NEW t, t = GetHandleFromString(text)
  PROVE  /\ t \in Seq(Byte) /\ IsPrefix(t, text) /\ NUL \notin Range(t)
         /\ t = text \/ text[Len(t) + 1] = NUL
<1> DEFINE nuls == {i \in 1..Len(text) : text[i] = NUL}
           first == IF nuls # {} THEN Min(nuls) ELSE 0
<1>1. t = IF first = 0 THEN text ELSE SubSeq(text, 1, first - 1)
  BY DEF GetHandleFromString, SelectInSeq
<1>2. CASE nuls = {}
  <2>1. first = 0
    BY <1>2
  <2>2. t = text
    BY <1>1, <2>1
  <2>3. \A i \in 1..Len(text) : text[i] # NUL
    BY <1>2
  <2>4. QED
    BY <2>2, <2>3 DEF IsPrefix, Range
<1>3. CASE nuls # {}
  <2> DEFINE nul == Min(nuls)
  <2>1. nul \in nuls /\ \A i \in nuls : nul <= i
    <3>1. nuls \in SUBSET Nat
      OBVIOUS
    <3>2. QED
      BY <1>3, <3>1, LeastElement
  <2>2. first = nul
    BY <1>3
  <2> HIDE DEF nul
  <2>3. nul \in 1..Len(text) /\ text[nul] = NUL /\ \A i \in 1..(nul - 1) : text[i] # NUL
    BY <2>1
  <2> HIDE DEF nuls
  <2>4. t = SubSeq(text, 1, nul - 1)
    BY <1>1, <2>2, <2>3
  <2>5. /\ t \in Seq(Byte) /\ Len(t) = nul - 1
        /\ \A i \in 1..(nul - 1) : t[i] = text[i]
    BY <2>3, <2>4
  <2>6. IsPrefix(t, text)
    <3>1. Len(t) <= Len(text)
      BY <2>3, <2>5
    <3>2. SubSeq(t, 1, Len(t)) = SubSeq(text, 1, Len(t))
      BY <2>3, <2>4, <2>5
    <3>3. QED
      BY <3>1, <3>2 DEF IsPrefix
  <2>7. NUL \notin Range(t)
    BY <2>3, <2>5 DEF Range
  <2>8. Len(t) + 1 = nul
    BY <2>3, <2>5
  <2>9. QED
    BY <2>3, <2>5, <2>6, <2>7, <2>8
<1>4. QED
  BY <1>2, <1>3

(* The frame of a row is the content of its wave, complex integers apart.   *)
LEMMA FrameOfWave ==
  ASSUME NEW wave, IsWave(wave), wave.type # WAVE_TYPE, wave.type # DATAFOLDER_TYPE,
         wave.type = TEXT_WAVE_TYPE => wave.dims = << 1 >>
  PROVE  /\ RowFrame(wave) \in Seq(Byte)
         /\ ComplexInteger(wave.type) \/ RowFrame(wave) = Content(wave)
<1>1. /\ wave.type \in WaveTypes /\ WavePoints(wave) \in Nat
      /\ DataFits(wave.type, WavePoints(wave), wave.data)
  BY NumberOfPoints DEF IsWave
<1>2. CASE wave.type = TEXT_WAVE_TYPE
  <2>1. wave.dims = RowDims(1)
    BY <1>2 DEF RowDims
  <2>2. WavePoints(wave) = 1 /\ GetWaveIndexInMemory(wave, <<0>>) = 0
    BY <2>1, PointsOfRows
  <2>3. wave.data \in Seq(Seq(Byte)) /\ Len(wave.data) = 1
    BY <1>1, <1>2, <2>2, DataOfPoints
  <2>4. GetWaveElement(wave, <<0>>) = wave.data[1]
    BY <2>2 DEF GetWaveElement
  <2>5. QED
    BY <1>2, <2>3, <2>4 DEF RowFrame, Content
<1>3. CASE wave.type # TEXT_WAVE_TYPE
  <2>1. wave.type \in NumericTypes
    BY <1>1, <1>3 DEF WaveTypes
  <2> DEFINE n    == WavePoints(wave)
             size == GetWaveElementSize(wave.type)
             p    == PointSize(wave.type)
  <2>2. p \in Nat /\ size \in {0, p} /\ (size = 0 => "NT_CMPLX" \in wave.type)
    BY <2>1, ElementSize
  <2>3. wave.data \in Seq(Byte) /\ Len(wave.data) = n * p
    BY <1>1, <2>1, DataOfPoints
  <2>4. RowFrame(wave) = SubSeq(wave.data, 1, n * size) /\ Content(wave) = wave.data
    BY <1>3 DEF RowFrame, NumericFrame, Content
  <2>5. ComplexInteger(wave.type) <=> "NT_CMPLX" \in wave.type /\ size = 0
    BY DEF ComplexInteger
  <2>6. n \in Nat
    BY <1>1
  <2> HIDE DEF n, size, p
  <2>7. CASE size = p
    <3>1. SubSeq(wave.data, 1, Len(wave.data)) = wave.data
      BY <2>3
    <3>2. QED
      BY <2>3, <2>4, <2>7, <3>1
  <2>8. CASE size = 0
    <3>1. SubSeq(wave.data, 1, 0) = <<>>
      BY <2>3
    <3>2. n * size = 0
      BY <2>6, <2>8
    <3>3. QED
      BY <2>2, <2>4, <2>5, <2>8, <3>1, <3>2
  <2>9. QED
    BY <2>2, <2>7, <2>8
<1>4. QED
  BY <1>2, <1>3

(* A container that is accepted has at least two rows, and none is          *)
(* rejected.                                                                *)
LEMMA AcceptedContainer ==
  ASSUME NEW h, IsHeap(h), HeldByRows(h), NEW c \in DOMAIN h \cup {NullWave},
         ContainerError(h, c) = "0"
  PROVE  /\ c \in Containers(h)
         /\ h[c].data \in Seq(DOMAIN h \cup {NullWave})
         /\ h[c].dims[1] \in Nat /\ h[c].dims[1] >= 2 /\ h[c].dims[1] <= Len(h[c].data)
         /\ \A i \in 1..h[c].dims[1] : RowError(h, c, i) = "0"
<1>1. /\ c # NullWave /\ h[c].type = WAVE_TYPE /\ h[c].dims # <<>> /\ ~(h[c].dims[1] < 2)
  BY DEF ContainerError
<1>2. c \in Containers(h) /\ IsWave(h[c])
  BY <1>1 DEF Containers, IsHeap
<1>3. h[c].dims[1] \in Nat /\ h[c].dims[1] <= WavePoints(h[c]) /\ WavePoints(h[c]) \in Nat
  BY <1>1, <1>2, NumberOfPoints DEF IsWave
<1>4. h[c].data \in Seq(WaveHandles \cup {NullWave}) /\ Len(h[c].data) = WavePoints(h[c])
  BY <1>1, <1>2, <1>3, DataOfPoints DEF IsWave
<1>5. h[c].data \in Seq(DOMAIN h \cup {NullWave})
  <2>1. Range(h[c].data) \subseteq DOMAIN h \cup {NullWave}
    BY <1>1, <1>2 DEF HeldByRows, Containers
  <2>2. \A i \in 1..Len(h[c].data) : h[c].data[i] \in DOMAIN h \cup {NullWave}
    BY <1>4, <2>1 DEF Range
  <2>3. QED
    BY <1>4, <2>2
<1> DEFINE rejected == {i \in 1..h[c].dims[1] : RowError(h, c, i) # "0"}
<1>6. ContainerError(h, c) = IF rejected = {} THEN "0" ELSE RowError(h, c, Min(rejected))
  BY <1>1 DEF ContainerError
<1>7. rejected = {}
  <2>1. SUFFICES ASSUME rejected # {} PROVE FALSE
    OBVIOUS
  <2>2. rejected \in SUBSET Nat
    BY <1>3
  <2>3. Min(rejected) \in rejected
    BY <2>1, <2>2, LeastElement
  <2>4. RowError(h, c, Min(rejected)) # "0"
    BY <2>3
  <2>5. QED
    BY <1>6, <2>1, <2>4
<1>8. QED
  BY <1>1, <1>2, <1>3, <1>4, <1>5, <1>7

\* the frames are what a send function asks for
Asked(h, fn, args, msg) ==
  /\ Len(msg) = Len(Message(h, fn, args))
  /\ \A i \in 1..Len(msg) :
       msg[i] = Message(h, fn, args)[i] \/ SendsNothingOf(h, fn, args, i)

(* The frames of the rows are what zeromq_pub_send_multi asks for.          *)
LEMMA MessageOfRows ==
  ASSUME NEW h, IsHeap(h), HeldByRows(h), NEW c \in DOMAIN h \cup {NullWave},
         ContainerError(h, c) = "0"
  PROVE  /\ GatherPubData(h, c) \in Seq(Seq(Byte))
         /\ Asked(h, "zeromq_pub_send_multi", <<c>>, GatherPubData(h, c))
<1> DEFINE n     == h[c].dims[1]
           d     == h[c].data
           msg   == GatherPubData(h, c)
           asked == Message(h, "zeromq_pub_send_multi", <<c>>)
<1>1. /\ d \in Seq(DOMAIN h \cup {NullWave}) /\ n \in Nat /\ n >= 2 /\ n <= Len(d)
      /\ \A i \in 1..n : RowError(h, c, i) = "0"
  BY AcceptedContainer
<1>2. ASSUME NEW i \in 1..n
      PROVE  /\ RowFrame(h[d[i]]) \in Seq(Byte)
             /\ ComplexInteger(h[d[i]].type) \/ RowFrame(h[d[i]]) = Content(h[d[i]])
  <2>1. RowError(h, c, i) = "0"
    BY <1>1
  <2>2. /\ d[i] # NullWave /\ h[d[i]].type # WAVE_TYPE /\ h[d[i]].type # DATAFOLDER_TYPE
        /\ h[d[i]].type = TEXT_WAVE_TYPE => h[d[i]].dims = <<1>>
    BY <2>1 DEF RowError, CheckWaveDimension
  <2>3. d[i] \in DOMAIN h
    BY <1>1, <2>2
  <2>4. IsWave(h[d[i]])
    BY <2>3 DEF IsHeap
  <2>5. QED
    BY <2>2, <2>4, FrameOfWave
<1>3. msg = [i \in 1..n |-> RowFrame(h[d[i]])]
  BY DEF GatherPubData
<1>4. asked = [i \in 1..n |-> Content(h[d[i]])]
  BY DEF Message
<1>5. \A i : ComplexInteger(h[d[i]].type) => SendsNothingOf(h, "zeromq_pub_send_multi", <<c>>, i)
  BY DEF SendsNothingOf
<1>6. Asked(h, "zeromq_pub_send_multi", <<c>>, msg) <=>
        /\ Len(msg) = Len(asked)
        /\ \A i \in 1..Len(msg) :
             msg[i] = asked[i] \/ SendsNothingOf(h, "zeromq_pub_send_multi", <<c>>, i)
  BY DEF Asked
<1> HIDE DEF n, d, msg, asked
<1>7. msg \in Seq(Seq(Byte)) /\ Len(msg) = n
  BY <1>1, <1>2, <1>3
<1>8. Len(asked) = n
  BY <1>1, <1>4
<1>9. Asked(h, "zeromq_pub_send_multi", <<c>>, msg)
  BY <1>2, <1>3, <1>4, <1>5, <1>6, <1>7, <1>8
<1>10. QED
  BY <1>7, <1>9 DEF msg
-----------------------------------------------------------------------------
(* Storing a frame *)

(* A text wave of one point gets the frame up to its first NUL.             *)
LEMMA TextStored ==
  ASSUME NEW h, IsHeap(h), NEW w \in DOMAIN h, h[w].type = TEXT_WAVE_TYPE, h[w].dims = << 1 >>,
         NEW frame \in Seq(Byte), NEW g, g = SetTextElement(h, w, << 0 >>, frame)
  PROVE  ContentsOf(h, g, w) /\ IsWave(g[w]) /\ HoldsFrame(g[w], frame)
<1>1. IsWave(h[w])
  BY DEF IsHeap
<1>2. h[w].dims = RowDims(1)
  BY DEF RowDims
<1>3. WavePoints(h[w]) = 1 /\ GetWaveIndexInMemory(h[w], <<0>>) = 0
  BY <1>2, PointsOfRows
<1>4. h[w].type \in WaveTypes /\ DataFits(h[w].type, 1, h[w].data)
  BY <1>1, <1>3 DEF IsWave
<1>5. h[w].data \in Seq(Seq(Byte)) /\ Len(h[w].data) = 1
  BY <1>4, DataOfPoints
<1> DEFINE t == GetHandleFromString(frame)
<1>6. /\ t \in Seq(Byte) /\ IsPrefix(t, frame) /\ NUL \notin Range(t)
      /\ t = frame \/ frame[Len(t) + 1] = NUL
  BY TextUpToNul
<1>7. g = [h EXCEPT ![w].data[1] = t]
  <2> DEFINE at == GetWaveIndexInMemory(h[w], <<0>>) + 1
  <2>1. g = [h EXCEPT ![w].data[at] = t]
    BY DEF SetTextElement
  <2>2. at = 1
    BY <1>3
  <2> HIDE DEF at
  <2>3. QED
    BY <2>1, <2>2
<1> HIDE DEF t
<1>8. DOMAIN h[w] = {"type", "dims", "data", "free", "locked", "refs", "info"} /\ h[w].refs \in Int
  BY <1>1 DEF IsWave
<1>9. DOMAIN g = DOMAIN h /\ \A v \in DOMAIN h \ {w} : g[v] = h[v]
  BY <1>7
<1>10. /\ DOMAIN g[w] = DOMAIN h[w] /\ g[w].type = h[w].type /\ g[w].free = h[w].free
       /\ g[w].refs = h[w].refs /\ g[w].dims = h[w].dims
       /\ g[w].data = [h[w].data EXCEPT ![1] = t]
  BY <1>7, <1>8
<1>11. g[w].data \in Seq(Seq(Byte)) /\ Len(g[w].data) = 1 /\ g[w].data[1] = t
  <2> DEFINE T == Seq(Byte)
  <2>1. h[w].data \in Seq(T) /\ Len(h[w].data) = 1 /\ t \in T
    BY <1>5, <1>6
  <2> HIDE DEF T
  <2>2. g[w].data \in Seq(T) /\ Len(g[w].data) = 1 /\ g[w].data[1] = t
    BY <1>10, <2>1
  <2>3. QED
    BY <2>2 DEF T
<1>12. DataFits(g[w].type, 1, g[w].data)
  <2>1. g[w].type = TEXT_WAVE_TYPE /\ TEXT_WAVE_TYPE # WAVE_TYPE /\ TEXT_WAVE_TYPE \notin NumericTypes
    BY <1>4, <1>10, NumericOrNot DEF TEXT_WAVE_TYPE, WAVE_TYPE
  <2>2. DataLength(TEXT_WAVE_TYPE, 1) = 1
    BY <1>4, <2>1, DataLengths
  <2>3. DOMAIN g[w].data = 1..1 /\ g[w].data \in Seq(Seq(Byte))
    BY <1>11
  <2>4. QED
    BY <2>1, <2>2, <2>3 DEF DataFits
<1>13. IsWave(g[w])
  <2>1. g[w].refs \in Int /\ g[w].dims = RowDims(1)
    BY <1>2, <1>8, <1>10
  <2>2. QED
    BY <1>1, <1>10, <1>12, <2>1, RowsChanged
<1>14. HoldsFrame(g[w], frame)
  BY <1>6, <1>10, <1>11 DEF HoldsFrame
<1>15. QED
  BY <1>9, <1>10, <1>13, <1>14 DEF ContentsOf

\* h with as much of the frame as fits copied into the memory of w
Copied(h, w, frame) ==
  LET size == Len(h[w].data)
  IN  [h EXCEPT ![w].data = [k \in 1..size |-> IF k <= Len(frame) THEN frame[k] ELSE @[k]]]

(* A numeric wave of the size of the frame gets all of it.                  *)
LEMMA BytesStored ==
  ASSUME NEW h, IsHeap(h), NEW w \in DOMAIN h, h[w].type \in NumericTypes,
         NEW frame \in Seq(Byte), NEW g, g = Copied(h, w, frame)
  PROVE  /\ ContentsOf(h, g, w) /\ IsWave(g[w])
         /\ Len(frame) = Len(h[w].data) => HoldsFrame(g[w], frame)
<1> DEFINE size == Len(h[w].data)
           d    == [k \in 1..size |-> IF k <= Len(frame) THEN frame[k] ELSE h[w].data[k]]
<1>1. IsWave(h[w])
  BY DEF IsHeap
<1>2. /\ h[w].type \in WaveTypes /\ WavePoints(h[w]) \in Nat
      /\ DataFits(h[w].type, WavePoints(h[w]), h[w].data)
  BY <1>1, NumberOfPoints DEF IsWave
<1>3. h[w].data \in Seq(Byte)
  BY <1>2, DataOfPoints
<1>4. g = [h EXCEPT ![w].data = d]
  BY DEF Copied
<1>5. d \in Seq(Byte) /\ DOMAIN d = DOMAIN h[w].data
  <2>1. size \in Nat /\ DOMAIN h[w].data = 1..size
    BY <1>3
  <2>2. d = [k \in 1..size |-> IF k <= Len(frame) THEN frame[k] ELSE h[w].data[k]]
    OBVIOUS
  <2> HIDE DEF d, size
  <2>3. \A k \in 1..size : d[k] \in Byte
    BY <1>3, <2>1, <2>2
  <2>4. DOMAIN d = 1..size
    BY <2>2
  <2>5. QED
    BY <2>1, <2>2, <2>3, <2>4
<1>6. size = Len(frame) => d = frame
  OBVIOUS
<1> HIDE DEF d, size
<1>7. DOMAIN h[w] = {"type", "dims", "data", "free", "locked", "refs", "info"}
  BY <1>1 DEF IsWave
<1>8. DOMAIN g = DOMAIN h /\ \A v \in DOMAIN h \ {w} : g[v] = h[v]
  BY <1>4
<1>9. /\ DOMAIN g[w] = DOMAIN h[w] /\ g[w].type = h[w].type /\ g[w].free = h[w].free
      /\ g[w].refs = h[w].refs /\ g[w].dims = h[w].dims /\ g[w].data = d
  BY <1>4, <1>7
<1>10. h[w].type # TEXT_WAVE_TYPE /\ h[w].type # WAVE_TYPE
  BY <1>2, NumericOrNot
<1>11. DataFits(g[w].type, WavePoints(h[w]), g[w].data)
  BY <1>2, <1>5, <1>9, <1>10 DEF DataFits
<1>12. WavePoints(g[w]) = WavePoints(h[w])
  <2>1. \A k : DimSize(g[w], k) = DimSize(h[w], k)
    BY <1>9 DEF DimSize
  <2>2. QED
    BY <1>9, <2>1 DEF WavePoints
<1>13. IsWave(g[w])
  BY <1>1, <1>9, <1>11, <1>12 DEF IsWave
<1>14. Len(frame) = Len(h[w].data) => HoldsFrame(g[w], frame)
  BY <1>6, <1>9, <1>10 DEF HoldsFrame, size
<1>15. QED
  BY <1>8, <1>9, <1>13, <1>14 DEF ContentsOf

(* StoreFrame changes the wave it is given; when it has the size of the     *)
(* frame and no copy goes beyond it, the wave holds the frame.              *)
LEMMA FrameStored ==
  ASSUME NEW h, IsHeap(h), HeldByRows(h), NEW w \in DOMAIN h,
         h[w].type \in NumericTypes \/ (h[w].type = TEXT_WAVE_TYPE /\ h[w].dims = << 1 >>),
         NEW frame \in Seq(Byte),
         h[w].type \in NumericTypes => Len(h[w].data) <= Len(frame),
         StoreFrame(h, w, frame)
  PROVE  /\ IsHeap(heap') /\ HeldByRows(heap') /\ ContentsOf(h, heap', w)
         /\ row' = row + 1 /\ last' = last /\ phase' \in {phase, "undefined"}
         /\ phase' # "undefined" => HoldsFrame(heap'[w], frame)
<1>0. h[w].type \in WaveTypes /\ h[w].type # WAVE_TYPE
  <2>1. h[w].type \in WaveTypes
    BY DEF IsHeap, IsWave
  <2>2. QED
    BY <2>1, NumericOrNot DEF TEXT_WAVE_TYPE, WAVE_TYPE
<1>1. CASE h[w].type = TEXT_WAVE_TYPE
  <2>1. heap' = SetTextElement(h, w, <<0>>, frame) /\ row' = row + 1 /\ phase' = phase /\ last' = last
    BY <1>1 DEF StoreFrame, RowStored
  <2>2. h[w].dims = <<1>>
    BY <1>0, <1>1, NumericOrNot
  <2>3. ContentsOf(h, heap', w) /\ IsWave(heap'[w]) /\ HoldsFrame(heap'[w], frame)
    BY <1>1, <2>1, <2>2, TextStored
  <2>4. IsHeap(heap') /\ HeldByRows(heap')
    BY <1>0, <2>3, ContentsChanged
  <2>5. QED
    BY <2>1, <2>3, <2>4
<1>2. CASE h[w].type # TEXT_WAVE_TYPE
  <2>1. /\ heap' = Copied(h, w, frame) /\ row' = row + 1 /\ last' = last
        /\ phase' \in {phase, "undefined"}
        /\ phase' # "undefined" => Len(frame) <= Len(h[w].data)
    BY <1>2 DEF StoreFrame, RowStored, Copied
  <2>2. /\ ContentsOf(h, heap', w) /\ IsWave(heap'[w])
        /\ Len(frame) = Len(h[w].data) => HoldsFrame(heap'[w], frame)
    BY <1>2, <2>1, BytesStored
  <2>3. IsHeap(heap') /\ HeldByRows(heap')
    BY <1>0, <2>2, ContentsChanged
  <2>4. Len(h[w].data) \in Nat
    <3>1. /\ h[w].type \in NumericTypes /\ WavePoints(h[w]) \in Nat
          /\ DataFits(h[w].type, WavePoints(h[w]), h[w].data)
      BY <1>2, NumberOfPoints DEF IsHeap, IsWave
    <3>2. h[w].data \in Seq(Byte)
      BY <1>0, <3>1, DataOfPoints
    <3>3. QED
      BY <3>2
  <2>5. phase' # "undefined" => Len(frame) = Len(h[w].data)
    BY <1>2, <2>1, <2>4
  <2>6. QED
    BY <2>1, <2>2, <2>3, <2>5
<1>3. QED
  BY <1>1, <1>2
-----------------------------------------------------------------------------
(* A wave for a null row *)

(* It is a free wave, held once, with room for the frame.                   *)
LEMMA NewWave ==
  ASSUME NEW i, NEW frame \in Seq(Byte), NEW new, new = NewRowWave(i, frame)
  PROVE  /\ IsWave(new) /\ new.free /\ new.refs = 1 /\ new.type # WAVE_TYPE
         /\ \/ new.type = TEXT_WAVE_TYPE /\ new.dims = <<1>>
            \/ new.type \in NumericTypes /\ Len(new.data) = Len(frame)
<1>1. ASSUME NEW type \in WaveTypes, NEW n \in Nat, type # WAVE_TYPE,
             new = [MakeFreeWave(type, n) EXCEPT !.refs = 1]
      PROVE  /\ IsWave(new) /\ new.free /\ new.refs = 1 /\ new.type = type
             /\ new.dims = RowDims(n) /\ DataFits(type, n, new.data)
  <2>1. /\ DOMAIN new = {"type", "dims", "data", "free", "locked", "refs", "info"}
        /\ new.type = type /\ new.dims = RowDims(n) /\ new.data = Fit(type, <<>>, n)
        /\ new.free = TRUE /\ new.refs = 1
    BY <1>1 DEF MakeFreeWave
  <2>2. DataFits(type, n, new.data)
    BY <2>1, NewDataFits
  <2>3. new.dims \in Seq(Nat \ {0}) /\ Len(new.dims) <= 4 /\ WavePoints(new) = n
    BY <2>1, PointsOfRows
  <2>4. IsWave(new)
    BY <1>1, <2>1, <2>2, <2>3 DEF IsWave
  <2>5. QED
    BY <2>1, <2>2, <2>4
<1>2. CASE i <= 2
  <2>1. new = [MakeFreeWave(TEXT_WAVE_TYPE, 1) EXCEPT !.refs = 1]
    BY <1>2 DEF NewRowWave
  <2>2. TEXT_WAVE_TYPE \in WaveTypes /\ TEXT_WAVE_TYPE # WAVE_TYPE
    BY DEF WaveTypes, TEXT_WAVE_TYPE, WAVE_TYPE
  <2>3. IsWave(new) /\ new.free /\ new.refs = 1 /\ new.type = TEXT_WAVE_TYPE /\ new.dims = RowDims(1)
    BY <1>1, <2>1, <2>2
  <2>4. RowDims(1) = <<1>>
    BY DEF RowDims
  <2>5. QED
    BY <2>2, <2>3, <2>4
<1>3. CASE ~(i <= 2)
  <2>1. new = [MakeFreeWave(Uint8, Len(frame)) EXCEPT !.refs = 1]
    BY <1>3 DEF NewRowWave
  <2>2. Uint8 \in NumericTypes
    <3>1. "NT_I8" \in BaseTypes \ Floats /\ {"NT_UNSIGNED"} \in SUBSET {"NT_UNSIGNED", "NT_CMPLX"}
      BY DEF BaseTypes, SizeOf, Floats
    <3>2. Uint8 = {"NT_I8"} \cup {"NT_UNSIGNED"}
      BY DEF Uint8
    <3>3. \E b \in BaseTypes \ Floats : \E flags \in SUBSET {"NT_UNSIGNED", "NT_CMPLX"} :
            Uint8 = {b} \cup flags
      BY <3>1, <3>2
    <3>4. Uint8 \in IntegerTypes
      BY <3>3 DEF IntegerTypes
    <3>5. QED
      BY <3>4 DEF NumericTypes
  <2>3. Uint8 \in WaveTypes /\ Uint8 # WAVE_TYPE /\ Len(frame) \in Nat
    BY <2>2, NumericOrNot DEF WaveTypes
  <2>4. /\ IsWave(new) /\ new.free /\ new.refs = 1 /\ new.type = Uint8
        /\ DataFits(Uint8, Len(frame), new.data)
    BY <1>1, <2>1, <2>3
  <2>5. PointSize(Uint8) = 1
    <3>1. BaseType(Uint8) \in BaseTypes /\ BaseType(Uint8) \in Uint8
      BY DEF BaseType, Uint8, BaseTypes, SizeOf
    <3>2. BaseType(Uint8) = "NT_I8" /\ "NT_CMPLX" \notin Uint8
      BY <3>1 DEF Uint8, BaseTypes, SizeOf
    <3>3. QED
      BY <3>2 DEF PointSize, SizeOf
  <2>6. Len(new.data) = Len(frame) * 1
    BY <2>2, <2>3, <2>4, <2>5, DataOfPoints
  <2>7. QED
    BY <2>2, <2>3, <2>4, <2>6
<1>4. QED
  BY <1>2, <1>3

\* heap g is h with wave w, made for the frame, in row i of container c
RowFilled(h, c, n, i, w, frame, g) ==
  /\ IsHeap(g) /\ HeldByRows(g)
  /\ DOMAIN g = DOMAIN h \cup {w} /\ g[w] = NewRowWave(i, frame)
  /\ c \in Containers(g) /\ g[c].dims = h[c].dims
  /\ g[c].data[i] = w /\ \A j \in 1..n \ {i} : g[c].data[j] = h[c].data[j]
  /\ \A v \in DOMAIN h \ {c} : g[v] = h[v]

(* Putting it into the row keeps the free waves counted.                    *)
LEMMA NullRowFilled ==
  ASSUME NEW h, IsHeap(h), HeldByRows(h), NEW c \in Containers(h),
         NEW n \in Nat, h[c].dims = RowDims(n), NEW i \in 1..n, h[c].data[i] = NullWave,
         NEW w \in WaveHandles \ DOMAIN h, NEW frame \in Seq(Byte),
         NEW made, made = [u \in DOMAIN h \cup {w} |-> IF u = w THEN NewRowWave(i, frame) ELSE h[u]],
         NEW g, g = SetWaveElement(made, c, <<i - 1>>, w)
  PROVE  RowFilled(h, c, n, i, w, frame, g)
<1>1. /\ c \in DOMAIN h /\ c # w /\ IsWave(h[c]) /\ h[c].type = WAVE_TYPE
      /\ ~h[c].free /\ h[c].refs \in Int
  BY DEF Containers, IsHeap, IsWave
<1>2. /\ made[c] = h[c] /\ DOMAIN made = DOMAIN h \cup {w} /\ made[w] = NewRowWave(i, frame)
      /\ \A v \in DOMAIN h : made[v] = h[v]
  BY <1>1
<1>3. GetWaveIndexInMemory(made[c], <<i - 1>>) + 1 = i
  <2>1. i - 1 \in 0..(n - 1) /\ made[c].dims = RowDims(n)
    BY <1>2
  <2>2. GetWaveIndexInMemory(made[c], <<i - 1>>) = i - 1
    BY <2>1, PointsOfRows
  <2>3. QED
    BY <2>2
<1>4. WavePoints(h[c]) = n /\ WAVE_TYPE \in WaveTypes
  BY PointsOfRows DEF WaveTypes
<1>5. h[c].data \in Seq(WaveHandles \cup {NullWave}) /\ Len(h[c].data) = n
  BY <1>1, <1>4, DataOfPoints DEF IsWave
<1>6. g = [made EXCEPT ![c].data[i] = w]
  <2> DEFINE at == GetWaveIndexInMemory(made[c], <<i - 1>>) + 1
  <2>1. at = i /\ made[c].data[i] = NullWave
    BY <1>2, <1>3
  <2> HIDE DEF at
  <2>2. g = LET old == made[c].data[at]
                set == [made EXCEPT ![c].data[at] = w]
            IN  IF old # NullWave /\ set[old].free THEN [set EXCEPT ![old].refs = @ - 1] ELSE set
    BY DEF SetWaveElement, at
  <2>3. QED
    BY <2>1, <2>2
<1>7. /\ DOMAIN g = DOMAIN h \cup {w} /\ g[w] = NewRowWave(i, frame)
      /\ \A v \in DOMAIN h \ {c} : g[v] = h[v]
  BY <1>1, <1>2, <1>6
<1>8. /\ DOMAIN g[c] = DOMAIN h[c] /\ g[c].type = WAVE_TYPE /\ g[c].free = h[c].free
      /\ g[c].refs = h[c].refs /\ g[c].dims = h[c].dims
      /\ g[c].data = [h[c].data EXCEPT ![i] = w]
  <2>1. DOMAIN made[c] = {"type", "dims", "data", "free", "locked", "refs", "info"}
    BY <1>1, <1>2 DEF IsWave
  <2>2. g[c] = [made[c] EXCEPT !.data[i] = w]
    BY <1>1, <1>2, <1>6
  <2>3. QED
    BY <1>1, <1>2, <2>1, <2>2
<1>9. /\ g[c].data \in Seq(WaveHandles \cup {NullWave}) /\ Len(g[c].data) = n /\ g[c].data[i] = w
      /\ \A j \in 1..n \ {i} : g[c].data[j] = h[c].data[j]
  <2> DEFINE S == WaveHandles \cup {NullWave}
  <2>1. h[c].data \in Seq(S) /\ Len(h[c].data) = n /\ w \in S
    BY <1>5
  <2> HIDE DEF S
  <2>2. g[c].data = [h[c].data EXCEPT ![i] = w]
    BY <1>8
  <2>3. DOMAIN h[c].data = 1..n /\ \A j \in 1..n : h[c].data[j] \in S
    BY <2>1
  <2>4. /\ DOMAIN g[c].data = 1..n /\ g[c].data[i] = w
        /\ \A j \in 1..n \ {i} : g[c].data[j] = h[c].data[j]
    BY <2>2, <2>3
  <2>5. g[c].data \in Seq(S) /\ Len(g[c].data) = n
    <3> DEFINE d == h[c].data
    <3>1. d \in Seq(S) /\ i \in 1..Len(d) /\ w \in S /\ g[c].data = [d EXCEPT ![i] = w] /\ Len(d) = n
      BY <2>1, <2>2
    <3> HIDE DEF d
    <3>2. [d EXCEPT ![i] = w] \in Seq(S) /\ Len([d EXCEPT ![i] = w]) = Len(d)
      BY <3>1, ExceptSeq
    <3>3. QED
      BY <3>1, <3>2
  <2>6. QED
    BY <2>4, <2>5 DEF S
<1>10. IsWave(g[c])
  <2>1. DataFits(g[c].type, n, g[c].data)
    <3>1. DataLength(WAVE_TYPE, n) = n /\ WAVE_TYPE \notin NumericTypes /\ WAVE_TYPE # TEXT_WAVE_TYPE
      BY <1>4, NumericOrNot, DataLengths DEF TEXT_WAVE_TYPE, WAVE_TYPE
    <3>2. DOMAIN g[c].data = 1..n
      BY <1>9
    <3>3. QED
      BY <1>8, <1>9, <3>1, <3>2 DEF DataFits
  <2>2. QED
    BY <1>1, <1>8, <2>1, RowsChanged
<1>11. /\ IsWave(g[w]) /\ g[w].free /\ g[w].refs = 1 /\ g[w].type # WAVE_TYPE
  BY <1>7, NewWave
<1>12. IsHeap(g)
  <2>1. IsFiniteSet(DOMAIN h) /\ DOMAIN h \subseteq WaveHandles
    BY DEF IsHeap
  <2>2. IsFiniteSet(DOMAIN g)
    BY <1>7, <2>1, FS_AddElement
  <2>3. \A v \in DOMAIN g : IsWave(g[v])
    BY <1>7, <1>10, <1>11 DEF IsHeap
  <2>4. QED
    BY <1>7, <2>1, <2>2, <2>3 DEF IsHeap
<1>13. Containers(g) = Containers(h) /\ c \in Containers(g)
  <2>1. \A x \in DOMAIN g : g[x].type = WAVE_TYPE <=> x \in DOMAIN h /\ h[x].type = WAVE_TYPE
    <3>1. w \notin DOMAIN h /\ g[w].type # WAVE_TYPE
      BY <1>11
    <3>2. \A x \in DOMAIN h : g[x].type = h[x].type
      BY <1>1, <1>7, <1>8
    <3>3. QED
      BY <1>7, <3>1, <3>2
  <2>2. Containers(g) = Containers(h)
    BY <1>7, <2>1 DEF Containers
  <2>3. QED
    BY <2>2
<1>14. \A x \in Containers(h) \ {c} : g[x].data = h[x].data
  BY <1>7 DEF Containers
<1>15. \A x \in Containers(h) : \A j \in DOMAIN h[x].data :
         h[x].data[j] \in DOMAIN h \cup {NullWave}
  BY DEF HeldByRows, Containers, Range
<1>16. DOMAIN g[c].data = DOMAIN h[c].data /\ DOMAIN h[c].data = 1..n
  BY <1>5, <1>9
<1>18. RowsOf(g, w) = {<<c, i>>}
  <2>1. <<c, i>> \in RowsOf(g, w)
    <3>1. i \in DOMAIN g[c].data
      BY <1>16
    <3>2. IsRow(g, w, <<c, i>>)
      BY <1>9, <1>13, <3>1 DEF IsRow
    <3>3. QED
      BY <3>2, InRows
  <2>2. ASSUME NEW r \in RowsOf(g, w) PROVE r = <<c, i>>
    <3>1. IsRow(g, w, r)
      BY InRows
    <3>2. PICK x \in Containers(h) : \E j \in DOMAIN g[x].data : g[x].data[j] = w /\ r = <<x, j>>
      BY <1>13, <3>1 DEF IsRow
    <3>3. PICK j \in DOMAIN g[x].data : g[x].data[j] = w /\ r = <<x, j>>
      BY <3>2
    <3>4. CASE x # c
      <4>1. j \in DOMAIN h[x].data /\ h[x].data[j] = w
        BY <1>14, <3>3, <3>4
      <4>2. w \in DOMAIN h \cup {NullWave}
        BY <1>15, <4>1
      <4>3. QED
        BY <4>2, WavesAssumption
    <3>5. CASE x = c /\ j # i
      <4>1. j \in DOMAIN h[c].data /\ h[c].data[j] = w
        BY <1>9, <1>16, <3>3, <3>5
      <4>2. w \in DOMAIN h \cup {NullWave}
        BY <1>15, <4>1
      <4>3. QED
        BY <4>2, WavesAssumption
    <3>6. QED
      BY <3>3, <3>4, <3>5
  <2>3. QED
    BY <2>1, <2>2
<1>19. ASSUME NEW v \in DOMAIN h PROVE RowsOf(g, v) = RowsOf(h, v)
  <2>1. v # w /\ v # NullWave
    BY WavesAssumption DEF IsHeap
  <2>2. ASSUME NEW x \in Containers(h)
        PROVE  /\ DOMAIN g[x].data = DOMAIN h[x].data
               /\ \A j \in DOMAIN h[x].data : g[x].data[j] = v <=> h[x].data[j] = v
    <3>1. CASE x # c
      BY <1>14, <3>1
    <3>2. CASE x = c
      BY <1>9, <1>16, <2>1, <3>2
    <3>3. QED
      BY <3>1, <3>2
  <2>3. ASSUME NEW r PROVE r \in RowsOf(g, v) <=> r \in RowsOf(h, v)
    <3>1. IsRow(g, v, r) => IsRow(h, v, r)
      <4>1. SUFFICES ASSUME IsRow(g, v, r) PROVE IsRow(h, v, r)
        OBVIOUS
      <4>2. PICK x \in Containers(h) : \E j \in DOMAIN g[x].data : g[x].data[j] = v /\ r = <<x, j>>
        BY <1>13, <4>1 DEF IsRow
      <4>3. PICK j \in DOMAIN g[x].data : g[x].data[j] = v /\ r = <<x, j>>
        BY <4>2
      <4>4. j \in DOMAIN h[x].data /\ h[x].data[j] = v
        BY <2>2, <4>3
      <4>5. x \in Containers(h)
        BY <1>13
      <4>6. QED
        BY <4>3, <4>4, <4>5 DEF IsRow
    <3>2. IsRow(h, v, r) => IsRow(g, v, r)
      <4>1. SUFFICES ASSUME IsRow(h, v, r) PROVE IsRow(g, v, r)
        OBVIOUS
      <4>2. PICK x \in Containers(h) : \E j \in DOMAIN h[x].data : h[x].data[j] = v /\ r = <<x, j>>
        BY <1>13, <4>1 DEF IsRow
      <4>3. PICK j \in DOMAIN h[x].data : h[x].data[j] = v /\ r = <<x, j>>
        BY <4>2
      <4>4. j \in DOMAIN g[x].data /\ g[x].data[j] = v
        BY <2>2, <4>3
      <4>5. x \in Containers(g)
        BY <1>13
      <4>6. QED
        BY <4>3, <4>4, <4>5 DEF IsRow
    <3>3. r \in RowsOf(g, v) <=> IsRow(g, v, r)
      BY InRows
    <3>4. r \in RowsOf(h, v) <=> IsRow(h, v, r)
      BY InRows
    <3>5. QED
      BY <3>1, <3>2, <3>3, <3>4
  <2>4. QED
    BY <2>3
<1>20. ASSUME NEW v \in DOMAIN g, g[v].free PROVE g[v].refs = Cardinality(RowsOf(g, v))
  <2>1. CASE v = w
    BY <1>11, <1>18, <2>1, FS_Singleton
  <2>2. CASE v # w
    <3>1. v \in DOMAIN h /\ v # c
      BY <1>1, <1>7, <1>8, <1>20, <2>2
    <3>2. h[v].free /\ g[v].refs = h[v].refs
      BY <1>7, <1>20, <3>1
    <3>3. QED
      BY <1>19, <3>1, <3>2 DEF HeldByRows
  <2>3. QED
    BY <2>1, <2>2
<1>21. ASSUME NEW v \in DOMAIN g, g[v].type = WAVE_TYPE
       PROVE  Range(g[v].data) \subseteq DOMAIN g \cup {NullWave}
  <2>1. v \in Containers(h)
    BY <1>13, <1>21 DEF Containers
  <2>2. ASSUME NEW j \in DOMAIN g[v].data PROVE g[v].data[j] \in DOMAIN g \cup {NullWave}
    <3>1. CASE v # c
      BY <1>7, <1>14, <1>15, <2>1, <3>1
    <3>2. CASE v = c /\ j # i
      BY <1>7, <1>9, <1>15, <1>16, <2>1, <3>2
    <3>3. CASE v = c /\ j = i
      BY <1>7, <1>9, <3>3
    <3>4. QED
      BY <3>1, <3>2, <3>3
  <2>3. QED
    BY <2>2 DEF Range
<1>22. HeldByRows(g)
  BY <1>20, <1>21 DEF HeldByRows
<1>23. QED
  BY <1>7, <1>8, <1>9, <1>12, <1>13, <1>22 DEF RowFilled
-----------------------------------------------------------------------------
(* The invariant *)

\* the conversion has begun, and its container with it
Begun == phase = "converting" \/ row > 0

TargetInv == Begun => target \in Containers(heap) /\ heap[target].dims = RowDims(Len(vec))

RowsInv ==
  phase # "undefined" =>
    \A i \in 1..row :
      /\ Rows[i] \in DOMAIN heap /\ heap[Rows[i]].type # WAVE_TYPE
      /\ Unshared(i, 1..row) => HoldsFrame(heap[Rows[i]], vec[i])

OthersInv ==
  phase # "undefined" /\ Begun =>
    \A w \in DOMAIN before \cap DOMAIN heap :
      w # target /\ (\A i \in 1..row : Rows[i] # w) =>
        [heap[w] EXCEPT !.refs = 0] = [before[w] EXCEPT !.refs = 0]

ReturnInv ==
  phase = "ready" /\ last.fn = "zeromq_sub_recv_multi" /\ last.code = "0" => row = Len(vec)

PayloadInv == TypeOK /\ RowsHoldWaves /\ TargetInv /\ RowsInv /\ OthersInv /\ ReturnInv

\* row + 1 is wave w now, which was given the frame; nothing else changed
Stored(w) ==
  /\ IsHeap(heap') /\ HeldByRows(heap') /\ DOMAIN heap \subseteq DOMAIN heap'
  /\ target \in Containers(heap') /\ heap'[target].dims = heap[target].dims
  /\ heap'[target].data[row + 1] = w
  /\ \A j \in 1..row : heap'[target].data[j] = heap[target].data[j]
  /\ w \in DOMAIN heap' /\ heap'[w].type # WAVE_TYPE
  /\ \A v \in DOMAIN heap' \ {w, target} : v \in DOMAIN heap /\ heap'[v] = heap[v]
  /\ row' = row + 1 /\ last' = last /\ phase' \in {"converting", "undefined"}
  /\ phase' # "undefined" => HoldsFrame(heap'[w], vec[row + 1])

(* The container has a row for every frame.                                 *)
LEMMA RowsOfTarget ==
  ASSUME TypeOK, RowsHoldWaves, TargetInv, Begun
  PROVE  /\ target \in Containers(heap) /\ target # NullWave /\ Len(vec) \in Nat
         /\ Rows = heap[target].data /\ Rows \in Seq(DOMAIN heap \cup {NullWave})
         /\ Len(Rows) = Len(vec)
         /\ \A i \in 0..(Len(vec) - 1) : GetWaveElement(heap[target], <<i>>) = Rows[i + 1]
<1>1. target \in Containers(heap) /\ heap[target].dims = RowDims(Len(vec)) /\ Len(vec) \in Nat
  BY DEF TargetInv, TypeOK
<1>2. target \in DOMAIN heap /\ heap[target].type = WAVE_TYPE /\ IsWave(heap[target])
  BY <1>1 DEF Containers, TypeOK, IsHeap
<1>3. target # NullWave
  BY <1>2, WavesAssumption DEF TypeOK, IsHeap
<1>4. Rows = heap[target].data
  BY <1>2, <1>3 DEF Rows
<1>5. WavePoints(heap[target]) = Len(vec)
  BY <1>1, PointsOfRows
<1>6. heap[target].data \in Seq(WaveHandles \cup {NullWave}) /\ Len(heap[target].data) = Len(vec)
  BY <1>1, <1>2, <1>5, DataOfPoints DEF IsWave
<1>7. Range(heap[target].data) \subseteq DOMAIN heap \cup {NullWave}
  BY <1>2 DEF RowsHoldWaves, HeldByRows
<1>8. Rows \in Seq(DOMAIN heap \cup {NullWave})
  <2>1. \A i \in 1..Len(Rows) : Rows[i] \in DOMAIN heap \cup {NullWave}
    BY <1>4, <1>6, <1>7 DEF Range
  <2>2. QED
    BY <1>4, <1>6, <2>1
<1>9. \A i \in 0..(Len(vec) - 1) : GetWaveElement(heap[target], <<i>>) = Rows[i + 1]
  <2>1. \A i \in 0..(Len(vec) - 1) : GetWaveIndexInMemory(heap[target], <<i>>) = i
    BY <1>1, PointsOfRows
  <2>2. QED
    BY <1>4, <2>1 DEF GetWaveElement
<1>10. QED
  BY <1>1, <1>3, <1>4, <1>6, <1>8, <1>9

(* A null row gets a new wave with the frame.                               *)
LEMMA NullRowStored ==
  ASSUME TypeOK, RowsHoldWaves, TargetInv, phase = "converting", row < Len(vec),
         Rows[row + 1] = NullWave, ConvertNullRow(row + 1, vec[row + 1]),
         ~ ConvertThrows("GENERAL_BAD_VIBS")
  PROVE  \E w : Stored(w)
<1> DEFINE i      == row + 1
           frame  == vec[i]
           unused == WaveHandles \ DOMAIN heap
           w      == CHOOSE u \in unused : TRUE
           made   == [u \in DOMAIN heap \cup {w} |-> IF u = w THEN NewRowWave(i, frame) ELSE heap[u]]
           g      == SetWaveElement(made, target, <<i - 1>>, w)
<1>1. IsHeap(heap) /\ HeldByRows(heap) /\ vec \in Seq(Seq(Byte)) /\ row \in Nat
  BY DEF TypeOK, RowsHoldWaves
<1>2. /\ target \in Containers(heap) /\ heap[target].dims = RowDims(Len(vec)) /\ Len(vec) \in Nat
      /\ heap[target].data = Rows /\ Len(Rows) = Len(vec)
  BY RowsOfTarget DEF TargetInv, Begun
<1>3. i \in 1..Len(vec) /\ frame \in Seq(Byte)
  BY <1>1, <1>2
<1>4. unused # {} /\ StoreFrame(g, w, frame)
  BY DEF ConvertNullRow
<1>5. w \in unused
  BY <1>4
<1> HIDE DEF i, frame, w, made, g
<1>6. made = [u \in DOMAIN heap \cup {w} |-> IF u = w THEN NewRowWave(i, frame) ELSE heap[u]]
  BY DEF made
<1>7. g = SetWaveElement(made, target, <<i - 1>>, w)
  BY DEF g
<1>8. heap[target].data[i] = NullWave
  BY <1>2 DEF i
<1>9. /\ IsHeap(g) /\ HeldByRows(g)
      /\ DOMAIN g = DOMAIN heap \cup {w} /\ g[w] = NewRowWave(i, frame)
      /\ target \in Containers(g) /\ g[target].dims = heap[target].dims
      /\ g[target].data[i] = w
      /\ \A j \in 1..Len(vec) \ {i} : g[target].data[j] = heap[target].data[j]
      /\ \A v \in DOMAIN heap \ {target} : g[v] = heap[v]
  <2>1. RowFilled(heap, target, Len(vec), i, w, frame, g)
    BY <1>1, <1>2, <1>3, <1>5, <1>6, <1>7, <1>8, NullRowFilled
  <2>2. QED
    BY <2>1 DEF RowFilled
<1>10. /\ g[w].type # WAVE_TYPE
       /\ \/ g[w].type = TEXT_WAVE_TYPE /\ g[w].dims = <<1>>
          \/ g[w].type \in NumericTypes /\ Len(g[w].data) = Len(frame)
  BY <1>3, <1>9, NewWave
<1>11. g[w].type \in NumericTypes => Len(g[w].data) <= Len(frame)
  BY <1>3, <1>10, NumericOrNot DEF WaveTypes
<1>12. /\ IsHeap(heap') /\ HeldByRows(heap') /\ ContentsOf(g, heap', w)
       /\ row' = row + 1 /\ last' = last /\ phase' \in {phase, "undefined"}
       /\ phase' # "undefined" => HoldsFrame(heap'[w], frame)
  BY <1>3, <1>4, <1>9, <1>10, <1>11, FrameStored
<1>13. target # w /\ target \in DOMAIN heap
  BY <1>2, <1>5 DEF Containers
<1>14. /\ DOMAIN heap' = DOMAIN heap \cup {w} /\ heap'[w].type # WAVE_TYPE /\ heap'[target] = g[target]
       /\ \A v \in DOMAIN heap \ {target} : heap'[v] = heap[v]
  BY <1>5, <1>9, <1>10, <1>12, <1>13 DEF ContentsOf
<1>15. target \in Containers(heap')
  BY <1>9, <1>13, <1>14 DEF Containers
<1>16. \A j \in 1..row : heap'[target].data[j] = heap[target].data[j]
  <2>1. \A j \in 1..row : j \in 1..Len(vec) \ {i}
    BY <1>1, <1>3 DEF i
  <2>2. QED
    BY <1>9, <1>14, <2>1
<1>17. Stored(w)
  BY <1>9, <1>12, <1>14, <1>15, <1>16 DEF Stored, i, frame
<1>18. QED
  BY <1>17

(* A row's wave is resized to the frame and gets it.                        *)
LEMMA WaveRowStored ==
  ASSUME TypeOK, RowsHoldWaves, TargetInv, phase = "converting", row < Len(vec),
         NEW w, w = Rows[row + 1], w # NullWave, ConvertWaveRow(row + 1, w, vec[row + 1]),
         \A code \in {"ERR_INVALID_TYPE", "INTERNAL_ERROR"} : ~ ConvertThrows(code),
         ~ (phase' = "undefined" /\ UNCHANGED <<heap, row, last>>)
  PROVE  Stored(w)
<1> DEFINE i     == row + 1
           frame == vec[i]
           type  == heap[w].type
           n     == RowPoints(type, frame)
           g     == RedimensionWave(heap, w, n)
<1>1. IsHeap(heap) /\ HeldByRows(heap) /\ vec \in Seq(Seq(Byte)) /\ row \in Nat
  BY DEF TypeOK, RowsHoldWaves
<1>2. /\ target \in Containers(heap) /\ heap[target].dims = RowDims(Len(vec)) /\ Len(vec) \in Nat
      /\ heap[target].data = Rows /\ Len(Rows) = Len(vec) /\ Rows \in Seq(DOMAIN heap \cup {NullWave})
  BY RowsOfTarget DEF TargetInv, Begun
<1>3. i \in 1..Len(vec) /\ frame \in Seq(Byte)
  BY <1>1, <1>2
<1>4. w \in DOMAIN heap
  BY <1>2, <1>3
<1>5. /\ type # WAVE_TYPE /\ type # DATAFOLDER_TYPE
      /\ type = TEXT_WAVE_TYPE \/ GetWaveElementSize(type) > 0
      /\ StoreFrame(g, w, frame)
  BY DEF ConvertWaveRow
<1>6. IsWave(heap[w]) /\ type \in WaveTypes
  BY <1>1, <1>4 DEF IsHeap, IsWave
<1>7. type = TEXT_WAVE_TYPE \/ type \in NumericTypes
  BY <1>5, <1>6 DEF WaveTypes
<1>8. type \in NumericTypes =>
        /\ PointSize(type) \in Nat \ {0} /\ GetWaveElementSize(type) = PointSize(type)
        /\ type # TEXT_WAVE_TYPE
  <2>1. ASSUME type \in NumericTypes
        PROVE  PointSize(type) \in Nat \ {0} /\ GetWaveElementSize(type) \in {0, PointSize(type)}
    BY <2>1, ElementSize
  <2>2. type \in NumericTypes => type # TEXT_WAVE_TYPE
    BY <1>6, NumericOrNot
  <2>3. QED
    BY <1>5, <2>1, <2>2
<1>9. n \in Nat /\ (type = TEXT_WAVE_TYPE => n = 1)
      /\ (type \in NumericTypes => n * PointSize(type) <= Len(frame))
  <2>1. CASE type = TEXT_WAVE_TYPE
    BY <1>8, <2>1 DEF RowPoints
  <2>2. CASE type \in NumericTypes
    <3> DEFINE p == PointSize(type)
               l == Len(frame)
    <3>1. n = l \div p
      BY <1>8, <2>2 DEF RowPoints
    <3>2. p \in Nat \ {0} /\ l \in Nat
      BY <1>3, <1>8, <2>2
    <3> HIDE DEF n, p, l
    <3>3. n \in Nat /\ n * p <= l
      BY <3>1, <3>2
    <3>4. QED
      BY <1>8, <2>2, <3>3 DEF p, l
  <2>3. QED
    BY <1>7, <2>1, <2>2
<1> HIDE DEF i, frame, type, n, g
<1>10. /\ ContentsOf(heap, g, w) /\ IsWave(g[w])
       /\ g[w].dims = RowDims(n) /\ g[w].data = Fit(type, heap[w].data, n)
  BY <1>1, <1>4, <1>5, <1>9, Resized DEF g, type
<1>11. g[w].type = type /\ w \in DOMAIN g
  BY <1>4, <1>10 DEF ContentsOf, type
<1>12. IsHeap(g) /\ HeldByRows(g)
  BY <1>1, <1>4, <1>5, <1>10, ContentsChanged DEF type
<1>13. type = TEXT_WAVE_TYPE => g[w].dims = <<1>>
  BY <1>9, <1>10 DEF RowDims
<1>14. type \in NumericTypes => Len(g[w].data) <= Len(frame)
  <2>1. WavePoints(g[w]) = n
    BY <1>9, <1>10, PointsOfRows
  <2>2. DataFits(type, n, g[w].data)
    BY <1>10, <1>11, <2>1 DEF IsWave
  <2>3. type \in NumericTypes => Len(g[w].data) = n * PointSize(type)
    BY <1>6, <1>9, <2>2, DataOfPoints
  <2>4. QED
    BY <1>9, <2>3
<1>15. /\ IsHeap(heap') /\ HeldByRows(heap') /\ ContentsOf(g, heap', w)
       /\ row' = row + 1 /\ last' = last /\ phase' \in {phase, "undefined"}
       /\ phase' # "undefined" => HoldsFrame(heap'[w], frame)
  BY <1>3, <1>5, <1>7, <1>11, <1>12, <1>13, <1>14, FrameStored
<1>16. target # w /\ target \in DOMAIN heap
  BY <1>2, <1>5 DEF Containers, type
<1>17. /\ DOMAIN heap' = DOMAIN heap /\ heap'[w].type # WAVE_TYPE
       /\ \A v \in DOMAIN heap \ {w} : heap'[v] = heap[v]
  BY <1>5, <1>10, <1>11, <1>15 DEF ContentsOf
<1>18. target \in Containers(heap') /\ heap'[target] = heap[target]
  BY <1>2, <1>16, <1>17 DEF Containers
<1>19. QED
  BY <1>2, <1>4, <1>15, <1>17, <1>18 DEF Stored, i, frame
-----------------------------------------------------------------------------
(* Receiving keeps the invariant *)

(* Storing a frame keeps it: what a row that shares its wave with a later   *)
(* one holds is not claimed any more.                                       *)
LEMMA StoredInv ==
  ASSUME PayloadInv, phase = "converting", row < Len(vec), NEW w, Stored(w),
         UNCHANGED <<inbox, queued, target, vec, calls, before>>
  PROVE  PayloadInv'
<1>1. /\ TypeOK /\ RowsHoldWaves /\ TargetInv /\ Begun
      /\ row \in Nat /\ Len(vec) \in Nat /\ row + 1 \in 1..Len(vec)
  BY DEF PayloadInv, Begun, TypeOK
<1>2. /\ target \in Containers(heap) /\ target # NullWave /\ Rows = heap[target].data
      /\ heap[target].dims = RowDims(Len(vec))
  BY <1>1, RowsOfTarget DEF TargetInv
<1>3. row' = row + 1 /\ last' = last /\ target' = target /\ vec' = vec /\ before' = before
  BY DEF Stored
<1>4. target \in Containers(heap') /\ heap'[target].dims = RowDims(Len(vec))
  BY <1>2 DEF Stored
<1>5. Rows' = heap'[target].data
  BY <1>2, <1>3, <1>4 DEF Rows, Containers
<1>6. Rows'[row + 1] = w /\ \A j \in 1..row : Rows'[j] = Rows[j]
  BY <1>2, <1>5 DEF Stored
<1>7. TypeOK'
  <2>1. row' \in 0..Len(vec') /\ phase' \in {"ready", "converting", "undefined"}
    BY <1>1, <1>3 DEF Stored
  <2>2. IsHeap(heap')
    BY DEF Stored
  <2>3. QED
    BY <1>1, <2>1, <2>2 DEF TypeOK
<1>8. RowsHoldWaves'
  BY DEF Stored, RowsHoldWaves
<1>9. TargetInv'
  BY <1>3, <1>4 DEF TargetInv
<1>10. ASSUME NEW i \in 1..row
       PROVE  /\ Rows'[i] \in DOMAIN heap' /\ heap'[Rows'[i]].type # WAVE_TYPE
              /\ (\A j \in 1..(row + 1) \ {i} : Rows'[j] # Rows'[i]) =>
                   HoldsFrame(heap'[Rows'[i]], vec[i])
  <2> DEFINE v == Rows[i]
  <2>1. /\ v \in DOMAIN heap /\ heap[v].type # WAVE_TYPE
        /\ Unshared(i, 1..row) => HoldsFrame(heap[v], vec[i])
    BY DEF PayloadInv, RowsInv
  <2>2. Rows'[i] = v
    BY <1>6
  <2>3. v \in DOMAIN heap' /\ v # target
    BY <1>2, <2>1 DEF Stored, Containers
  <2> HIDE DEF v
  <2>4. CASE v = w
    <3>1. row + 1 \in 1..(row + 1) \ {i} /\ Rows'[row + 1] = Rows'[i]
      BY <1>1, <1>6, <2>2, <2>4
    <3>2. heap'[v].type # WAVE_TYPE
      BY <2>4 DEF Stored
    <3>3. QED
      BY <2>2, <2>3, <3>1, <3>2
  <2>5. CASE v # w
    <3>1. heap'[v] = heap[v]
      BY <2>3, <2>5 DEF Stored
    <3>2. (\A j \in 1..(row + 1) \ {i} : Rows'[j] # Rows'[i]) => Unshared(i, 1..row)
      <4>1. SUFFICES ASSUME \A j \in 1..(row + 1) \ {i} : Rows'[j] # Rows'[i], NEW j \in 1..row \ {i}
                     PROVE  Rows[j] # Rows[i]
        BY DEF Unshared
      <4>2. j \in 1..(row + 1) \ {i} /\ Rows'[j] = Rows[j] /\ Rows'[i] = Rows[i]
        BY <1>1, <1>6
      <4>3. QED
        BY <4>1, <4>2
    <3>3. QED
      BY <2>1, <2>2, <2>3, <3>1, <3>2
  <2>6. QED
    BY <2>4, <2>5
<1>11. RowsInv'
  <2>1. ASSUME phase' # "undefined", NEW i \in 1..row'
        PROVE  /\ Rows'[i] \in DOMAIN heap' /\ heap'[Rows'[i]].type # WAVE_TYPE
               /\ Unshared(i, 1..row)' => HoldsFrame(heap'[Rows'[i]], vec'[i])
    <3>1. CASE i = row + 1
      BY <1>3, <1>6, <2>1, <3>1 DEF Stored
    <3>2. CASE i # row + 1
      <4>1. i \in 1..row
        BY <1>1, <1>3, <3>2
      <4>2. Unshared(i, 1..row)' => \A j \in 1..(row + 1) \ {i} : Rows'[j] # Rows'[i]
        BY <1>3 DEF Unshared
      <4>3. QED
        BY <1>3, <1>10, <4>1, <4>2
    <3>3. QED
      BY <3>1, <3>2
  <2>2. QED
    BY <2>1 DEF RowsInv
<1>12. OthersInv'
  <2>1. ASSUME NEW v \in DOMAIN before \cap DOMAIN heap', v # target, \A i \in 1..row' : Rows'[i] # v
        PROVE  [heap'[v] EXCEPT !.refs = 0] = [before[v] EXCEPT !.refs = 0]
    <3>1. row + 1 \in 1..row' /\ \A i \in 1..row : i \in 1..row'
      BY <1>1, <1>3
    <3>2. v # w /\ \A i \in 1..row : Rows[i] # v
      BY <1>6, <2>1, <3>1
    <3>3. v \in DOMAIN heap /\ heap'[v] = heap[v]
      BY <2>1, <3>2 DEF Stored
    <3>4. [heap[v] EXCEPT !.refs = 0] = [before[v] EXCEPT !.refs = 0]
      BY <1>1, <2>1, <3>2, <3>3 DEF PayloadInv, OthersInv
    <3>5. QED
      BY <3>3, <3>4
  <2>2. QED
    BY <1>3, <2>1 DEF OthersInv
<1>13. ReturnInv'
  BY DEF Stored, ReturnInv
<1>14. QED
  BY <1>7, <1>8, <1>9, <1>11, <1>12, <1>13 DEF PayloadInv

(* So does an exception.                                                    *)
LEMMA ThrownInv ==
  ASSUME PayloadInv, phase = "converting", NEW code, code # "0", ConvertThrows(code),
         UNCHANGED <<inbox, queued, target, vec, calls, before>>
  PROVE  PayloadInv'
<1>1. /\ phase' = "ready" /\ heap' = heap /\ row' = row /\ last'.code # "0"
      /\ inbox' = inbox /\ queued' = queued
      /\ target' = target /\ vec' = vec /\ calls' = calls /\ before' = before
  BY DEF ConvertThrows, Return
<1>2. Rows' = Rows
  BY <1>1 DEF Rows
<1>3. TypeOK' /\ RowsHoldWaves' /\ ReturnInv'
  BY <1>1 DEF PayloadInv, TypeOK, RowsHoldWaves, ReturnInv
<1>4. TargetInv'
  BY <1>1 DEF PayloadInv, TargetInv, Begun
<1>5. RowsInv'
  BY <1>1, <1>2 DEF PayloadInv, RowsInv, Unshared
<1>6. OthersInv'
  BY <1>1, <1>2 DEF PayloadInv, OthersInv, Begun
<1>7. QED
  BY <1>3, <1>4, <1>5, <1>6 DEF PayloadInv

(* A turn of the loop of ConvertSubData keeps the invariant.                *)
LEMMA ConvertRowInv ==
  ASSUME PayloadInv, ConvertRow
  PROVE  PayloadInv'
<1>1. /\ phase = "converting" /\ row < Len(vec) /\ UNCHANGED <<inbox, queued, target, vec, calls, before>>
      /\ TypeOK /\ RowsHoldWaves /\ TargetInv /\ Begun
  BY DEF ConvertRow, PayloadInv, Begun
<1> DEFINE w == GetWaveElement(heap[target], <<row>>)
<1>2. w = Rows[row + 1]
  <2>1. row \in 0..(Len(vec) - 1)
    <3>1. row \in Nat /\ Len(vec) \in Nat
      BY <1>1 DEF TypeOK
    <3>2. QED
      BY <1>1, <3>1
  <2>2. QED
    BY <1>1, <2>1, RowsOfTarget
<1>3. \/ w = NullWave /\ ConvertNullRow(row + 1, vec[row + 1])
      \/ w # NullWave /\ ConvertWaveRow(row + 1, w, vec[row + 1])
  BY DEF ConvertRow
<1> HIDE DEF w
<1>4. CASE \E code \in {"GENERAL_BAD_VIBS", "ERR_INVALID_TYPE", "INTERNAL_ERROR"} : ConvertThrows(code)
  BY <1>1, <1>4, ThrownInv
<1>5. CASE phase' = "undefined" /\ UNCHANGED <<heap, row, last>>
  <2>1. /\ heap' = heap /\ row' = row /\ phase' = "undefined"
        /\ inbox' = inbox /\ queued' = queued /\ target' = target /\ vec' = vec /\ calls' = calls
    BY <1>1, <1>5
  <2>2. TypeOK' /\ RowsHoldWaves' /\ ReturnInv' /\ RowsInv' /\ OthersInv'
    BY <1>1, <2>1 DEF TypeOK, RowsHoldWaves, ReturnInv, RowsInv, OthersInv
  <2>3. TargetInv'
    BY <1>1, <2>1 DEF TargetInv, Begun
  <2>4. QED
    BY <2>2, <2>3 DEF PayloadInv
<1>6. CASE /\ \A code \in {"GENERAL_BAD_VIBS", "ERR_INVALID_TYPE", "INTERNAL_ERROR"} : ~ ConvertThrows(code)
           /\ ~ (phase' = "undefined" /\ UNCHANGED <<heap, row, last>>)
  <2>1. CASE w = NullWave
    <3>1. \E v : Stored(v)
      BY <1>1, <1>2, <1>3, <1>6, <2>1, NullRowStored
    <3>2. QED
      BY <1>1, <3>1, StoredInv
  <2>2. CASE w # NullWave
    <3>1. Stored(w)
      BY <1>1, <1>2, <1>3, <1>6, <2>2, WaveRowStored
    <3>2. QED
      BY <1>1, <3>1, StoredInv
  <2>3. QED
    BY <2>1, <2>2
<1>7. QED
  BY <1>4, <1>5, <1>6

(* zeromq_sub_recv_multi empties a new container, which has no rows with    *)
(* frames yet.                                                              *)
LEMMA ReceiveMultiInv ==
  ASSUME PayloadInv, NEW c \in Arguments, zeromq_sub_recv_multi(c)
  PROVE  PayloadInv'
<1> DEFINE msg == Head(inbox)
           n   == Len(msg)
<1>1. /\ phase = "ready" /\ calls' \in 0..MaxCalls /\ inbox # <<>>
      /\ inbox' = Tail(inbox) /\ queued' = queued /\ target' = c /\ vec' = msg
      /\ row' = 0 /\ before' = heap
  BY PayloadAssumption DEF zeromq_sub_recv_multi, Call, PayloadInv, TypeOK
<1>2. /\ IsHeap(heap) /\ HeldByRows(heap) /\ inbox \in Seq(Seq(Seq(Byte)))
      /\ queued \in Seq(Seq(Byte))
  BY DEF PayloadInv, TypeOK, RowsHoldWaves
<1>3. inbox' \in Seq(Seq(Seq(Byte))) /\ msg \in Seq(Seq(Byte)) /\ n \in Nat
  BY <1>1, <1>2
<1>4. target' \in WaveHandles \cup {NullWave}
  BY <1>1, <1>2 DEF Arguments, IsHeap
<1>5. row' \in 0..Len(vec')
  BY <1>1, <1>3
<1>6. CASE /\ heap' = heap /\ phase' = phase /\ last'.code # "0"
  <2>1. TypeOK' /\ RowsHoldWaves'
    BY <1>1, <1>2, <1>3, <1>4, <1>5, <1>6 DEF TypeOK, RowsHoldWaves
  <2>2. TargetInv' /\ OthersInv'
    BY <1>1, <1>6 DEF TargetInv, OthersInv, Begun
  <2>3. RowsInv' /\ ReturnInv'
    BY <1>1, <1>6 DEF RowsInv, ReturnInv
  <2>4. QED
    BY <2>1, <2>2, <2>3 DEF PayloadInv
<1>7. CASE /\ c \in Containers(heap) /\ heap' = RedimensionWave(heap, c, n) /\ phase' = "converting"
  <2>1. IsHeap(heap') /\ HeldByRows(heap')
    BY <1>2, <1>3, <1>7, ContainerResized
  <2>2. CutTo(heap, c, n, heap')
    BY <1>2, <1>3, <1>7, ContainerFields
  <2>3. TypeOK' /\ RowsHoldWaves'
    BY <1>1, <1>2, <1>3, <1>4, <1>5, <1>7, <2>1 DEF TypeOK, RowsHoldWaves
  <2>4. TargetInv'
    BY <1>1, <2>2 DEF TargetInv, CutTo, Containers
  <2>5. OthersInv'
    BY <1>1, <2>2 DEF OthersInv, CutTo
  <2>6. RowsInv' /\ ReturnInv'
    BY <1>1, <1>7 DEF RowsInv, ReturnInv
  <2>7. QED
    BY <2>3, <2>4, <2>5, <2>6 DEF PayloadInv
<1>8. \/ /\ heap' = heap /\ phase' = phase /\ last'.code # "0"
      \/ /\ c \in Containers(heap) /\ heap' = RedimensionWave(heap, c, n) /\ phase' = "converting"
  <2>1. CASE c = NullWave
    BY <2>1 DEF zeromq_sub_recv_multi, Return
  <2>2. CASE c # NullWave /\ heap[c].type # WAVE_TYPE
    BY <2>2 DEF zeromq_sub_recv_multi, Return
  <2>3. CASE c # NullWave /\ heap[c].type = WAVE_TYPE /\ ~CanRedimension(heap, c)
    BY <2>3 DEF zeromq_sub_recv_multi, Return
  <2>4. CASE c # NullWave /\ heap[c].type = WAVE_TYPE /\ CanRedimension(heap, c)
    <3>1. c \in Containers(heap)
      BY <2>4 DEF Arguments, Containers
    <3>2. QED
      BY <2>4, <3>1 DEF zeromq_sub_recv_multi
  <2>5. QED
    BY <2>1, <2>2, <2>3, <2>4
<1>9. QED
  BY <1>6, <1>7, <1>8

(* It keeps the invariant to return.                                        *)
LEMMA ConvertDoneInv ==
  ASSUME PayloadInv, ConvertDone
  PROVE  PayloadInv'
<1>1. /\ phase = "converting" /\ phase' = "ready" /\ heap' = heap /\ row' = row /\ row = Len(vec)
      /\ inbox' = inbox /\ queued' = queued
      /\ target' = target /\ vec' = vec /\ calls' = calls /\ before' = before
  BY DEF ConvertDone
<1>2. Rows' = Rows
  BY <1>1 DEF Rows
<1>3. TypeOK' /\ RowsHoldWaves' /\ ReturnInv'
  BY <1>1 DEF PayloadInv, TypeOK, RowsHoldWaves, ReturnInv
<1>4. TargetInv'
  BY <1>1 DEF PayloadInv, TargetInv, Begun
<1>5. RowsInv'
  BY <1>1, <1>2 DEF PayloadInv, RowsInv, Unshared
<1>6. OthersInv'
  BY <1>1, <1>2 DEF PayloadInv, OthersInv, Begun
<1>7. QED
  BY <1>3, <1>4, <1>5, <1>6 DEF PayloadInv

(* Whatever leaves the waves and the conversion alone keeps it.             *)
LEMMA SentInv ==
  ASSUME PayloadInv, heap' = heap, UNCHANGED converting,
         inbox' \in Seq(Seq(Seq(Byte))), queued' \in Seq(Seq(Byte)), calls' \in 0..MaxCalls,
         last' = last \/ last'.fn # "zeromq_sub_recv_multi"
  PROVE  PayloadInv'
<1>1. phase' = phase /\ target' = target /\ vec' = vec /\ row' = row /\ before' = before
  BY DEF converting
<1>2. Rows' = Rows
  BY <1>1 DEF Rows
<1>3. TypeOK' /\ RowsHoldWaves'
  BY <1>1 DEF PayloadInv, TypeOK, RowsHoldWaves
<1>4. ReturnInv'
  BY <1>1 DEF PayloadInv, ReturnInv
<1>5. TargetInv'
  BY <1>1 DEF PayloadInv, TargetInv, Begun
<1>6. RowsInv'
  BY <1>1, <1>2 DEF PayloadInv, RowsInv, Unshared
<1>7. OthersInv'
  BY <1>1, <1>2 DEF PayloadInv, OthersInv, Begun
<1>8. QED
  BY <1>3, <1>4, <1>5, <1>6, <1>7 DEF PayloadInv
-----------------------------------------------------------------------------
(* Sending keeps the invariant *)

(* A call is one of a bounded number.                                       *)
LEMMA CallCounts ==
  ASSUME PayloadInv, Call
  PROVE  phase = "ready" /\ calls' \in 0..MaxCalls
BY PayloadAssumption DEF Call, PayloadInv, TypeOK

(* The beginning of a message is a sequence of frames.                     *)
LEMMA FramesGiven ==
  ASSUME NEW msg \in Seq(Seq(Byte)), NEW k \in 0..Len(msg)
  PROVE  /\ SubSeq(msg, 1, k) \in Seq(Seq(Byte)) /\ Len(SubSeq(msg, 1, k)) = k
         /\ \A i \in 1..k : SubSeq(msg, 1, k)[i] = msg[i]
<1> DEFINE T == Seq(Byte)
<1>1. msg \in Seq(T)
  OBVIOUS
<1> HIDE DEF T
<1>2. /\ SubSeq(msg, 1, k) \in Seq(T) /\ Len(SubSeq(msg, 1, k)) = k
      /\ \A i \in 1..k : SubSeq(msg, 1, k)[i] = msg[i]
  BY <1>1, FrontOf
<1>3. QED
  BY <1>2 DEF T

(* What is published gets into the inbox, or stays with the publisher.      *)
LEMMA PublishedTyped ==
  ASSUME PayloadInv, NEW fn, NEW args, NEW msg \in Seq(Seq(Byte)), Publish(fn, args, msg)
  PROVE  inbox' \in Seq(Seq(Seq(Byte))) /\ queued' \in Seq(Seq(Byte)) /\ last'.fn = fn
<1> DEFINE M == Seq(Byte)
<1>1. inbox \in Seq(Seq(M)) /\ queued \in Seq(M) /\ msg \in Seq(M)
  BY DEF PayloadInv, TypeOK
<1>2. ASSUME NEW k \in 0..Len(msg), SendFrames(fn, args, msg, k, "0"),
             inbox'  = IF k = Len(msg) THEN Append(inbox, queued \o msg) ELSE inbox,
             queued' = IF k = Len(msg) THEN <<>> ELSE queued \o SubSeq(msg, 1, k)
      PROVE  inbox' \in Seq(Seq(M)) /\ queued' \in Seq(M) /\ last'.fn = fn
  <2>1. SubSeq(msg, 1, k) \in Seq(M)
    BY FramesGiven
  <2>2. last'.fn = fn
    BY <1>2 DEF SendFrames, Return
  <2> HIDE DEF M
  <2>3. queued \o msg \in Seq(M) /\ queued \o SubSeq(msg, 1, k) \in Seq(M)
    BY <1>1, <2>1
  <2>4. Append(inbox, queued \o msg) \in Seq(Seq(M))
    <3> DEFINE N == Seq(M)
    <3>1. inbox \in Seq(N) /\ queued \o msg \in N
      BY <1>1, <2>3
    <3> HIDE DEF N
    <3>2. Append(inbox, queued \o msg) \in Seq(N)
      BY <3>1
    <3>3. QED
      BY <3>2 DEF N
  <2>5. QED
    BY <1>1, <1>2, <2>2, <2>3, <2>4
<1>3. CASE Return(fn, args, "INTERNAL_ERROR", <<>>) /\ UNCHANGED <<inbox, queued>>
  BY <1>1, <1>3 DEF Return
<1>4. QED
  BY <1>2, <1>3 DEF Publish

(* A string is a text.                                                      *)
LEMMA StringTyped ==
  ASSUME NEW h \in Texts \cup {NullWave}
  PROVE  GetStringFromHandle(h) \in Seq(Byte)
BY PayloadAssumption DEF GetStringFromHandle

(* Sending the rows of a container keeps the invariant.                     *)
LEMMA PubSendMultiInv ==
  ASSUME PayloadInv, NEW c \in Arguments, zeromq_pub_send_multi(c)
  PROVE  PayloadInv'
<1>1. calls' \in 0..MaxCalls /\ heap' = heap /\ UNCHANGED converting
  BY CallCounts DEF zeromq_pub_send_multi
<1>2. CASE /\ Return("zeromq_pub_send_multi", <<c>>, ContainerError(heap, c), <<>>)
           /\ UNCHANGED <<inbox, queued>>
  <2>1. inbox' \in Seq(Seq(Seq(Byte))) /\ queued' \in Seq(Seq(Byte))
    BY <1>2 DEF PayloadInv, TypeOK
  <2>2. last'.fn # "zeromq_sub_recv_multi"
    BY <1>2 DEF Return
  <2>3. QED
    BY <1>1, <2>1, <2>2, SentInv
<1>3. CASE /\ ContainerError(heap, c) = "0"
           /\ Publish("zeromq_pub_send_multi", <<c>>, GatherPubData(heap, c))
  <2>1. IsHeap(heap) /\ HeldByRows(heap) /\ c \in DOMAIN heap \cup {NullWave}
    BY DEF PayloadInv, TypeOK, RowsHoldWaves, Arguments
  <2>2. GatherPubData(heap, c) \in Seq(Seq(Byte))
    BY <1>3, <2>1, MessageOfRows
  <2>3. /\ inbox' \in Seq(Seq(Seq(Byte))) /\ queued' \in Seq(Seq(Byte))
        /\ last'.fn = "zeromq_pub_send_multi"
    BY <1>3, <2>2, PublishedTyped
  <2>4. QED
    BY <1>1, <2>3, SentInv
<1>4. QED
  BY <1>2, <1>3 DEF zeromq_pub_send_multi

(* Every other call that sends does, too.                                   *)
LEMMA SendInv ==
  ASSUME PayloadInv, NEW t \in Texts \cup {NullWave}, NEW u \in Texts \cup {NullWave},
         zeromq_pub_send(t, u) \/ zeromq_server_send(t, u) \/ zeromq_client_send(t)
  PROVE  PayloadInv'
<1>1. inbox \in Seq(Seq(Seq(Byte))) /\ queued \in Seq(Seq(Byte))
  BY DEF PayloadInv, TypeOK
<1>2. CASE zeromq_pub_send(t, u)
  <2> DEFINE frames == <<GetStringFromHandle(t), GetStringFromHandle(u)>>
  <2>1. /\ calls' \in 0..MaxCalls /\ heap' = heap /\ UNCHANGED converting
        /\ Publish("zeromq_pub_send", frames, frames)
    BY <1>2, CallCounts DEF zeromq_pub_send
  <2>2. frames \in Seq(Seq(Byte))
    BY StringTyped
  <2> HIDE DEF frames
  <2>3. /\ inbox' \in Seq(Seq(Seq(Byte))) /\ queued' \in Seq(Seq(Byte))
        /\ last'.fn = "zeromq_pub_send"
    BY <2>1, <2>2, PublishedTyped
  <2>4. QED
    BY <2>1, <2>3, SentInv
<1>3. CASE zeromq_server_send(t, u) \/ zeromq_client_send(t)
  <2>1. /\ calls' \in 0..MaxCalls /\ heap' = heap /\ inbox' = inbox /\ queued' = queued
        /\ UNCHANGED converting /\ last'.fn # "zeromq_sub_recv_multi"
    BY <1>3, CallCounts
    DEF zeromq_server_send, zeromq_client_send, SendPayload, SendFrames, Return
  <2>2. QED
    BY <1>1, <2>1, SentInv
<1>4. QED
  BY <1>2, <1>3

(* Another publisher's message does, too.                                   *)
LEMMA ArriveInv ==
  ASSUME PayloadInv, NEW m \in Foreign, Arrive(m)
  PROVE  PayloadInv'
<1>1. /\ inbox' = <<m>> /\ queued' = queued /\ heap' = heap /\ UNCHANGED converting
      /\ last' = last /\ calls' = calls
  BY DEF Arrive
<1>2. m \in Seq(Seq(Byte))
  BY PayloadAssumption
<1>3. inbox' \in Seq(Seq(Seq(Byte))) /\ queued' \in Seq(Seq(Byte)) /\ calls' \in 0..MaxCalls
  BY <1>1, <1>2 DEF PayloadInv, TypeOK
<1>4. QED
  BY <1>1, <1>3, SentInv

(* PayloadInv is an invariant.                                              *)
LEMMA PayloadInvariant == Spec => []PayloadInv
<1>1. Init => PayloadInv
  <2>1. SUFFICES ASSUME Init PROVE PayloadInv
    OBVIOUS
  <2>2. /\ heap \in Heaps /\ inbox = <<>> /\ queued = <<>> /\ phase = "ready" /\ target = NullWave /\ vec = <<>>
        /\ row = 0 /\ calls = 0 /\ last = [fn |-> "none", args |-> <<>>, code |-> "0", out |-> <<>>]
    BY <2>1 DEF Init
  <2>3. TypeOK /\ RowsHoldWaves
    BY <2>2, PayloadAssumption DEF TypeOK, RowsHoldWaves
  <2>4. TargetInv /\ OthersInv /\ RowsInv /\ ReturnInv
    BY <2>2 DEF TargetInv, OthersInv, RowsInv, ReturnInv, Begun
  <2>5. QED
    BY <2>3, <2>4 DEF PayloadInv
<1>2. PayloadInv /\ [Next]_vars => PayloadInv'
  <2>1. SUFFICES ASSUME PayloadInv, [Next]_vars PROVE PayloadInv'
    OBVIOUS
  <2>2. ASSUME NEW c \in Arguments, zeromq_pub_send_multi(c) \/ zeromq_sub_recv_multi(c)
        PROVE  PayloadInv'
    BY <2>1, <2>2, PubSendMultiInv, ReceiveMultiInv
  <2>3. ASSUME NEW t \in Texts \cup {NullWave}, NEW u \in Texts \cup {NullWave},
               zeromq_pub_send(t, u) \/ zeromq_server_send(t, u) \/ zeromq_client_send(t)
        PROVE  PayloadInv'
    BY <2>1, <2>3, SendInv
  <2>4. ASSUME NEW m \in Foreign, Arrive(m) PROVE PayloadInv'
    BY <2>1, <2>4, ArriveInv
  <2>5. CASE ConvertRow
    BY <2>1, <2>5, ConvertRowInv
  <2>6. CASE ConvertDone
    BY <2>1, <2>6, ConvertDoneInv
  <2>7. CASE UNCHANGED vars
    <3>1. /\ heap' = heap /\ inbox' = inbox /\ queued' = queued
          /\ last' = last /\ calls' = calls /\ UNCHANGED converting
      BY <2>7 DEF vars, converting
    <3>2. inbox' \in Seq(Seq(Seq(Byte))) /\ queued' \in Seq(Seq(Byte)) /\ calls' \in 0..MaxCalls
      BY <2>1, <3>1 DEF PayloadInv, TypeOK
    <3>3. QED
      BY <2>1, <3>1, <3>2, SentInv
  <2>8. QED
    BY <2>1, <2>2, <2>3, <2>4, <2>5, <2>6, <2>7 DEF Next
<1>3. QED
  BY <1>1, <1>2, PTL DEF Spec
-----------------------------------------------------------------------------
(* The theorems *)

(* Types: whatever is sent and received, the heap stays one that Igor Pro   *)
(* can have, and messages are sequences of frames.                          *)
THEOREM PayloadTypeCorrect == Spec => []TypeOK
<1>1. PayloadInv => TypeOK
  BY DEF PayloadInv
<1>2. QED
  BY <1>1, PayloadInvariant, PTL

(* Reference counts: zeromq_sub_recv_multi counts the references of free    *)
(* waves right when it cuts rows off, lets waves go and puts new ones into  *)
(* rows, and leaves no row that refers to a wave that is gone.              *)
THEOREM RowsHoldTheirWaves == Spec => []RowsHoldWaves
<1>1. PayloadInv => RowsHoldWaves
  BY DEF PayloadInv
<1>2. QED
  BY <1>1, PayloadInvariant, PTL

(* Conversion: the rows that were converted hold their frames, all other    *)
(* waves are as they were, and 0 means that every frame was converted.      *)
THEOREM RowsAreConverted == Spec => []RowsConverted
<1>1. PayloadInv => RowsConverted
  <2>1. SUFFICES ASSUME PayloadInv, phase # "undefined", row > 0 PROVE RowsConverted
    BY DEF RowsConverted
  <2>2. Begun /\ TypeOK /\ RowsHoldWaves /\ TargetInv
    BY <2>1 DEF Begun, PayloadInv
  <2>3. \A i \in 1..row : Unshared(i, 1..row) => HoldsFrame(heap[Rows[i]], vec[i])
    BY <2>1 DEF PayloadInv, RowsInv
  <2>4. \A w \in DOMAIN before \cap DOMAIN heap :
          w # target /\ (\A i \in 1..row : Rows[i] # w) =>
            [heap[w] EXCEPT !.refs = 0] = [before[w] EXCEPT !.refs = 0]
    BY <2>1, <2>2 DEF PayloadInv, OthersInv
  <2>5. phase = "ready" /\ last.fn = "zeromq_sub_recv_multi" /\ last.code = "0" =>
          row = Len(vec) /\ Len(Rows) = Len(vec)
    BY <2>1, <2>2, RowsOfTarget DEF PayloadInv, ReturnInv
  <2>6. QED
    BY <2>3, <2>4, <2>5 DEF RowsConverted
<1>2. QED
  BY <1>1, PayloadInvariant, PTL

\* the code of a send function that gave all frames of msg to the library
CodeOfWhole(fn, msg) ==
  IF fn \in {"zeromq_client_send", "zeromq_server_send"} /\ Last(msg) = <<>> THEN "INVALID_ARG" ELSE "0"

(* A call that gives frames of what it was asked for to the library.        *)
LEMMA FramesSent ==
  ASSUME NEW fn \in SendFunctions, NEW args, NEW msg \in Seq(Seq(Byte)), msg # <<>>,
         Asked(heap, fn, args, msg), Len(Message(heap, fn, args)) = Len(msg),
         fn # "zeromq_pub_send_multi" => Message(heap, fn, args) = msg,
         NEW k \in 0..Len(msg), SendFrames(fn, args, msg, k, CodeOfWhole(fn, msg)),
         heap' = heap
  PROVE  ZeroMeansSent'
<1> DEFINE asked == Message(heap, fn, args)
           sent  == SubSeq(msg, 1, k)
<1>1. /\ last'.fn = fn /\ last'.args = args /\ last'.out = <<sent>>
      /\ last'.code = IF k = Len(msg) THEN CodeOfWhole(fn, msg) ELSE "INVALID_ARG"
  BY DEF SendFrames, Return
<1>2. Len(sent) = k /\ DOMAIN sent = 1..k /\ \A i \in 1..k : sent[i] = msg[i]
  <2>1. sent \in Seq(Seq(Byte)) /\ Len(sent) = k /\ \A i \in 1..k : sent[i] = msg[i]
    BY FramesGiven
  <2>2. DOMAIN sent = 1..Len(sent)
    BY <2>1
  <2>3. QED
    BY <2>1, <2>2
<1>3. Len(msg) \in Nat
  OBVIOUS
<1>4. \A i \in DOMAIN sent : sent[i] = asked[i] \/ SendsNothingOf(heap, fn, args, i)
  BY <1>2, <1>3 DEF Asked
<1>5. last'.out # <<>> /\ last'.out[1] = sent
  BY <1>1
<1>6. fn \in {"zeromq_client_send", "zeromq_server_send"} => Last(asked) = Last(msg)
  OBVIOUS
<1>7. last'.code = "0" <=>
        /\ Len(sent) = Len(asked)
        /\ fn \in {"zeromq_client_send", "zeromq_server_send"} => Last(asked) # <<>>
  BY <1>1, <1>2, <1>6 DEF CodeOfWhole
<1>8. Message(heap', last'.fn, last'.args) = asked
  BY <1>1
<1>9. \A i : SendsNothingOf(heap', last'.fn, last'.args, i) <=> SendsNothingOf(heap, fn, args, i)
  BY <1>1
<1>10. Len(sent) <= Len(asked)
  BY <1>2, <1>3
<1> HIDE DEF asked, sent
<1>11. QED
  BY <1>1, <1>4, <1>5, <1>7, <1>8, <1>9, <1>10 DEF ZeroMeansSent

(* A call that fails before it sends.                                       *)
LEMMA NothingSent ==
  ASSUME NEW fn, NEW args, NEW code, code # "0", Return(fn, args, code, <<>>)
  PROVE  ZeroMeansSent'
<1>1. last'.code # "0" /\ last'.out = <<>>
  BY DEF Return
<1>2. QED
  BY <1>1 DEF ZeroMeansSent

(* A call that publishes.                                                   *)
LEMMA PublishedSent ==
  ASSUME NEW fn \in {"zeromq_pub_send_multi", "zeromq_pub_send"}, NEW args,
         NEW msg \in Seq(Seq(Byte)), msg # <<>>, Asked(heap, fn, args, msg),
         fn # "zeromq_pub_send_multi" => Message(heap, fn, args) = msg,
         Publish(fn, args, msg), heap' = heap
  PROVE  ZeroMeansSent'
<1>1. fn \in SendFunctions /\ CodeOfWhole(fn, msg) = "0"
  BY DEF SendFunctions, CodeOfWhole
<1>2. Len(Message(heap, fn, args)) = Len(msg)
  BY DEF Asked
<1>3. ASSUME NEW k \in 0..Len(msg), SendFrames(fn, args, msg, k, "0") PROVE ZeroMeansSent'
  BY <1>1, <1>2, <1>3, FramesSent
<1>4. CASE Return(fn, args, "INTERNAL_ERROR", <<>>)
  BY <1>4, NothingSent
<1>5. QED
  BY <1>3, <1>4 DEF Publish

(* A call that sends one payload.                                           *)
LEMMA PayloadSent ==
  ASSUME NEW fn \in {"zeromq_client_send", "zeromq_server_send"}, NEW args,
         NEW msg \in Seq(Seq(Byte)), msg # <<>>, Message(heap, fn, args) = msg,
         SendPayload(fn, args, msg), heap' = heap
  PROVE  ZeroMeansSent'
<1>1. fn \in SendFunctions /\ fn # "zeromq_pub_send_multi"
  BY DEF SendFunctions
<1>2. CodeOfWhole(fn, msg) = IF Last(msg) = <<>> THEN "INVALID_ARG" ELSE "0"
  BY DEF CodeOfWhole
<1>3. Asked(heap, fn, args, msg) /\ Len(Message(heap, fn, args)) = Len(msg)
  BY DEF Asked
<1>4. ASSUME NEW k \in 0..Len(msg), SendFrames(fn, args, msg, k, CodeOfWhole(fn, msg))
      PROVE  ZeroMeansSent'
  BY <1>1, <1>3, <1>4, FramesSent
<1>5. CASE Return(fn, args, "INTERNAL_ERROR", <<>>)
  BY <1>5, NothingSent
<1>6. QED
  BY <1>2, <1>4, <1>5 DEF SendPayload

(* Sends: a send function gives the frames it was asked for to the library, *)
(* one after the other up to the first that fails, and returns 0 exactly if *)
(* it gave all of them; the frames of zeromq_pub_send_multi are the         *)
(* contents of the rows.                                                    *)
THEOREM ZeroMeansWholeMessage == Spec => []ZeroMeansSent
<1>1. Init => ZeroMeansSent
  BY DEF Init, ZeroMeansSent, SendFunctions
<1>2. PayloadInv /\ ZeroMeansSent /\ [Next]_vars => ZeroMeansSent'
  <2>1. SUFFICES ASSUME PayloadInv, ZeroMeansSent, [Next]_vars PROVE ZeroMeansSent'
    OBVIOUS
  <2>2. ASSUME NEW c \in Arguments, zeromq_pub_send_multi(c) PROVE ZeroMeansSent'
    <3>1. heap' = heap
      BY <2>2 DEF zeromq_pub_send_multi
    <3>2. CASE /\ ContainerError(heap, c) # "0"
               /\ Return("zeromq_pub_send_multi", <<c>>, ContainerError(heap, c), <<>>)
      BY <3>2, NothingSent
    <3>3. CASE /\ ContainerError(heap, c) = "0"
               /\ Publish("zeromq_pub_send_multi", <<c>>, GatherPubData(heap, c))
      <4> DEFINE msg == GatherPubData(heap, c)
      <4>1. IsHeap(heap) /\ HeldByRows(heap) /\ c \in DOMAIN heap \cup {NullWave}
        BY <2>1 DEF PayloadInv, TypeOK, RowsHoldWaves, Arguments
      <4>2. msg \in Seq(Seq(Byte)) /\ Asked(heap, "zeromq_pub_send_multi", <<c>>, msg)
        BY <3>3, <4>1, MessageOfRows
      <4>3. msg # <<>>
        <5>1. heap[c].dims[1] \in Nat /\ heap[c].dims[1] >= 2
          BY <3>3, <4>1, AcceptedContainer
        <5>2. DOMAIN msg = 1..heap[c].dims[1]
          BY DEF GatherPubData
        <5>3. 1 \in DOMAIN msg
          BY <5>1, <5>2
        <5> HIDE DEF msg
        <5>4. QED
          BY <5>3
      <4> HIDE DEF msg
      <4>4. Publish("zeromq_pub_send_multi", <<c>>, msg)
        BY <3>3 DEF msg
      <4>5. QED
        BY <3>1, <4>2, <4>3, <4>4, PublishedSent
    <3>4. QED
      BY <2>2, <3>2, <3>3 DEF zeromq_pub_send_multi
  <2>3. ASSUME NEW c \in Arguments, zeromq_sub_recv_multi(c) PROVE ZeroMeansSent'
    <3>1. CASE phase' = "converting"
      BY <3>1 DEF ZeroMeansSent
    <3>2. CASE last'.fn = "zeromq_sub_recv_multi"
      BY <3>2 DEF ZeroMeansSent, SendFunctions
    <3>3. QED
      BY <2>3, <3>1, <3>2 DEF zeromq_sub_recv_multi, Return
  <2>4. ASSUME NEW t \in Texts \cup {NullWave}, NEW u \in Texts \cup {NullWave},
               zeromq_pub_send(t, u)
        PROVE  ZeroMeansSent'
    <3> DEFINE frames == <<GetStringFromHandle(t), GetStringFromHandle(u)>>
    <3>1. frames \in Seq(Seq(Byte)) /\ frames # <<>>
      BY StringTyped
    <3>2. Publish("zeromq_pub_send", frames, frames) /\ heap' = heap
      BY <2>4 DEF zeromq_pub_send
    <3> HIDE DEF frames
    <3>3. Message(heap, "zeromq_pub_send", frames) = frames
      BY DEF Message
    <3>4. Asked(heap, "zeromq_pub_send", frames, frames)
      BY <3>3 DEF Asked
    <3>5. QED
      BY <3>1, <3>2, <3>3, <3>4, PublishedSent
  <2>5. ASSUME NEW t \in Texts \cup {NullWave}, NEW u \in Texts \cup {NullWave},
               zeromq_server_send(t, u)
        PROVE  ZeroMeansSent'
    <3> DEFINE id      == GetStringFromHandle(t)
               payload == GetStringFromHandle(u)
               frames  == <<id, <<>>, payload>>
    <3>1. frames \in Seq(Seq(Byte)) /\ frames # <<>>
      BY StringTyped
    <3>2. Message(heap, "zeromq_server_send", <<id, payload>>) = frames
      BY DEF Message
    <3>3. CASE SendPayload("zeromq_server_send", <<id, payload>>, frames) /\ heap' = heap
      <4> HIDE DEF frames
      <4>1. QED
        BY <3>1, <3>2, <3>3, PayloadSent
    <3>4. CASE Return("zeromq_server_send", <<id, payload>>, "INVALID_ARG", <<>>)
      BY <3>4, NothingSent
    <3>5. QED
      BY <2>5, <3>3, <3>4 DEF zeromq_server_send
  <2>6. ASSUME NEW t \in Texts \cup {NullWave}, zeromq_client_send(t)
        PROVE  ZeroMeansSent'
    <3> DEFINE payload == GetStringFromHandle(t)
               frames  == << <<>>, payload>>
    <3>1. frames \in Seq(Seq(Byte)) /\ frames # <<>>
      BY StringTyped
    <3>2. Message(heap, "zeromq_client_send", <<payload>>) = frames
      BY DEF Message
    <3>3. SendPayload("zeromq_client_send", <<payload>>, frames) /\ heap' = heap
      BY <2>6 DEF zeromq_client_send
    <3> HIDE DEF frames
    <3>4. QED
      BY <3>1, <3>2, <3>3, PayloadSent
  <2>7. CASE \/ \E m \in Foreign : Arrive(m)
             \/ UNCHANGED vars
    <3>1. heap' = heap /\ last' = last /\ phase' = phase
      BY <2>7 DEF Arrive, converting, vars
    <3>2. QED
      BY <2>1, <3>1 DEF ZeroMeansSent
  <2>8. CASE ConvertRow
    <3>1. phase = "converting"
      BY <2>8 DEF ConvertRow
    <3>2. last'.fn = "zeromq_sub_recv_multi" \/ phase' # "ready"
      <4>1. ASSUME NEW code, ConvertThrows(code) PROVE last'.fn = "zeromq_sub_recv_multi"
        BY <4>1 DEF ConvertThrows, Return
      <4>2. ASSUME NEW h, NEW w, NEW frame, StoreFrame(h, w, frame) PROVE phase' # "ready"
        BY <3>1, <4>2 DEF StoreFrame, RowStored
      <4>3. ASSUME NEW i, NEW frame, ConvertNullRow(i, frame)
            PROVE  last'.fn = "zeromq_sub_recv_multi" \/ phase' # "ready"
        BY <4>1, <4>2, <4>3 DEF ConvertNullRow
      <4>4. ASSUME NEW i, NEW w, NEW frame, ConvertWaveRow(i, w, frame)
            PROVE  last'.fn = "zeromq_sub_recv_multi" \/ phase' # "ready"
        BY <4>1, <4>2, <4>4 DEF ConvertWaveRow
      <4>5. QED
        BY <2>8, <4>3, <4>4 DEF ConvertRow
    <3>3. QED
      BY <3>2 DEF ZeroMeansSent, SendFunctions
  <2>9. CASE ConvertDone
    <3>1. last'.fn = "zeromq_sub_recv_multi"
      BY <2>9 DEF ConvertDone, Return
    <3>2. QED
      BY <3>1 DEF ZeroMeansSent, SendFunctions
  <2>10. QED
    BY <2>1, <2>2, <2>3, <2>4, <2>5, <2>6, <2>7, <2>8, <2>9 DEF Next
<1>3. QED
  BY <1>1, <1>2, PayloadInvariant, PTL DEF Spec
=============================================================================
