-------------------------------- MODULE Waves --------------------------------
(***************************************************************************)
(* Igor Pro's waves as the XOP sees them, and the helpers of                *)
(* HelperFunctions.cpp and HelperFunctions.h that read and write them.      *)
(* WaveType is the set of the bits of the type code, TEXT_WAVE_TYPE (0) the *)
(* empty set.  The data of a numeric wave is its memory, one value per      *)
(* byte; that of a text wave a sequence of texts; that of a wave reference  *)
(* wave a sequence of waves; that of a data folder reference wave a         *)
(* sequence of folders.  A folder is <<"null">>, <<"free">>, <<"killed">> or *)
(* its path.                                                                *)
(***************************************************************************)
EXTENDS Integers, Sequences, SequencesExt, FiniteSets

CONSTANTS
  WaveHandles,  \* addresses of waves
  NullWave,     \* nullptr
  Byte          \* the bytes of texts, and of the memory of numeric waves

NUL == "0"  \* the byte 0

ASSUME WavesAssumption == NullWave \notin WaveHandles /\ NUL \in Byte

TEXT_WAVE_TYPE  == {}
WAVE_TYPE       == {"WAVE_TYPE"}
DATAFOLDER_TYPE == {"DATAFOLDER_TYPE"}
Uint8           == {"NT_I8", "NT_UNSIGNED"}

\* sizeof the C++ types
SizeOf == [NT_I8 |-> 1, NT_I16 |-> 2, NT_I32 |-> 4, NT_I64 |-> 8, NT_FP32 |-> 4, NT_FP64 |-> 8]
Floats == {"NT_FP32", "NT_FP64"}
BaseTypes == DOMAIN SizeOf

IsNumeric(type) == type \cap BaseTypes # {}
BaseType(type)  == CHOOSE b \in BaseTypes : b \in type

\* complex integers are not in the list, and have the size of a text
GetWaveElementSize(type) ==
  CASE \E b \in Floats : type = {b, "NT_CMPLX"} -> 2 * SizeOf[BaseType(type)]
    [] \E b \in BaseTypes : type = {b} -> SizeOf[BaseType(type)]
    [] \E b \in BaseTypes \ Floats : type = {b, "NT_UNSIGNED"} -> SizeOf[BaseType(type)]
    [] OTHER -> 0

\* the bytes Igor Pro keeps per point of a numeric wave
PointSize(type) == SizeOf[BaseType(type)] * (IF "NT_CMPLX" \in type THEN 2 ELSE 1)

\* the size of dimension d, of up to MAX_DIMENSIONS
DimSize(wave, d) == IF d <= Len(wave.dims) THEN wave.dims[d] ELSE 1

\* an empty wave has no dimension
WavePoints(wave) ==
  IF wave.dims = <<>> THEN 0
  ELSE DimSize(wave, 1) * DimSize(wave, 2) * DimSize(wave, 3) * DimSize(wave, 4)

\* what Igor Pro puts into new points
Blank(type) ==
  CASE type = TEXT_WAVE_TYPE -> <<>>
    [] type = WAVE_TYPE -> NullWave
    [] type = DATAFOLDER_TYPE -> <<"null">>
    [] OTHER -> NUL

\* mutant: the memory of a numeric wave has one byte per point
FitOneByte(type, d, n) == [i \in 1..n |-> IF i \in DOMAIN d THEN d[i] ELSE Blank(type)]

\* the length of the data of n points
DataLength(type, n) == IF IsNumeric(type) THEN n * PointSize(type) ELSE n

\* data of one dimension with n points, as much of d as there is room for
Fit(type, d, n) ==
  [i \in 1..DataLength(type, n) |-> IF i \in DOMAIN d THEN d[i] ELSE Blank(type)]
-----------------------------------------------------------------------------
(* A heap maps the waves that exist to their contents; refs counts the      *)
(* references that keep a free wave.                                        *)

RowDims(n) == IF n = 0 THEN <<>> ELSE <<n>>

\* how often wave c refers to w
References(wave, w) ==
  IF wave.type = WAVE_TYPE THEN Cardinality({i \in DOMAIN wave.data : wave.data[i] = w}) ELSE 0

\* give up the references of the rows of c beyond n; free waves nobody refers
\* to vanish
ReleaseRows(heap, c, n) ==
  LET lost(w) == References(heap[c], w) - References([heap[c] EXCEPT !.data = Fit(WAVE_TYPE, @, n)], w)
      counted == [w \in DOMAIN heap |-> [heap[w] EXCEPT !.refs = @ - lost(w)]]
  IN  [w \in {x \in DOMAIN heap : ~heap[x].free \/ counted[x].refs > 0} |-> counted[w]]

\* Igor Pro refuses to change a locked wave (MDChangeWave2)
CanRedimension(heap, w) == ~heap[w].locked

\* keeps the type, and the data that fits
RedimensionWave(heap, w, n) ==
  LET freed == IF heap[w].type = WAVE_TYPE THEN ReleaseRows(heap, w, n) ELSE heap
  IN  [freed EXCEPT ![w].dims = RowDims(n), ![w].data = Fit(heap[w].type, @, n)]

\* units, full scale <<min, max>>, scaling, dimension labels, note and date of a
\* new wave; labels maps <<dimension, index>> to the labels that are set
NewInfo ==
  [unit |-> <<>>, fullScale |-> <<"0", "0">>,
   dim |-> [d \in 1..4 |-> [offset |-> "0", delta |-> "1", unit |-> <<>>, label |-> <<>>]],
   labels |-> <<>>, note |-> NullWave, modDate |-> 0]

\* a free wave with n points that nobody holds
MakeFreeWave(type, n) ==
  [type |-> type, dims |-> RowDims(n), data |-> Fit(type, <<>>, n),
   free |-> TRUE, locked |-> FALSE, refs |-> 0, info |-> NewInfo]

\* the position in memory of the point with the given indices, column major;
\* indices count from 0
GetWaveIndexInMemory(wave, index) ==
  LET at(d) == IF d <= Len(wave.dims) THEN index[d] ELSE 0
  IN  at(1) + DimSize(wave, 1) * (at(2) + DimSize(wave, 2) * (at(3) + DimSize(wave, 3) * at(4)))

\* the element of a wave reference wave, or of a text wave
GetWaveElement(wave, index) == wave.data[GetWaveIndexInMemory(wave, index) + 1]

\* the text up to its first NUL byte (PutCStringInHandle)
GetHandleFromString(text) ==
  LET nul == SelectInSeq(text, LAMBDA b : b = NUL)
  IN  IF nul = 0 THEN text ELSE SubSeq(text, 1, nul - 1)

SetTextElement(heap, w, index, text) ==
  [heap EXCEPT ![w].data[GetWaveIndexInMemory(heap[w], index) + 1] = GetHandleFromString(text)]

\* a free wave the element referred to is released
SetWaveElement(heap, c, index, w) ==
  LET i   == GetWaveIndexInMemory(heap[c], index) + 1
      old == heap[c].data[i]
      set == [heap EXCEPT ![c].data[i] = w]
  IN  IF old # NullWave /\ set[old].free THEN [set EXCEPT ![old].refs = @ - 1] ELSE set

\* the sizes of the dimensions with the 0 after the last one
CheckWaveDimension(wave, expected) == wave.dims = expected
-----------------------------------------------------------------------------
(* What Igor Pro guarantees of a heap.  A free wave in a row does not hold  *)
(* rows itself; the waves a caller passes are held by the caller, and not   *)
(* free here.                                                               *)

IntegerTypes ==
  {{b} \cup flags : b \in BaseTypes \ Floats, flags \in SUBSET {"NT_UNSIGNED", "NT_CMPLX"}}
FloatTypes == {{b} \cup flags : b \in Floats, flags \in SUBSET {"NT_CMPLX"}}
NumericTypes == IntegerTypes \cup FloatTypes
WaveTypes == NumericTypes \cup {TEXT_WAVE_TYPE, WAVE_TYPE, DATAFOLDER_TYPE}

\* the data of a wave of that type with n points
DataFits(type, n, data) ==
  /\ DOMAIN data = 1..DataLength(type, n)
  /\ type = TEXT_WAVE_TYPE => data \in Seq(Seq(Byte))
  /\ type = WAVE_TYPE => data \in Seq(WaveHandles \cup {NullWave})
  /\ type \in NumericTypes => data \in Seq(Byte)

IsWave(wave) ==
  /\ DOMAIN wave = {"type", "dims", "data", "free", "locked", "refs", "info"}
  /\ wave.type \in WaveTypes /\ wave.dims \in Seq(Nat \ {0}) /\ Len(wave.dims) <= 4
  /\ DataFits(wave.type, WavePoints(wave), wave.data)
  /\ wave.free => wave.type # WAVE_TYPE
  /\ wave.refs \in Int

IsHeap(heap) ==
  /\ DOMAIN heap \subseteq WaveHandles /\ IsFiniteSet(DOMAIN heap)
  /\ \A w \in DOMAIN heap : IsWave(heap[w])

\* the rows that refer to w
RowsOf(heap, w) ==
  UNION {{c} \X {i \in DOMAIN heap[c].data : heap[c].data[i] = w} :
           c \in {x \in DOMAIN heap : heap[x].type = WAVE_TYPE}}

\* rows refer to waves that exist, free waves have as many references as rows
HeldByRows(heap) ==
  \A w \in DOMAIN heap :
    /\ heap[w].type = WAVE_TYPE => Range(heap[w].data) \subseteq DOMAIN heap \cup {NullWave}
    /\ heap[w].free => heap[w].refs = Cardinality(RowsOf(heap, w))
=============================================================================
