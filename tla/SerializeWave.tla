---------------------------- MODULE SerializeWave ----------------------------
(***************************************************************************)
(* SerializeWave.cpp: the JSON document of a wave.  A JSON value is a       *)
(* record whose field tells its kind: [num |-> n], [str |-> text],          *)
(* [arr |-> values], [cmplx |-> <<real, imag>>], [obj |-> document] or       *)
(* [null |-> TRUE]; a document maps the paths of its keys to values.        *)
(***************************************************************************)
EXTENDS Waves

CONSTANTS
  Epoch,       \* 1970 in Igor Pro's seconds and the local time zone
  InvalidUTF8  \* a byte that no UTF-8 text has

Nan == "nan"
Inf == "inf"

Num(n) == [num |-> n]
Str(t) == [str |-> t]
-----------------------------------------------------------------------------
(* Writing arrays, and what json::parse makes of them *)

Open == [tok |-> "["]
Close == [tok |-> "]"]
Comma == [tok |-> ","]
Garbage == [num |-> "garbage"]  \* what is in memory after an empty array

\* all elements but the last are written with a comma; the last one is written
\* whether there is one or not
OutputArray(values) ==
  LET n == Len(values) IN
    <<Open>> \o FlattenSeq([i \in 1..n - 1 |-> <<values[i], Comma>>])
             \o <<IF n = 0 THEN Garbage ELSE values[n], Close>>

EmptyArray == <<Open, Close>>

\* json::parse of an array, [null |-> FALSE] standing for a syntax error
ParseArray(tokens) ==
  LET n      == Len(tokens) - 2
      values == [i \in 1..(n + 1) \div 2 |-> tokens[2 * i]]
  IN  IF \/ n = 0
         \/ /\ n % 2 = 1
            /\ \A i \in 2..n + 1 : i % 2 = 1 => tokens[i] = Comma
            /\ \A i \in DOMAIN values : values[i] # Comma
      THEN [arr |-> values] ELSE [null |-> FALSE]

ArrayOf(values) == ParseArray(OutputArray(values))
-----------------------------------------------------------------------------
(* The elements of a wave *)

\* value k (from 0) of a numeric wave
Value(wave, k) ==
  LET size == SizeOf[BaseType(wave.type)] IN SubSeq(wave.data, k * size + 1, (k + 1) * size)

\* 15 digits of a double do not hold its last bits
FormatNumber(type, v) == IF BaseType(type) = "NT_FP64" THEN Front(v) ELSE v

\* WriteIntoStream<T>: NaN and infinities are quoted
WriteNumber(type, v) ==
  IF BaseType(type) \in Floats /\ v[1] \in {Nan, Inf} THEN Str(<<v[1]>>) ELSE Num(FormatNumber(type, v))

WriteScale(v) == IF v \in {Nan, Inf} THEN Str(<<v>>) ELSE Num(v)

SerializeDataFolder(folder) == IF folder \in {<<"null">>, <<"killed">>} THEN <<"null">> ELSE folder

\* the texts of a wave as GetTextWaveData and strlen find them: the wave's texts
\* joined by NUL bytes, taken apart at NUL bytes
SplitTexts(texts) ==
  LET buffer == FlattenSeq([i \in DOMAIN texts |-> Append(texts[i], NUL)])
      ends   == SetToSortSeq({p \in DOMAIN buffer : buffer[p] = NUL}, <)
  IN  [i \in DOMAIN texts |-> SubSeq(buffer, (IF i = 1 THEN 0 ELSE ends[i - 1]) + 1, ends[i] - 1)]

RECURSIVE SerializeWave(_, _)

\* the elements of a numeric, text, wave reference or data folder wave
ToJSONArray(heap, wave, offset) ==
  LET n == WavePoints(wave) IN
    CASE n = 0 -> EmptyArray
      [] n > 0 /\ wave.type = TEXT_WAVE_TYPE ->
           LET texts == SplitTexts(wave.data) IN OutputArray([i \in 1..n |-> Str(texts[i])])
      [] n > 0 /\ wave.type = WAVE_TYPE ->
           OutputArray([i \in 1..n |-> SerializeWave(heap, wave.data[i])])
      [] n > 0 /\ wave.type = DATAFOLDER_TYPE ->
           OutputArray([i \in 1..n |-> Str(SerializeDataFolder(wave.data[i]))])
      [] n > 0 /\ IsNumeric(wave.type) ->
           OutputArray([i \in 1..n |-> WriteNumber(wave.type, Value(wave, offset + i - 1))])

\* the real parts are read from the first half of a complex wave's memory, the
\* imaginary ones from the second
WaveToString(heap, wave) ==
  IF "NT_CMPLX" \in wave.type
  THEN [cmplx |-> <<ParseArray(ToJSONArray(heap, wave, 0)),
                    ParseArray(ToJSONArray(heap, wave, WavePoints(wave)))>>]
  ELSE ParseArray(ToJSONArray(heap, wave, 0))

DimensionSizesToString(dims) ==
  IF dims = <<>> THEN <<Open, Num(0), Close>> ELSE OutputArray([d \in DOMAIN dims |-> Num(dims[d])])

\* the parts of the type, which the string joins by " | "
GetWaveTypeString(type) ==
  LET base == type \ {"NT_CMPLX", "NT_UNSIGNED"}
  IN  <<IF base = {} THEN "TEXT_WAVE_TYPE" ELSE CHOOSE b \in base : TRUE>>
      \o SelectSeq(<<"NT_CMPLX", "NT_UNSIGNED">>, LAMBDA t : t \in type)

ConvertToUnixEpochUTC(secs) == IF secs = 0 THEN 0 ELSE secs - Epoch
-----------------------------------------------------------------------------
(* The optional keys: documents with one key or none *)

NoKey == <<>>
IfSet(set, key, value) == IF set THEN key :> value ELSE NoKey

AddDataUnitIfSet(wave) == IfSet(wave.info.unit # <<>>, "data.unit", Str(wave.info.unit))

AddDataFullScaleIfSet(wave) ==
  LET entries == wave.info.fullScale
  IN  IfSet(entries \notin {<<"0", "0">>, <<Nan, Nan>>}, "data.fullScale",
            ArrayOf(<<WriteScale(entries[1]), WriteScale(entries[2])>>))

\* mutant: only the offsets are compared with their default
AddDimensionScalingIfOffsetSet(wave) ==
  LET dims == DOMAIN wave.dims
      set  == \E d \in dims : wave.info.dim[d].offset # "0"
  IN  IfSet(set, "dimension.offset", ArrayOf([d \in dims |-> WriteScale(wave.info.dim[d].offset)])) @@
      IfSet(set, "dimension.delta", ArrayOf([d \in dims |-> WriteScale(wave.info.dim[d].delta)]))

\* offset and delta of all dimensions once one of them is not 0, 1
AddDimensionScalingIfSet(wave) ==
  LET dims == DOMAIN wave.dims
      set  == \E d \in dims : wave.info.dim[d].offset # "0" \/ wave.info.dim[d].delta # "1"
  IN  IfSet(set, "dimension.offset", ArrayOf([d \in dims |-> WriteScale(wave.info.dim[d].offset)])) @@
      IfSet(set, "dimension.delta", ArrayOf([d \in dims |-> WriteScale(wave.info.dim[d].delta)]))

AddDimensionUnitsIfSet(wave) ==
  LET units == [d \in DOMAIN wave.dims |-> wave.info.dim[d].unit]
  IN  IfSet(\E d \in DOMAIN units : units[d] # <<>>, "dimension.unit",
            ArrayOf([d \in DOMAIN units |-> Str(units[d])]))

AddDimensionLabelsFullIfSet(wave) ==
  LET labels == [d \in DOMAIN wave.dims |-> wave.info.dim[d].label]
  IN  IfSet(\E d \in DOMAIN labels : labels[d] # <<>>, "dimension.label.full",
            ArrayOf([d \in DOMAIN labels |-> Str(labels[d])]))

\* MDGetDimensionLabel
Label(wave, d, j) == IF <<d, j>> \in DOMAIN wave.info.labels THEN wave.info.labels[<<d, j>>] ELSE <<>>

\* the labels of all rows, then of all columns, and so on
AddDimensionLabelsEachIfSet(wave) ==
  LET labels == FlattenSeq([d \in DOMAIN wave.dims |-> [j \in 1..wave.dims[d] |-> Label(wave, d, j)]])
  IN  IfSet(\E k \in DOMAIN labels : labels[k] # <<>>, "dimension.label.each",
            ArrayOf([k \in DOMAIN labels |-> Str(labels[k])]))

AddWaveNoteIfSet(wave) == IfSet(wave.info.note # NullWave, "note", Str(wave.info.note))

SerializeWave(heap, w) ==
  IF w = NullWave THEN [null |-> TRUE]
  ELSE LET wave == heap[w] IN
    [obj |-> "type" :> Str(GetWaveTypeString(wave.type)) @@
             "date.modification" :> Num(ConvertToUnixEpochUTC(wave.info.modDate)) @@
             "data.raw" :> WaveToString(heap, wave) @@
             "dimension.size" :> ParseArray(DimensionSizesToString(wave.dims)) @@
             AddDataUnitIfSet(wave) @@ AddDataFullScaleIfSet(wave) @@
             AddDimensionScalingIfSet(wave) @@ AddDimensionUnitsIfSet(wave) @@
             AddDimensionLabelsEachIfSet(wave) @@ AddDimensionLabelsFullIfSet(wave) @@
             AddWaveNoteIfSet(wave)]

\* json::dump throws at a string that is not UTF-8, parse at a syntax error
RECURSIVE Dumps(_)
Dumps(value) ==
  CASE DOMAIN value = {"str"} -> InvalidUTF8 \notin Range(value.str)
    [] DOMAIN value = {"arr"} -> \A i \in DOMAIN value.arr : Dumps(value.arr[i])
    [] DOMAIN value = {"cmplx"} -> \A i \in 1..2 : Dumps(value.cmplx[i])
    [] DOMAIN value = {"obj"} -> \A k \in DOMAIN value.obj : Dumps(value.obj[k])
    [] DOMAIN value = {"null"} -> value.null
    [] DOMAIN value = {"num"} -> TRUE
=============================================================================
