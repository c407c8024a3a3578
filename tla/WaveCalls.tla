------------------------------ MODULE WaveCalls ------------------------------
(***************************************************************************)
(* The XOP functions that take waves, on one heap: those of module Payload  *)
(* and zeromq_test_serializeWave.  A foreign application reads the          *)
(* documents by the table "Wave serialization format" of Readme.rst.        *)
(***************************************************************************)
EXTENDS Payload, SerializeWave

\* waves that contain themselves are left out: SerializeWave does not return
zeromq_test_serializeWave(w) ==
  LET doc == SerializeWave(heap, w) IN
  /\ Call
  /\ IF Dumps(doc)
     THEN Return("zeromq_test_serializeWave", <<w>>, "0", <<doc>>)
     ELSE Return("zeromq_test_serializeWave", <<w>>, "UNHANDLED_CPP_EXCEPTION", <<>>)
  /\ UNCHANGED <<heap, inbox, queued, converting>>

CallsNext ==
  \/ Next
  \/ \E w \in Arguments : zeromq_test_serializeWave(w)

CallsSpec == Init /\ [][CallsNext]_vars
-----------------------------------------------------------------------------
(* What a wave says *)

RECURSIVE View(_, _)

\* point i (from 1) of a wave; doubles to 15 digits
Point(h, wave, i) ==
  CASE wave.type = TEXT_WAVE_TYPE -> wave.data[i]
    [] wave.type = WAVE_TYPE -> View(h, wave.data[i])
    [] wave.type = DATAFOLDER_TYPE -> IF wave.data[i] = <<"killed">> THEN <<"null">> ELSE wave.data[i]
    [] OTHER ->
         LET parts == IF "NT_CMPLX" \in wave.type THEN 2 ELSE 1
             Seen(v) == IF BaseType(wave.type) \notin Floats THEN v
                        ELSE IF v[1] \in {Nan, Inf} THEN <<v[1]>>
                        ELSE IF BaseType(wave.type) = "NT_FP64" THEN Front(v) ELSE v
         IN  [k \in 1..parts |-> Seen(Value(wave, parts * (i - 1) + k - 1))]

View(h, w) ==
  IF w = NullWave THEN <<>>
  ELSE LET wave == h[w] IN <<
    [type   |-> wave.type,
     dims   |-> wave.dims,
     points |-> [i \in 1..WavePoints(wave) |-> Point(h, wave, i)],
     unit   |-> wave.info.unit,
     scale  |-> IF wave.info.fullScale = <<Nan, Nan>> THEN <<"0", "0">> ELSE wave.info.fullScale,
     dim    |-> [d \in DOMAIN wave.dims |-> wave.info.dim[d]],
     labels |-> [d \in DOMAIN wave.dims |-> [j \in 1..wave.dims[d] |-> Label(wave, d, j)]],
     note   |-> IF wave.info.note = NullWave THEN <<>> ELSE wave.info.note,
     date   |-> wave.info.modDate] >>
-----------------------------------------------------------------------------
(* What a reader of its document learns *)

RECURSIVE Read(_)

Has(doc, key) == key \in DOMAIN doc

\* the number or text of a JSON value
Scalar(value) == IF DOMAIN value = {"str"} THEN value.str ELSE value.num

Scale(value) == IF DOMAIN value = {"str"} THEN value.str[1] ELSE value.num

ReadPoints(type, raw) ==
  IF "NT_CMPLX" \in type
  THEN [i \in DOMAIN raw.cmplx[1].arr |-> <<Scalar(raw.cmplx[1].arr[i]), Scalar(raw.cmplx[2].arr[i])>>]
  ELSE [i \in DOMAIN raw.arr |->
         CASE type \in {TEXT_WAVE_TYPE, DATAFOLDER_TYPE} -> Scalar(raw.arr[i])
           [] type = WAVE_TYPE -> Read(raw.arr[i])
           [] OTHER -> <<Scalar(raw.arr[i])>>]

\* entry d of the array at key, or the default
Entry(doc, key, d, Get(_), default) == IF Has(doc, key) THEN Get(doc[key].arr[d]) ELSE default

Read(value) ==
  IF DOMAIN value = {"null"} THEN <<>>
  ELSE LET doc  == value.obj
           type == {t \in Range(doc["type"].str) : t # "TEXT_WAVE_TYPE"}
           size == [d \in DOMAIN doc["dimension.size"].arr |-> doc["dimension.size"].arr[d].num]
           dims == IF size = <<0>> THEN <<>> ELSE size
           skip(d) == FoldLeft(LAMBDA a, b : a + b, 0, SubSeq(dims, 1, d - 1))
       IN <<
    [type   |-> type,
     dims   |-> dims,
     points |-> ReadPoints(type, doc["data.raw"]),
     unit   |-> IF Has(doc, "data.unit") THEN doc["data.unit"].str ELSE <<>>,
     scale  |-> [k \in 1..2 |-> Entry(doc, "data.fullScale", k, Scale, "0")],
     dim    |-> [d \in DOMAIN dims |->
                  [offset |-> Entry(doc, "dimension.offset", d, Scale, "0"),
                   delta  |-> Entry(doc, "dimension.delta", d, Scale, "1"),
                   unit   |-> Entry(doc, "dimension.unit", d, Scalar, <<>>),
                   label  |-> Entry(doc, "dimension.label.full", d, Scalar, <<>>)]],
     labels |-> [d \in DOMAIN dims |-> [j \in 1..dims[d] |->
                  Entry(doc, "dimension.label.each", skip(d) + j, Scalar, <<>>)]],
     note   |-> IF Has(doc, "note") THEN doc["note"].str ELSE <<>>,
     date   |-> LET n == doc["date.modification"].num IN IF n = 0 THEN 0 ELSE n + Epoch] >>

\* the documents of complex waves with more than one point, and of texts that
\* contain NUL bytes, do not show the wave (README, section 5)
RECURSIVE Legible(_, _)
Legible(h, w) ==
  w # NullWave =>
    /\ "NT_CMPLX" \in h[w].type => WavePoints(h[w]) <= 1
    /\ h[w].type = TEXT_WAVE_TYPE => \A i \in DOMAIN h[w].data : NUL \notin Range(h[w].data[i])
    /\ h[w].type = WAVE_TYPE => \A i \in DOMAIN h[w].data : Legible(h, h[w].data[i])

(* A foreign application that follows the table of Readme.rst learns from   *)
(* the document of a wave its type, size and elements (nested waves         *)
(* included), units, scaling, labels, note and modification date.           *)
DocumentsReadBack ==
  phase = "ready" /\ last.fn = "zeromq_test_serializeWave" /\ last.code = "0" =>
    LET w == last.args[1] IN Legible(heap, w) => Read(last.out[1]) = View(heap, w)
=============================================================================
