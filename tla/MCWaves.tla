------------------------------- MODULE MCWaves -------------------------------
(* The instance of WaveCalls for TLC. *)
EXTENDS WaveCalls

Wave(type, dims, data) ==
  [type |-> type, dims |-> dims, data |-> data,
   free |-> FALSE, locked |-> FALSE, refs |-> 0, info |-> NewInfo]

Filled(n, b) == [i \in 1..n |-> b]
-----------------------------------------------------------------------------
(* Containers: "c" has the rows, the others are what rows refer to *)

RowWave(name) ==
  CASE name = "text" -> Wave(TEXT_WAVE_TYPE, <<1>>, << <<"a">> >>)
    [] name = "none" -> Wave(TEXT_WAVE_TYPE, <<>>, <<>>)
    [] name = "free" -> [Wave(TEXT_WAVE_TYPE, <<1>>, << <<"b", NUL>> >>) EXCEPT !.free = TRUE]
    [] name = "u8" -> Wave(Uint8, <<2>>, <<"a", "b">>)
    [] name = "locked" -> [Wave(Uint8, <<1>>, <<"a">>) EXCEPT !.locked = TRUE]
    [] name = "i16" -> Wave({"NT_I16"}, <<2>>, <<"a", "b", "c", "d">>)
    [] name = "cfp" -> Wave({"NT_FP32", "NT_CMPLX"}, <<1>>, Filled(8, "f"))
    [] name = "ci8" -> Wave({"NT_I8", "NT_CMPLX"}, <<1>>, <<"a", "b">>)
    [] name = "df" -> Wave(DATAFOLDER_TYPE, <<1>>, << <<"root:">> >>)
    [] name = "ww" -> Wave(WAVE_TYPE, <<1>>, <<NullWave>>)

\* the heap with container c and the waves of its rows
Container(dims, rows) ==
  LET names == Range(rows) \ {NullWave}
      c == Wave(WAVE_TYPE, dims, rows)
  IN  [w \in names \cup {"c"} |->
        IF w = "c" THEN c
        ELSE [RowWave(w) EXCEPT !.refs = IF RowWave(w).free THEN References(c, w) ELSE 0]]

Third == {NullWave, "u8", "locked", "i16", "cfp", "ci8", "df", "ww", "text"}

Containers ==
  {Container(<<2>>, <<a, b>>) : a \in {"text", "none", NullWave, "u8"}, b \in {"text", "free", "df", NullWave}}
  \cup {Container(<<3>>, <<a, "free", t>>) : a \in {"text", "free", NullWave}, t \in Third}
  \cup {Container(<<1>>, <<"text">>), Container(<<2, 1, 2>>, <<"text", "free", "free", NullWave>>),
        Container(<<2, 2>>, <<"text", "free", "text", NullWave>>),
        [Container(<<2>>, <<"text", "text">>) EXCEPT !["c"].locked = TRUE]}
-----------------------------------------------------------------------------
(* Waves to serialize *)

Numbers == {Wave({"NT_FP32"}, <<2, 1>>, Filled(4, Nan) \o Filled(4, "a")),
            Wave({"NT_FP64"}, <<2>>, Filled(8, "b") \o Filled(8, Inf)),
            Wave({"NT_I8"}, <<3>>, <<"a", "b", "c">>),
            Wave({"NT_I64", "NT_UNSIGNED"}, <<2>>, Filled(8, "a") \o Filled(8, "b")),
            Wave({"NT_I16"}, <<>>, <<>>),
            Wave({"NT_I16", "NT_CMPLX", "NT_UNSIGNED"}, <<1>>, <<"a", "b", "c", "d">>),
            Wave({"NT_FP64", "NT_CMPLX"}, <<2>>, Filled(8, "a") \o Filled(8, "b") \o Filled(16, "c")),
            Wave({"NT_FP32", "NT_CMPLX"}, <<>>, <<>>)}

Others == {Wave(TEXT_WAVE_TYPE, <<2, 2>>, << <<"a">>, <<>>, <<"b", "c">>, <<"d">> >>),
           Wave(TEXT_WAVE_TYPE, <<2>>, << <<"a", NUL, "b">>, <<"c">> >>),
           Wave(TEXT_WAVE_TYPE, <<2>>, << <<"a">>, <<InvalidUTF8>> >>),
           Wave(TEXT_WAVE_TYPE, <<>>, <<>>),
           Wave(DATAFOLDER_TYPE, <<4>>, << <<"root:">>, <<"free">>, <<"killed">>, <<"null">> >>)}

Set(d, f, v) == [NewInfo EXCEPT !.dim[d][f] = v]

Infos == {NewInfo, [NewInfo EXCEPT !.unit = <<"V">>, !.modDate = 12],
          [NewInfo EXCEPT !.fullScale = <<"0", "5">>], [NewInfo EXCEPT !.fullScale = <<Nan, Nan>>],
          [NewInfo EXCEPT !.note = <<"n">>], [NewInfo EXCEPT !.note = <<InvalidUTF8>>],
          Set(1, "offset", "3"), Set(2, "delta", Inf), Set(2, "unit", <<"s">>), Set(1, "label", <<"x">>),
          [NewInfo EXCEPT !.labels = <<1, 1>> :> <<"r">>],
          [NewInfo EXCEPT !.labels = <<1, 2>> :> <<"r">> @@ <<2, 1>> :> <<"c">>]}

Singles ==
  {"s" :> w : w \in Numbers \cup Others}
  \cup {"s" :> [w EXCEPT !.info = i] :
          w \in {Wave({"NT_I8"}, <<2, 2>>, <<"a", "b", "c", "d">>), Wave({"NT_I8"}, <<>>, <<>>)}, i \in Infos}
  \cup {"s" :> w @@ "c" :> Wave(WAVE_TYPE, <<3>>, <<"s", NullWave, "s">>) : w \in Others}

AllHeaps == Containers \cup Singles

Handles == {"c", "s", "new", "text", "none", "free", "u8", "locked", "i16", "cfp", "ci8", "df", "ww"}

SomeTexts == {<<>>, <<"a", NUL>>}

SomeBytes == {"a", "b", "c", "d", "f", "n", "p", "x", "y", "z", NUL, Nan, Inf, InvalidUTF8}

\* two and three frames; "xyz" does not fit into 16 bit integers
SomeMessages == {<< <<"a">>, <<"b", NUL, "c">> >>, << <<>>, <<"p">>, <<"x", "y">> >>,
                 << <<"a">>, <<"p">>, Filled(8, "z") >>, << <<"a">>, <<"p">>, <<"x", "y", "z">> >>}
=============================================================================
