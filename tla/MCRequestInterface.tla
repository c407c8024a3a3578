------------------------- MODULE MCRequestInterface --------------------------
(* The instance of RequestInterface for TLC. *)
EXTENDS RequestInterface

\* all texts of up to 3 characters
ShortTexts == UNION {[1..n -> {"a", " ", CR}] : n \in 0..3} \cup {<<"TAB", "a", CR, "a", LF, CR>>}

\* nothing, half a line, a line
ShortHistories == {<<>>, <<"a">>, <<"a", CR>>}
=============================================================================
