------------------------------- MODULE History -------------------------------
(***************************************************************************)
(* Igor Pro's history as HistoryGrabber.cpp reads it, and CleanupString     *)
(* (HelperFunctions.cpp).  A text is a sequence of characters; CR ends a    *)
(* paragraph.                                                               *)
(***************************************************************************)
EXTENDS Naturals, Sequences, SequencesExt, FiniteSets

CR == "CR"
LF == "LF"
Whitespace == {" ", "TAB", CR, LF}

\* the lines of the history: an empty one comes after the last CR
HistoryLines(h) == 1 + Cardinality({i \in DOMAIN h : h[i] = CR})

\* the position before the first character of line n, counted from 0
LineStart(h, n) ==
  IF n = 0 THEN 0
  ELSE CHOOSE i \in DOMAIN h : h[i] = CR /\ Cardinality({j \in 1..i : h[j] = CR}) = n

HistoryFetchText(h, startLine, endLine) ==
  SubSeq(h, LineStart(h, startLine) + 1, LineStart(h, endLine))

\* a text of white space only has no first or last other character, and is
\* not shortened
CleanupString(str) ==
  LET other == {i \in DOMAIN str : str[i] \notin Whitespace}
      first == CHOOSE i \in other : \A j \in other : i <= j
      last  == CHOOSE i \in other : \A j \in other : i >= j
      kept  == IF other = {} THEN str ELSE SubSeq(str, first, last)
  IN  [i \in DOMAIN kept |-> IF kept[i] = CR THEN LF ELSE kept[i]]

\* mutant: the line after the first one
GetHistoryUntilNowNextLine(before, now) ==
  IF HistoryLines(before) > HistoryLines(now) - 1 THEN <<>>
  ELSE CleanupString(HistoryFetchText(now, HistoryLines(before), HistoryLines(now) - 1))

\* the history since the grabber was created, when it was before; whole lines
GetHistoryUntilNow(before, now) ==
  CleanupString(HistoryFetchText(now, HistoryLines(before) - 1, HistoryLines(now) - 1))
=============================================================================
