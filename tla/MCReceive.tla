------------------------------ MODULE MCReceive ------------------------------
(* The instance of Receive for TLC. *)
EXTENDS Receive

Tuples(n) == [1..n -> {"empty", "data"}]

\* a ROUTER always sees an identity frame first; a publisher sends a filter
\* and at least one payload, whose contents no receiver looks at
AllShapes ==
  [Server     |-> {<<"data">> \o s : s \in Tuples(1) \cup Tuples(2) \cup Tuples(3)},
   Client     |-> {<<"empty">> \o s : s \in Tuples(1) \cup Tuples(2)} \cup Tuples(1),
   Subscriber |-> {[i \in 1..n |-> "data"] : n \in 2..4}]

\* the defaults, logging, all flags, and each way to reject an argument; 63 is
\* the largest int
SomeFlags == {10, 165, 310, 320, 0, -19, 5, 635, NaN, Infinity}

\* the setters differ in nothing but their names
Symmetry == Permutations(Setters)

SomeTemplates == {[ok |-> TRUE, keys |-> {"user"}], [ok |-> TRUE, keys |-> {IDENTITY_KEY}],
                  [ok |-> TRUE, keys |-> {"ts"}], [ok |-> FALSE, keys |-> {}]}
=============================================================================
