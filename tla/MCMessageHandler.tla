-------------------------- MODULE MCMessageHandler --------------------------
(* Instances of MessageHandler for TLC: up to four requests of two peers,   *)
(* with the verdict each of them gets.                                      *)
EXTENDS MessageHandler

CONSTANTS p1, p2

FourRequests == 1..4
TwoRequests  == {1, 2}
OneRequest   == {1}

Senders   == [r \in Requests |-> IF r % 2 = 0 THEN p2 ELSE p1]
OneSender == [r \in Requests |-> p1]
AllRun    == [r \in Requests |-> "run"]
Executed  == [r \in Requests |-> <<"run", "unprintable">>[r]]
Mixed     == [r \in Requests |-> <<"run", "reject", "refuse", "malformed">>[r]]
=============================================================================
