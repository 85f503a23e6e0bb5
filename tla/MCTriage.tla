------------------------------ MODULE MCTriage -------------------------------
(* Two cards in the backlog, any of them urgent; two lanes.                *)
EXTENDS TriageLoop

CONSTANTS c1, c2

MCCards  == {c1, c2}
MCSeed   == [backlog |-> <<c1, c2>>, complete |-> <<>>]
MCEvents == [card : MCCards, version : 1 .. MaxMoves, to : {"backlog", "complete"}]
=============================================================================
