------------------------------ MODULE MCUpgrade ------------------------------
(* Three cards, whose ids are not in the order of their priorities.        *)
EXTENDS Upgrade

\* processes are interchangeable
Symmetry == Permutations(Runners)

MCCards == 1 .. 3
MCOld   == [backlog |-> <<2, 1>>, complete |-> <<3>>]
=============================================================================
