------------------------------- MODULE MCBoard -------------------------------
(* Board over the keys of RankKeys, with every command there is for three  *)
(* cards and two lanes.                                                    *)
EXTENDS Board, MoveRequest, RankKeys, TLC

CONSTANTS c1, c2, c3, ghost, r1, r2, r3,
          MaxFraction,          \* bound: longest fraction of a rank
          MaxVersion            \* bound: highest version a command names

MCIds   == {c1, c2, c3, ghost}
MCCards == {c1, c2, c3}

\* requests are interchangeable: a request is any command
MCRequests == {r1, r2, r3}
Symmetry   == Permutations(MCRequests)

\* Every valid key with a fraction of at most MaxFraction digits.
MCRank ==
  {k \in UNION {[1 .. n -> -Heads .. Base] : n \in 2 .. 2 + MaxFraction} : IsOrderKey(k)}

Row3(s, k) == [status |-> s, rank |-> k, version |-> 0]

\* two neighbouring cards in one lane, the third in another: as in 0002_seed
MCSeed == (c1 :> Row3("backlog", <<0, 0>>)) @@ (c2 :> Row3("backlog", <<0, 1>>))
            @@ (c3 :> Row3("complete", <<0, 0>>))

\* bound: lanes that requests name
UsedLanes == {"same", "backlog", "complete"}

\* Every body moveCardBody accepts; slot 4 is behind the end of every lane.
MCCommands ==
  {cmd \in CommandsOf(MCIds, {1, 2, 4}, 0 .. MaxVersion) : cmd.lane \in UsedLanes}
=============================================================================
