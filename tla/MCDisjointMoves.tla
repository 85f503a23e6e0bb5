--------------------------- MODULE MCDisjointMoves ---------------------------
(* Two moves at the two ends of one lane of eight cards, with the keys that *)
(* generateNKeysBetween gives such a lane: one locks the first three rows,  *)
(* the other the last three, and nobody locks the two between them.         *)
EXTENDS MCMoveService

CONSTANTS c4, c5, c6, c7, c8

Lane == <<c1, c2, c3, c4, c5, c6, c7, c8>>

LaneCards == {Lane[i] : i \in DOMAIN Lane}
LaneIds   == LaneCards \cup {ghost}

KeyOf(i)  == GenerateNKeysBetween[Len(Lane)][<<NoKey, NoKey>>][i]
LaneSeed  == [c \in LaneCards |->
                Row3("backlog", KeyOf(CHOOSE i \in DOMAIN Lane : Lane[i] = c))]

EndsOfLane == {After(c1, 0, "same", c2), BeforeRef(c8, 0, "same", c7)}
=============================================================================
