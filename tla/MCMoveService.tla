---------------------------- MODULE MCMoveService ----------------------------
(* MoveService over the keys of RankKeys: two lanes, three cards, and sets *)
(* of commands that meet in the same rows and gaps.                        *)
EXTENDS MoveService, RankKeys, TLC

CONSTANTS c1, c2, c3, ghost, r1, r2, r3,
          MaxFraction           \* bound: longest fraction of a rank

MCCards == {c1, c2, c3}
MCIds   == {c1, c2, c3, ghost}

TwoRequests   == {r1, r2}
ThreeRequests == {r1, r2, r3}
Symmetry      == Permutations({r1, r2, r3} \cap Requests)

MCRank ==
  {k \in UNION {[1 .. n -> -Heads .. Base] : n \in 2 .. 2 + MaxFraction} : IsOrderKey(k)}

Row3(s, k) == [status |-> s, rank |-> k, version |-> 0]
MCSeed == (c1 :> Row3("backlog", <<0, 0>>)) @@ (c2 :> Row3("backlog", <<0, 1>>))
            @@ (c3 :> Row3("complete", <<0, 0>>))

Cmd(card, version, lane, place, ref, slot) ==
  [card |-> card, version |-> version, lane |-> lane, place |-> place,
   ref |-> ref, slot |-> slot]
After(card, version, lane, ref)  == Cmd(card, version, lane, "after", ref, 1)
BeforeRef(card, version, lane, ref) == Cmd(card, version, lane, "before", ref, 1)
ToSlot(card, version, lane, slot) == Cmd(card, version, lane, "slot", ghost, slot)
ToEnd(card, version, lane)       == Cmd(card, version, lane, "end", ghost, 1)

\* Every kind of place and of refusal; movers into the same gap, movers of a
\* neighbour of another's gap, the same card twice, a card after its move.
RaceCommands ==
  { After(c1, 0, "complete", c3),   BeforeRef(c2, 0, "complete", c3),
    ToSlot(c2, 0, "complete", 1),   ToEnd(c2, 0, "complete"),
    BeforeRef(c2, 0, "same", c1),   After(c1, 0, "same", c2),
    ToSlot(c3, 0, "backlog", 2),    After(c3, 0, "backlog", c1),
    ToEnd(c3, 0, "backlog"),        ToSlot(c1, 0, "same", 1),
    ToEnd(c1, 1, "complete"),       ToSlot(c2, 1, "backlog", 1),
    After(c1, 0, "same", c3),       BeforeRef(c1, 0, "same", c1),
    After(c2, 0, "same", ghost),    ToEnd(ghost, 0, "backlog") }

\* Three movers: a cycle of row locks, one gap, and the same card.
CrowdCommands ==
  { After(c1, 0, "same", c2), BeforeRef(c2, 0, "same", c1),
    ToSlot(c3, 0, "backlog", 2) }
=============================================================================
