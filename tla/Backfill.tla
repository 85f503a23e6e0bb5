------------------------------ MODULE Backfill -------------------------------
(***************************************************************************)
(* scripts/backfill-rank.ts: gives the cards of an integer-priority board  *)
(* their ranks, lane by lane, each lane in a transaction of its own whose  *)
(* rows were read before it.                                               *)
(*                                                                         *)
(* The old program that may still move cards is external; it knows no      *)
(* ranks.  A lane is the sequence its rows have by (priority, id).  The    *)
(* keys of generateNKeysBetween(null, null, n) come one behind the other   *)
(* from the same first key whatever n is, and ascend (KeysNumberTheCards   *)
(* in RankLaneProofs): a rank is the number of its key.                    *)
(***************************************************************************)
EXTENDS Integers, FiniteSets, SequencesExt

CONSTANTS Cards, Old          \* the board before the upgrade

Lanes == DOMAIN Old
NoRank == 0

\* every card is in one place
ASSUME OldAssumption ==
  /\ IsFiniteSet(Cards) /\ Old \in [Lanes -> Seq(Cards)]
  /\ \A s, t \in Lanes : \A i \in DOMAIN Old[s], j \in DOMAIN Old[t] :
       Old[s][i] = Old[t][j] => s = t /\ i = j
  /\ \A c \in Cards : \E s \in Lanes : Contains(Old[s], c)

VARIABLES lane,     \* cards of each lane
          rank,     \* of each card; the column is added as NULL
          script,   \* the backfill
          moved     \* cards moved since it was last started

backfill == <<lane, rank, script, moved>>

Script(pc, todo, rows) == [pc |-> pc, todo |-> todo, rows |-> rows]

BackfillInit ==
  /\ lane = Old
  /\ rank = [c \in Cards |-> NoRank]
  /\ script = Script("off", {}, <<>>)
  /\ moved = {}

\* SELECT DISTINCT status; a run may follow one that failed
Begin ==
  /\ script.pc \in {"off", "failed"}
  /\ script' = Script("lane", {s \in Lanes : lane[s] # <<>>}, <<>>)
  /\ moved' = {}
  /\ UNCHANGED <<lane, rank>>

\* Variant: ORDER BY id.
RowsById(s) == SetToSortSeq(ToSet(lane[s]), <)

\* ORDER BY priority ASC, id ASC
Rows(s) == lane[s]

ReadLane ==
  /\ script.pc = "lane"
  /\ \E s \in script.todo : script' = Script("write", script.todo \ {s}, Rows(s))
  /\ UNCHANGED <<lane, rank, moved>>

\* Variant: leaves out the first key.
WriteLaneFromSecond ==
  /\ script.pc = "write"
  /\ rank' = [c \in Cards |-> IF Contains(script.rows, c)
                              THEN 1 + CHOOSE i \in DOMAIN script.rows : script.rows[i] = c
                              ELSE rank[c]]
  /\ script' = Script("lane", script.todo, <<>>)
  /\ UNCHANGED <<lane, moved>>

\* BEGIN, one UPDATE per row that was read, COMMIT
WriteLane ==
  /\ script.pc = "write"
  /\ rank' = [c \in Cards |-> IF Contains(script.rows, c)
                              THEN CHOOSE i \in DOMAIN script.rows : script.rows[i] = c
                              ELSE rank[c]]
  /\ script' = Script("lane", script.todo, <<>>)
  /\ UNCHANGED <<lane, moved>>

Finish ==
  /\ script.pc = "lane" /\ script.todo = {}
  /\ script' = Script("done", {}, <<>>)
  /\ UNCHANGED <<lane, rank, moved>>

\* a query throws, or the script is killed: the lane's transaction is undone
Breaks ==
  /\ script.pc \in {"lane", "write"}
  /\ script' = Script("failed", {}, <<>>)
  /\ UNCHANGED <<lane, rank, moved>>

\* the old program moves a card; the others keep their order
OldMove(c, s, slot) ==
  LET without == [t \in Lanes |-> RemoveFirst(lane[t], c)]
  IN  /\ slot \in 1 .. Len(without[s]) + 1
      /\ lane' = [without EXCEPT ![s] = InsertAt(@, slot, c)]
      /\ moved' = moved \cup {c}
      /\ UNCHANGED <<rank, script>>

\* whether UNIQUE (status, rank) can be added
RanksUnique ==
  \A s \in Lanes : \A i, j \in DOMAIN lane[s] :
     i # j /\ rank[lane[s][i]] # NoRank => rank[lane[s][i]] # rank[lane[s][j]]
=============================================================================
