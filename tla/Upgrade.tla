------------------------------- MODULE Upgrade -------------------------------
(***************************************************************************)
(* The upgrade of a board with integer priorities: the ranks are filled in *)
(* while the old program may still run (backfill-rank.ts:8-16), then the   *)
(* new one is deployed, whose processes all start with the migrations.     *)
(***************************************************************************)
EXTENDS Backfill, Migrations

CONSTANTS MaxMoves,    \* bound: moves of the old program
          MaxFaults    \* bound: scripts that break, runners that die

ASSUME UpgradeAssumption ==
  MaxMoves \in Nat /\ MaxFaults \in Nat /\ Files \in Nat \ {0} /\ Runners # {}

VARIABLES moves, faults

vars == <<backfill, migrations, moves, faults>>

Init == BackfillInit /\ MigrationsInit /\ moves = 0 /\ faults = 0

Fault == faults < MaxFaults /\ faults' = faults + 1

Deployed == \E r \in Runners : run[r].pc # "off"

BackfillStep ==
  /\ \/ (Begin \/ ReadLane \/ WriteLane \/ Finish) /\ UNCHANGED faults
     \/ Breaks /\ Fault
  /\ UNCHANGED <<migrations, moves>>

OldProgram ==
  /\ ~ Deployed /\ moves < MaxMoves /\ moves' = moves + 1
  /\ \E c \in Cards, s \in Lanes : \E slot \in 1 .. Cardinality(Cards) : OldMove(c, s, slot)
  /\ UNCHANGED <<migrations, faults>>

\* 0001_init.sql adds UNIQUE (status, rank) to the table it finds; the ids of
\* 0002_seed.sql are taken to be there, so that it inserts nothing
Possible(r) == run[r].file = 1 => RanksUnique

MigrateStep(r) ==
  /\ script.pc = "done"
  /\ \/ /\ \/ Migrate(r) \/ CreateJournal(r) \/ ReadJournal(r) \/ Skip(r)
           \/ Execute(r, Possible(r)) \/ Record(r) \/ CommitFile(r) \/ UpToDate(r)
        /\ UNCHANGED faults
     \/ (Killed(r) \/ Again(r)) /\ Fault
  /\ UNCHANGED <<backfill, moves>>

Next == BackfillStep \/ OldProgram \/ \E r \in Runners : MigrateStep(r)

Spec == Init /\ [][Next]_vars
-----------------------------------------------------------------------------
TypeOK ==
  /\ lane \in [Lanes -> Seq(Cards)] /\ rank \in [Cards -> 0 .. Cardinality(Cards)]
  /\ \A c \in Cards : Cardinality({s \in Lanes : Contains(lane[s], c)}) = 1
  /\ script \in [pc : {"off", "lane", "write", "done", "failed"}, todo : SUBSET Lanes,
                 rows : Seq(Cards)]
  /\ moved \subseteq Cards
  /\ journaled \in BOOLEAN /\ journal \subseteq 1 .. Files /\ effects \in Seq(1 .. Files)
  /\ run \in [Runners -> [pc : Phases, applied : SUBSET (1 .. Files), file : 0 .. Files + 1]]
  /\ moves \in 0 .. MaxMoves /\ faults \in 0 .. MaxFaults

\* However often the backfill broke before, once it is done the cards that
\* nobody moved while it ran have ranks, and these sort each lane as its
\* priorities did.
BackfillKeepsOrder ==
  script.pc = "done" =>
     \A s \in Lanes :
        /\ \A i \in DOMAIN lane[s] : lane[s][i] \notin moved => rank[lane[s][i]] # NoRank
        /\ \A i, j \in DOMAIN lane[s] :
             i < j /\ {lane[s][i], lane[s][j]} \cap moved = {}
               => rank[lane[s][i]] < rank[lane[s][j]]

\* However many processes start at once, die and start again, the files are
\* applied in lexical order and each exactly once (migrate.ts:2-4), a run that
\* reports success leaves none out, and unless a runner died or the old program
\* interfered, one of the runs that raced does report it.
FilesAppliedOnce ==
  /\ effects = [i \in 1 .. Len(effects) |-> i] /\ journal = ToSet(effects)
  /\ \A r \in Runners : run[r].pc = "done" => Len(effects) = Files
  /\ faults = 0 /\ moves = 0 /\ (\A r \in Runners : run[r].pc \in {"done", "failed"})
       => \E r \in Runners : run[r].pc = "done"
=============================================================================
