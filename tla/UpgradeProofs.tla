---------------------------- MODULE UpgradeProofs ----------------------------
(***************************************************************************)
(* The migrations that race, for any number of processes and files, after  *)
(* a backfill of any board; and the backfill, whatever is moved meanwhile. *)
(***************************************************************************)
EXTENDS Upgrade, FiniteSetTheorems, SequenceTheorems, TLAPS

RunType == [Runners -> [pc : Phases, applied : SUBSET (1 .. Files), file : 0 .. Files + 1]]

Types ==
  /\ run \in RunType
  /\ journaled \in BOOLEAN
  /\ script.todo \subseteq Lanes
  /\ moves \in 0 .. MaxMoves /\ faults \in 0 .. MaxFaults

\* The files that were applied are the first ones, each once.
Ordered ==
  /\ effects \in Seq(Nat) /\ Len(effects) <= Files
  /\ effects = [i \in 1 .. Len(effects) |-> i]
  /\ journal = 1 .. Len(effects)

\* A runner knows of applied files only, comes to a file when those before it
\* are applied, and commits one only when nobody has or is about to.
Started(r) == run[r].pc \in {"file", "record", "commit", "done"}

Sound(r) ==
  /\ Started(r) => /\ run[r].applied \subseteq journal
                   /\ run[r].file \in 1 .. Files + 1
                   /\ 1 .. run[r].file - 1 \subseteq journal
  /\ run[r].pc \in {"record", "commit"} => run[r].file \in (1 .. Files) \ run[r].applied
  /\ run[r].pc = "commit" => run[r].file \notin journal
  /\ run[r].pc = "done" => run[r].file = Files + 1
  /\ Started(r) \/ run[r].pc = "list" => journaled

OneCommits ==
  \A q, r \in Runners : q # r /\ run[q].pc = "commit" /\ run[r].pc = "commit"
                          => run[q].file # run[r].file

\* A runner that nothing but its death can stop: no file it still wants to
\* apply was applied by another.
Survivor(r) ==
  \/ run[r].pc \in {"list", "done"}
  \/ /\ run[r].pc \in {"file", "record", "commit"}
     /\ \A k \in journal : k < run[r].file \/ k \in run[r].applied

Undisturbed == faults = 0 /\ moves = 0

SomeSurvive ==
  Undisturbed => /\ journaled => \E r \in Runners : Survivor(r)
                 /\ \A r \in Runners : run[r].pc = "failed" => journaled

\* The cards of a lane have the keys of their places.
Ranked(s) == \A i \in DOMAIN Old[s] : rank[Old[s][i]] = i

Backfilled ==
  moves = 0 =>
    /\ lane = Old
    /\ script.pc = "lane" => \A s \in Lanes : s \in script.todo \/ Ranked(s)
    /\ script.pc = "write" => \E t \in Lanes :
         /\ script.rows = Old[t]
         /\ \A s \in Lanes \ {t} : s \in script.todo \/ Ranked(s)
    /\ script.pc = "done" => \A s \in Lanes : Ranked(s)

Inv ==
  /\ Types /\ Ordered
  /\ \A r \in Runners : Sound(r)
  /\ OneCommits /\ SomeSurvive /\ Backfilled
  /\ rank = [c \in Cards |-> rank[c]]

-----------------------------------------------------------------------------
LEMMA InitInv == Init => Inv
<1> SUFFICES ASSUME Init PROVE Inv
  OBVIOUS
<1>1. Types
  <2>1. 0 \in 0 .. Files + 1 /\ 0 \in 0 .. MaxMoves /\ 0 \in 0 .. MaxFaults
    BY UpgradeAssumption
  <2>2. run \in RunType
    BY <2>1 DEF Init, MigrationsInit, Run, Phases, RunType
  <2> QED
    BY <2>1, <2>2 DEF Init, MigrationsInit, BackfillInit, Script, Types
<1>2. Ordered
  BY UpgradeAssumption DEF Init, MigrationsInit, Ordered
<1>3. Backfilled /\ rank = [c \in Cards |-> rank[c]]
  BY DEF Init, BackfillInit, Script, Backfilled
<1>4. \A r \in Runners : run[r].pc = "off"
  BY DEF Init, MigrationsInit, Run
<1>5. ~ journaled
  BY DEF Init, MigrationsInit
<1> QED
  BY <1>1, <1>2, <1>3, <1>4, <1>5 DEF Inv, Sound, Started, OneCommits, SomeSurvive

-----------------------------------------------------------------------------
(* The backfill.                                                           *)

\* Ranks that are the places of the cards differ within a lane.
LEMMA RankedIsUnique ==
  ASSUME lane = Old, \A s \in Lanes : Ranked(s)
  PROVE  RanksUnique
<1> SUFFICES ASSUME NEW s \in Lanes, NEW i \in DOMAIN Old[s], NEW j \in DOMAIN Old[s], i # j
             PROVE  rank[Old[s][i]] # rank[Old[s][j]]
  BY DEF RanksUnique
<1>1. rank[Old[s][i]] = i /\ rank[Old[s][j]] = j
  BY DEF Ranked
<1> QED
  BY <1>1

\* What is written for the rows of lane t gives it its places and leaves the
\* ranks of the other lanes alone.
LEMMA WriteRanks ==
  ASSUME NEW t \in Lanes, rank = [c \in Cards |-> rank[c]],
         rank' = [c \in Cards |-> IF Contains(Old[t], c)
                                  THEN CHOOSE i \in DOMAIN Old[t] : Old[t][i] = c
                                  ELSE rank[c]]
  PROVE  Ranked(t)' /\ \A s \in Lanes \ {t} : Ranked(s) => Ranked(s)'
<1>1. \A s \in Lanes : \A i \in DOMAIN Old[s] : Old[s][i] \in Cards
  BY OldAssumption
<1>2. \A c : Contains(Old[t], c) <=> \E i \in DOMAIN Old[t] : Old[t][i] = c
  <2>1. Old[t] \in Seq(Cards)
    BY OldAssumption
  <2> QED
    BY <2>1 DEF Contains
<1>3. \A i \in DOMAIN Old[t] : (CHOOSE j \in DOMAIN Old[t] : Old[t][j] = Old[t][i]) = i
  BY OldAssumption
<1>4. Ranked(t)'
  BY <1>1, <1>2, <1>3 DEF Ranked
<1>5. ASSUME NEW s \in Lanes \ {t}, Ranked(s)
      PROVE  Ranked(s)'
  <2>1. \A i \in DOMAIN Old[s] : ~ Contains(Old[t], Old[s][i])
    BY <1>2, OldAssumption
  <2> QED
    BY <1>1, <1>5, <2>1 DEF Ranked
<1> QED
  BY <1>4, <1>5

LEMMA BackfillKeeps ==
  ASSUME Inv, BackfillStep \/ OldProgram
  PROVE  Inv'
<1>1. UNCHANGED migrations
  BY DEF BackfillStep, OldProgram
<1>2. moves' \in 0 .. MaxMoves /\ faults' \in 0 .. MaxFaults /\ (moves' = 0 => moves = 0) /\ (faults' = 0 => faults = 0)
  BY UpgradeAssumption DEF BackfillStep, OldProgram, Fault, Inv, Types
<1>2a. script'.todo \subseteq Lanes
  <2>1. CASE OldProgram
    BY <2>1 DEF OldProgram, OldMove, Inv, Types
  <2>2. CASE Begin
    BY <2>2 DEF Begin, Script
  <2>3. CASE ReadLane
    <3>1. PICK t \in script.todo : script' = Script("write", script.todo \ {t}, Rows(t))
      BY <2>3 DEF ReadLane
    <3> QED
      BY <3>1 DEF Script, Inv, Types
  <2>4. CASE WriteLane \/ Finish \/ Breaks
    BY <2>4 DEF WriteLane, Finish, Breaks, Script, Inv, Types
  <2> QED
    BY <2>1, <2>2, <2>3, <2>4 DEF BackfillStep
<1>3. /\ Types' /\ Ordered' /\ OneCommits' /\ SomeSurvive'
      /\ \A r \in Runners : Sound(r)'
  BY <1>1, <1>2, <1>2a DEF migrations, Inv, Types, Ordered, Sound, Started, OneCommits,
                    SomeSurvive, Survivor, Undisturbed
<1>4. rank' = [c \in Cards |-> rank'[c]]
  BY DEF BackfillStep, OldProgram, Begin, ReadLane, WriteLane, Finish, Breaks, OldMove, Inv
<1>5. Backfilled'
  <2>1. SUFFICES ASSUME BackfillStep, moves = 0, moves' = 0
                 PROVE  Backfilled'
    <3>1. ASSUME OldProgram PROVE moves' # 0
      BY <3>1 DEF OldProgram, Inv, Types
    <3> QED
      BY <1>2, <3>1 DEF Backfilled
  <2>2. lane = Old
    BY <2>1 DEF Inv, Backfilled
  <2>3. CASE Begin
    BY <2>1, <2>2, <2>3 DEF Begin, Script, Backfilled, Ranked
  <2>4. CASE ReadLane
    <3>1. PICK t \in script.todo : script' = Script("write", script.todo \ {t}, lane[t])
      BY <2>4 DEF ReadLane, Rows
    <3>2. t \in Lanes
      BY <3>1 DEF Inv, Types
    <3>3. UNCHANGED <<lane, rank>> /\ \A s \in Lanes : s \in script.todo \/ Ranked(s)
      BY <2>1, <2>4 DEF ReadLane, Inv, Backfilled
    <3> QED
      BY <2>2, <3>1, <3>2, <3>3 DEF Script, Backfilled, Ranked
  <2>5. CASE WriteLane
    <3>1. PICK t \in Lanes : /\ script.rows = Old[t]
                            /\ \A s \in Lanes \ {t} : s \in script.todo \/ Ranked(s)
      BY <2>1, <2>5 DEF WriteLane, Inv, Backfilled
    <3>r. rank' = [c \in Cards |-> IF Contains(Old[t], c)
                                   THEN CHOOSE i \in DOMAIN Old[t] : Old[t][i] = c
                                   ELSE rank[c]]
      BY <2>5, <3>1 DEF WriteLane
    <3>k. rank = [c \in Cards |-> rank[c]]
      BY DEF Inv
    <3>2. Ranked(t)' /\ \A s \in Lanes \ {t} : Ranked(s) => Ranked(s)'
      BY ONLY <3>r, <3>k, WriteRanks
    <3> QED
      BY <2>2, <2>5, <3>1, <3>2 DEF WriteLane, Script, Backfilled
  <2>6. CASE Finish
    BY <2>1, <2>2, <2>6 DEF Finish, Script, Inv, Backfilled, Ranked
  <2>7. CASE Breaks
    BY <2>1, <2>2, <2>7 DEF Breaks, Script, Backfilled, Ranked
  <2> QED
    BY <2>1, <2>3, <2>4, <2>5, <2>6, <2>7 DEF BackfillStep
<1> QED
  BY <1>3, <1>4, <1>5 DEF Inv

-----------------------------------------------------------------------------
(* The runners.  A step of r changes the run of r alone.                    *)

Alone(r) ==
  /\ run' \in RunType
  /\ \A q \in Runners \ {r} : run'[q] = run[q]

\* A step of r by which no file is committed, and which leaves r sound and no
\* worse off, keeps the invariant.
LEMMA QuietStep ==
  ASSUME Inv, NEW r \in Runners, Alone(r), UNCHANGED <<backfill, moves, journal, effects>>,
         journaled' \in BOOLEAN, journaled => journaled', faults' \in 0 .. MaxFaults,
         faults' = 0 => faults = 0, Sound(r)',
         run'[r].pc = "commit" =>
            \A q \in Runners \ {r} : run[q].pc = "commit" => run[q].file # run'[r].file,
         Undisturbed' => /\ Survivor(r) => Survivor(r)'
                         /\ run'[r].pc = "failed" => journaled
                         /\ journaled' /\ ~ journaled => Survivor(r)'
  PROVE  Inv'
<1>1. Types' /\ Ordered' /\ Backfilled' /\ (rank = [c \in Cards |-> rank[c]])'
  BY DEF Inv, Types, Ordered, Backfilled, Ranked, Alone, backfill
<1>2. \A q \in Runners : Sound(q)'
  <2>1. ASSUME NEW q \in Runners \ {r} PROVE Sound(q)'
    BY DEF Inv, Sound, Started, Alone
  <2> QED
    BY <2>1
<1>3. OneCommits'
  BY DEF Inv, OneCommits, Alone
<1>4. SomeSurvive'
  <2>1. SUFFICES ASSUME Undisturbed' PROVE SomeSurvive'
    BY DEF SomeSurvive
  <2>2. Undisturbed /\ SomeSurvive
    BY <2>1 DEF Undisturbed, Inv
  <2>3. \A q \in Runners \ {r} : Survivor(q) => Survivor(q)'
    BY DEF Survivor, Alone
  <2>4. ASSUME journaled' PROVE \E q \in Runners : Survivor(q)'
    BY <2>1, <2>2, <2>3, <2>4 DEF SomeSurvive
  <2>5. \A q \in Runners : run'[q].pc = "failed" => journaled'
    BY <2>1, <2>2 DEF SomeSurvive, Alone
  <2> QED
    BY <2>4, <2>5 DEF SomeSurvive
<1> QED
  BY <1>1, <1>2, <1>3, <1>4 DEF Inv

\* Going to another statement.
LEMMA GoesTo ==
  ASSUME Types, NEW r \in Runners, NEW pc \in Phases, Goes(r, pc)
  PROVE  /\ Alone(r)
         /\ run'[r].pc = pc /\ run'[r].file = run[r].file /\ run'[r].applied = run[r].applied
BY DEF Types, RunType, Goes, Alone

\* The file a runner commits is the next one, and its runner needs no file that
\* was applied before.
LEMMA CommitKeeps ==
  ASSUME Inv, NEW r \in Runners, UNCHANGED <<backfill, moves, faults>>, CommitFile(r)
  PROVE  Inv'
<1> DEFINE n == Len(effects)
<1>1. n \in Nat /\ Files \in Nat /\ journal = 1 .. n
  BY UpgradeAssumption DEF Inv, Ordered
<1>2. /\ run[r].file \in 1 .. Files /\ run[r].file \notin journal
      /\ 1 .. run[r].file - 1 \subseteq journal /\ run[r].applied \subseteq journal /\ journaled
  BY DEF Inv, Sound, Started, CommitFile
<1>3. run[r].file = n + 1
  <2>1. run[r].file > n
    BY <1>1, <1>2
  <2>2. run[r].file - 1 <= n
    <3>1. CASE run[r].file = 1
      BY <1>1, <3>1
    <3>2. CASE run[r].file > 1
      <4>1. run[r].file - 1 \in 1 .. run[r].file - 1
        BY <1>2, <3>2
      <4> QED
        BY <1>1, <1>2, <4>1
    <3> QED
      BY <1>2, <3>1, <3>2
  <2> QED
    BY <1>1, <1>2, <2>1, <2>2
<1>4. journal' = 1 .. n + 1 /\ effects' = Append(effects, n + 1) /\ journaled' = journaled
  BY <1>1, <1>3 DEF CommitFile
<1>5. /\ Alone(r) /\ run'[r].pc = "file" /\ run'[r].file = n + 2
      /\ run'[r].applied = run[r].applied
  BY <1>1, <1>3 DEF CommitFile, Alone, Inv, Types, RunType, Phases
<1>6. Ordered'
  <2>1. effects \in Seq(Nat) /\ \A i \in 1 .. n : effects[i] = i
    BY DEF Inv, Ordered
  <2>2. effects' \in Seq(Nat) /\ Len(effects') = n + 1 /\ \A i \in 1 .. n + 1 : effects'[i] = i
    BY <1>1, <1>4, <2>1
  <2>3. effects' = [i \in 1 .. Len(effects') |-> i]
    BY <2>2
  <2> QED
    BY <1>1, <1>2, <1>3, <1>4, <2>2, <2>3 DEF Ordered
<1>7. ASSUME NEW q \in Runners PROVE Sound(q)'
  <2>1. CASE q = r
    BY <1>1, <1>2, <1>3, <1>4, <1>5, <2>1 DEF Sound, Started
  <2>2. CASE q # r
    <3>1. run'[q] = run[q] /\ Sound(q)
      BY <1>5, <2>2 DEF Alone, Inv
    <3>2. run[q].pc = "commit" => run[q].file # n + 1
      BY <1>3, <2>2 DEF Inv, OneCommits, CommitFile
    <3>3. journal' = journal \cup {n + 1}
      BY <1>1, <1>4
    <3> QED
      BY <1>4, <3>1, <3>2, <3>3 DEF Sound, Started
  <2> QED
    BY <2>1, <2>2
<1>8. OneCommits'
  BY <1>5 DEF OneCommits, Inv, Alone
<1>9. SomeSurvive'
  <2>1. Survivor(r)'
    BY <1>1, <1>4, <1>5 DEF Survivor
  <2>2. journaled'
    BY <1>2, <1>4
  <2> QED
    BY <2>1, <2>2 DEF SomeSurvive
<1>10. Types' /\ Backfilled' /\ (rank = [c \in Cards |-> rank[c]])'
  BY <1>4, <1>5 DEF Inv, Types, Backfilled, Ranked, Alone, backfill
<1> QED
  BY <1>6, <1>7, <1>8, <1>9, <1>10 DEF Inv

LEMMA MigrateKeeps ==
  ASSUME Inv, NEW r \in Runners, script.pc = "done", UNCHANGED <<backfill, moves>>,
         \/ /\ \/ Migrate(r) \/ CreateJournal(r) \/ ReadJournal(r) \/ Skip(r)
               \/ Execute(r, Possible(r)) \/ Record(r) \/ CommitFile(r) \/ UpToDate(r)
            /\ UNCHANGED faults
         \/ (Killed(r) \/ Again(r)) /\ Fault
  PROVE  Inv'
<1> USE DEF Phases
<1>t. Types /\ Sound(r)
  BY DEF Inv
<1>f. faults' \in 0 .. MaxFaults /\ (faults' = 0 => faults = 0)
  BY <1>t, UpgradeAssumption DEF Fault, Types
<1>1. CASE Migrate(r) \/ (Again(r) /\ Fault)
  <2>1. Goes(r, IF journaled THEN "list" ELSE "create") /\ UNCHANGED <<journaled, journal, effects>>
    BY <1>1 DEF Migrate, Again, Start
  <2>2. /\ Alone(r) /\ run'[r].pc = (IF journaled THEN "list" ELSE "create")
    BY <1>t, <2>1, GoesTo
  <2>3. Sound(r)'
    BY <2>1, <2>2 DEF Sound, Started
  <2>4. Undisturbed' => run[r].pc = "off"
    BY <1>1, <1>t DEF Migrate, Fault, Undisturbed, Types
  <2>5. Undisturbed' => ~ Survivor(r)
    BY <2>4 DEF Survivor
  <2> QED
    BY <1>t, <1>f, <2>1, <2>2, <2>3, <2>5, QuietStep DEF Types
<1>2. CASE CreateJournal(r)
  <2>1. CASE Goes(r, "list")
    <3>1. Alone(r) /\ run'[r].pc = "list"
      BY <1>t, <2>1, GoesTo
    <3>2. Sound(r)' /\ Survivor(r)'
      BY <1>2, <3>1 DEF CreateJournal, Sound, Started, Survivor
    <3> QED
      BY <1>2, <1>f, <3>1, <3>2, QuietStep DEF CreateJournal
  <2>2. CASE journaled /\ Goes(r, "failed")
    <3>1. Alone(r) /\ run'[r].pc = "failed"
      BY <1>t, <2>2, GoesTo
    <3>2. Sound(r)' /\ ~ Survivor(r)
      BY <1>2, <3>1 DEF CreateJournal, Sound, Started, Survivor
    <3> QED
      BY <1>2, <1>f, <2>2, <3>1, <3>2, QuietStep DEF CreateJournal
  <2> QED
    BY <1>2, <2>1, <2>2 DEF CreateJournal
<1>3. CASE ReadJournal(r)
  <2>1. /\ Alone(r) /\ run'[r].pc = "file" /\ run'[r].file = 1 /\ run'[r].applied = journal
    <3>1. journal \subseteq 1 .. Files /\ 1 \in 0 .. Files + 1
      BY UpgradeAssumption DEF Inv, Ordered
    <3> QED
      BY <1>3, <1>t, <3>1 DEF ReadJournal, Run, Alone, Types, RunType
  <2>2. Sound(r)'
    BY <1>3, <1>t, <2>1, UpgradeAssumption DEF ReadJournal, Sound, Started
  <2>3. Survivor(r)'
    BY <1>3, <2>1 DEF ReadJournal, Survivor
  <2> QED
    BY <1>3, <1>f, <1>t, <2>1, <2>2, <2>3, QuietStep DEF ReadJournal, Types
<1>4. CASE Skip(r)
  <2>1. /\ Alone(r) /\ run'[r].pc = "file" /\ run'[r].file = run[r].file + 1
        /\ run'[r].applied = run[r].applied
    <3>1. run[r].file + 1 \in 0 .. Files + 1
      BY <1>4, <1>t, UpgradeAssumption DEF Skip, Types, RunType
    <3> QED
      BY <1>4, <1>t, <3>1 DEF Skip, Alone, Types, RunType
  <2>2. run[r].file \in Nat /\ run[r].file \in journal
    BY <1>4, <1>t DEF Skip, Sound, Started, Types, RunType
  <2>3. journal \subseteq 1 .. Files /\ Files \in Nat
    BY UpgradeAssumption DEF Inv, Ordered
  <2>4. Sound(r)'
    BY <1>4, <1>t, <2>1, <2>2, <2>3 DEF Skip, Sound, Started
  <2>5. Survivor(r) => Survivor(r)'
    BY <1>4, <2>1, <2>2, <2>3 DEF Skip, Survivor
  <2> QED
    BY <1>4, <1>f, <1>t, <2>1, <2>4, <2>5, QuietStep DEF Skip, Types
<1>5. CASE Execute(r, Possible(r))
  <2>1. CASE Goes(r, "record")
    <3>1. /\ Alone(r) /\ run'[r].pc = "record" /\ run'[r].file = run[r].file
          /\ run'[r].applied = run[r].applied
      BY <1>t, <2>1, GoesTo
    <3>2. Sound(r)' /\ (Survivor(r) => Survivor(r)')
      BY <1>5, <1>t, <3>1 DEF Execute, Sound, Started, Survivor
    <3> QED
      BY <1>5, <1>f, <1>t, <3>1, <3>2, QuietStep DEF Execute, Types
  <2>2. CASE Goes(r, "failed") /\ (~ Possible(r) \/ run[r].file \in journal)
    <3>1. Alone(r) /\ run'[r].pc = "failed"
      BY <1>t, <2>2, GoesTo
    <3>2. Sound(r)'
      BY <3>1 DEF Sound, Started
    <3>3. journaled
      BY <1>5, <1>t DEF Execute, Sound, Started
    <3>4. Undisturbed' => RanksUnique
      BY <1>f, RankedIsUnique DEF Undisturbed, Inv, Backfilled
    <3>5. Undisturbed' => run[r].file \in journal
      BY <2>2, <3>4 DEF Possible
    <3>6. run[r].file \in Nat \ run[r].applied
      BY <1>5, <1>t DEF Execute, Types, RunType
    <3>7. Undisturbed' => ~ Survivor(r)
      BY <1>5, <3>5, <3>6 DEF Execute, Survivor
    <3> QED
      BY <1>5, <1>f, <1>t, <3>1, <3>2, <3>3, <3>7, QuietStep DEF Execute, Types
  <2> QED
    BY <1>5, <2>1, <2>2 DEF Execute
<1>6. CASE Record(r)
  <2>1. CASE run[r].file \in journal
    <3>1. Alone(r) /\ run'[r].pc = "failed"
      BY <1>6, <1>t, <2>1, GoesTo DEF Record
    <3>2. Sound(r)' /\ journaled
      BY <1>6, <1>t, <3>1 DEF Record, Sound, Started
    <3>3. ~ Survivor(r)
      BY <1>6, <1>t, <2>1 DEF Record, Survivor, Sound, Types, RunType
    <3> QED
      BY <1>6, <1>f, <1>t, <3>1, <3>2, <3>3, QuietStep DEF Record, Types
  <2>2. CASE run[r].file \notin journal
    <3>1. /\ Alone(r) /\ run'[r].pc = "commit" /\ run'[r].file = run[r].file
          /\ run'[r].applied = run[r].applied
      BY <1>6, <1>t, <2>2, GoesTo DEF Record
    <3>2. Sound(r)' /\ (Survivor(r) => Survivor(r)')
      BY <1>6, <1>t, <2>2, <3>1 DEF Record, Sound, Started, Survivor
    <3>3. \A q \in Runners \ {r} : run[q].pc = "commit" => run[q].file # run'[r].file
      BY <1>6, <3>1 DEF Record
    <3> QED
      BY <1>6, <1>f, <1>t, <3>1, <3>2, <3>3, QuietStep DEF Record, Types
  <2> QED
    BY <2>1, <2>2
<1>7. CASE CommitFile(r) /\ UNCHANGED faults
  BY <1>7, CommitKeeps
<1>8. CASE UpToDate(r)
  <2>1. /\ Alone(r) /\ run'[r].pc = "done" /\ run'[r].file = run[r].file
        /\ run'[r].applied = run[r].applied
    BY <1>8, <1>t, GoesTo DEF UpToDate
  <2>2. Sound(r)' /\ Survivor(r)'
    BY <1>8, <1>t, <2>1, UpgradeAssumption DEF UpToDate, Sound, Started, Survivor
  <2> QED
    BY <1>8, <1>f, <1>t, <2>1, <2>2, QuietStep DEF UpToDate, Types
<1>9. CASE Killed(r) /\ Fault
  <2>1. Alone(r) /\ run'[r].pc = "failed" /\ UNCHANGED <<journaled, journal, effects>>
    BY <1>9, <1>t, GoesTo DEF Killed
  <2>2. Sound(r)' /\ ~ Undisturbed'
    BY <1>9, <1>t, <2>1 DEF Fault, Sound, Started, Undisturbed, Types
  <2> QED
    BY <1>f, <1>t, <2>1, <2>2, QuietStep DEF Types
<1> QED
  BY <1>1, <1>2, <1>3, <1>4, <1>5, <1>6, <1>7, <1>8, <1>9

LEMMA NextInv == Inv /\ [Next]_vars => Inv'
<1> SUFFICES ASSUME Inv, [Next]_vars PROVE Inv'
  OBVIOUS
<1>1. CASE BackfillStep \/ OldProgram
  BY <1>1, BackfillKeeps
<1>2. ASSUME NEW r \in Runners, MigrateStep(r) PROVE Inv'
  BY <1>2, MigrateKeeps DEF MigrateStep
<1>3. CASE UNCHANGED vars
  BY <1>3 DEF vars, backfill, migrations, Inv, Types, Ordered, Sound, Started, OneCommits,
              SomeSurvive, Survivor, Undisturbed, Backfilled, Ranked
<1> QED
  BY <1>1, <1>2, <1>3 DEF Next

LEMMA InvHolds == Spec => []Inv
<1> QED
  BY InitInv, NextInv, PTL DEF Spec

-----------------------------------------------------------------------------
\* Of any number of processes that start together, whatever dies and starts
\* again, the migrations of migrate.ts apply any number of files in order and
\* once each; none reports success too early, and without a death one of them
\* does report it.
THEOREM MigrationsApplyOnce == Spec => []FilesAppliedOnce
<1>1. ASSUME Inv PROVE FilesAppliedOnce
  <2>1. effects \in Seq(Nat) /\ effects = [i \in 1 .. Len(effects) |-> i]
        /\ journal = 1 .. Len(effects) /\ Len(effects) \in 0 .. Files /\ Files \in Nat
    BY <1>1, UpgradeAssumption DEF Inv, Ordered
  <2>2. journal = ToSet(effects)
    BY <2>1 DEF ToSet
  <2>3. ASSUME NEW r \in Runners, run[r].pc = "done" PROVE Len(effects) = Files
    <3>1. Files \in 1 .. Len(effects)
      <4>1. Files \in 1 .. Files /\ 1 .. Files \subseteq journal
        BY <1>1, <2>3, UpgradeAssumption DEF Inv, Sound, Started
      <4> QED
        BY <2>1, <4>1
    <3>2. Len(effects) \in Nat /\ Len(effects) <= Files /\ Files \in Nat
      BY <2>1
    <3> QED
      BY <3>1, <3>2
  <2>4. ASSUME faults = 0, moves = 0, \A r \in Runners : run[r].pc \in {"done", "failed"}
        PROVE  \E r \in Runners : run[r].pc = "done"
    <3>0. PICK r \in Runners : run[r].pc \in {"done", "failed"}
      BY <2>4, UpgradeAssumption
    <3>1. journaled
      <4>1. CASE run[r].pc = "done"
        BY <1>1, <4>1 DEF Inv, Sound, Started
      <4>2. CASE run[r].pc = "failed"
        BY <1>1, <2>4, <4>2 DEF Inv, SomeSurvive, Undisturbed
      <4> QED
        BY <3>0, <4>1, <4>2
    <3>2. PICK q \in Runners : Survivor(q)
      BY <1>1, <2>4, <3>1 DEF Inv, SomeSurvive, Undisturbed
    <3> QED
      BY <2>4, <3>2 DEF Survivor
  <2> QED
    BY <2>1, <2>2, <2>3, <2>4 DEF FilesAppliedOnce
<1> QED
  BY <1>1, InvHolds, PTL
-----------------------------------------------------------------------------
(* Lists without duplicates, as the old program changes them.              *)

Precedes(q, a, b) == \E i, j \in 1 .. Len(q) : i < j /\ q[i] = a /\ q[j] = b

\* A list without one of its elements: the others keep their order.
LEMMA ListWithout ==
  ASSUME NEW C, NEW q \in Seq(C), IsInjective(q), NEW c, NEW r, r = RemoveFirst(q, c)
  PROVE  /\ r \in Seq(C) /\ IsInjective(r) /\ ~ Contains(r, c)
         /\ \A d : d # c => (Contains(r, d) <=> Contains(q, d))
         /\ \A a, b : Precedes(r, a, b) => Precedes(q, a, b)
<1>1. CASE ~ Contains(q, c)
  <2>1. r = q
    BY <1>1 DEF Contains, RemoveFirst
  <2> QED
    BY <1>1, <2>1
<1>2. CASE Contains(q, c)
  <2>1. PICK i \in 1 .. Len(q) : q[i] = c
    BY <1>2 DEF Contains
  <2> DEFINE x == SubSeq(q, 1, i - 1)
             y == SubSeq(q, i + 1, Len(q))
             n == Len(q)
             At(j) == IF j < i THEN j ELSE j + 1
  <2>2. \A j, k \in 1 .. n : q[j] = q[k] => j = k
    BY DEF IsInjective
  <2>3. r = x \o y
    <3>1. {j \in 1 .. Len(q) : q[j] = c} = {i}
      BY <2>1, <2>2
    <3>2. Min({i}) = i
      BY DEF Min
    <3> QED
      BY <2>1, <3>1, <3>2 DEF RemoveFirst, RemoveAt, SelectInSeq
  <2>4. /\ x \in Seq(C) /\ Len(x) = i - 1 /\ \A j \in 1 .. i - 1 : x[j] = q[j]
        /\ y \in Seq(C) /\ Len(y) = n - i /\ \A j \in 1 .. n - i : y[j] = q[i + j]
    <3>1. x \in Seq(C) /\ Len(x) = i - 1
      OBVIOUS
    <3>2. y \in Seq(C) /\ Len(y) = n - i
      OBVIOUS
    <3>3. \A j \in 1 .. i - 1 : x[j] = q[j]
      OBVIOUS
    <3>4. \A j \in 1 .. n - i : y[j] = q[i + j]
      OBVIOUS
    <3> QED
      BY <3>1, <3>2, <3>3, <3>4
  <2>5. n \in Nat /\ i \in 1 .. n
    OBVIOUS
  <2> HIDE DEF x, y, n
  <2>6. /\ r \in Seq(C) /\ Len(r) = Len(x) + Len(y)
        /\ \A j \in 1 .. Len(x) + Len(y) : r[j] = IF j <= Len(x) THEN x[j] ELSE y[j - Len(x)]
    BY <2>3, <2>4, ConcatProperties
  <2>7. Len(x) + Len(y) = n - 1
    BY <2>4, <2>5
  <2>8. ASSUME NEW j \in 1 .. n - 1
        PROVE  r[j] = q[At(j)] /\ At(j) \in 1 .. n /\ At(j) # i
    <3>1. At(j) \in 1 .. n /\ At(j) # i
      BY <2>5
    <3>2. CASE j < i
      BY <2>4, <2>5, <2>6, <2>7, <3>2
    <3>3. CASE ~ (j < i)
      <4>1. r[j] = y[j - (i - 1)]
        BY <2>4, <2>5, <2>6, <2>7, <3>3
      <4>2. j - (i - 1) \in 1 .. n - i /\ i + (j - (i - 1)) = j + 1
        BY <2>5, <3>3
      <4> QED
        BY <2>4, <3>1, <3>3, <4>1, <4>2
    <3> QED
      BY <3>1, <3>2, <3>3
  <2>9. r \in Seq(C) /\ Len(r) = n - 1
    BY <2>6, <2>7
  <2>9a. \A j, k \in 1 .. n - 1 : j < k => At(j) < At(k)
    BY <2>5
  <2>9b. \A j, k \in 1 .. n - 1 : At(j) = At(k) => j = k
    BY <2>5
  <2>10. \A k \in 1 .. n : k # i => \E j \in 1 .. n - 1 : At(j) = k
    <3> SUFFICES ASSUME NEW k \in 1 .. n, k # i PROVE \E j \in 1 .. n - 1 : At(j) = k
      OBVIOUS
    <3>1. CASE k < i
      BY <2>5, <3>1
    <3>2. CASE k > i
      <4>1. k - 1 \in 1 .. n - 1 /\ At(k - 1) = k
        BY <2>5, <3>2
      <4> QED
        BY <4>1
    <3> QED
      BY <2>5, <3>1, <3>2
  <2> HIDE DEF At
  <2>11. IsInjective(r)
    <3> SUFFICES ASSUME NEW j \in 1 .. n - 1, NEW k \in 1 .. n - 1, r[j] = r[k]
                 PROVE  j = k
      BY <2>9 DEF IsInjective
    <3> QED
      BY <2>2, <2>8, <2>9b
  <2>12. ~ Contains(r, c)
    <3>1. ASSUME NEW j \in 1 .. n - 1 PROVE r[j] # c
      BY <2>1, <2>2, <2>5, <2>8 DEF n
    <3> QED
      BY <2>9, <3>1 DEF Contains
  <2>13. \A d : d # c => (Contains(r, d) <=> Contains(q, d))
    <3> SUFFICES ASSUME NEW d, d # c
                 PROVE  Contains(r, d) <=> Contains(q, d)
      OBVIOUS
    <3>1. ASSUME Contains(r, d) PROVE Contains(q, d)
      <4>1. PICK j \in 1 .. n - 1 : r[j] = d
        BY <2>9, <3>1 DEF Contains
      <4>2. q[At(j)] = d /\ At(j) \in 1 .. Len(q)
        BY <2>8, <4>1 DEF n
      <4> QED
        BY <4>2 DEF Contains
    <3>2. ASSUME Contains(q, d) PROVE Contains(r, d)
      <4>1. PICK k \in 1 .. n : q[k] = d
        BY <3>2 DEF Contains, n
      <4>2. k # i
        BY <2>1, <4>1
      <4>3. PICK j \in 1 .. n - 1 : At(j) = k
        BY <2>10, <4>2
      <4>4. r[j] = d
        BY <2>8, <4>1, <4>3
      <4> QED
        BY <2>9, <4>4 DEF Contains
    <3> QED
      BY <3>1, <3>2
  <2>14. \A a, b : Precedes(r, a, b) => Precedes(q, a, b)
    <3> SUFFICES ASSUME NEW a, NEW b, Precedes(r, a, b)
                 PROVE  Precedes(q, a, b)
      OBVIOUS
    <3>1. PICK j \in 1 .. n - 1 : \E k \in 1 .. n - 1 : j < k /\ r[j] = a /\ r[k] = b
      BY <2>9 DEF Precedes
    <3>2. PICK k \in 1 .. n - 1 : j < k /\ r[j] = a /\ r[k] = b
      BY <3>1
    <3>3. At(j) < At(k)
      BY <2>9a, <3>2
    <3>4. q[At(j)] = a /\ q[At(k)] = b /\ At(j) \in 1 .. Len(q) /\ At(k) \in 1 .. Len(q)
      BY <2>8, <3>2 DEF n
    <3> QED
      BY <3>3, <3>4 DEF Precedes
  <2> QED
    BY <2>9, <2>11, <2>12, <2>13, <2>14
<1> QED
  BY <1>1, <1>2

\* A list with one more element: the others keep their order.
LEMMA ListWith ==
  ASSUME NEW C, NEW q \in Seq(C), IsInjective(q), NEW c \in C, ~ Contains(q, c),
         NEW slot \in 1 .. Len(q) + 1, NEW r, r = InsertAt(q, slot, c)
  PROVE  /\ r \in Seq(C) /\ IsInjective(r) /\ Contains(r, c)
         /\ \A d : d # c => (Contains(r, d) <=> Contains(q, d))
         /\ \A a, b : a # c /\ b # c /\ Precedes(r, a, b) => Precedes(q, a, b)
<1> DEFINE x == SubSeq(q, 1, slot - 1)
           y == SubSeq(q, slot, Len(q))
           m == <<c>>
           xm == x \o m
           n == Len(q)
           At(j) == IF j < slot THEN j ELSE j - 1
<1>1. r = xm \o y
  BY DEF InsertAt
<1>2. x \in Seq(C) /\ Len(x) = slot - 1
  OBVIOUS
<1>3. y \in Seq(C) /\ Len(y) = n - slot + 1
  OBVIOUS
<1>4. \A j \in 1 .. slot - 1 : x[j] = q[j]
  OBVIOUS
<1>5. \A j \in 1 .. n - slot + 1 : y[j] = q[slot + j - 1]
  OBVIOUS
<1>6. m \in Seq(C) /\ Len(m) = 1 /\ m[1] = c
  OBVIOUS
<1>7. n \in Nat /\ slot \in 1 .. n + 1 /\ \A j, k \in 1 .. n : q[j] = q[k] => j = k
  BY DEF IsInjective
<1>8. \A j \in 1 .. n : q[j] # c
  BY DEF Contains
<1> HIDE DEF x, y, m, n
<1>9. /\ xm \in Seq(C) /\ Len(xm) = Len(x) + Len(m)
      /\ \A j \in 1 .. Len(x) + Len(m) : xm[j] = IF j <= Len(x) THEN x[j] ELSE m[j - Len(x)]
  BY <1>2, <1>6, ConcatProperties
<1> HIDE DEF xm
<1>9a. Len(xm) = slot /\ xm[slot] = c /\ \A j \in 1 .. slot - 1 : xm[j] = x[j]
  <2>1. Len(x) = slot - 1 /\ slot \in Nat /\ slot >= 1
    BY <1>2, <1>7
  <2>2. Len(x) + Len(m) = slot
    BY <1>6, <2>1
  <2>3. slot \in 1 .. slot /\ ~ (slot <= Len(x)) /\ slot - Len(x) = 1
    BY <2>1
  <2>4. xm[slot] = m[1]
    BY <1>9, <2>2, <2>3
  <2>5. ASSUME NEW j \in 1 .. slot - 1 PROVE xm[j] = x[j]
    <3>1. j \in 1 .. slot /\ j <= Len(x)
      BY <2>1
    <3> QED
      BY <1>9, <2>2, <3>1
  <2> QED
    BY <1>6, <1>9, <2>2, <2>4, <2>5
<1>9b. xm \in Seq(C)
  BY <1>9
<1>10. /\ r \in Seq(C) /\ Len(r) = Len(xm) + Len(y)
       /\ \A j \in 1 .. Len(xm) + Len(y) : r[j] = IF j <= Len(xm) THEN xm[j] ELSE y[j - Len(xm)]
  BY ONLY <1>1, <1>3, <1>9b, ConcatProperties
<1>11. Len(xm) = slot /\ Len(r) = n + 1
  BY <1>3, <1>7, <1>9a, <1>10
<1>11a. \A j \in 1 .. n + 1 : r[j] = IF j <= slot THEN xm[j] ELSE y[j - slot]
  BY <1>10, <1>11
<1>12. r[slot] = c
  BY <1>7, <1>9a, <1>11a
<1>13. ASSUME NEW j \in 1 .. n + 1, j # slot
       PROVE  r[j] = q[At(j)] /\ At(j) \in 1 .. n
  <2>1. At(j) \in 1 .. n
    BY <1>7, <1>13
  <2>2. CASE j < slot
    <3>1. r[j] = xm[j] /\ xm[j] = x[j]
      BY <1>7, <1>9a, <1>11a, <2>2
    <3> QED
      BY <1>4, <1>7, <2>1, <2>2, <3>1
  <2>3. CASE j > slot
    <3>1. r[j] = y[j - slot]
      BY <1>7, <1>11a, <2>3
    <3>2. j - slot \in 1 .. n - slot + 1 /\ slot + (j - slot) - 1 = j - 1
      BY <1>7, <2>3
    <3> QED
      BY <1>5, <1>7, <2>1, <2>3, <3>1, <3>2
  <2> QED
    BY <1>7, <1>13, <2>2, <2>3
<1>14. \A j, k \in 1 .. n + 1 : j # slot /\ k # slot /\ j < k => At(j) < At(k)
  BY <1>7
<1>14a. \A j, k \in 1 .. n + 1 : j # slot /\ k # slot /\ At(j) = At(k) => j = k
  BY <1>7
<1>15. \A k \in 1 .. n : \E j \in 1 .. n + 1 : j # slot /\ At(j) = k
  <2> SUFFICES ASSUME NEW k \in 1 .. n PROVE \E j \in 1 .. n + 1 : j # slot /\ At(j) = k
    OBVIOUS
  <2>1. CASE k < slot
    BY <1>7, <2>1
  <2>2. CASE k >= slot
    <3>1. k + 1 \in 1 .. n + 1 /\ k + 1 # slot /\ At(k + 1) = k
      BY <1>7, <2>2
    <3> QED
      BY <3>1
  <2> QED
    BY <1>7, <2>1, <2>2
<1>16. slot \in 1 .. n + 1
  BY <1>7
<1> HIDE DEF At
<1>17. IsInjective(r)
  <2> SUFFICES ASSUME NEW j \in 1 .. n + 1, NEW k \in 1 .. n + 1, r[j] = r[k]
               PROVE  j = k
    BY <1>11 DEF IsInjective
  <2>1. CASE j # slot /\ k # slot
    BY <1>7, <1>13, <1>14a, <2>1
  <2>2. CASE j = slot \/ k = slot
    BY <1>8, <1>12, <1>13, <2>2
  <2> QED
    BY <2>1, <2>2
<1>18. Contains(r, c)
  BY <1>11, <1>12, <1>16 DEF Contains
<1>19. \A d : d # c => (Contains(r, d) <=> Contains(q, d))
  <2> SUFFICES ASSUME NEW d, d # c
               PROVE  Contains(r, d) <=> Contains(q, d)
    OBVIOUS
  <2>1. ASSUME Contains(r, d) PROVE Contains(q, d)
    <3>1. PICK j \in 1 .. n + 1 : r[j] = d
      BY <1>11, <2>1 DEF Contains
    <3>2. j # slot
      BY <1>12, <3>1
    <3>3. q[At(j)] = d /\ At(j) \in 1 .. Len(q)
      BY <1>13, <3>1, <3>2 DEF n
    <3> QED
      BY <3>3 DEF Contains
  <2>2. ASSUME Contains(q, d) PROVE Contains(r, d)
    <3>1. PICK k \in 1 .. n : q[k] = d
      BY <2>2 DEF Contains, n
    <3>2. PICK j \in 1 .. n + 1 : j # slot /\ At(j) = k
      BY <1>15
    <3>3. r[j] = d
      BY <1>13, <3>1, <3>2
    <3> QED
      BY <1>11, <3>3 DEF Contains
  <2> QED
    BY <2>1, <2>2
<1>20. \A a, b : a # c /\ b # c /\ Precedes(r, a, b) => Precedes(q, a, b)
  <2> SUFFICES ASSUME NEW a, NEW b, a # c, b # c, Precedes(r, a, b)
               PROVE  Precedes(q, a, b)
    OBVIOUS
  <2>1. PICK j \in 1 .. n + 1 : \E k \in 1 .. n + 1 : j < k /\ r[j] = a /\ r[k] = b
    BY <1>11 DEF Precedes
  <2>2. PICK k \in 1 .. n + 1 : j < k /\ r[j] = a /\ r[k] = b
    BY <2>1
  <2>3. j # slot /\ k # slot
    BY <1>12, <2>2
  <2>4. At(j) < At(k)
    BY <1>14, <2>2, <2>3
  <2>5. q[At(j)] = a /\ q[At(k)] = b /\ At(j) \in 1 .. Len(q) /\ At(k) \in 1 .. Len(q)
    BY <1>13, <2>2, <2>3 DEF n
  <2> QED
    BY <2>4, <2>5 DEF Precedes
<1> QED
  BY <1>10, <1>17, <1>18, <1>19, <1>20

-----------------------------------------------------------------------------
(* The backfill while the old program moves cards.                          *)

OneLane(c) ==
  \E s \in Lanes : Contains(lane[s], c) /\ \A t \in Lanes : Contains(lane[t], c) => t = s

Table ==
  /\ lane \in [Lanes -> Seq(Cards)] /\ \A s \in Lanes : IsInjective(lane[s])
  /\ \A c \in Cards : OneLane(c)
  /\ rank \in [Cards -> 0 .. Cardinality(Cards)] /\ moved \subseteq Cards
  /\ script \in [pc : {"off", "lane", "write", "done", "failed"}, todo : SUBSET Lanes,
                 rows : Seq(Cards)]
  /\ script.pc = "write" => IsInjective(script.rows)

\* The cards of a lane that nobody moved have ranks in the order of the lane ...
InOrder(s) ==
  /\ \A a \in Cards \ moved : Contains(lane[s], a) => rank[a] # NoRank
  /\ \A a, b \in Cards \ moved : Precedes(lane[s], a, b) => rank[a] < rank[b]

\* ... or are, in this order, the ones among the rows that were read.
RowsOf(t) ==
  /\ \A a \in Cards \ moved : Contains(lane[t], a) <=> Contains(script.rows, a)
  /\ \A a, b \in Cards \ moved : Precedes(lane[t], a, b) => Precedes(script.rows, a, b)

Filling ==
  /\ script.pc = "lane" => \A s \in Lanes : s \in script.todo \/ InOrder(s)
  /\ script.pc = "write" => \E t \in Lanes :
       RowsOf(t) /\ \A s \in Lanes \ {t} : s \in script.todo \/ InOrder(s)
  /\ script.pc = "done" => \A s \in Lanes : InOrder(s)

LaneInv == Table /\ Filling

LEMMA InitLaneInv == Init => LaneInv
<1> SUFFICES ASSUME Init PROVE LaneInv
  OBVIOUS
<1>1. /\ lane = Old /\ rank = [c \in Cards |-> 0] /\ moved = {}
      /\ script = [pc |-> "off", todo |-> {}, rows |-> <<>>]
  BY DEF Init, BackfillInit, Script, NoRank
<1>2. rank \in [Cards -> 0 .. Cardinality(Cards)]
  <2>1. 0 \in 0 .. Cardinality(Cards)
    BY OldAssumption, FS_CardinalityType
  <2> QED
    BY <1>1, <2>1
<1>3. \A s \in Lanes : IsInjective(Old[s])
  BY OldAssumption DEF IsInjective
<1>4. ASSUME NEW c \in Cards PROVE OneLane(c)
  <2>0. \A t \in Lanes : Contains(Old[t], c) <=> \E j \in DOMAIN Old[t] : Old[t][j] = c
    <3>1. \A t \in Lanes : Old[t] \in Seq(Cards)
      BY OldAssumption
    <3> QED
      BY <3>1 DEF Contains
  <2>1. PICK s \in Lanes : Contains(Old[s], c)
    BY OldAssumption
  <2>2. PICK i \in DOMAIN Old[s] : Old[s][i] = c
    BY <2>0, <2>1
  <2>3. ASSUME NEW t \in Lanes, Contains(Old[t], c) PROVE t = s
    <3>1. PICK j \in DOMAIN Old[t] : Old[t][j] = c
      BY <2>0, <2>3
    <3> QED
      BY <2>2, <3>1, OldAssumption
  <2> QED
    BY <1>1, <2>1, <2>3 DEF OneLane
<1>5. lane \in [Lanes -> Seq(Cards)]
  BY <1>1, OldAssumption
<1>6. Table
  BY <1>1, <1>2, <1>3, <1>4, <1>5 DEF Table
<1> QED
  BY <1>1, <1>6 DEF LaneInv, Filling

\* A move takes its card from one lane to one place; for the cards that nobody
\* moved all stays as it was.
LEMMA OldMoveKeeps ==
  ASSUME LaneInv, NEW c \in Cards, NEW s \in Lanes, NEW slot, OldMove(c, s, slot)
  PROVE  LaneInv'
<1> DEFINE without == [t \in Lanes |-> RemoveFirst(lane[t], c)]
<1>1. /\ slot \in 1 .. Len(without[s]) + 1
      /\ lane' = [without EXCEPT ![s] = InsertAt(@, slot, c)]
      /\ moved' = moved \cup {c} /\ rank' = rank /\ script' = script
  BY DEF OldMove
<1>2. ASSUME NEW t \in Lanes
      PROVE  /\ without[t] \in Seq(Cards) /\ IsInjective(without[t]) /\ ~ Contains(without[t], c)
             /\ \A d : d # c => (Contains(without[t], d) <=> Contains(lane[t], d))
             /\ \A a, b : Precedes(without[t], a, b) => Precedes(lane[t], a, b)
  <2>1. lane[t] \in Seq(Cards) /\ IsInjective(lane[t])
    BY DEF LaneInv, Table
  <2>2. without[t] = RemoveFirst(lane[t], c)
    OBVIOUS
  <2> QED
    BY <2>1, <2>2, ListWithout
<1>3. without = [t \in Lanes |-> without[t]]
  OBVIOUS
<1> HIDE DEF without
<1>4. lane' = [t \in Lanes |-> IF t = s THEN InsertAt(without[s], slot, c) ELSE without[t]]
  BY <1>1, <1>3
<1>5. /\ lane'[s] \in Seq(Cards) /\ IsInjective(lane'[s]) /\ Contains(lane'[s], c)
      /\ \A d : d # c => (Contains(lane'[s], d) <=> Contains(without[s], d))
      /\ \A a, b : a # c /\ b # c /\ Precedes(lane'[s], a, b) => Precedes(without[s], a, b)
  <2>1. lane'[s] = InsertAt(without[s], slot, c)
    BY <1>4
  <2>2. without[s] \in Seq(Cards) /\ IsInjective(without[s]) /\ ~ Contains(without[s], c)
    BY <1>2
  <2> QED
    BY <1>1, <2>1, <2>2, ListWith
<1>6. \A t \in Lanes \ {s} : lane'[t] = without[t]
  BY <1>4
<1>7. ASSUME NEW t \in Lanes
      PROVE  /\ lane'[t] \in Seq(Cards) /\ IsInjective(lane'[t]) /\ (Contains(lane'[t], c) <=> t = s)
             /\ \A d : d # c => (Contains(lane'[t], d) <=> Contains(lane[t], d))
             /\ \A a, b : a # c /\ b # c /\ Precedes(lane'[t], a, b) => Precedes(lane[t], a, b)
  <2>1. CASE t = s
    <3>1. \A d : d # c => (Contains(without[s], d) <=> Contains(lane[s], d))
      BY <1>2
    <3>2. \A a, b : Precedes(without[s], a, b) => Precedes(lane[s], a, b)
      BY <1>2
    <3> QED
      BY <1>5, <2>1, <3>1, <3>2
  <2>2. CASE t # s
    <3>1. lane'[t] = without[t]
      BY <1>6, <2>2
    <3> QED
      BY <1>2, <2>2, <3>1
  <2> QED
    BY <2>1, <2>2
<1>8. Table'
  <2>1. lane' \in [Lanes -> Seq(Cards)]
    <3>1. lane' = [t \in Lanes |-> lane'[t]]
      BY <1>4
    <3> QED
      BY <1>7, <3>1
  <2>2. ASSUME NEW d \in Cards PROVE OneLane(d)'
    <3>1. CASE d = c
      BY <1>7, <3>1 DEF OneLane
    <3>2. CASE d # c
      <4>1. PICK t \in Lanes : Contains(lane[t], d) /\ \A u \in Lanes : Contains(lane[u], d) => u = t
        BY DEF LaneInv, Table, OneLane
      <4>2. \A u \in Lanes : Contains(lane'[u], d) <=> Contains(lane[u], d)
        BY <1>7, <3>2
      <4> QED
        BY <4>1, <4>2 DEF OneLane
    <3> QED
      BY <3>1, <3>2
  <2>3. \A t \in Lanes : IsInjective(lane'[t])
    BY <1>7
  <2>4. moved' \subseteq Cards /\ UNCHANGED <<rank, script>>
    BY <1>1 DEF LaneInv, Table
  <2> QED
    BY <2>1, <2>2, <2>3, <2>4 DEF LaneInv, Table
<1>9. \A a \in Cards \ moved' : a \in Cards \ moved /\ a # c
  BY <1>1
<1>10. \A t \in Lanes : InOrder(t) => InOrder(t)'
  BY <1>1, <1>7, <1>9 DEF InOrder
<1>11. \A t \in Lanes : RowsOf(t) => RowsOf(t)'
  BY <1>1, <1>7, <1>9 DEF RowsOf
<1>12. Filling'
  BY <1>1, <1>10, <1>11 DEF LaneInv, Filling
<1> QED
  BY <1>8, <1>12 DEF LaneInv

\* A list without duplicates is no longer than there are cards.
LEMMA ListFits ==
  ASSUME NEW q \in Seq(Cards), IsInjective(q)
  PROVE  Len(q) <= Cardinality(Cards)
<1> DEFINE n == Len(q)
<1>1. n \in Nat /\ \A i \in 1 .. n : q[i] \in Cards
  OBVIOUS
<1>2. q \in [1 .. n -> Cards] /\ \A i, j \in 1 .. n : q[i] = q[j] => i = j
  BY DEF IsInjective
<1> HIDE DEF n
<1>3. IsFiniteSet(1 .. n) /\ Cardinality(1 .. n) = n
  BY <1>1, FS_Interval
<1>4. q \in Injection(1 .. n, Cards)
  BY <1>2 DEF Injection
<1>5. Cardinality(1 .. n) <= Cardinality(Cards)
  BY <1>4, OldAssumption, FS_Injection
<1> QED
  BY <1>3, <1>5 DEF n

\* The keys in the order of the rows put the cards of the lane that was read in
\* order, and do not touch a card of another lane that nobody moved.
LEMMA WriteKeeps ==
  ASSUME LaneInv, WriteLane
  PROVE  LaneInv'
<1> DEFINE rows == script.rows
           n == Len(rows)
<1>1. /\ rank' = [c \in Cards |-> IF Contains(rows, c)
                                  THEN CHOOSE i \in DOMAIN rows : rows[i] = c
                                  ELSE rank[c]]
      /\ script.pc = "write" /\ script'.pc = "lane" /\ script'.todo = script.todo
      /\ script' = [pc |-> "lane", todo |-> script.todo, rows |-> <<>>]
      /\ lane' = lane /\ moved' = moved
  BY DEF WriteLane, Script
<1>2. rows \in Seq(Cards) /\ IsInjective(rows) /\ script.todo \subseteq Lanes
  BY <1>1 DEF LaneInv, Table
<1>3. n \in Nat /\ DOMAIN rows = 1 .. n /\ \A i, j \in 1 .. n : rows[i] = rows[j] => i = j
  BY <1>2 DEF IsInjective
<1>4. n <= Cardinality(Cards)
  BY <1>2, ListFits
<1>5. \A c : Contains(rows, c) <=> \E i \in 1 .. n : rows[i] = c
  BY DEF Contains
<1> HIDE DEF rows, n
<1>6. ASSUME NEW c \in Cards, Contains(rows, c)
      PROVE  rank'[c] \in 1 .. n /\ rows[rank'[c]] = c
  <2>1. PICK i \in 1 .. n : rows[i] = c
    BY <1>5, <1>6
  <2>2. rank'[c] = CHOOSE j \in 1 .. n : rows[j] = c
    BY <1>1, <1>3, <1>6
  <2> QED
    BY <2>1, <2>2
<1>7. ASSUME NEW c \in Cards, ~ Contains(rows, c)
      PROVE  rank'[c] = rank[c]
  BY <1>1, <1>7
<1>8. Table'
  <2>1. rank' = [c \in Cards |-> rank'[c]]
    BY <1>1
  <2>2. Cardinality(Cards) \in Nat
    BY OldAssumption, FS_CardinalityType
  <2>3. ASSUME NEW c \in Cards PROVE rank'[c] \in 0 .. Cardinality(Cards)
    <3>1. CASE Contains(rows, c)
      BY <1>3, <1>4, <1>6, <2>2, <3>1
    <3>2. CASE ~ Contains(rows, c)
      BY <1>7, <3>2 DEF LaneInv, Table
    <3> QED
      BY <3>1, <3>2
  <2>4. rank' \in [Cards -> 0 .. Cardinality(Cards)]
    BY <2>1, <2>3
  <2>5. script' \in [pc : {"off", "lane", "write", "done", "failed"}, todo : SUBSET Lanes,
                     rows : Seq(Cards)]
    BY <1>1, <1>2
  <2> QED
    BY <1>1, <2>4, <2>5 DEF LaneInv, Table, OneLane
<1>9. PICK t \in Lanes : RowsOf(t) /\ \A s \in Lanes \ {t} : s \in script.todo \/ InOrder(s)
  BY <1>1 DEF LaneInv, Filling
<1>10. /\ \A a \in Cards \ moved : Contains(lane[t], a) <=> Contains(rows, a)
       /\ \A a, b \in Cards \ moved : Precedes(lane[t], a, b) => Precedes(rows, a, b)
  BY <1>9 DEF RowsOf, rows
<1>11. InOrder(t)'
  <2>1. ASSUME NEW a \in Cards \ moved, Contains(lane[t], a) PROVE rank'[a] # NoRank
    <3>1. rank'[a] \in 1 .. n
      BY <1>6, <1>10, <2>1
    <3> QED
      BY <3>1 DEF NoRank
  <2>2. ASSUME NEW a \in Cards \ moved, NEW b \in Cards \ moved, Precedes(lane[t], a, b)
        PROVE  rank'[a] < rank'[b]
    <3>1. PICK i \in 1 .. n : \E j \in 1 .. n : i < j /\ rows[i] = a /\ rows[j] = b
      BY <1>10, <2>2 DEF Precedes, n
    <3>2. PICK j \in 1 .. n : i < j /\ rows[i] = a /\ rows[j] = b
      BY <3>1
    <3>3. Contains(rows, a) /\ Contains(rows, b)
      BY <1>5, <3>2
    <3>4. /\ rank'[a] \in 1 .. n /\ rows[rank'[a]] = a
          /\ rank'[b] \in 1 .. n /\ rows[rank'[b]] = b
      BY <1>6, <3>3
    <3>5. rank'[a] = i /\ rank'[b] = j
      BY <1>3, <3>2, <3>4
    <3> QED
      BY <3>2, <3>5
  <2> QED
    BY <1>1, <2>1, <2>2 DEF InOrder
<1>12. ASSUME NEW s \in Lanes \ {t}, InOrder(s) PROVE InOrder(s)'
  <2>1. ASSUME NEW a \in Cards \ moved, Contains(lane[s], a) PROVE rank'[a] = rank[a]
    <3>1. ~ Contains(lane[t], a)
      BY <1>12, <2>1 DEF LaneInv, Table, OneLane
    <3> QED
      BY <1>7, <1>10, <3>1
  <2>2. \A a, b : Precedes(lane[s], a, b) => Contains(lane[s], a) /\ Contains(lane[s], b)
    BY DEF Precedes, Contains
  <2> QED
    BY <1>1, <1>12, <2>1, <2>2 DEF InOrder
<1>13. Filling'
  BY <1>1, <1>9, <1>11, <1>12 DEF Filling
<1> QED
  BY <1>8, <1>13 DEF LaneInv

LEMMA NextLaneInv == LaneInv /\ [Next]_vars => LaneInv'
<1> SUFFICES ASSUME LaneInv, [Next]_vars PROVE LaneInv'
  OBVIOUS
<1>0. CASE UNCHANGED backfill
  BY <1>0 DEF backfill, LaneInv, Table, Filling, OneLane, InOrder, RowsOf
<1>1. CASE Begin
  <2>1. /\ script'.pc = "lane" /\ script'.todo = {s \in Lanes : lane[s] # <<>>}
        /\ script' = [pc |-> "lane", todo |-> {s \in Lanes : lane[s] # <<>>}, rows |-> <<>>]
        /\ moved' = {} /\ UNCHANGED <<lane, rank>>
    BY <1>1 DEF Begin, Script
  <2>2. Table'
    BY <2>1 DEF LaneInv, Table, OneLane
  <2>3. ASSUME NEW s \in Lanes, lane[s] = <<>> PROVE InOrder(s)'
    <3>1. \A a, b : ~ Contains(lane'[s], a) /\ ~ Precedes(lane'[s], a, b)
      BY <2>1, <2>3 DEF Contains, Precedes
    <3> QED
      BY <3>1 DEF InOrder
  <2>4. Filling'
    BY <2>1, <2>3 DEF Filling
  <2> QED
    BY <2>2, <2>4 DEF LaneInv
<1>2. CASE ReadLane
  <2>1. PICK t \in script.todo : script' = [pc |-> "write", todo |-> script.todo \ {t}, rows |-> lane[t]]
    BY <1>2 DEF ReadLane, Script, Rows
  <2>2. t \in Lanes /\ lane[t] \in Seq(Cards) /\ IsInjective(lane[t])
    BY <2>1 DEF LaneInv, Table
  <2>3. script.pc = "lane" /\ UNCHANGED <<lane, rank, moved>>
    BY <1>2 DEF ReadLane
  <2>4. script'.pc = "write" /\ script'.todo = script.todo \ {t} /\ script'.rows = lane[t]
    BY <2>1
  <2>5. script' \in [pc : {"off", "lane", "write", "done", "failed"}, todo : SUBSET Lanes,
                     rows : Seq(Cards)]
    BY <2>1, <2>2 DEF LaneInv, Table
  <2>6. Table'
    BY <2>2, <2>3, <2>4, <2>5 DEF LaneInv, Table, OneLane
  <2>7. RowsOf(t)'
    BY <2>3, <2>4 DEF RowsOf
  <2>8. \A s \in Lanes : InOrder(s) => InOrder(s)'
    BY <2>3 DEF InOrder
  <2>9. Filling'
    BY <2>2, <2>3, <2>4, <2>7, <2>8 DEF LaneInv, Filling
  <2> QED
    BY <2>6, <2>9 DEF LaneInv
<1>3. CASE WriteLane
  BY <1>3, WriteKeeps
<1>4. CASE Finish
  <2>1. /\ script.pc = "lane" /\ script.todo = {} /\ UNCHANGED <<lane, rank, moved>>
        /\ script' = [pc |-> "done", todo |-> {}, rows |-> <<>>]
    BY <1>4 DEF Finish, Script
  <2>2. \A s \in Lanes : InOrder(s)'
    BY <2>1 DEF LaneInv, Filling, InOrder
  <2> QED
    BY <2>1, <2>2 DEF LaneInv, Table, Filling, OneLane
<1>5. CASE Breaks
  <2>1. /\ UNCHANGED <<lane, rank, moved>>
        /\ script' = [pc |-> "failed", todo |-> {}, rows |-> <<>>]
    BY <1>5 DEF Breaks, Script
  <2> QED
    BY <2>1 DEF LaneInv, Table, Filling, OneLane
<1>6. CASE OldProgram
  BY <1>6, OldMoveKeeps DEF OldProgram
<1> QED
  BY <1>0, <1>1, <1>2, <1>3, <1>4, <1>5, <1>6
     DEF Next, BackfillStep, MigrateStep, vars

LEMMA LaneInvHolds == Spec => []LaneInv
<1> QED
  BY InitLaneInv, NextLaneInv, PTL DEF Spec

\* The board, the ranks, the journal and the runs keep their types, and every
\* card is in exactly one lane, whatever the old program and the scripts do.
THEOREM UpgradeTypes == Spec => []TypeOK
<1>1. ASSUME Inv, LaneInv PROVE TypeOK
  <2>1. ASSUME NEW c \in Cards PROVE Cardinality({s \in Lanes : Contains(lane[s], c)}) = 1
    <3>1. PICK s \in Lanes : Contains(lane[s], c) /\ \A t \in Lanes : Contains(lane[t], c) => t = s
      BY <1>1 DEF LaneInv, Table, OneLane
    <3>2. {t \in Lanes : Contains(lane[t], c)} = {s}
      BY <3>1
    <3> QED
      BY <3>2, FS_Singleton
  <2>2. journal \subseteq 1 .. Files /\ effects \in Seq(1 .. Files)
    <3>1. /\ effects \in Seq(Nat) /\ Len(effects) \in 0 .. Files /\ journal = 1 .. Len(effects)
          /\ Files \in Nat /\ \A i \in 1 .. Len(effects) : effects[i] = i
      BY <1>1, UpgradeAssumption DEF Inv, Ordered
    <3>2. \A i \in 1 .. Len(effects) : effects[i] \in 1 .. Files
      BY <3>1
    <3> QED
      BY <3>1, <3>2
  <2> QED
    BY <1>1, <2>1, <2>2 DEF TypeOK, Inv, Types, RunType, LaneInv, Table
<1> QED
  BY <1>1, InvHolds, LaneInvHolds, PTL

\* Whatever cards the old program moves while backfill-rank.ts runs, and however
\* often it was stopped before: once it is done, the others have ranks that sort
\* them as their lanes were sorted.
THEOREM BackfillKeepsPriorities == Spec => []BackfillKeepsOrder
<1>1. ASSUME LaneInv PROVE BackfillKeepsOrder
  <2> SUFFICES ASSUME script.pc = "done", NEW s \in Lanes
               PROVE  /\ \A i \in DOMAIN lane[s] : lane[s][i] \notin moved => rank[lane[s][i]] # NoRank
                      /\ \A i, j \in DOMAIN lane[s] :
                           i < j /\ {lane[s][i], lane[s][j]} \cap moved = {}
                             => rank[lane[s][i]] < rank[lane[s][j]]
    BY DEF BackfillKeepsOrder
  <2>1. lane[s] \in Seq(Cards) /\ InOrder(s)
    BY <1>1 DEF LaneInv, Table, Filling
  <2>2. /\ DOMAIN lane[s] = 1 .. Len(lane[s])
        /\ \A i \in DOMAIN lane[s] : lane[s][i] \in Cards /\ Contains(lane[s], lane[s][i])
    BY <2>1 DEF Contains
  <2>3. \A i, j \in DOMAIN lane[s] : i < j => Precedes(lane[s], lane[s][i], lane[s][j])
    BY <2>2 DEF Precedes
  <2> QED
    BY <2>1, <2>2, <2>3 DEF InOrder
<1> QED
  BY <1>1, LaneInvHolds, PTL
=============================================================================
