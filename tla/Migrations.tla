----------------------------- MODULE Migrations ------------------------------
(***************************************************************************)
(* scripts/migrate.ts, run by every API process that is started            *)
(* (docker-compose.yml:47): reads which files were applied, and applies    *)
(* each other file with its row of schema_migrations in a transaction.     *)
(*                                                                         *)
(* PostgreSQL is external: a statement that creates what an open           *)
(* transaction creates waits for it, and fails when that commits; so does  *)
(* an INSERT of the same key.                                              *)
(***************************************************************************)
EXTENDS Naturals, Sequences

CONSTANTS Runners, Files       \* 1 .. Files, in lexical order

VARIABLES journaled,  \* whether schema_migrations exists
          journal,    \* its rows
          effects,    \* the files whose statements were committed, in order
          run         \* the run of each runner

migrations == <<journaled, journal, effects, run>>

Phases == {"off", "create", "list", "file", "record", "commit", "done", "failed"}

Run(pc, applied, file) == [pc |-> pc, applied |-> applied, file |-> file]

MigrationsInit ==
  /\ journaled = FALSE /\ journal = {} /\ effects = <<>>
  /\ run = [r \in Runners |-> Run("off", {}, 0)]

Goes(r, pc) == run' = [run EXCEPT ![r].pc = pc]
Idle(r) == run[r].pc \in {"off", "failed", "done"}

\* CREATE TABLE IF NOT EXISTS schema_migrations: skipped when it exists ...
Start(r) ==
  /\ Goes(r, IF journaled THEN "list" ELSE "create")
  /\ UNCHANGED <<journaled, journal, effects>>

Migrate(r) == run[r].pc = "off" /\ Start(r)

\* ... and of two at once the second may fail
CreateJournal(r) ==
  /\ run[r].pc = "create"
  /\ Goes(r, "list") \/ (journaled /\ Goes(r, "failed"))
  /\ journaled' = TRUE
  /\ UNCHANGED <<journal, effects>>

\* SELECT filename: once, before the first file
ReadJournal(r) ==
  /\ run[r].pc = "list"
  /\ run' = [run EXCEPT ![r] = Run("file", journal, 1)]
  /\ UNCHANGED <<journaled, journal, effects>>

Skip(r) ==
  /\ run[r].pc = "file" /\ run[r].file \in run[r].applied
  /\ run' = [run EXCEPT ![r].file = @ + 1]
  /\ UNCHANGED <<journaled, journal, effects>>

\* BEGIN and the statements of the file, which may fail when another runner
\* has applied it by now; possible: what else they need of the database
Execute(r, possible) ==
  /\ run[r].pc = "file" /\ run[r].file \in (1 .. Files) \ run[r].applied
  /\ \/ possible /\ Goes(r, "record")
     \/ (~ possible \/ run[r].file \in journal) /\ Goes(r, "failed")
  /\ UNCHANGED <<journaled, journal, effects>>

\* Variant: filename is no primary key.
RecordTwice(r) ==
  /\ run[r].pc = "record"
  /\ Goes(r, "commit")
  /\ UNCHANGED <<journaled, journal, effects>>

\* INSERT INTO schema_migrations
Record(r) ==
  /\ run[r].pc = "record"
  /\ ~ \E q \in Runners : run[q].pc = "commit" /\ run[q].file = run[r].file
  /\ Goes(r, IF run[r].file \in journal THEN "failed" ELSE "commit")
  /\ UNCHANGED <<journaled, journal, effects>>

CommitFile(r) ==
  /\ run[r].pc = "commit"
  /\ journal' = journal \cup {run[r].file}
  /\ effects' = Append(effects, run[r].file)
  /\ run' = [run EXCEPT ![r].pc = "file", ![r].file = @ + 1]
  /\ UNCHANGED journaled

UpToDate(r) ==
  /\ run[r].pc = "file" /\ run[r].file > Files
  /\ Goes(r, "done")
  /\ UNCHANGED <<journaled, journal, effects>>

\* the runner dies: what it did not commit is undone
Killed(r) == ~ Idle(r) /\ Goes(r, "failed") /\ UNCHANGED <<journaled, journal, effects>>

\* it is started again
Again(r) == run[r].pc = "failed" /\ Start(r)
=============================================================================
