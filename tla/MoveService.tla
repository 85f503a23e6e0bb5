----------------------------- MODULE MoveService -----------------------------
(***************************************************************************)
(* ClientsService.moveCard inside withTransaction, one step per statement  *)
(* that other transactions can notice, for several requests at once (of    *)
(* one API process or of several).                                         *)
(*                                                                         *)
(* PostgreSQL is external.  Its part here: a SERIALIZABLE transaction      *)
(* reads a snapshot taken by its first statement; SELECT ... FOR UPDATE    *)
(* waits for the holder of a row lock, and fails with 40001 on a row that  *)
(* was changed since the snapshot; a cycle of waiting transactions loses   *)
(* one member with 40P01; COMMIT checks the deferred UNIQUE constraint     *)
(* (23505) and fails with 40001 when committed readers and writers would   *)
(* not be serializable.                                                    *)
(***************************************************************************)
EXTENDS ClientsTable, Sequences

CONSTANTS Requests, Commands, Seed,
          NoOne,         \* holder of a row lock that nobody holds
          MaxRetries,    \* opts.maxRetries
          PoolMax,       \* connections of the pool
          MaxFaults      \* bound: connections lost in a behaviour

ASSUME ServiceAssumption ==
  NoOne \notin Requests /\ MaxRetries \in Nat /\ PoolMax \in Nat \ {0} /\ MaxFaults \in Nat

\* moveCardBody lets only commands through (MoveRequest); the seed obeys the
\* UNIQUE constraint.
ASSUME InputAssumption ==
  /\ Commands \subseteq Command
  /\ Seed \in Boards
  /\ \A c, d \in Cards : c # d /\ Seed[c].status = Seed[d].status
                            => Seed[c].rank # Seed[d].rank

VARIABLES board, audit, outbox,   \* the committed tables
          lock,      \* row locks: the request whose transaction holds them
          tx,        \* the state of each request's withTransaction call
          reply,     \* what each request was answered, and why
          metrics,   \* the counters of metrics.ts
          faults     \* connections lost so far

vars == <<board, audit, outbox, lock, tx, reply, metrics, faults>>
tables == <<board, audit, outbox>>

Promise == INSTANCE Board WITH board <- board, audit <- audit, outbox <- outbox

-----------------------------------------------------------------------------
(* The state of a call.                                                    *)

\* connect: waiting for a connection; card: lockById(clientId); refused and
\* neighbours: the queries of resolveNeighbours, whose rows are still to be
\* locked in todo; commit: at COMMIT, with the new rank or, when nothing was
\* written, NoRank; backoff: sleeping before the next attempt.
Working == {"card", "refused", "neighbours", "commit"}
Phases  == {"idle", "connect", "backoff", "done"} \cup Working

\* the connection goes back to the pool after the sleep, in finally
Connected(r) == tx[r].pc \in Working \cup {"backoff"}

Call(pc, cmd, attempt) ==
  [pc |-> pc, cmd |-> cmd, attempt |-> attempt, snap |-> Seed,
   todo |-> <<>>, prev |-> {}, next |-> {}, rank |-> NoRank]

NoReply == [status |-> 0, cause |-> "none"]

Init ==
  /\ board = Seed /\ audit = <<>> /\ outbox = <<>>
  /\ lock = [c \in Cards |-> NoOne]
  /\ \E cmds \in [Requests -> Commands] :
       tx = [r \in Requests |-> Call("idle", cmds[r], 0)]
  /\ reply = [r \in Requests |-> NoReply]
  /\ metrics = [cardMoves |-> 0, versionConflicts |-> 0, txRetries |-> 0]
  /\ faults = 0

\* Variant: the transaction is left open.
ReleaseNothing(r) == lock' = lock

\* ROLLBACK, COMMIT and errors end the transaction and with it its row locks.
Release(r) == lock' = [c \in Cards |-> IF lock[c] = r THEN NoOne ELSE lock[c]]

Answer(r, status, cause) ==
  /\ reply' = [reply EXCEPT ![r] = [status |-> status, cause |-> cause]]
  /\ tx' = [tx EXCEPT ![r] = Call("done", tx[r].cmd, tx[r].attempt)]

\* the catch block of withTransaction for an error that is not retryable
Throw(r, status, cause) ==
  /\ Release(r)
  /\ Answer(r, status, cause)
  /\ UNCHANGED tables

\* Variant: one attempt too many.
RetryOnceMore(r, sqlstate) ==
  /\ Release(r)
  /\ UNCHANGED tables
  /\ IF tx[r].attempt <= MaxRetries
     THEN /\ tx' = [tx EXCEPT ![r] = Call("backoff", tx[r].cmd, tx[r].attempt + 1)]
          /\ metrics' = [metrics EXCEPT !.txRetries = @ + 1]
          /\ UNCHANGED reply
     ELSE /\ Answer(r, 503, sqlstate)
          /\ UNCHANGED metrics

\* ... and for a retryable SQLSTATE
RetryOrGiveUp(r, sqlstate) ==
  /\ Release(r)
  /\ UNCHANGED tables
  /\ IF tx[r].attempt < MaxRetries
     THEN /\ tx' = [tx EXCEPT ![r] = Call("backoff", tx[r].cmd, tx[r].attempt + 1)]
          /\ metrics' = [metrics EXCEPT !.txRetries = @ + 1]
          /\ UNCHANGED reply
     ELSE /\ Answer(r, 503, sqlstate)
          /\ UNCHANGED metrics

-----------------------------------------------------------------------------
(* Connections.                                                            *)

Submit(r) ==
  /\ tx[r].pc = "idle"
  /\ tx' = [tx EXCEPT ![r].pc = "connect"]
  /\ UNCHANGED <<tables, lock, reply, metrics, faults>>

PoolIsFull == Cardinality({r \in Requests : Connected(r)}) >= PoolMax

\* pool.connect, BEGIN, and the snapshot lockById is about to take
Connect(r) ==
  /\ tx[r].pc = "connect"
  /\ ~ PoolIsFull
  /\ tx' = [tx EXCEPT ![r].pc = "card", ![r].snap = board,
                      ![r].todo = IF tx[r].cmd.card \in Cards
                                  THEN <<tx[r].cmd.card>> ELSE <<>>]
  /\ UNCHANGED <<tables, lock, reply, metrics, faults>>

\* connectionTimeoutMillis: connect() rejects outside the try
ConnectTimeout(r) ==
  /\ tx[r].pc = "connect"
  /\ PoolIsFull
  /\ Answer(r, 500, "timeout")
  /\ UNCHANGED <<tables, lock, metrics, faults>>

\* the sleep ends, the connection is released, the loop starts over
Retry(r) ==
  /\ tx[r].pc = "backoff"
  /\ tx' = [tx EXCEPT ![r].pc = "connect"]
  /\ UNCHANGED <<tables, lock, reply, metrics, faults>>

-----------------------------------------------------------------------------
(* Row locks.                                                              *)

ToLock(r) == tx[r].pc \in Working /\ tx[r].todo # <<>>
Wanted(r) == Head(tx[r].todo)

Stale(r, c)  == board[c] # tx[r].snap[c]
LockFree(r, c) == lock[c] \in {NoOne, r}

LockRow(r) ==
  /\ ToLock(r)
  /\ LockFree(r, Wanted(r)) /\ ~ Stale(r, Wanted(r))
  /\ lock' = [lock EXCEPT ![Wanted(r)] = r]
  /\ tx' = [tx EXCEPT ![r].todo = Tail(@)]
  /\ UNCHANGED <<tables, reply, metrics, faults>>

\* 40001, could not serialize access due to concurrent update
StaleRow(r) ==
  /\ ToLock(r)
  /\ Stale(r, Wanted(r))
  /\ RetryOrGiveUp(r, "40001")
  /\ UNCHANGED faults

Waits(r) == ToLock(r) /\ ~ LockFree(r, Wanted(r)) /\ ~ Stale(r, Wanted(r))

\* a set of calls that wait for each other in a cycle
Deadlocked(S) ==
  /\ \A r \in S : Waits(r) /\ lock[Wanted(r)] \in S
  /\ \A r \in S : \E q \in S : lock[Wanted(q)] = r

DeadlockVictim(r) ==
  /\ \E S \in SUBSET Requests : r \in S /\ Deadlocked(S)
  /\ RetryOrGiveUp(r, "40P01")
  /\ UNCHANGED faults

-----------------------------------------------------------------------------
(* The work of moveCard.                                                   *)

At(r, pc) == tx[r].pc = pc /\ tx[r].todo = <<>>

AsSeq(rows) == IF rows = {} THEN <<>> ELSE <<CHOOSE c \in rows : TRUE>>

\* FOR UPDATE with LIMIT 1 OFFSET n also locks the n rows it skips, in the
\* order of their ranks.
LeadingRows(b, cmd, n) ==
  LET S == LaneRows(b, ToStatus(b, cmd), cmd.card)
      T == {c \in S : Cardinality({d \in S : Below(b, d, c)}) < n}
  IN  CHOOSE s \in [1 .. Cardinality(T) -> T] :
        \A i, j \in DOMAIN s : i < j => Below(b, s[i], s[j])

\* Variant: the row on the other side of the gap is read without a lock.
LockReferenceOnly(b, cmd, prev, next) ==
  CASE cmd.place = "after"  -> AsSeq(prev)
    [] cmd.place = "before" -> AsSeq(next)
    [] cmd.place = "slot"   -> LeadingRows(b, cmd, Slot(b, cmd) - 1)
    [] cmd.place = "end"    -> AsSeq(prev)

LockOrder(b, cmd, prev, next) ==
  CASE cmd.place = "after"  -> AsSeq(prev) \o AsSeq(next)
    [] cmd.place = "before" -> AsSeq(next) \o AsSeq(prev)
    [] cmd.place = "slot"   -> LeadingRows(b, cmd, Slot(b, cmd) - 1) \o AsSeq(next)
    [] cmd.place = "end"    -> AsSeq(prev)

\* lockById returned no row
CardMissing(r) ==
  /\ At(r, "card") /\ tx[r].cmd.card \notin Cards
  /\ Throw(r, 404, "no card")
  /\ UNCHANGED <<metrics, faults>>

\* Variant: no optimistic concurrency check.
VersionIgnored(r) == TRUE

VersionMatches(r) == tx[r].snap[tx[r].cmd.card].version = tx[r].cmd.version

\* Variant: the conflict is not counted.
VersionConflictUncounted(r) ==
  /\ At(r, "card") /\ tx[r].cmd.card \in Cards
  /\ ~ VersionMatches(r)
  /\ Throw(r, 409, "version")
  /\ UNCHANGED <<metrics, faults>>

VersionConflict(r) ==
  /\ At(r, "card") /\ tx[r].cmd.card \in Cards
  /\ ~ VersionMatches(r)
  /\ metrics' = [metrics EXCEPT !.versionConflicts = @ + 1]
  /\ Throw(r, 409, "version")
  /\ UNCHANGED faults

NamesRef(cmd) == cmd.place \in {"after", "before"}

\* resolveNeighbours up to a ref that is not in the lane: the row of another
\* card is locked before it is looked at
ResolveBadRef(r) ==
  LET cmd == tx[r].cmd IN
  /\ At(r, "card") /\ cmd.card \in Cards /\ VersionMatches(r)
  /\ NamesRef(cmd) /\ ~ RefInLane(tx[r].snap, cmd)
  /\ tx' = [tx EXCEPT ![r].pc = "refused",
                      ![r].todo = IF cmd.ref \in Cards \ {cmd.card}
                                  THEN <<cmd.ref>> ELSE <<>>]
  /\ UNCHANGED <<tables, lock, reply, metrics, faults>>

RefuseRef(r) ==
  /\ At(r, "refused")
  /\ Throw(r, 400, "ref")
  /\ UNCHANGED <<metrics, faults>>

Resolve(r) ==
  LET cmd == tx[r].cmd
      b   == tx[r].snap
  IN
  /\ At(r, "card") /\ cmd.card \in Cards /\ VersionMatches(r)
  /\ NamesRef(cmd) => RefInLane(b, cmd)
  /\ \E prev, next \in RowSets :
       /\ Neighbours(b, cmd, prev, next)
       /\ tx' = [tx EXCEPT ![r].pc = "neighbours", ![r].prev = prev, ![r].next = next,
                           ![r].todo = LockOrder(b, cmd, prev, next)]
  /\ UNCHANGED <<tables, lock, reply, metrics, faults>>

InPlace(r) == StaysPut(tx[r].snap, tx[r].cmd, tx[r].prev, tx[r].next)

\* "move resulted in no change; nothing persisted"
NoChange(r) ==
  /\ At(r, "neighbours") /\ InPlace(r)
  /\ tx' = [tx EXCEPT ![r].pc = "commit"]
  /\ UNCHANGED <<tables, lock, reply, metrics, faults>>

\* updatePosition, audit.record, outbox.enqueue and cardMoves.inc: all but
\* the counter stay in the transaction until it commits.  generateKeyBetween
\* throws when it has no key.
Write(r) ==
  LET rank == NewRank(tx[r].snap, tx[r].prev, tx[r].next) IN
  /\ At(r, "neighbours") /\ ~ InPlace(r)
  /\ IF rank \in Rank
     THEN /\ tx' = [tx EXCEPT ![r].pc = "commit", ![r].rank = rank]
          /\ metrics' = [metrics EXCEPT !.cardMoves = @ + 1]
          /\ UNCHANGED <<tables, lock, reply, faults>>
     ELSE Throw(r, 500, "rank") /\ UNCHANGED <<metrics, faults>>

-----------------------------------------------------------------------------
(* COMMIT.                                                                 *)

NewPosition(r) == [status |-> ToStatus(tx[r].snap, tx[r].cmd), rank |-> tx[r].rank]

Wrote(r) == tx[r].pc = "commit" /\ tx[r].rank # NoRank

\* Variant: isolationLevel 'REPEATABLE READ'.
SnapshotOnly(r) == TRUE

\* Both transactions of a pair that ran at the same time and wrote have read
\* the whole table (findAll, before COMMIT), so each has read what the other
\* replaced: PostgreSQL lets only the first of them commit.  A transaction
\* that wrote nothing has nothing the other could have read.
Serializable(r) == Wrote(r) => board = tx[r].snap

\* It may already find out at the UPDATE or at findAll.
SerializationFailure(r) ==
  /\ \/ At(r, "neighbours") /\ ~ InPlace(r) /\ board # tx[r].snap
     \/ ~ Serializable(r)
  /\ RetryOrGiveUp(r, "40001")
  /\ UNCHANGED faults

\* the deferred check of clients_status_rank_uniq
RankTaken(r) ==
  \E d \in Cards \ {tx[r].cmd.card} : PositionOf(board[d]) = NewPosition(r)

Apply(r) ==
  LET card == tx[r].cmd.card
      row  == tx[r].snap[card]
  IN  IF Wrote(r)
      THEN /\ board' = Updated(board, card, NewPosition(r))
           /\ audit' = Append(audit, AuditRow(r, card, row, NewPosition(r)))
           /\ outbox' = Append(outbox, Event(card, row, NewPosition(r)))
      ELSE UNCHANGED tables

Committable(r) == tx[r].pc = "commit" /\ Serializable(r)

Commit(r) ==
  /\ Committable(r)
  /\ IF Wrote(r) /\ RankTaken(r)
     THEN Throw(r, 500, "23505")
     ELSE /\ Apply(r)
          /\ Release(r)
          /\ Answer(r, 200, IF Wrote(r) THEN "moved" ELSE "unchanged")
  /\ UNCHANGED <<metrics, faults>>

\* The connection breaks before the transaction is committed ...
LoseConnection(r) ==
  /\ faults < MaxFaults /\ tx[r].pc \in Working
  /\ faults' = faults + 1
  /\ Throw(r, 500, "connection")
  /\ UNCHANGED metrics

\* Variant: an error at COMMIT is retried like a serialization failure.
CommitRetried(r) ==
  /\ faults < MaxFaults
  /\ Committable(r) /\ ~ (Wrote(r) /\ RankTaken(r))
  /\ faults' = faults + 1
  /\ Apply(r)
  /\ Release(r)
  /\ tx' = [tx EXCEPT ![r] = Call("backoff", tx[r].cmd, tx[r].attempt)]
  /\ UNCHANGED <<reply, metrics>>

\* ... or after, when the answer to COMMIT is on its way.
CommitUnheard(r) ==
  /\ faults < MaxFaults
  /\ Committable(r) /\ ~ (Wrote(r) /\ RankTaken(r))
  /\ faults' = faults + 1
  /\ Apply(r)
  /\ Release(r)
  /\ Answer(r, 500, "connection")
  /\ UNCHANGED metrics

-----------------------------------------------------------------------------
\* What the process and the database do of their own accord.
Step(r) ==
  \/ Connect(r) \/ Retry(r) \/ LockRow(r) \/ StaleRow(r)
  \/ CardMissing(r) \/ VersionConflict(r) \/ ResolveBadRef(r) \/ RefuseRef(r)
  \/ Resolve(r) \/ NoChange(r) \/ Write(r)
  \/ SerializationFailure(r) \/ Commit(r)

Next == \E r \in Requests :
          \/ Submit(r) \/ ConnectTimeout(r) \/ Step(r) \/ DeadlockVictim(r)
          \/ LoseConnection(r) \/ CommitUnheard(r)

Spec == Init /\ [][Next]_vars

\* A call that can go on goes on: pg-pool serves its waiters in order, sleeps
\* end, and the deadlock detector runs after deadlock_timeout.
Fairness == /\ \A r \in Requests : WF_vars(Step(r))
            /\ WF_vars(\E r \in Requests : DeadlockVictim(r))

FairSpec == Spec /\ Fairness
-----------------------------------------------------------------------------
Causes == {"none", "timeout", "connection", "no card", "version", "ref", "rank",
           "40001", "40P01", "23505", "moved", "unchanged"}

TypeOK ==
  /\ Promise!TypeOK
  /\ lock \in [Cards -> Requests \cup {NoOne}]
  /\ \A r \in Requests :
       /\ tx[r].pc \in Phases /\ tx[r].cmd \in Commands
       /\ tx[r].attempt \in 0 .. MaxRetries /\ tx[r].snap \in Boards
       /\ tx[r].todo \in Seq(Cards) /\ tx[r].prev \in RowSets /\ tx[r].next \in RowSets
       /\ tx[r].rank \in Rank \cup {NoRank}
  /\ reply \in [Requests -> [status : {0, 200, 400, 404, 409, 500, 503}, cause : Causes]]
  /\ metrics \in [{"cardMoves", "versionConflicts", "txRetries"} -> Nat]
  /\ faults \in 0 .. MaxFaults

\* The interleaved transactions implement the promise: every commit is one
\* atomic move from the board of that instant, placed as the command of that
\* very request asks, with its ledger row and its event; nothing else changes
\* the tables.
OwnMove == \E r \in Requests : Promise!Move(r, tx[r].cmd)

RefinesBoard == Promise!Spec /\ [][OwnMove]_tables

\* A request is answered what happened to it, however often it was retried:
\* 400, 404, 409 and 503 mean it was not applied, "moved" that it was, once;
\* before it is answered nothing of it can be seen.
RowsOf(r) == {i \in DOMAIN audit : audit[i].request = r}

AnswersAreTrue ==
  \A r \in Requests :
     /\ Cardinality(RowsOf(r)) <= 1
     /\ reply[r].cause = "moved" => RowsOf(r) # {}
     /\ reply[r].cause \notin {"moved", "connection"} => RowsOf(r) = {}

\* Two movers into one gap compute the same key, yet the UNIQUE constraint
\* never has to refuse a commit (an error that is not retried): the second is
\* a serialization failure first.  generateKeyBetween never throws either,
\* because prev and next were read from one snapshot.
BackstopsNeverFire == \A r \in Requests : reply[r].cause \notin {"23505", "rank"}

\* From the moment the new rank is computed until COMMIT, the card and both
\* neighbours are locked by the mover and are as it read them, so the key is
\* still between the ranks of the rows it was computed from.
NeighboursPinned ==
  \A r \in Requests : At(r, "neighbours") \/ At(r, "commit") =>
     \A c \in {tx[r].cmd.card} \cup tx[r].prev \cup tx[r].next :
        lock[c] = r /\ board[c] = tx[r].snap[c]

\* No row stays locked by a request that sleeps, waits for a connection or
\* has been answered.
LocksEndWithTransaction ==
  \A c \in Cards : lock[c] # NoOne => tx[lock[c]].pc \in Working

\* kanban_version_conflicts_total counts the 409 answers (metrics.ts:30), also
\* when the request was retried before.
ConflictsCounted ==
  metrics.versionConflicts = Cardinality({r \in Requests : reply[r].status = 409})

\* Every request that was sent is answered: row locks, deadlocks, retries and
\* a full pool only delay it.
EveryRequestAnswered ==
  \A r \in Requests : tx[r].pc = "connect" ~> reply[r].status # 0

-----------------------------------------------------------------------------
(* What the repository's documents and tests say.                          *)

\* concurrency.integration.test.ts:72-95: of several requests for the same
\* card with the same version exactly one is answered 200.
OneWinnerPerVersion ==
  \A q, r \in Requests :
     /\ q # r /\ tx[q].cmd.card = tx[r].cmd.card
     /\ tx[q].cmd.version = tx[r].cmd.version
     => ~ (reply[q].status = 200 /\ reply[r].status = 200)

\* metrics.ts:23: kanban_card_moves_total is the "Total successfully committed
\* card moves" (compared when no request is under way).
MovesCountedOnce ==
  (\A r \in Requests : tx[r].pc \in {"idle", "done"})
     => metrics.cardMoves = Len(audit)

\* The rows a move locks: its card, the rows around the drop point, and those
\* that OFFSET skips.
LockedRows(b, cmd) ==
  {cmd.card} \cup
  {c \in Cards : \E prev, next \in RowSets :
     /\ Neighbours(b, cmd, prev, next)
     /\ \E i \in DOMAIN LockOrder(b, cmd, prev, next) : LockOrder(b, cmd, prev, next)[i] = c}

Apart(b, cmd, other) == LockedRows(b, cmd) \cap LockedRows(b, other) = {}

\* ARCHITECTURE.md:371-374: a move locks only its card and the rows around the
\* drop point, and "non-adjacent moves in the same lane no longer contend".  A
\* mover that shares no row with anyone else can commit.
NonAdjacentMovesDoNotContend ==
  \A r \in Requests :
     /\ Wrote(r)
     /\ \A q \in Requests \ {r} : Apart(tx[r].snap, tx[r].cmd, tx[q].cmd)
     => Serializable(r)
=============================================================================
