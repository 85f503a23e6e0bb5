# Shiptivity: a TLA+ verification project

Shiptivity is a Kanban board: a TypeScript API over PostgreSQL that moves cards
between and inside three lanes, with fractional-index ranks, optimistic version
checks, SERIALIZABLE transactions with retries, an audit ledger, a transactional
outbox relayed to Redis Pub/Sub, live streams to browsers and a triage agent that
reacts to events. Paths below are relative to the repository root; `service` is
`src/services/clients.service.ts`.

## 1. Inventory

| part | state | operations | correct when |
|---|---|---|---|
| Rank keys, `src/domain/rank.ts` | none | `generateKeyBetween`, `generateNKeysBetween`, `incrementInteger`, `decrementInteger`, `midpoint`, `validateOrderKey` | a key is always valid and strictly inside its gap; no history of insertions closes a gap |
| Clients repository, `src/repositories/clients.repository.ts` | table `clients` | `lockById`, `lockAdjacent`, `lockExtreme`, `lockAtOffset`, `laneSize`, `updatePosition`, `findAll`, `findById` | the rows found are the neighbours of the drop point |
| Move service, `service` | one transaction per call | `moveCard`, `resolveNeighbours` | the card gets to the place named, from the version named, once; nothing else moves |
| Transactions and pool, `src/db/` | row locks, connections, attempts | `withTransaction` | retries are invisible, an answer tells what happened, everyone is answered |
| Audit and outbox repositories | `audit_log`, `outbox` | `record`, `enqueue`, `fetchUnpublished`, `markPublished`, `countPending` | ledger and outbox never drift from the board |
| Outbox relay, `src/events/outboxRelay.ts` | `timer`, `draining`, `stopped` | `start`, `drainOnce`, `stop` | every event is published, in order per card, at least once |
| Publisher, broadcaster, stream route | Redis subscription, SSE clients | `publish`, `start`, `fanout`, `add`, `remove`, `stop` | a connected viewer is told of every move that reaches the process; the close of an old stream never takes a new one with it |
| Live page, `examples/live-board.html` | rendered board, EventSource, loads under way | load, subscribe, reload on event | a quiet page shows all it was told of |
| Triage agent, `agents/triage_agent.py` | `_seen` | `handle_event`, `reprioritise` | urgent cards reach the top, no person's choice of lane is undone, then it stops |
| Lifecycle, `src/index.ts`, `src/container/` | `shuttingDown`, the force timer | start, shutdown, force exit | a shutdown ends, and cuts nobody off unless it is forced |
| Scripts, `scripts/` | `schema_migrations`, ranks | migrate, backfill | each migration once however many start; a backfill keeps the lane's order |
| Request schema, `src/schemas/`, `validate` | none | `moveCardBody` | every accepted body is one command |
| Auth, rate limit, metrics, tracing, logging, config | counters | per request | metrics count what their help texts say |
| Legacy prototype, `src/KanbanBoard.js`, `legacy/` | | | not part of the running service |

How they interact. A PUT goes from the controller to `moveCard`, which runs inside
`withTransaction` on a pooled connection. The transaction locks the card, checks its
version, finds and locks the neighbours of the drop point, computes a key, updates
the row, and writes the ledger row and the outbox row, which COMMIT makes visible
together. The relay polls the outbox in transactions of its own and publishes to
Redis; broadcasters in every process forward the messages to their SSE clients, the
page reloads the board, and the agent may answer with a move of its own.

What is hard. Transactions of several requests, of one or of several processes,
interleave between any two statements; row locks can form cycles; the database aborts
transactions for reasons the caller cannot see; COMMIT can be lost either way; keys
have carries and a floor; delivery to consumers is duplicated, lost and reordered.
`PROJECT.json` lists these hazards one by one, each at its line.

## 2. Modules

| module | models | uses |
|---|---|---|
| `RankKeys` | the functions of `rank.ts`, on digit sequences, for any base and number of head letters | |
| `RankLane` | a lane filled and emptied with them in any order | `RankKeys` |
| `RankLaneProofs` | theorems about `RankKeys` and `RankLane` | `RankLane` |
| `ClientsTable` | the queries of the repository, the decisions of `moveCard`, the rows it writes | |
| `ClientsTableProofs` | lemmas about them that the next two proof modules share | `ClientsTable` |
| `Board` | what a move promises: one atomic step | `ClientsTable` |
| `BoardProofs` | theorems about `Board` | `Board`, `ClientsTableProofs` |
| `MoveService` | `moveCard` inside `withTransaction`, statement by statement, for several requests | `ClientsTable`, instance of `Board` |
| `MoveServiceProofs` | theorems about `MoveService` | `MoveService`, `ClientsTableProofs` |
| `MoveRequest` | the bodies of a PUT that pass the schema, and the command each becomes | `ClientsTable` |
| `EventFeed` | what the outbox and its relays promise to whoever listens | |
| `OutboxRelay` | several relays over one outbox that movers fill | instance of `EventFeed` |
| `OutboxRelayProofs` | theorems about `OutboxRelay` | `OutboxRelay` |
| `Broadcaster` | an API process: its life, its Redis subscription, its streams | |
| `LiveBoard` | the pages, the process and the feed together | `EventFeed`, `Broadcaster` |
| `LiveBoardProofs` | theorems about `LiveBoard` | `LiveBoard` |
| `TriageLoop` | the agent beside people who move cards | `EventFeed` |
| `TriageLoopProofs` | theorems about `TriageLoop` | `TriageLoop` |
| `Backfill`, `Migrations` | the two scripts | |
| `Upgrade` | the scripts in the order `backfill-rank.ts:8-16` recommends, beside the old program | `Backfill`, `Migrations` |
| `UpgradeProofs` | theorems about `Upgrade` | `Upgrade` |
| `MCBoard`, `MCMoveService`, `MCDisjointMoves`, `MCOutboxRelay`, `MCLiveBoard`, `MCTriage`, `MCUpgrade` | the small instances TLC checks, the first three over the keys of `RankKeys` | |

### RankKeys and RankLane

A key string is the sequence of its head letter (as a number, negative for upper
case) and its digits; comparing sequences is comparing strings under `COLLATE "C"`.
`NoKey` is `null` as an argument and a throw as a result. `midpoint` recurses in the
code along the common prefix and along a run of largest digits; each stretch is one
definition here (`MidBetween`, `MidAbove`), so that no recursive operator is needed.
The places with letters `A` to `Z` and 62 digits become `Heads` and `Base`; with 2
and 2 there are 12 integers, and both ends of the key space and every carry between
heads are within a few insertions.

### ClientsTable

A board is a function from cards to status, rank and version. A `LIMIT 1` query is a
relation with the set of rows it returns. Ranks are abstract: any set with a strict
total order, and a `KeyBetween` that, when it answers with a rank, answers strictly
inside the gap. `KeyAssumption` states this. `KeysServeAsRanks` proves that all the keys of
`rank.ts` and `GenerateKeyBetween` are such ranks, and the MC modules put the keys within their
bounds in their place. A command carries the position argument `resolveNeighbours` obeys when
there are several; a `slot` is at least 1, as the schema has it.

### Board

`Move(r, cmd)` is the whole of a committed `moveCard`, with guards for the version,
the lane of the reference card and the no-change branch. A request that is refused or
fails is not a step. A request is applied at most once because `withTransaction`
returns at the first COMMIT that succeeds.

### MoveService

One call per request; `tx[r].pc` says where it is:

| `pc` | in the code |
|---|---|
| `idle`, `connect` | before the request; waiting in `pool.connect()` |
| `card` | `lockById(clientId)`, then the version check |
| `refused`, `neighbours` | the queries of `resolveNeighbours`, with the rows still to be locked in `todo` |
| `commit` | the result is computed and COMMIT is next |
| `backoff` | sleeping, with the connection still held (`release` is in `finally`) |
| `done` | answered |

Statements with no effect another transaction can notice are merged with the one
before: `updatePosition`, `record`, `enqueue` and `cardMoves.inc()` are `Write`, since
the rows stay invisible until COMMIT while the counter does not. Each row lock is a
step of its own, in the order the code takes them; `LIMIT 1 OFFSET n FOR UPDATE`
also locks the rows it skips (`LeadingRows`).

PostgreSQL is external and modelled by the rules the code relies on:

- a SERIALIZABLE transaction reads the snapshot of its first statement (`snap`);
- `FOR UPDATE` waits for a row's holder, and fails with 40001 on a row changed since
  the snapshot (`StaleRow`);
- one member of a cycle of waiting transactions fails with 40P01 (`DeadlockVictim`).
  The cycle may be broken at once, as deadlock_timeout is only a delay;
- every move that writes has read the whole table in `findAll` before COMMIT. Of two
  overlapping transactions that both wrote, each has therefore read what the other
  replaced, and only one may commit (`Serializable`), however little they share. The
  failure may come at the UPDATE, at `findAll` or at COMMIT (`SerializationFailure`);
- the deferred UNIQUE constraint is checked at COMMIT (`RankTaken`), and its 23505 is
  not in `RETRYABLE`.

A connection may break before COMMIT (`LoseConnection`) or after it took effect but
before the answer arrives (`CommitUnheard`). Either way the code answers 500.

### OutboxRelay

The relays are the instances of `src/events/outboxRelay.ts`, one per API process. A tick
is `Fetch` (BEGIN and `fetchUnpublished`), then either `CountPending` or one `Publish`
per row and `MarkPublished` (with COMMIT). `batch[r]` is what relay `r` fetched, and thereby
the rows it holds locked; `pc[r]` is not `idle` exactly while `draining` is set, so the
guard at the head of `drainOnce` is the guard of `Fetch`. Movers appear as `Begin`, which
fixes `created_at`, and `CommitMove`. An event is a pair of card and version, and a card's
next move begins after the last one is committed, because a client sends a version it was
shown. `FailTick` is any error on the way (ROLLBACK, log, next tick), of which a rejected
publish may have reached Redis; `Crash` is the end of the process and its restart; `Stop`
is `stop()`, after which a drain that is under way may go on or fail, as `shutdown` closes
the publisher and the pool without waiting for it. A lost answer to COMMIT differs from
`MarkPublished` in nothing but a log line. `sent` and `failures` are counters of the model.

In READ COMMITTED a relay touches only rows it holds locked, so neither 40001 nor a
deadlock can occur and the retries of `withTransaction` play no part. A row that another
relay marked between the snapshot of a fetch and its lock is checked again by PostgreSQL
and left out, which makes `Fetch` one step. `FailTick` and `Crash` free the rows of the batch at
once: that PostgreSQL ends a session a relay has not yet found to be lost, and another relay
publishes the same rows while the first goes on, is left out.

`Promise` maps an outbox to `EventFeed`: `committed`, the events that were `sent`, and the
rows that are marked. `LiveBoard` and `TriageLoop` extend `EventFeed` in turn, so what they
assume of the relays is what the relays are shown to do. Neither marks a row: a marked row is
only one that is not published again.

### MoveRequest

A body is a record of the five fields, each of which may be absent. `Accepted` is the schema
with its two refinements. `PlaceOf` is the precedence in `resolveNeighbours` (`afterId`, then
`beforeId`, then `priority`). `MCBoard` takes its commands from the bodies, so every command
the API can be made to run is run.

### Broadcaster and LiveBoard

`phase` is the process: `closing` after `server.close()`, `stopping` in `container.shutdown()`.
`sub` is the subscription; a `subscribe()` that is rejected leaves a process that is `deaf`
for good, as only the rejection is logged and no listener is attached. A message
reaches `inbox` if the process is subscribed at that instant. A stream is its page and a number that
stands for its `randomUUID`; `Break` leaves the old stream in the map until `Notice`
(`req.on('close')`) or a write that throws removes it, and the page may have connected again
by then. `Drained` is the callback of `server.close`, which needs every stream and request to
have ended; `ForceExit` is the timer.

A page is `es` (the life of `main` and the `readyState` of its EventSource), the `frames` on
their way to it, and the calls of `loadBoard` under way: each event starts one (`Hear`), each reads
the board at its own time and their answers are rendered in any order. `asked` counts the calls that
are not answered yet, `answers` holds the boards the others were answered with. A board is the set of moves it reflects.
The first load that fails ends `main` (`LoadFails`), any later one is an unhandled rejection
that leaves the old board or clears a lane, since `render` empties the list before it reads
`cards`; the model keeps the old board and sets `blurred`, which records that the load that
ended last failed. `told` is what was committed when the loads under way, or the last ones, began: when the first of them was asked for. `QuietPageIsCurrent`
compares it with what the page shows, which says three things about a page at rest: it is up to
date with the event it heard last; that includes whatever it missed before, while it had no stream
or the process no subscription; and loads that overlap, whose answers may be rendered in the
wrong order, set it back to the first of them at worst.

### TriageLoop

A move of a person or of the agent is one step, as `Board` promises, with the no-op for a card
that is in place. `Take` is `handle_event` up to the filter, `Fetch` reads the card and its
version by then, and `PutOk`, `PutConflict` and `RequestFails` are the answers. `Dies` is
`listen()` raising outside the `try`: the inbox and `_seen` are gone. Whether a card is
urgent is chosen once for each, since names and descriptions do not change.

### Backfill, Migrations and Upgrade

A lane is the sequence its rows have by (priority, id); a rank is the number of its key, as
the keys for n rows ascend and are the first n for every n. `ReadLane` and `WriteLane` are apart because the
rows are read outside the transaction; `Breaks` undoes the lane under way and leaves the others.
A runner of `migrate.ts` goes through `list`, then `file`, `record` and `commit` for each file.
PostgreSQL is external: statements that create what an open transaction creates wait for
it and fail after its COMMIT, and so does the INSERT of a key that is there. The ALTER TABLE steps of the
header are instant and left out. `0001_init.sql` needs the ranks of a lane to be unique
(`Possible`); `0002_seed.sql` is taken to find its ids on the board, as an upgraded prototype
has them.

## 3. Runs

| run | instance | shows |
|---|---|---|
| `rank_lane` | base 2, 2 heads, 3 cards, fractions of 2 digits (1715 states) | keys are valid and in lane order after any history; every gap opens, except next to the smallest integer; string order is numeric order; bulk keys fit any gap |
| `board` | 3 cards, 3 requests, every command with versions 0 to 2 (816 states up to symmetry) | a move reaches the place it names; no rank twice in a lane; ledger, outbox and versions agree; a no-change answer is given exactly when the card is in place |
| `move_race` | 2 requests, 16 commands, 1 retry, 1 lost connection (15792 states up to symmetry) | the transactions implement `Board`, each move being the one its own request asked for; answers are true; the backstops never fire; neighbours are pinned to COMMIT; locks end with the transaction; 409s are counted exactly |
| `move_crowd` | 3 requests, 3 commands that form a lock cycle, 2 connections (69399 states) | the same refinement, and every request is answered |
| `outbox_relay` | 2 relays, 3 moves of a card, batches of 2, 1 failure (426776 states) | marked rows were sent; a duplicate has a failure behind it; events of a card are overtaken only because of another relay; every event is published unless all relays were stopped; the relays implement `EventFeed` |
| `live_board` | 1 page, 2 events of both types, 2 failures (66392 states) | an open stream is in the map of a process that serves; a page at rest shows all that was committed when its last loads began; a move that reached the process is shown unless something fails; SIGTERM ends the process |
| `triage` | 2 cards, any of them urgent, 2 lanes, 3 moves, 2 failures (670977 states) | a card is in the lane a person last chose; with one urgent card the agent makes no more moves than people; when all is handled, the last move of each urgent backlog card was seen to, or its event was lost or failed |
| `upgrade` | 3 cards, 2 files, 3 runners, 2 moves, 2 failures (1727663 states up to symmetry) | the cards nobody moved keep their order; files are applied in order and once; success is not reported early; one of the racing runners succeeds |
| `noop_winners` | 2 requests | finding 1 |
| `moves_metric` | 2 requests | finding 2 |
| `disjoint_moves` | 2 requests, a lane of 8 cards, one command at each end of it | finding 3 |
| `backlog_gauge` | 1 relay, moves of two cards, batches of 1 | finding 4 |

Deadlock checking is off where requests come to an end: when all are answered nothing
is left to do. `rank_lane` never stops and keeps it on.

Bounds, and why they are enough:

- `MaxCards` 3: a gap with a neighbour on both sides and a card besides it. `MaxFraction` 2:
  the shortest in which a fraction grows behind another digit. Keys beyond it are
  generated and checked in `EveryGapOpens` and `BulkKeysFit`, only not stored. `MaxBulk` 4:
  one key, two, and halves that are equal or not, with gaps that run into the floor (`Room`
  counts the integers in front of a key, `ReachesFloor` compares them with the keys asked for).
- three cards, two in one lane: every kind of place, moves inside a lane and across,
  the front, middle and end of a lane, an empty lane, a lane whose only card moves.
- `MaxVersion` 2 in the commands of `MCBoard`: a card moved twice, then once more.
- two requests for every kind of conflict between a pair; three, for one that waits
  behind a cycle of two, for its connection or for their rows. Requests are interchangeable (symmetry) where
  only safety is checked; `move_crowd` uses no symmetry because it checks liveness.
- `MaxRetries` 1: a retry and the end of the budget both happen. `PoolMax` 2 of 3
  requests: `connect` waits and times out.
- `MaxFaults` 1 lost connection per behaviour: a fault ends the call it hits, so a
  second one only repeats it for another request.

- `OutboxRelay`: two relays, three events and batches of two give full, partial and empty
  batches while another relay holds the rest. `MaxFaults` 1 is the failure of a running
  relay; each relay may also be stopped, and a drain of a stopped relay may fail, beyond
  that bound.

- `LiveBoard`: one page, because pages share nothing but the process; its own streams are
  what collides. Two failures are a stream that breaks, connects again and breaks before the first is
  cleaned up, or a break in a shutdown. Two events are two loads under way beside the first.
- `TriageLoop`: three moves are a person's, the agent's answer and one in between; two cards
  take the first slot from each other. One event may be repeated, and one lost, failed or forgotten.
- `Upgrade`: three runners are one that succeeds, one that fails and one that is started again
  meanwhile; two files are those there are, one before the other.

Fairness of `LiveBoard`: messages that arrived are fanned out and heard, loads are answered and
rendered, `server.close` calls back, `process.exit` is reached and the timer of `index.ts:29`
fires. Moves, publishing, visits, connecting again and noticing a closed stream are not fair, and neither
are failures. `ForceExit` is fair while the process is closing: it stands for 10 seconds of time.

Fairness of `OutboxRelay`: a relay goes on with its tick, and its timer fires again
(`outboxRelay.ts:44`), unless it was stopped. Movers, failures and stops are not fair.

Fairness of `MoveService` (`FairSpec`): every step the process or the database takes of its own accord
is weakly fair, per request. Sleeps end, pg-pool serves waiters, a statement whose
locks are free returns, and the deadlock detector runs after `deadlock_timeout`.
Submitting, timing out in `connect` and losing a connection are not fair: they need
not happen. Note that retries alone do not guarantee success: 503 is an answer.

### Findings

1. `noop_winners`. `concurrency.integration.test.ts:91` expects that exactly one of five
   moves with the same version wins. A move to where the card already is returns 200
   without bumping the version (`service:79-86`), so all of them win. The test sends the
   first backlog card of `listBoard` to slot 1, which is where that card is.
2. `moves_metric`. `kanban_card_moves_total` is the "Total successfully committed card
   moves" (`metrics.ts:23`), but is incremented inside the transaction
   (`service:127`), also when it is rolled back, and again on each retry.
3. `disjoint_moves`. `ARCHITECTURE.md:371-374` says that a move locks its card and the rows
   around the drop point only, and that non-adjacent moves in a lane no longer contend. Since
   `findAll(tx)` (`service:133`) reads the whole table in each SERIALIZABLE transaction, any two
   overlapping moves do. In the run one request moves the first of eight cards behind the second,
   the other the last in front of the one before it: the first locks rows 1 to 3, the other
   6 to 8, and still one of the two has to fail with 40001.
4. `backlog_gauge`. `outbox_pending_events` is the "Number of outbox events awaiting
   publication" (`metrics.ts:42`), but is set only when a fetch finds nothing
   (`outboxRelay.ts:62-65`): with a backlog longer than a batch it stays at its last value.

The relays' claim to run "concurrently for HA without double-delivery"
(`outboxRelay.ts:4`) holds as the next sentence qualifies it: a duplicate takes a failure
(`ExtraSendsHadFailures`). Two relays can publish two moves of one card in the wrong
order; nothing promises otherwise, and `OvertakenByAnotherRelay` says when it happens.

Noted on the way, without a run:

- `ARCHITECTURE.md:505-507` has a client resume through `Last-Event-ID`. Frames carry an id,
  but `stream.route.ts` never reads the header: what was published while a stream was broken is not
  sent again, and the page does not reload when it is connected again. That is why
  `MoveReachesPage` speaks of an open page and ends with a failure.
- Reloads overlap, and the older answer may be rendered last and stay until the next event.
  `QuietPageIsCurrent` says how far that sets the page back.
- A process whose `subscribe()` was rejected serves streams that never carry an event
  (`broadcaster.ts:15`). No property is violated by it, as nothing says what should happen.
- `index.ts:2-4` promises that connections close cleanly. A stream is closed by its viewer or by
  the forced `exit(1)` alone, as `broadcaster.stop()` runs after `server.close` has called back.
- Two urgent cards take the first slot from each other without end: `NoRunaway` holds for one
  urgent card only, and each swap is a move in the ledger.
- `triage_agent.py:103` speaks of cards that "remain in" the backlog. The lane is that of the
  event; a card that was moved on meanwhile is reordered in the lane it is in, never moved back
  (`PersonsLaneStands`).
- Of several API containers that start at once the losers of a migration exit with 1 and do
  not serve (`docker-compose.yml:47`).
- `version: null` in a body becomes version 0, although the comment at `client.schema.ts:29` says
  "Required". The prototype's `KanbanBoard.js:58` sends no version and is refused, although
  `client.schema.ts:8-9` keeps `priority` for it.

Not a finding but worth knowing: `generateKeyBetween(null, b)` returns the smallest
integer when `b` is the integer above it, and `validateOrderKey` then refuses that
key. `EveryGapOpens` states the exception. With 26 digits behind `A` no history of
moves gets there (`BackstopsHold`, section 4).

## 4. Proofs

Every safety invariant and every action property of the passing runs is also a theorem, for all
values of the constants; so are both refinements. Only liveness is left to TLC. A theorem holds
under the named assumptions of the modules it is about, which TLC evaluates on each run:

| assumption | says |
|---|---|
| `CardsAssumption`, `SeedAssumption`, `InputAssumption` | finitely many cards; the first board has no rank twice in a lane; commands are those the schema accepts |
| `OrderAssumption`, `KeyAssumption` | ranks are strictly ordered; a generated key is strictly inside its gap. `KeysServeAsRanks` discharges both |
| `KeyParameters`, `LaneBounds` | at least two digits and one head letter; a lane may hold a card |
| `ServiceAssumption`, `RelayAssumption`, `LiveAssumption`, `TriageAssumption` | sets of requests, relays, events and cards are what the names say; bounds are numbers; an event names a card and a version |
| `OldAssumption`, `UpgradeAssumption` | before the backfill every card is in one lane, once; there is a file and a runner |

In each proof module an invariant that implies what is to be shown is proved inductive, one
lemma or step per action. What follows is that invariant and why it takes more than the
property.

**`RankLaneProofs`**: `KeyGoesBetween` is about `generateKeyBetween` with any base, any number
of head letters and keys of any length. Two keys are compared at their first difference, which
is in the head, in the integer or in the fraction; `IncrementIs` and `DecrementIs` say that the
integer next to one is the next, through carries and changes of head; `MidBetweenIs` and
`MidAboveIs` do the same for the fractions. The one exception is the floor: the smallest
integer, which is handed out in front of its successor and refused as an argument.
`KeysServeAsRanks` puts this into the form `ClientsTable` assumes, so whatever is proved of
`Board` and `MoveService` holds with the keys the program has. A lane that grows by such keys
and shrinks keeps their order (`OrderIsKept`), each of its gaps opens (`GapsStayOpen`) and no
key occurs twice (`KeysDiffer`). The invariant is that only the first key may be the smallest
integer (`Stored`): without it, a gap behind one that is refused could be anywhere.

`generateNKeysBetween` calls itself, and so do the definitions a key is read as a number with.
Two things are therefore shown first, once for all of them. `EveryNumber`: a set of numbers that
has a number whenever it has those below is `Nat`, as the least number outside it would be in it.
This is induction, for a set in the place of a predicate. `RecursionDefines`: a rule that gets
each value from the values before it has a solution, so that the definition, which takes a
solution if there is one, takes one. `GapsTakeMany` (`BulkKeysFit`) is then an induction over the
keys that are asked for. What bounds them is the floor. `Room` of a key is the number of
integers in front of it. A key in front of all others costs one of them (`OneIntegerLess`, as
no integer lies between one and its `Decrement`), one inside a gap has at least as many in front
as its left neighbour, and one behind all others at least as many too. So n
keys fit into a gap, unless it is the one in front of the lane and the first card has no more
than n integers in front of it. Two consequences: `KeysNumberTheCards`, which `Backfill` rests
on, and `KeysHaveRoom`, for `BackstopsHold` below.

`StringOrderIsNumeric` (`OrderIsNumeric`): integers with one head fill an interval as long as
they have numerals (`DigitalFits`), the intervals of the heads follow on one another
(`NextHead`, `HeadsAscend`), and inside one, or among fractions with enough places, the first
different digit decides (`FirstDigitDecides`), because what is behind it adds less than one.

**`BoardProofs`**: `RanksStayUnique` (`RanksUnique`) is the argument the design rests on.
`GapIsEmpty`: for each kind of place, no card of the lane is between the neighbours
`resolveNeighbours` finds (it needs a strictly ordered lane, which is `RanksUnique` itself).
`NewRankIsFree`: hence a key strictly between their ranks is the rank of no other card.
`MovesReachTheirPlace` (`MoveReachesPlace`) and `NoChangeMeansInPlace` (`NoOpIsInPlace`) count
the cards in front of the moved one (`PlaceIsBetween`): the lane is split into those up to the
previous neighbour and those from the next, and both neighbours are those the place stands for.
`LedgerNeverDrifts` joins `LedgerCountsVersions`, `LedgerIsTrail` and `OutboxTellsLedger` (the
last two are then theorems of their own). They are not inductive without `VersionsRise`:
versions never fall below the seed's, so a new ledger row starts where the card's last one
ended.

**`MoveServiceProofs`**: the invariant relates what a call remembers to the tables. `LocksHold`:
a locked row is as its holder's snapshot has it. `Prepared`: whatever the call has passed still
holds of its snapshot, and the card and its neighbours are locked or in `todo`, which is empty
at COMMIT. From these two follow `DropPointIsPinned` (`NeighboursPinned`) and the half of
`BackstopsNeverFire` that is about concurrency (`BackstopsStayQuiet`): the UNIQUE constraint
never refuses a write, and keys are asked for between neighbours in order only. `Told` and `Once` tie the answer to the ledger (`AnswersStayTrue`);
`Counted` is `ConflictsAreCounted`, for which the requests that were answered 409 must stay a
finite set. `ServiceImplementsBoard` (`RefinesBoard`): a COMMIT that writes, heard or not, is
`Board!Move` of the command that very request was sent with (`OwnMove`; `Board!Next` alone would
allow any). Since the neighbours are pinned and the snapshot has the board of today
(`Serializable`), what was computed from the snapshot is what `Board` computes from the board.
Every other step leaves `board`, `audit` and `outbox` alone.

`BackstopsHold` is the whole of `BackstopsNeverFire`: `generateKeyBetween` never throws either.
From `KeyAssumption` alone this would be false, as it allows a generator without an answer and
`rank.ts` has none at its floor. The theorem assumes what `KeysHaveRoom` proves of `rank.ts`
(`Roomy`): ranks have a height, and a rank between two others is lower than the lower of them by
at most one. The invariant (`RoomLeft`) is that no rank a call may build on, on the board or in a
snapshot, is lower than the moves that are left, of which there are as many as requests without
a row in the ledger (`MovesAreLeft`): an attempt that is rolled back lowers nothing. The cards of
`0002_seed.sql` have ranks from `a0` upward, and with 26 letters and 62 digits there are
62 + 62^2 + ... + 62^26 integers in front of `a0`, so no number of requests that a service lives
to see reaches the floor.

**`TriageLoopProofs`**: `PersonDecides` needs `Rows` (a card is in one lane, once, the one a
person chose) and `Tells` (the event of a card's last move names that lane; events are told
apart by card and version). `AgentIsTame` (`NoRunaway`): a move of the agent leaves its card in
front, and only a person's move takes it from there, so when the card is not in front the agent
owes a move (`Spent`). `LastMoveIsSeenTo` (`LastMoveIsTriaged`): the event of each urgent card's
last move into the backlog is on its way, in the agent's hands, handled or missed (`Minded`).

**`OutboxRelayProofs`**: `MarkedRowsWereSent` (`MarkedWasSent`) needs `BatchAccounted`, whatever
is in a batch and no longer in `unsent` was sent, and `OneHolder` (`EventsHaveOneHolder`),
batches are disjoint and hold no marked row. `OutboxIsFeed` (`RefinesFeed`) follows from these.
`OnlyOthersOvertake` (`OvertakenByAnotherRelay`) needs that rows of a card are in the order of
their versions (`MovesInOrder`) and that a fetch takes earlier rows first, so that what a relay
holds lacks an earlier row only if it was sent or is another's business (`NothingSkipped`).
`OnlyFailuresRepeat` (`ExtraSendsHadFailures`) counts: deliveries of an event never exceed the
failed ticks that held it, plus one when it is marked or is about to be (`Paid`).

**`LiveBoardProofs`**: `OpenStreamsAreServed` (`StreamsAreServed`): a stream that is removed is
dead, so it is not the one its page has open, and `Shutdown` finds the map empty.
`QuietPagesAreCurrent` (`QuietPageIsCurrent`): whatever a load of the page was answered
holds all that was committed when its loads began, and so does the board when the last one to end
did not fail (`Fresh`); the order of the answers does not matter. `TypeCorrect` is not a formality here: that each new stream gets
a number no other stream of the page has rests on `Room`, a page has at most one stream more
than failures happened.

**`UpgradeProofs`**: `MigrationsApplyOnce` (`FilesAppliedOnce`). The journal is always 1 to n
(`Ordered`); a runner about to commit holds a file nobody recorded, which can only be n + 1
(`Sound`, `OneCommits`). That one runner succeeds rests on a survivor (`SomeSurvive`): whoever
committed last, or read the journal last, wants no file that was applied by another. For its
first file it needs unique ranks, which the backfill of an undisturbed board has written
(`Backfilled`). `BackfillKeepsPriorities` (`BackfillKeepsOrder`) drops "undisturbed": cards that
nobody moved have ranks and stand by them as they stood by priority, even when others came and
went between the read of a lane and the write of its rows. The invariant (`Table`, `Filling`) is
that the unmoved cards of the lane being written are, in the same order, the ones among the rows
that were read.

What TLC alone checks is liveness: `EveryRequestAnswered` in `move_crowd`, `EveryEventPublished`
in `outbox_relay`, `MoveReachesPage` and `ShutdownEnds` in `live_board`. Fairness and ENABLED are
beyond the prover. The violations of the last four runs are TLC's too.

## 5. Plan

Everything that was planned is done: every module of section 2, and the proofs of section 4.

What could follow: lemmas that several proof modules need (lists without an element, lists with
one more) in one place; and properties for the three hazards of `PROJECT.json` that have none (`version: null`, a
process without a subscription, two urgent cards), once somebody says what should happen.

### Not modelled

Auth and rate limit decide on one request by libraries, with no state of the program's own; what a
refusal does to a page is `StreamRefused` and `LoadFails`. Tracing, logging, configuration, health
probes and the request histogram observe or wire the rest. The legacy prototype (`src/KanbanBoard.js`, `legacy/`) is
not part of the running service.
