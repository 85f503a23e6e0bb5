----------------------------- MODULE OutboxRelay -----------------------------
(***************************************************************************)
(* The outbox between the movers that fill it and the relays, one in each  *)
(* API process, that publish its rows to Redis and mark them published in  *)
(* READ COMMITTED transactions with FOR UPDATE SKIP LOCKED.                *)
(*                                                                         *)
(* An event is <<card, k>>, for the move that takes its card to version k. *)
(* A row whose transaction is rolled back is never seen; created has those *)
(* of the attempts that commit sooner or later.  Redis is external:        *)
(* sent is what was handed to it.  PostgreSQL is external: the rows that a *)
(* fetch returns stay locked until its transaction ends.                   *)
(***************************************************************************)
EXTENDS Integers, FiniteSets, Sequences

CONSTANTS Relays,
          Events,        \* the moves of a behaviour
          BatchSize,     \* OUTBOX_BATCH_SIZE
          MaxFaults      \* bound: failed ticks and crashes of running relays

ASSUME RelayAssumption ==
  /\ IsFiniteSet(Relays) /\ IsFiniteSet(Events)
  /\ \A e \in Events : e = <<e[1], e[2]>> /\ e[2] \in Nat
  /\ MaxFaults \in Nat /\ BatchSize \in Nat \ {0}

VARIABLES created,     \* outbox rows, also of open transactions, by created_at
          committed,   \* the rows that can be read
          marked,      \* ... whose published_at is set
          sent,        \* how often each relay published each event
          pc,          \* drainOnce of each relay
          batch,       \* the rows it has fetched, and so locked
          unsent,      \* ... that it has still to publish
          stopped,     \* relays that were told to stop
          gauge,       \* outbox_pending_events of each process
          failures,    \* how often a tick of each relay failed with each event
          faults

table == <<created, committed, marked>>
vars  == <<table, sent, pc, batch, unsent, stopped, gauge, failures, faults>>

Pending == committed \ marked
Created == {created[i] : i \in DOMAIN created}

Earlier(e, f) ==
  \E i, j \in DOMAIN created : i < j /\ created[i] = e /\ created[j] = f

Init ==
  /\ created = <<>> /\ committed = {} /\ marked = {}
  /\ pc = [r \in Relays |-> "idle"]
  /\ batch = [r \in Relays |-> {}] /\ unsent = [r \in Relays |-> {}]
  /\ stopped = {}
  /\ gauge = [r \in Relays |-> 0]
  /\ sent = [r \in Relays |-> [e \in Events |-> 0]]
  /\ failures = [r \in Relays |-> [e \in Events |-> 0]]
  /\ faults = 0

-----------------------------------------------------------------------------
(* The movers, as far as the outbox sees them.                             *)

\* created_at is now(), the time of BEGIN.  A client sends a version it was
\* shown, so a card's next move begins after the last one was committed.
Begin(e) ==
  /\ e \notin Created
  /\ \A f \in Events : f[1] = e[1] /\ f[2] < e[2] => f \in committed
  /\ created' = Append(created, e)
  /\ UNCHANGED <<committed, marked, sent, pc, batch, unsent, stopped, gauge,
                 failures, faults>>

CommitMove(e) ==
  /\ e \in Created \ committed
  /\ committed' = committed \cup {e}
  /\ UNCHANGED <<created, marked, sent, pc, batch, unsent, stopped, gauge,
                 failures, faults>>

-----------------------------------------------------------------------------
(* A relay.                                                                *)

\* Variant: without FOR UPDATE SKIP LOCKED.
FreeOrNot(r) == Pending
Free(r) == Pending \ UNION {batch[q] : q \in Relays}

\* Variants: without LIMIT; without ORDER BY.
AllOf(rows, taken) == taken = rows
AnyOf(rows, taken) ==
  /\ taken \subseteq rows
  /\ Cardinality(taken) = IF Cardinality(rows) < BatchSize
                          THEN Cardinality(rows) ELSE BatchSize

\* ORDER BY created_at LIMIT batchSize
Oldest(rows, taken) ==
  /\ taken \subseteq rows
  /\ Cardinality(taken) = IF Cardinality(rows) < BatchSize
                          THEN Cardinality(rows) ELSE BatchSize
  /\ \A e \in taken, f \in rows \ taken : Earlier(e, f)

\* tick, drainOnce and fetchUnpublished
Fetch(r) ==
  /\ pc[r] = "idle" /\ r \notin stopped
  /\ \E rows \in SUBSET Free(r) :
       /\ Oldest(Free(r), rows)
       /\ batch' = [batch EXCEPT ![r] = rows]
       /\ unsent' = [unsent EXCEPT ![r] = rows]
       /\ pc' = [pc EXCEPT ![r] = IF rows = {} THEN "count" ELSE "publish"]
  /\ UNCHANGED <<table, sent, stopped, gauge, failures, faults>>

\* no rows: countPending, which reads what is committed by now
CountPending(r) ==
  /\ pc[r] = "count"
  /\ gauge' = [gauge EXCEPT ![r] = Cardinality(Pending)]
  /\ pc' = [pc EXCEPT ![r] = "idle"]
  /\ UNCHANGED <<table, sent, batch, unsent, stopped, failures, faults>>

NextUp(r, e) == e \in unsent[r] /\ \A f \in unsent[r] \ {e} : Earlier(e, f)

Publish(r) ==
  /\ pc[r] = "publish"
  /\ \E e \in unsent[r] :
       /\ NextUp(r, e)
       /\ sent' = [sent EXCEPT ![r][e] = @ + 1]
       /\ unsent' = [unsent EXCEPT ![r] = @ \ {e}]
  /\ UNCHANGED <<table, pc, batch, stopped, gauge, failures, faults>>

\* Variant: UPDATE ... WHERE published_at IS NULL, whatever the batch was.
MarkAllPending(r) ==
  /\ pc[r] = "publish" /\ unsent[r] = {}
  /\ marked' = marked \cup Pending
  /\ pc' = [pc EXCEPT ![r] = "idle"] /\ batch' = [batch EXCEPT ![r] = {}]
  /\ UNCHANGED <<created, committed, sent, unsent, stopped, gauge, failures, faults>>

\* markPublished and COMMIT.  When the answer to COMMIT is lost the tick is
\* logged as failed, and nothing else differs.
MarkPublished(r) ==
  /\ pc[r] = "publish" /\ unsent[r] = {}
  /\ marked' = marked \cup batch[r]
  /\ pc' = [pc EXCEPT ![r] = "idle"] /\ batch' = [batch EXCEPT ![r] = {}]
  /\ UNCHANGED <<created, committed, sent, unsent, stopped, gauge, failures, faults>>

\* A running relay fails at the expense of the bound; once shutdown closes the
\* publisher and the pool below a drain, that drain fails.
MayFail(r) ==
  /\ pc[r] # "idle"
  /\ \/ r \in stopped /\ faults' = faults
     \/ faults < MaxFaults /\ faults' = faults + 1

Fails(r) ==
  /\ failures' = [failures EXCEPT ![r] =
                    [e \in Events |-> @[e] + IF e \in batch[r] THEN 1 ELSE 0]]
  /\ unsent' = [unsent EXCEPT ![r] = {}] /\ batch' = [batch EXCEPT ![r] = {}]

\* a publish that is rejected may have reached Redis all the same
MaybeSent(r) ==
  \/ UNCHANGED sent
  \/ \E e \in unsent[r] : NextUp(r, e) /\ sent' = [sent EXCEPT ![r][e] = @ + 1]

\* Variants: an error of publish is swallowed; draining stays set.
PublishSwallowed(r) ==
  /\ MayFail(r)
  /\ \E e \in unsent[r] : NextUp(r, e) /\ unsent' = [unsent EXCEPT ![r] = @ \ {e}]
  /\ UNCHANGED <<table, sent, pc, batch, stopped, gauge, failures>>
DrainingForEver(r) ==
  /\ MayFail(r)
  /\ Fails(r) /\ MaybeSent(r)
  /\ pc' = [pc EXCEPT ![r] = "draining"]
  /\ UNCHANGED <<table, stopped, gauge>>

\* publish or a query throws: ROLLBACK, and the tick is logged as failed
FailTick(r) ==
  /\ MayFail(r)
  /\ Fails(r) /\ MaybeSent(r)
  /\ pc' = [pc EXCEPT ![r] = "idle"]
  /\ UNCHANGED <<table, stopped, gauge>>

\* the process dies and is started again
Crash(r) ==
  /\ pc[r] # "idle" /\ r \notin stopped
  /\ faults < MaxFaults /\ faults' = faults + 1
  /\ Fails(r)
  /\ pc' = [pc EXCEPT ![r] = "idle"] /\ gauge' = [gauge EXCEPT ![r] = 0]
  /\ UNCHANGED <<table, sent, stopped>>

\* stop() does not wait for a drain that is under way
Stop(r) ==
  /\ r \notin stopped
  /\ stopped' = stopped \cup {r}
  /\ UNCHANGED <<table, sent, pc, batch, unsent, gauge, failures, faults>>

-----------------------------------------------------------------------------
Drain(r) == Fetch(r) \/ CountPending(r) \/ Publish(r) \/ MarkPublished(r)

Next ==
  \/ \E e \in Events : Begin(e) \/ CommitMove(e)
  \/ \E r \in Relays : Drain(r) \/ FailTick(r) \/ Crash(r) \/ Stop(r)

Spec == Init /\ [][Next]_vars

\* The timer fires again after each tick, and awaited calls return.
Fairness == \A r \in Relays : WF_vars(Drain(r))

FairSpec == Spec /\ Fairness
-----------------------------------------------------------------------------
TypeOK ==
  /\ created \in Seq(Events) /\ committed \subseteq Created /\ marked \subseteq committed
  /\ sent \in [Relays -> [Events -> Nat]]
  /\ pc \in [Relays -> {"idle", "publish", "count"}]
  /\ batch \in [Relays -> SUBSET committed] /\ unsent \in [Relays -> SUBSET committed]
  /\ \A r \in Relays : unsent[r] \subseteq batch[r] /\ Cardinality(batch[r]) <= BatchSize
  /\ stopped \subseteq Relays
  /\ gauge \in [Relays -> Nat]
  /\ failures \in [Relays -> [Events -> Nat]]
  /\ faults \in 0 .. MaxFaults

SentBy(r) == {e \in Events : sent[r][e] > 0}
Sent      == UNION {SentBy(r) : r \in Relays}

\* Delivery is at-least-once: a row is marked published, which is for ever,
\* only when it was published, whatever failed on the way; and only what was
\* committed is told to anybody.
MarkedWasSent == marked \subseteq Sent /\ Sent \subseteq committed

\* Several relays do not deliver an event twice (outboxRelay.ts:4): each
\* delivery of an event beyond its first is owed to a tick that failed with it.
Occasions(counts, e) == UNION {{r} \X (1 .. counts[r][e]) : r \in Relays}
InAll(counts, e) == Cardinality(Occasions(counts, e))

ExtraSendsHadFailures ==
  \A e \in Events : InAll(sent, e) <= 1 + InAll(failures, e)

\* The events of a card are first published in the order of its moves: one is
\* overtaken only while another relay has it, or after one failed with it.
OvertakenByAnotherRelay ==
  \A e \in committed \ Sent : \A r \in Relays : \A f \in SentBy(r) :
     e[1] = f[1] /\ e[2] < f[2]
       => \E q \in Relays \ {r} : e \in batch[q] \/ failures[q][e] > 0

\* Every committed event is marked published in the end, as long as some relay
\* is left that nobody told to stop.
EveryEventPublished ==
  \A e \in Events : e \in committed ~> e \in marked \/ stopped = Relays

\* To whoever listens, any number of relays that fail, die and stop are one
\* feed: nothing is told before it is committed, and no row is settled that was
\* not published, by whichever relay.
Promise == INSTANCE EventFeed WITH committed <- committed, published <- Sent,
                                   settled <- marked
RefinesFeed == Promise!Feed

-----------------------------------------------------------------------------
\* metrics.ts:42, "Number of outbox events awaiting publication": a relay that
\* ends a drain with events still waiting shows that there are some.
GaugeShowsBacklog ==
  [][\A r \in Relays : MarkPublished(r) /\ committed \ marked' # {}
                         => gauge'[r] > 0]_vars
=============================================================================
