-------------------------- MODULE OutboxRelayProofs --------------------------
(***************************************************************************)
(* At-least-once delivery, for any number of relays and events, any batch  *)
(* size and any number of failures.                                        *)
(***************************************************************************)
EXTENDS OutboxRelay, FiniteSetTheorems, TLAPS

\* SKIP LOCKED: no row is in the batch of two relays, and no row of a batch is
\* marked before its relay does so.
OneHolder ==
  /\ \A q, r \in Relays : q # r => batch[q] \cap batch[r] = {}
  /\ \A r \in Relays : batch[r] \cap marked = {}

\* What a relay has fetched and need not send any more, was sent.
BatchAccounted ==
  \A r \in Relays : /\ batch[r] \subseteq unsent[r] \cup Sent
                    /\ pc[r] # "publish" => batch[r] = {}

Inv == TypeOK /\ MarkedWasSent /\ OneHolder /\ BatchAccounted

-----------------------------------------------------------------------------
LEMMA InitInv == Init => Inv
<1> SUFFICES ASSUME Init PROVE Inv
  OBVIOUS
<1>1. Created = {} /\ created \in Seq(Events)
  BY DEF Init, Created
<1>2. Sent = {}
  BY DEF Init, Sent, SentBy
<1>3. Cardinality({}) = 0
  BY FS_EmptySet
<1>4. TypeOK
  BY <1>1, <1>3, RelayAssumption DEF Init, TypeOK
<1> QED
  BY <1>2, <1>4 DEF Init, Inv, MarkedWasSent, OneHolder, BatchAccounted

\* The events sent are those sent before and the one just published.
LEMMA SentGrows ==
  ASSUME TypeOK, NEW r \in Relays, NEW e \in Events,
         sent' = [sent EXCEPT ![r][e] = @ + 1]
  PROVE  sent' \in [Relays -> [Events -> Nat]] /\ Sent' = Sent \cup {e}
<1>1. sent \in [Relays -> [Events -> Nat]]
  BY DEF TypeOK
<1>2. \A q \in Relays, f \in Events :
        sent'[q][f] = IF q = r /\ f = e THEN sent[q][f] + 1 ELSE sent[q][f]
  BY <1>1
<1>3. sent' \in [Relays -> [Events -> Nat]]
  BY <1>1
<1>4. \A q \in Relays, f \in Events :
        sent'[q][f] > 0 <=> sent[q][f] > 0 \/ (q = r /\ f = e)
  BY <1>1, <1>2
<1>5. \A q \in Relays : (SentBy(q))' = SentBy(q) \cup (IF q = r THEN {e} ELSE {})
  BY <1>4 DEF SentBy
<1> QED
  BY <1>3, <1>5 DEF Sent

\* A row that is appended is one more.
LEMMA CreatedGrows ==
  ASSUME created \in Seq(Events), NEW e \in Events, created' = Append(created, e)
  PROVE  created' \in Seq(Events) /\ Created \subseteq Created'
<1>1. created' \in Seq(Events) /\ Len(created') = Len(created) + 1
  OBVIOUS
<1>2. \A i \in DOMAIN created : i \in DOMAIN created' /\ created'[i] = created[i]
  OBVIOUS
<1> QED
  BY <1>1, <1>2 DEF Created

LEMMA CreatedAreEvents == TypeOK => Created \subseteq Events
  BY DEF TypeOK, Created

\* Every step keeps the invariant.
LEMMA NextInv == Inv /\ [Next]_vars => Inv'
<1> SUFFICES ASSUME Inv, [Next]_vars PROVE Inv'
  OBVIOUS
<1> USE DEF Inv
<1>1. CASE UNCHANGED vars
  BY <1>1 DEF vars, table, TypeOK, Created, MarkedWasSent, Sent, SentBy, OneHolder,
              BatchAccounted
<1>2. ASSUME NEW e \in Events, Begin(e)
      PROVE  Inv'
  <2>1. created' \in Seq(Events) /\ Created \subseteq Created'
    BY <1>2, CreatedGrows DEF Begin, TypeOK
  <2>2. TypeOK'
    BY <1>2, <2>1 DEF Begin, TypeOK
  <2> QED
    BY <1>2, <2>2 DEF Begin, MarkedWasSent, Sent, SentBy, OneHolder, BatchAccounted
<1>3. ASSUME NEW e \in Events, CommitMove(e)
      PROVE  Inv'
  <2>1. TypeOK'
    BY <1>3 DEF CommitMove, TypeOK, Created
  <2> QED
    BY <1>3, <2>1 DEF CommitMove, MarkedWasSent, Sent, SentBy, OneHolder, BatchAccounted
<1>4. ASSUME NEW r \in Relays, Fetch(r)
      PROVE  Inv'
  <2>1. PICK rows \in SUBSET Free(r) :
          /\ Oldest(Free(r), rows)
          /\ batch' = [batch EXCEPT ![r] = rows]
          /\ unsent' = [unsent EXCEPT ![r] = rows]
          /\ pc' = [pc EXCEPT ![r] = IF rows = {} THEN "count" ELSE "publish"]
    BY <1>4 DEF Fetch
  <2>2. rows \subseteq committed \ marked /\ \A q \in Relays : rows \cap batch[q] = {}
    BY <2>1 DEF Free, Pending
  <2>3. Cardinality(rows) <= BatchSize
    <3>1. IsFiniteSet(Free(r))
      BY CreatedAreEvents, RelayAssumption, FS_Subset DEF TypeOK, Free, Pending
    <3>2. Cardinality(Free(r)) \in Nat
      BY <3>1, FS_CardinalityType
    <3> QED
      BY <2>1, <3>2, RelayAssumption DEF Oldest
  <2>4. TypeOK'
    <3>1. /\ batch' \in [Relays -> SUBSET committed]
          /\ unsent' \in [Relays -> SUBSET committed]
          /\ \A q \in Relays : unsent'[q] \subseteq batch'[q]
                              /\ Cardinality(batch'[q]) <= BatchSize
      BY <2>1, <2>2, <2>3 DEF TypeOK
    <3>2. pc' \in [Relays -> {"idle", "publish", "count"}]
      BY <2>1 DEF TypeOK
    <3> QED
      BY <1>4, <3>1, <3>2 DEF Fetch, table, TypeOK, Created
  <2>5. OneHolder'
    BY <1>4, <2>1, <2>2 DEF Fetch, table, TypeOK, OneHolder
  <2>6. BatchAccounted'
    BY <1>4, <2>1, <2>2 DEF Fetch, table, TypeOK, BatchAccounted, Sent, SentBy
  <2> QED
    BY <1>4, <2>4, <2>5, <2>6 DEF Fetch, table, MarkedWasSent, Sent, SentBy
<1>5. ASSUME NEW r \in Relays, CountPending(r)
      PROVE  Inv'
  <2>1. Cardinality(Pending) \in Nat
    BY CreatedAreEvents, RelayAssumption, FS_Subset, FS_CardinalityType DEF TypeOK, Pending
  <2>2. TypeOK'
    BY <1>5, <2>1 DEF CountPending, table, TypeOK, Created
  <2> QED
    BY <1>5, <2>2 DEF CountPending, table, TypeOK, MarkedWasSent, Sent, SentBy, OneHolder,
                      BatchAccounted
<1>6. ASSUME NEW r \in Relays, Publish(r)
      PROVE  Inv'
  <2>1. PICK e \in unsent[r] :
          /\ sent' = [sent EXCEPT ![r][e] = @ + 1]
          /\ unsent' = [unsent EXCEPT ![r] = @ \ {e}]
    BY <1>6 DEF Publish
  <2>2. e \in committed /\ e \in Events
    BY CreatedAreEvents DEF TypeOK
  <2>3. sent' \in [Relays -> [Events -> Nat]] /\ Sent' = Sent \cup {e}
    BY <2>1, <2>2, SentGrows
  <2>4. TypeOK'
    BY <1>6, <2>1, <2>3 DEF Publish, table, TypeOK, Created
  <2>5. BatchAccounted'
    BY <1>6, <2>1, <2>3 DEF Publish, table, TypeOK, BatchAccounted
  <2> QED
    BY <1>6, <2>2, <2>3, <2>4, <2>5 DEF Publish, table, MarkedWasSent, OneHolder
<1>7. ASSUME NEW r \in Relays, MarkPublished(r)
      PROVE  Inv'
  <2>1. batch[r] \subseteq Sent /\ batch[r] \subseteq committed
    BY <1>7 DEF MarkPublished, BatchAccounted, TypeOK
  <2>2. Cardinality({}) = 0
    BY FS_EmptySet
  <2>3. Sent' = Sent
    BY <1>7 DEF MarkPublished, Sent, SentBy
  <2>4. TypeOK'
    BY <1>7, <2>1, <2>2, RelayAssumption DEF MarkPublished, TypeOK, Created
  <2>5. OneHolder'
    BY <1>7 DEF MarkPublished, TypeOK, OneHolder
  <2>6. BatchAccounted'
    BY <1>7, <2>3 DEF MarkPublished, TypeOK, BatchAccounted
  <2> QED
    BY <1>7, <2>1, <2>3, <2>4, <2>5, <2>6 DEF MarkPublished, MarkedWasSent
<1>8. ASSUME NEW r \in Relays, Fails(r), MaybeSent(r), UNCHANGED table,
             pc' = [pc EXCEPT ![r] = "idle"], stopped' = stopped,
             gauge' \in [Relays -> Nat], faults' \in 0 .. MaxFaults
      PROVE  Inv'
  <2>1. Cardinality({}) = 0
    BY FS_EmptySet
  <2>2. sent' \in [Relays -> [Events -> Nat]] /\ Sent \subseteq Sent' /\ Sent' \subseteq committed
    <3>1. CASE UNCHANGED sent
      BY <3>1 DEF TypeOK, Sent, SentBy, MarkedWasSent
    <3>2. CASE \E e \in unsent[r] : sent' = [sent EXCEPT ![r][e] = @ + 1]
      <4>1. PICK e \in unsent[r] : sent' = [sent EXCEPT ![r][e] = @ + 1]
        BY <3>2
      <4>2. e \in committed /\ e \in Events
        BY CreatedAreEvents DEF TypeOK
      <4> QED
        BY <4>1, <4>2, SentGrows DEF MarkedWasSent
    <3> QED
      BY <1>8, <3>1, <3>2 DEF MaybeSent
  <2>3. failures' \in [Relays -> [Events -> Nat]]
    BY <1>8 DEF Fails, TypeOK
  <2>4. TypeOK'
    BY <1>8, <2>1, <2>2, <2>3, RelayAssumption DEF Fails, table, TypeOK, Created
  <2>5. OneHolder'
    BY <1>8 DEF Fails, table, TypeOK, OneHolder
  <2>6. BatchAccounted'
    BY <1>8, <2>2 DEF Fails, TypeOK, BatchAccounted
  <2> QED
    BY <1>8, <2>2, <2>4, <2>5, <2>6 DEF table, MarkedWasSent
<1>9. ASSUME NEW r \in Relays, FailTick(r)
      PROVE  Inv'
  <2>1. faults' \in 0 .. MaxFaults /\ gauge' \in [Relays -> Nat]
    BY <1>9, RelayAssumption DEF FailTick, MayFail, TypeOK
  <2> QED
    BY <1>8, <1>9, <2>1 DEF FailTick
<1>10. ASSUME NEW r \in Relays, Crash(r)
       PROVE  Inv'
  <2>1. faults' \in 0 .. MaxFaults /\ gauge' \in [Relays -> Nat]
    BY <1>10, RelayAssumption DEF Crash, TypeOK
  <2> QED
    BY <1>8, <1>10, <2>1 DEF Crash, MaybeSent
<1>11. ASSUME NEW r \in Relays, Stop(r)
       PROVE  Inv'
  BY <1>11 DEF Stop, table, TypeOK, Created, MarkedWasSent, Sent, SentBy, OneHolder,
               BatchAccounted
<1> QED
  BY <1>1, <1>2, <1>3, <1>4, <1>5, <1>6, <1>7, <1>9, <1>10, <1>11 DEF Next, Drain

THEOREM InvHolds == Spec => []Inv
BY InitInv, NextInv, PTL DEF Spec

-----------------------------------------------------------------------------
\* The variables keep their types; a batch is never longer than BatchSize.
THEOREM RelayTypes == Spec => []TypeOK
BY InvHolds, PTL DEF Inv

\* A row is marked published only when it was published, whatever fails and
\* whoever crashes, and nothing is published before it is committed.
THEOREM MarkedRowsWereSent == Spec => []MarkedWasSent
BY InvHolds, PTL DEF Inv

\* Two relays never work on the same event (outbox.repository.ts:36-37).
THEOREM EventsHaveOneHolder == Spec => []OneHolder
BY InvHolds, PTL DEF Inv
-----------------------------------------------------------------------------
\* A relay that publishes an event publishes one of the feed.
LEMMA SendIsPublish ==
  ASSUME Inv, NEW r \in Relays, NEW e \in unsent[r], pc[r] = "publish",
         sent' = [sent EXCEPT ![r][e] = @ + 1], UNCHANGED table
  PROVE  Promise!Publish(e)
<1>1. e \in committed \ marked /\ e \in Events
  BY CreatedAreEvents DEF Inv, TypeOK, OneHolder
<1>2. Sent' = Sent \cup {e}
  BY <1>1, SentGrows DEF Inv
<1> QED
  BY <1>1, <1>2 DEF Promise!Publish, table

\* Every step of the outbox and its relays is a step of the feed, or none.
LEMMA NextIsFeedNext == Inv /\ [Next]_vars => [Promise!FeedNext]_(Promise!feed)
<1> SUFFICES ASSUME Inv, [Next]_vars
             PROVE  Promise!FeedNext \/ UNCHANGED <<committed, Sent, marked>>
  BY DEF Promise!feed
<1> USE DEF Promise!FeedNext
<1>1. ASSUME UNCHANGED sent
      PROVE  Sent' = Sent
  BY <1>1 DEF Sent, SentBy
<1>2. CASE UNCHANGED vars
  BY <1>1, <1>2 DEF vars, table
<1>3. ASSUME NEW e \in Events, Begin(e)
      PROVE  UNCHANGED <<committed, Sent, marked>>
  BY <1>1, <1>3 DEF Begin
<1>4. ASSUME NEW e \in Events, CommitMove(e)
      PROVE  Promise!Commit(e)
  BY <1>1, <1>4 DEF CommitMove, Promise!Commit
<1>5. ASSUME NEW r \in Relays, Fetch(r) \/ CountPending(r) \/ Stop(r)
      PROVE  UNCHANGED <<committed, Sent, marked>>
  BY <1>1, <1>5 DEF Fetch, CountPending, Stop, table
<1>6. ASSUME NEW r \in Relays, Publish(r)
      PROVE  Promise!FeedNext
  <2>1. PICK e \in unsent[r] : sent' = [sent EXCEPT ![r][e] = @ + 1]
    BY <1>6 DEF Publish
  <2>2. Promise!Publish(e)
    BY <1>6, <2>1, SendIsPublish DEF Publish
  <2> QED
    BY <2>2, CreatedAreEvents DEF Inv, TypeOK
<1>7. ASSUME NEW r \in Relays, MarkPublished(r)
      PROVE  Promise!FeedNext
  <2>1. batch[r] \subseteq Sent /\ batch[r] \subseteq Events
    BY <1>7, CreatedAreEvents DEF MarkPublished, Inv, BatchAccounted, TypeOK
  <2>2. Promise!Settle(batch[r])
    BY <1>1, <1>7, <2>1 DEF MarkPublished, Promise!Settle
  <2> QED
    BY <2>1, <2>2
<1>8. ASSUME NEW r \in Relays, MaybeSent(r), UNCHANGED table
      PROVE  Promise!FeedNext \/ UNCHANGED <<committed, Sent, marked>>
  <2>1. CASE UNCHANGED sent
    BY <1>1, <1>8, <2>1 DEF table
  <2>2. CASE \E e \in unsent[r] : sent' = [sent EXCEPT ![r][e] = @ + 1]
    <3>1. PICK e \in unsent[r] : sent' = [sent EXCEPT ![r][e] = @ + 1]
      BY <2>2
    <3>2. pc[r] = "publish" /\ e \in Events
      BY <3>1, CreatedAreEvents DEF Inv, TypeOK, BatchAccounted
    <3>3. Promise!Publish(e)
      BY <1>8, <3>1, <3>2, SendIsPublish
    <3> QED
      BY <3>2, <3>3
  <2> QED
    BY <1>8, <2>1, <2>2 DEF MaybeSent
<1>9. ASSUME NEW r \in Relays, FailTick(r) \/ Crash(r)
      PROVE  Promise!FeedNext \/ UNCHANGED <<committed, Sent, marked>>
  BY <1>8, <1>9 DEF FailTick, Crash, MaybeSent
<1> QED
  BY <1>2, <1>3, <1>4, <1>5, <1>6, <1>7, <1>9 DEF Next, Drain

\* The outbox and its relays keep the promise of the feed, whatever fails.
THEOREM OutboxIsFeed == Spec => RefinesFeed
<1>1. Init => Promise!FeedInit
  BY DEF Init, Promise!FeedInit, Sent, SentBy
<1> QED
  BY <1>1, InvHolds, NextIsFeedNext, PTL DEF Spec, RefinesFeed, Promise!Feed
-----------------------------------------------------------------------------
(* The order of a card's events.                                           *)

EarlierMove(e, f) == e[1] = f[1] /\ e[2] < f[2]

\* A card's moves begin one after the other: when one has begun those before it
\* are committed, and their rows are older.
MovesInOrder ==
  /\ \A f \in Created, e \in Events : EarlierMove(e, f) => e \in committed
  /\ \A i, j \in DOMAIN created : EarlierMove(created[i], created[j]) => i < j

Elsewhere(r, e) == \E q \in Relays \ {r} : e \in batch[q] \/ failures[q][e] > 0

\* Relay r may send f: each earlier event of the card was sent, or is the
\* business of another relay.
MayFollow(r, f) ==
  \A e \in Events : EarlierMove(e, f) => e \in Sent \/ Elsewhere(r, e)

\* A relay that has an event has the earlier ones of the card too, or may send
\* it without them; what it sent, it could send.
NothingSkipped ==
  \A r \in Relays :
    /\ \A f \in batch[r] : \A e \in Events :
         EarlierMove(e, f) => e \in Sent \/ e \in batch[r] \/ Elsewhere(r, e)
    /\ \A f \in SentBy(r) : MayFollow(r, f)

\* Only Begin adds to created.
LEMMA MoversKeepOrder == Inv /\ MovesInOrder /\ [Next]_vars => MovesInOrder'
<1> SUFFICES ASSUME Inv, MovesInOrder, [Next]_vars PROVE MovesInOrder'
  OBVIOUS
<1>1. CASE created' = created /\ committed \subseteq committed'
  BY <1>1 DEF MovesInOrder, Created
<1>2. ASSUME NEW g \in Events, Begin(g)
      PROVE  MovesInOrder'
  <2> DEFINE n == Len(created) + 1
  <2>1. /\ created \in Seq(Events) /\ n \in Nat \ {0} /\ DOMAIN created = 1 .. n - 1
        /\ DOMAIN created' = 1 .. n /\ created'[n] = g
        /\ \A i \in 1 .. n - 1 : created'[i] = created[i]
    BY <1>2 DEF Begin, Inv, TypeOK
  <2> HIDE DEF n
  <2>2. committed' = committed /\ committed \subseteq Created /\ g \notin Created
    BY <1>2 DEF Begin, Inv, TypeOK
  <2>3. \A e \in Events : EarlierMove(e, g) => e \in committed
    BY <1>2 DEF Begin, EarlierMove
  <2>4. Created' = Created \cup {g}
    <3>1. \A f : f \in Created' <=> \E i \in 1 .. n : f = created'[i]
      BY <2>1 DEF Created
    <3>2. \A f : f \in Created <=> \E i \in 1 .. n - 1 : f = created[i]
      BY <2>1 DEF Created
    <3>3. \A i \in 1 .. n : i = n \/ i \in 1 .. n - 1
      BY <2>1
    <3>4. n \in 1 .. n /\ \A i \in 1 .. n - 1 : i \in 1 .. n
      BY <2>1
    <3> QED
      BY <2>1, <3>1, <3>2, <3>3, <3>4
  <2>5. ASSUME NEW i \in 1 .. n, NEW j \in 1 .. n, EarlierMove(created'[i], created'[j])
        PROVE  i < j
    <3>1. CASE i # n /\ j # n
      BY <2>1, <2>5, <3>1 DEF MovesInOrder
    <3>2. CASE i = n /\ j # n
      <4>1. created[j] \in Created /\ EarlierMove(g, created[j])
        BY <2>1, <2>5, <3>2 DEF Created
      <4> QED
        BY <2>2, <4>1 DEF MovesInOrder
    <3>3. CASE i = n /\ j = n
      BY <2>1, <2>5, <3>3, RelayAssumption DEF EarlierMove
    <3>4. CASE i # n /\ j = n
      BY <2>1, <3>4
    <3> QED
      BY <3>1, <3>2, <3>3, <3>4
  <2> QED
    BY <2>1, <2>2, <2>3, <2>4, <2>5 DEF MovesInOrder
<1>3. (\E e \in Events : Begin(e)) \/ (created' = created /\ committed \subseteq committed')
  BY DEF Next, Drain, CommitMove, Fetch, CountPending, Publish, MarkPublished, FailTick,
         Crash, Stop, table, vars
<1> QED
  BY <1>1, <1>2, <1>3

\* A row is never older than that of an earlier move of its card.
LEMMA LaterIsNotOlder ==
  ASSUME Inv, MovesInOrder, NEW e, NEW f, EarlierMove(e, f)
  PROVE  ~ Earlier(f, e)
<1>1. DOMAIN created \subseteq Int
  BY DEF Inv, TypeOK
<1> QED
  BY <1>1 DEF Earlier, MovesInOrder

\* What a step has to show: failures stand; a row leaves a batch sent or failed
\* with; a batch that is new, and an event that is sent, skip nothing.
LEMMA SkipsNothing ==
  ASSUME NothingSkipped, Sent \subseteq Sent',
         \A q \in Relays : \A e \in Events : failures[q][e] > 0 => failures'[q][e] > 0,
         \A q \in Relays : \A e \in batch[q] :
            e \in batch'[q] \/ e \in Sent' \/ failures'[q][e] > 0,
         \A q \in Relays :
            \/ batch'[q] = batch[q]
            \/ \A f \in batch'[q] : \A e \in Events :
                 EarlierMove(e, f) => e \in Sent \/ e \in batch'[q] \/ Elsewhere(q, e),
         \A q \in Relays : \A f \in (SentBy(q))' : f \in SentBy(q) \/ MayFollow(q, f)
  PROVE  NothingSkipped'
<1>1. ASSUME NEW q \in Relays, NEW e \in Events, Elsewhere(q, e)
      PROVE  e \in Sent' \/ (Elsewhere(q, e))'
  BY <1>1 DEF Elsewhere
<1>2. ASSUME NEW q \in Relays, NEW f \in batch'[q], NEW e \in Events, EarlierMove(e, f)
      PROVE  e \in Sent' \/ e \in batch'[q] \/ (Elsewhere(q, e))'
  <2>1. e \in Sent \/ e \in batch'[q] \/ Elsewhere(q, e)
    BY <1>2 DEF NothingSkipped
  <2> QED
    BY <1>1, <2>1
<1>3. ASSUME NEW q \in Relays, NEW f \in (SentBy(q))', NEW e \in Events, EarlierMove(e, f)
      PROVE  e \in Sent' \/ (Elsewhere(q, e))'
  <2>1. e \in Sent \/ Elsewhere(q, e)
    BY <1>3 DEF NothingSkipped, MayFollow
  <2> QED
    BY <1>1, <2>1
<1> QED
  BY <1>2, <1>3 DEF NothingSkipped, MayFollow

\* The event a relay sends next may follow those sent so far.
LEMMA NextUpMayFollow ==
  ASSUME Inv, MovesInOrder, NothingSkipped,
         NEW r \in Relays, NEW g \in unsent[r], NextUp(r, g)
  PROVE  MayFollow(r, g)
<1> SUFFICES ASSUME NEW e \in Events, EarlierMove(e, g), ~ Elsewhere(r, e)
             PROVE  e \in Sent
  BY DEF MayFollow
<1>1. e # g
  BY RelayAssumption DEF EarlierMove
<1>2. e \notin unsent[r]
  BY <1>1, LaterIsNotOlder DEF NextUp
<1>3. e \in Sent \/ e \in batch[r]
  BY DEF NothingSkipped, Inv, TypeOK
<1> QED
  BY <1>2, <1>3 DEF Inv, BatchAccounted

\* What each relay has sent after one of them sent one more event.
LEMMA OneSentMore ==
  ASSUME Inv, MovesInOrder, NothingSkipped, NEW r \in Relays, NEW g \in unsent[r],
         NextUp(r, g), sent' = [sent EXCEPT ![r][g] = @ + 1]
  PROVE  /\ Sent \subseteq Sent'
         /\ \A q \in Relays : \A f \in (SentBy(q))' : f \in SentBy(q) \/ MayFollow(q, f)
<1>1. g \in Events
  BY CreatedAreEvents DEF Inv, TypeOK
<1>2. Sent \subseteq Sent'
  BY <1>1, SentGrows DEF Inv
<1>3. \A q \in Relays, f \in Events :
        sent'[q][f] = IF q = r /\ f = g THEN sent[q][f] + 1 ELSE sent[q][f]
  BY <1>1 DEF Inv, TypeOK
<1>4. \A q \in Relays : \A f \in (SentBy(q))' : f \in SentBy(q) \/ (q = r /\ f = g)
  BY <1>3 DEF SentBy
<1> QED
  BY <1>2, <1>4, NextUpMayFollow

\* No step skips an event.
LEMMA NextSkipsNothing ==
  Inv /\ MovesInOrder /\ NothingSkipped /\ [Next]_vars => NothingSkipped'
<1> SUFFICES ASSUME Inv, MovesInOrder, NothingSkipped, [Next]_vars PROVE NothingSkipped'
  OBVIOUS
<1>1. ASSUME sent' = sent
      PROVE  /\ Sent \subseteq Sent'
             /\ \A q \in Relays : (SentBy(q))' = SentBy(q)
  BY <1>1 DEF Sent, SentBy
<1>2. CASE UNCHANGED <<sent, batch, failures>>
  BY <1>1, <1>2, SkipsNothing
<1>3. ASSUME NEW r \in Relays, Fetch(r)
      PROVE  NothingSkipped'
  <2>1. PICK rows \in SUBSET Free(r) :
          Oldest(Free(r), rows) /\ batch' = [batch EXCEPT ![r] = rows]
    BY <1>3 DEF Fetch
  <2>2. /\ batch'[r] = rows /\ batch[r] = {}
        /\ \A q \in Relays \ {r} : batch'[q] = batch[q]
    BY <1>3, <2>1 DEF Fetch, Inv, TypeOK, BatchAccounted
  <2>3. ASSUME NEW f \in rows, NEW e \in Events, EarlierMove(e, f)
        PROVE  e \in Sent \/ e \in rows \/ Elsewhere(r, e)
    <3>1. f \in Created
      BY DEF Free, Pending, Inv, TypeOK
    <3>2. e \in committed
      BY <2>3, <3>1 DEF MovesInOrder
    <3>3. CASE e \in marked
      BY <3>3 DEF Inv, MarkedWasSent
    <3>4. CASE e \in Free(r)
      BY <2>1, <2>3, <3>4, LaterIsNotOlder DEF Oldest
    <3>5. CASE \E q \in Relays : e \in batch[q]
      BY <2>2, <3>5 DEF Elsewhere
    <3> QED
      BY <3>2, <3>3, <3>4, <3>5 DEF Free, Pending
  <2>4. sent' = sent /\ failures' = failures
    BY <1>3 DEF Fetch
  <2> QED
    BY <1>1, <2>2, <2>3, <2>4, SkipsNothing
<1>4. ASSUME NEW r \in Relays, Publish(r)
      PROVE  NothingSkipped'
  <2>1. PICK g \in unsent[r] : NextUp(r, g) /\ sent' = [sent EXCEPT ![r][g] = @ + 1]
    BY <1>4 DEF Publish
  <2>2. batch' = batch /\ failures' = failures
    BY <1>4 DEF Publish
  <2> QED
    BY <2>1, <2>2, OneSentMore, SkipsNothing
<1>5. ASSUME NEW r \in Relays, MarkPublished(r)
      PROVE  NothingSkipped'
  <2>1. sent' = sent /\ failures' = failures /\ batch' = [batch EXCEPT ![r] = {}]
        /\ unsent[r] = {}
    BY <1>5 DEF MarkPublished
  <2>2. batch'[r] = {} /\ batch[r] \subseteq Sent
        /\ \A q \in Relays \ {r} : batch'[q] = batch[q]
    BY <2>1 DEF Inv, TypeOK, BatchAccounted
  <2> QED
    BY <1>1, <2>1, <2>2, SkipsNothing
<1>6. ASSUME NEW r \in Relays, Fails(r), MaybeSent(r)
      PROVE  NothingSkipped'
  <2>1. /\ batch'[r] = {} /\ \A q \in Relays \ {r} : batch'[q] = batch[q]
        /\ \A q \in Relays \ {r} : failures'[q] = failures[q]
        /\ \A e \in Events :
             failures'[r][e] = failures[r][e] + IF e \in batch[r] THEN 1 ELSE 0
        /\ \A q \in Relays, e \in Events : failures[q][e] \in Nat
        /\ batch[r] \subseteq Events
    BY <1>6, CreatedAreEvents DEF Fails, Inv, TypeOK
  <2>2. /\ \A q \in Relays : \A e \in Events : failures[q][e] > 0 => failures'[q][e] > 0
        /\ \A e \in batch[r] : failures'[r][e] > 0
    BY <2>1
  <2>3. /\ Sent \subseteq Sent'
        /\ \A q \in Relays : \A f \in (SentBy(q))' : f \in SentBy(q) \/ MayFollow(q, f)
    BY <1>1, <1>6, OneSentMore DEF MaybeSent
  <2> QED
    BY <2>1, <2>2, <2>3, SkipsNothing
<1>7. ASSUME NEW r \in Relays, FailTick(r) \/ Crash(r)
      PROVE  NothingSkipped'
  BY <1>6, <1>7 DEF FailTick, Crash, MaybeSent
<1>8. CASE \/ \E e \in Events : Begin(e) \/ CommitMove(e)
           \/ \E r \in Relays : CountPending(r) \/ Stop(r)
  BY <1>2, <1>8 DEF Begin, CommitMove, CountPending, Stop
<1>9. CASE UNCHANGED vars
  BY <1>2, <1>9 DEF vars
<1> QED
  BY <1>3, <1>4, <1>5, <1>7, <1>8, <1>9 DEF Next, Drain

\* The events of a card are first published in the order of its moves, but for
\* those another relay has, or failed with.
THEOREM OnlyOthersOvertake == Spec => []OvertakenByAnotherRelay
<1>1. Init => MovesInOrder /\ NothingSkipped
  BY DEF Init, MovesInOrder, NothingSkipped, Created, SentBy
<1>2. Inv /\ NothingSkipped => OvertakenByAnotherRelay
  <2> SUFFICES ASSUME Inv, NothingSkipped,
                      NEW e \in committed \ Sent, NEW r \in Relays, NEW f \in SentBy(r),
                      EarlierMove(e, f)
               PROVE  Elsewhere(r, e)
    BY DEF OvertakenByAnotherRelay, EarlierMove, Elsewhere
  <2>1. e \in Events
    BY CreatedAreEvents DEF Inv, TypeOK
  <2> QED
    BY <2>1 DEF NothingSkipped, MayFollow
<1> QED
  BY <1>1, <1>2, InvHolds, MoversKeepOrder, NextSkipsNothing, PTL DEF Spec

-----------------------------------------------------------------------------
(* How often an event is delivered.                                        *)

\* One occasion more of one relay is one more in all.
LEMMA OneOccasionMore ==
  ASSUME NEW c \in [Relays -> [Events -> Nat]], NEW d, NEW r \in Relays, NEW e \in Events,
         d[r][e] = c[r][e] + 1, \A q \in Relays \ {r} : d[q][e] = c[q][e],
         IsFiniteSet(Occasions(c, e))
  PROVE  IsFiniteSet(Occasions(d, e)) /\ InAll(d, e) = InAll(c, e) + 1
<1> DEFINE p == <<r, c[r][e] + 1>>
           S == Occasions(c, e)
<1>1. \A q \in Relays : c[q][e] \in Nat
  OBVIOUS
<1>2. \A x : x \in S <=> \E q \in Relays : \E k \in 1 .. c[q][e] : x = <<q, k>>
  BY DEF Occasions
<1>3. \A x : x \in Occasions(d, e) <=> \E q \in Relays : \E k \in 1 .. d[q][e] : x = <<q, k>>
  BY DEF Occasions
<1>4. p \notin S
  BY <1>1, <1>2
<1>5. Occasions(d, e) = S \cup {p}
  <2>1. ASSUME NEW x \in Occasions(d, e) PROVE x \in S \cup {p}
    <3> PICK q \in Relays : \E k \in 1 .. d[q][e] : x = <<q, k>>
      BY <1>3
    <3>1. PICK k \in 1 .. d[q][e] : x = <<q, k>>
      OBVIOUS
    <3>2. k \in 1 .. c[q][e] \/ (q = r /\ k = c[r][e] + 1)
      <4>1. CASE q = r
        BY <1>1, <4>1, SMTT(30)
      <4>2. CASE q # r
        BY <1>1, <4>2
      <4> QED
        BY <4>1, <4>2
    <3> QED
      BY <1>2, <3>1, <3>2
  <2>2. ASSUME NEW x \in S PROVE x \in Occasions(d, e)
    <3> PICK q \in Relays : \E k \in 1 .. c[q][e] : x = <<q, k>>
      BY <1>2
    <3>1. PICK k \in 1 .. c[q][e] : x = <<q, k>>
      OBVIOUS
    <3>2. k \in 1 .. d[q][e]
      BY <1>1
    <3> QED
      BY <1>3, <3>1, <3>2
  <2>3. p \in Occasions(d, e)
    <3>1. c[r][e] + 1 \in 1 .. d[r][e]
      BY <1>1
    <3> QED
      BY <1>3, <3>1
  <2> QED
    BY <2>1, <2>2, <2>3
<1> HIDE DEF S, p
<1> QED
  BY <1>4, <1>5, FS_AddElement DEF InAll, S

\* A delivery is settled when its row is marked, or is about to be.
Settled(e) == e \in marked \/ \E r \in Relays : e \in batch[r] \ unsent[r]

\* A settled row may have one delivery more than failed ticks had it, any other
\* row has no more deliveries than that.
Paid(e) ==
  /\ IsFiniteSet(Occasions(sent, e)) /\ IsFiniteSet(Occasions(failures, e))
  /\ InAll(sent, e) <= InAll(failures, e) + IF Settled(e) THEN 1 ELSE 0

LEMMA InAllIsNat ==
  ASSUME NEW e, Paid(e)
  PROVE  InAll(sent, e) \in Nat /\ InAll(failures, e) \in Nat
BY FS_CardinalityType DEF Paid, InAll

\* One relay sends one event.
LEMMA OneDeliveryMore ==
  ASSUME Inv, NEW e \in Events, Paid(e), NEW r \in Relays, NEW g \in unsent[r],
         sent' = [sent EXCEPT ![r][g] = @ + 1]
  PROVE  /\ IsFiniteSet(Occasions(sent', e))
         /\ InAll(sent', e) = InAll(sent, e) + IF e = g THEN 1 ELSE 0
<1>1. g \in Events
  BY CreatedAreEvents DEF Inv, TypeOK
<1>2. \A q \in Relays, f \in Events :
        sent'[q][f] = IF q = r /\ f = g THEN sent[q][f] + 1 ELSE sent[q][f]
  BY <1>1 DEF Inv, TypeOK
<1>3. sent \in [Relays -> [Events -> Nat]] /\ IsFiniteSet(Occasions(sent, e))
  BY DEF Inv, TypeOK, Paid
<1>4. CASE e = g
  <2>1. /\ sent'[r][e] = sent[r][e] + 1
        /\ \A q \in Relays \ {r} : sent'[q][e] = sent[q][e]
    BY <1>2, <1>4
  <2>2. /\ IsFiniteSet(Occasions(sent', e))
        /\ InAll(sent', e) = InAll(sent, e) + 1
    BY ONLY <1>3, <2>1, OneOccasionMore, SMTT(30)
  <2> QED
    BY <1>4, <2>2
<1>5. CASE e # g
  <2>1. \A q \in Relays : sent'[q][e] = sent[q][e]
    BY <1>2, <1>5
  <2>2. Occasions(sent', e) = Occasions(sent, e)
    BY <2>1 DEF Occasions
  <2> QED
    BY <1>3, <1>5, <2>2, InAllIsNat DEF InAll
<1> QED
  BY <1>4, <1>5

\* One relay fails with its batch.
LEMMA OneFailureMore ==
  ASSUME Inv, NEW e \in Events, Paid(e), NEW r \in Relays, Fails(r)
  PROVE  /\ IsFiniteSet(Occasions(failures', e))
         /\ InAll(failures', e) = InAll(failures, e) + IF e \in batch[r] THEN 1 ELSE 0
<1>1. /\ \A q \in Relays \ {r} : failures'[q][e] = failures[q][e]
      /\ failures'[r][e] = failures[r][e] + IF e \in batch[r] THEN 1 ELSE 0
  BY DEF Fails, Inv, TypeOK
<1>2. /\ failures \in [Relays -> [Events -> Nat]] /\ IsFiniteSet(Occasions(failures, e))
      /\ \A q \in Relays : failures[q][e] \in Nat
  BY DEF Inv, TypeOK, Paid
<1>3. CASE e \in batch[r]
  BY <1>1, <1>2, <1>3, OneOccasionMore
<1>4. CASE e \notin batch[r]
  <2>1. \A q \in Relays : failures'[q][e] = failures[q][e]
    BY <1>1, <1>2, <1>4
  <2>2. Occasions(failures', e) = Occasions(failures, e)
    BY <2>1 DEF Occasions
  <2> QED
    BY <1>2, <1>4, <2>2, InAllIsNat DEF InAll
<1> QED
  BY <1>3, <1>4

\* A row that a relay still has to send is not settled.
LEMMA UnsentIsUnsettled ==
  ASSUME Inv, NEW r \in Relays, NEW e \in unsent[r]
  PROVE  ~ Settled(e)
BY DEF Inv, TypeOK, OneHolder, Settled

\* Every step keeps each event's account.
LEMMA NextPays ==
  ASSUME Inv, NEW e \in Events, Paid(e), [Next]_vars
  PROVE  (Paid(e))'
<1>1. /\ IsFiniteSet(Occasions(sent, e)) /\ IsFiniteSet(Occasions(failures, e))
      /\ InAll(sent, e) <= InAll(failures, e) + IF Settled(e) THEN 1 ELSE 0
      /\ InAll(sent, e) \in Nat /\ InAll(failures, e) \in Nat
  BY InAllIsNat DEF Paid
<1>2. SUFFICES /\ IsFiniteSet(Occasions(sent', e)) /\ IsFiniteSet(Occasions(failures', e))
               /\ InAll(sent', e) <= InAll(failures', e) + IF Settled(e)' THEN 1 ELSE 0
  BY DEF Paid, InAll, Occasions
<1>3. CASE sent' = sent /\ failures' = failures /\ (Settled(e) => Settled(e)')
  BY <1>1, <1>3
<1>4. ASSUME NEW r \in Relays, Fetch(r)
      PROVE  sent' = sent /\ failures' = failures /\ (Settled(e) => Settled(e)')
  <2>1. batch[r] = {} /\ sent' = sent /\ failures' = failures /\ marked' = marked
    BY <1>4 DEF Fetch, table, Inv, BatchAccounted
  <2>2. \A q \in Relays \ {r} : batch'[q] = batch[q] /\ unsent'[q] = unsent[q]
    BY <1>4 DEF Fetch, Inv, TypeOK
  <2> QED
    BY <2>1, <2>2 DEF Settled
<1>5. ASSUME NEW r \in Relays, Publish(r)
      PROVE  /\ IsFiniteSet(Occasions(sent', e)) /\ failures' = failures
             /\ InAll(sent', e) <= InAll(failures', e) + IF Settled(e)' THEN 1 ELSE 0
  <2>1. PICK g \in unsent[r] : /\ sent' = [sent EXCEPT ![r][g] = @ + 1]
                               /\ unsent' = [unsent EXCEPT ![r] = @ \ {g}]
    BY <1>5 DEF Publish
  <2>2. /\ IsFiniteSet(Occasions(sent', e))
        /\ InAll(sent', e) = InAll(sent, e) + IF e = g THEN 1 ELSE 0
    BY <2>1, OneDeliveryMore
  <2>3. failures' = failures /\ marked' = marked /\ batch' = batch
    BY <1>5 DEF Publish, table
  <2>4. Settled(e) => Settled(e)'
    BY <2>1, <2>3 DEF Settled, Inv, TypeOK
  <2>5. e = g => ~ Settled(e) /\ Settled(e)'
    BY <2>1, <2>3, UnsentIsUnsettled DEF Settled, Inv, TypeOK
  <2> QED
    BY <1>1, <2>2, <2>3, <2>4, <2>5
<1>6. ASSUME NEW r \in Relays, MarkPublished(r)
      PROVE  sent' = sent /\ failures' = failures /\ (Settled(e) => Settled(e)')
  <2>1. /\ sent' = sent /\ failures' = failures /\ marked' = marked \cup batch[r]
        /\ batch' = [batch EXCEPT ![r] = {}] /\ unsent' = unsent
    BY <1>6 DEF MarkPublished
  <2>2. \A q \in Relays \ {r} : batch'[q] = batch[q]
    BY <2>1 DEF Inv, TypeOK
  <2> QED
    BY <2>1, <2>2 DEF Settled
<1>7. ASSUME NEW r \in Relays, Fails(r), MaybeSent(r), marked' = marked
      PROVE  /\ IsFiniteSet(Occasions(sent', e)) /\ IsFiniteSet(Occasions(failures', e))
             /\ InAll(sent', e) <= InAll(failures', e) + IF Settled(e)' THEN 1 ELSE 0
  <2>1. /\ IsFiniteSet(Occasions(failures', e))
        /\ InAll(failures', e) = InAll(failures, e) + IF e \in batch[r] THEN 1 ELSE 0
    BY <1>7, OneFailureMore
  <2>2. Settled(e) => Settled(e)' \/ e \in batch[r]
    <3>1. \A q \in Relays \ {r} : batch'[q] = batch[q] /\ unsent'[q] = unsent[q]
      BY <1>7 DEF Fails, Inv, TypeOK
    <3> QED
      BY <1>7, <3>1 DEF Settled
  <2>3. CASE UNCHANGED sent
    BY <1>1, <2>1, <2>2, <2>3
  <2>4. ASSUME NEW g \in unsent[r], sent' = [sent EXCEPT ![r][g] = @ + 1]
        PROVE  /\ IsFiniteSet(Occasions(sent', e)) /\ IsFiniteSet(Occasions(failures', e))
               /\ InAll(sent', e) <= InAll(failures', e) + IF Settled(e)' THEN 1 ELSE 0
    <3>1. /\ IsFiniteSet(Occasions(sent', e))
          /\ InAll(sent', e) = InAll(sent, e) + IF e = g THEN 1 ELSE 0
      BY <2>4, OneDeliveryMore
    <3>2. e = g => e \in batch[r] /\ ~ Settled(e)
      BY <2>4, UnsentIsUnsettled DEF Inv, TypeOK
    <3> QED
      BY <1>1, <2>1, <2>2, <3>1, <3>2
  <2> QED
    BY <1>7, <2>3, <2>4 DEF MaybeSent
<1>8. ASSUME NEW r \in Relays, FailTick(r) \/ Crash(r)
      PROVE  Fails(r) /\ MaybeSent(r) /\ marked' = marked
  BY <1>8 DEF FailTick, Crash, MaybeSent, table
<1>9. CASE \/ \E f \in Events : Begin(f) \/ CommitMove(f)
           \/ \E r \in Relays : CountPending(r) \/ Stop(r)
           \/ UNCHANGED vars
  <2>1. UNCHANGED <<sent, failures, marked, batch, unsent>>
    BY <1>9 DEF Begin, CommitMove, CountPending, Stop, vars, table
  <2> QED
    BY <1>3, <2>1 DEF Settled
<1> QED
  BY <1>1, <1>3, <1>4, <1>5, <1>6, <1>7, <1>8, <1>9 DEF Next, Drain

\* Each delivery of an event beyond its first is owed to a tick that failed with
\* it: relays that only run beside each other deliver nothing twice.
THEOREM OnlyFailuresRepeat == Spec => []ExtraSendsHadFailures
<1> DEFINE AllPaid == \A e \in Events : Paid(e)
<1>1. Init => AllPaid
  <2> SUFFICES ASSUME Init, NEW e \in Events PROVE Paid(e)
    OBVIOUS
  <2>1. Occasions(sent, e) = {} /\ Occasions(failures, e) = {}
    BY DEF Init, Occasions
  <2>2. IsFiniteSet({}) /\ Cardinality({}) = 0
    BY FS_EmptySet
  <2> QED
    BY <2>1, <2>2 DEF Paid, InAll
<1>2. Inv /\ AllPaid /\ [Next]_vars => AllPaid'
  BY NextPays
<1>3. AllPaid => ExtraSendsHadFailures
  <2> SUFFICES ASSUME AllPaid, NEW e \in Events
               PROVE  InAll(sent, e) <= 1 + InAll(failures, e)
    BY DEF ExtraSendsHadFailures
  <2> QED
    BY InAllIsNat DEF Paid
<1> QED
  BY <1>1, <1>2, <1>3, InvHolds, PTL DEF Spec
=============================================================================
