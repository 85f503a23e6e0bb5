--------------------------- MODULE LiveBoardProofs ---------------------------
(***************************************************************************)
(* What a page may rely on, for any number of pages, events and failures.  *)
(***************************************************************************)
EXTENDS LiveBoard, FiniteSetTheorems, SequenceTheorems, TLAPS

Types ==
  /\ committed \subseteq Events /\ published \subseteq committed /\ settled = {}
  /\ phase \in Phases /\ sub \in Subscriptions
  /\ inbox \in Seq(published) /\ clients \subseteq Streams
  /\ es \in [Pages -> {"none", "loading", "connecting", "open", "failed"}]
  /\ stream \in [Pages -> 1 .. MaxFaults + 1]
  /\ frames \in [Pages -> Seq(published)]
  /\ asked \in [Pages -> Nat] /\ answers \in [Pages -> Seq(SUBSET committed)]
  /\ shown \in [Pages -> SUBSET committed] /\ told \in [Pages -> SUBSET committed]
  /\ blurred \in [Pages -> BOOLEAN] /\ faults \in 0 .. MaxFaults

\* Whatever a load was answered holds all that was committed when the loads of
\* its page began, and so does the board when the last of them ended well.
Fresh(p) ==
  /\ \A i \in DOMAIN answers[p] : told[p] \subseteq answers[p][i]
  /\ blurred[p] \/ Loading(p) \/ told[p] \subseteq shown[p]

Served(p) == es[p] = "open" => Serving /\ <<p, stream[p]>> \in clients

\* Every stream of a page but the open one was broken at the expense of a
\* fault: an id is left for the next.
Ids(p)  == {k \in 1 .. MaxFaults + 1 : <<p, k>> \in clients}
Held(p) == IF es[p] = "open" THEN 1 ELSE 0
Room(p) == Cardinality(Ids(p)) <= faults + Held(p)

\* Nothing goes on in a page that is not open yet.
Blank(p) == es[p] = "none" => ~ Loading(p) /\ frames[p] = <<>>

Inv == Types /\ \A p \in Pages : Served(p) /\ Fresh(p) /\ Room(p) /\ Blank(p)

-----------------------------------------------------------------------------
\* An event once published stays so.
LEMMA SeqGrows ==
  ASSUME NEW S, NEW T, S \subseteq T
  PROVE  Seq(S) \subseteq Seq(T)
OBVIOUS

LEMMA EmptyIsSeq ==
  ASSUME NEW S
  PROVE  <<>> \in Seq(S) /\ Len(<<>>) = 0 /\ DOMAIN <<>> = {}
OBVIOUS

\* A list without the element at a place.
LEMMA ListWithoutPlace ==
  ASSUME NEW S, NEW s \in Seq(S), NEW i \in DOMAIN s
  PROVE  RemoveAt(s, i) \in Seq(S) /\ Len(RemoveAt(s, i)) = Len(s) - 1
<1> DEFINE x == SubSeq(s, 1, i - 1)
           y == SubSeq(s, i + 1, Len(s))
<1>1. i \in 1 .. Len(s) /\ Len(s) \in Nat
  OBVIOUS
<1>2. x \in Seq(S) /\ Len(x) = i - 1
  BY <1>1
<1>3. y \in Seq(S) /\ Len(y) = Len(s) - i
  BY <1>1
<1>4. RemoveAt(s, i) = x \o y
  BY DEF RemoveAt
<1> HIDE DEF x, y
<1>5. x \o y \in Seq(S) /\ Len(x \o y) = Len(x) + Len(y)
  BY ONLY <1>2, <1>3, ConcatProperties
<1> QED
  BY <1>1, <1>2, <1>3, <1>4, <1>5

\* What is left in it was there before.
LEMMA PlacesLeft ==
  ASSUME NEW S, NEW s \in Seq(S), NEW i \in DOMAIN s, NEW j \in DOMAIN RemoveAt(s, i)
  PROVE  \E k \in DOMAIN s : RemoveAt(s, i)[j] = s[k]
<1> DEFINE x == SubSeq(s, 1, i - 1)
           y == SubSeq(s, i + 1, Len(s))
<1>1. i \in 1 .. Len(s) /\ Len(s) \in Nat
  OBVIOUS
<1>2. x \in Seq(S) /\ Len(x) = i - 1 /\ \A k \in 1 .. i - 1 : x[k] = s[k]
  BY <1>1
<1>3. /\ y \in Seq(S) /\ Len(y) = Len(s) - i
      /\ \A k \in 1 .. Len(s) - i : y[k] = s[i + k]
  BY <1>1
<1>4. RemoveAt(s, i) = x \o y
  BY DEF RemoveAt
<1> HIDE DEF x, y
<1>5. /\ Len(x \o y) = Len(x) + Len(y) /\ x \o y \in Seq(S)
      /\ \A k \in 1 .. Len(x) + Len(y) :
           (x \o y)[k] = IF k <= Len(x) THEN x[k] ELSE y[k - Len(x)]
  BY ONLY <1>2, <1>3, ConcatProperties
<1>6. j \in 1 .. Len(s) - 1 /\ Len(x) + Len(y) = Len(s) - 1
  BY <1>1, <1>2, <1>3, <1>4, <1>5
<1>7. CASE j <= i - 1
  BY <1>1, <1>2, <1>4, <1>5, <1>6, <1>7
<1>8. CASE j > i - 1
  <2>1. RemoveAt(s, i)[j] = y[j - (i - 1)] /\ j - (i - 1) \in 1 .. Len(s) - i
    BY <1>1, <1>2, <1>4, <1>5, <1>6, <1>8
  <2>2. y[j - (i - 1)] = s[j + 1] /\ j + 1 \in DOMAIN s
    <3>1. i + (j - (i - 1)) = j + 1 /\ j + 1 \in 1 .. Len(s)
      BY <1>1, <1>6
    <3>2. y[j - (i - 1)] = s[i + (j - (i - 1))]
      BY <1>3, <2>1
    <3> QED
      BY <3>1, <3>2
  <2> QED
    BY <2>1, <2>2
<1> QED
  BY <1>1, <1>6, <1>7, <1>8

\* The ids of a page are finitely many, and none but its streams' matters.
LEMMA IdsAreFinite ==
  ASSUME NEW p \in Pages
  PROVE  /\ IsFiniteSet(Ids(p)) /\ Cardinality(Ids(p)) \in Nat
         /\ Cardinality(1 .. MaxFaults + 1) = MaxFaults + 1
<1>1. IsFiniteSet(1 .. MaxFaults + 1) /\ Cardinality(1 .. MaxFaults + 1) = MaxFaults + 1
  BY LiveAssumption, FS_Interval
<1>2. Ids(p) \subseteq 1 .. MaxFaults + 1
  BY DEF Ids
<1>3. IsFiniteSet(Ids(p))
  BY <1>1, <1>2, FS_Subset
<1> QED
  BY <1>1, <1>3, FS_CardinalityType

\* Streams that go away leave room.
LEMMA FewerIds ==
  ASSUME NEW p \in Pages, clients' \subseteq clients
  PROVE  Cardinality(Ids(p))' <= Cardinality(Ids(p))
<1>1. Ids(p)' \subseteq Ids(p)
  BY DEF Ids
<1>2. Cardinality(Ids(p)') <= Cardinality(Ids(p))
  BY <1>1, IdsAreFinite, FS_Subset
<1> QED
  BY <1>2

\* As long as a page keeps its place, or a fault pays for it.
LEMMA RoomStays ==
  ASSUME Inv, NEW p \in Pages, clients' \subseteq clients, faults' \in 0 .. MaxFaults,
         faults + Held(p) <= faults' + Held(p)'
  PROVE  Room(p)'
<1>1. Cardinality(Ids(p))' <= Cardinality(Ids(p))
  BY FewerIds
<1>2. Cardinality(Ids(p)) <= faults + Held(p) /\ Cardinality(Ids(p)) \in Nat
  BY IdsAreFinite DEF Inv, Room
<1>3. Cardinality(Ids(p))' \in Nat
  <2>1. IsFiniteSet(1 .. MaxFaults + 1)
    BY LiveAssumption, FS_Interval
  <2>2. Ids(p)' \subseteq 1 .. MaxFaults + 1
    BY DEF Ids
  <2>3. Cardinality(Ids(p)') \in Nat
    BY <2>1, <2>2, FS_Subset, FS_CardinalityType
  <2> QED
    BY <2>3
<1>4. /\ faults \in Nat /\ faults' \in Nat /\ Held(p) \in Nat /\ Held(p)' \in Nat
  BY DEF Inv, Types, Held
<1> QED
  BY <1>1, <1>2, <1>3, <1>4 DEF Room

\* What neither connects nor breaks a stream.
LEMMA RoomKept ==
  ASSUME Inv, clients' \subseteq clients, UNCHANGED es, faults' \in 0 .. MaxFaults,
         faults <= faults'
  PROVE  \A p \in Pages : Room(p)'
<1> SUFFICES ASSUME NEW p \in Pages PROVE Room(p)'
  OBVIOUS
<1>1. Held(p)' = Held(p) /\ Held(p) \in Nat /\ faults \in Nat /\ faults' \in Nat
  BY DEF Held, Inv, Types
<1> QED
  BY <1>1, RoomStays

\* A fault is one of MaxFaults.
LEMMA FaultCounts ==
  ASSUME Types, Fault \/ UNCHANGED faults
  PROVE  faults' \in 0 .. MaxFaults /\ faults <= faults'
BY LiveAssumption DEF Types, Fault

LEMMA InitInv == Init => Inv
<1> SUFFICES ASSUME Init PROVE Inv
  OBVIOUS
<1>1. Types
  BY LiveAssumption DEF Init, FeedInit, ProcessInit, Types, Phases, Subscriptions
<1>2. ASSUME NEW p \in Pages PROVE Served(p) /\ Fresh(p) /\ Blank(p)
  BY EmptyIsSeq DEF Init, FeedInit, ProcessInit, Served, Fresh, Blank, Loading
<1>3. ASSUME NEW p \in Pages PROVE Room(p)
  <2>1. Ids(p) = {}
    BY DEF Init, ProcessInit, Ids
  <2>2. faults = 0 /\ Held(p) = 0
    BY DEF Init, Held
  <2> QED
    BY <2>1, <2>2, FS_EmptySet DEF Room
<1> QED
  BY <1>1, <1>2, <1>3 DEF Inv
-----------------------------------------------------------------------------
(* The feed and the process.                                               *)

\* A step that leaves the page's own state alone.
LEMMA PageRests ==
  ASSUME Inv, UNCHANGED page, Types', NEW p \in Pages,
         clients' \subseteq clients, faults <= faults',
         es[p] = "open" => Serving' /\ <<p, stream[p]>> \in clients'
  PROVE  Served(p)' /\ Fresh(p)' /\ Room(p)' /\ Blank(p)'
<1>1. Served(p)' /\ Fresh(p)' /\ Blank(p)'
  BY DEF Inv, page, Served, Fresh, Blank, Loading
<1>2. Room(p)'
  BY RoomKept DEF page, Types
<1> QED
  BY <1>1, <1>2

LEMMA FeedKeeps ==
  ASSUME Inv, NEW e \in Events, Move(e) \/ Announce(e)
  PROVE  Inv'
<1>1. /\ UNCHANGED page /\ UNCHANGED <<phase, sub, clients>> /\ settled' = settled
      /\ Fault \/ UNCHANGED faults
  BY DEF Move, Announce, Commit, Publish, Receive, process
<1>2. committed \subseteq committed' /\ committed' \subseteq Events
  BY DEF Move, Announce, Commit, Publish, Inv, Types
<1>3. published \subseteq published' /\ published' \subseteq committed'
  BY DEF Move, Announce, Commit, Publish, Inv, Types
<1>4. inbox' \in Seq(published')
  <2>1. inbox \in Seq(published')
    BY <1>3, SeqGrows DEF Inv, Types
  <2>2. CASE Move(e)
    BY <2>1, <2>2 DEF Move, process
  <2>3. CASE Announce(e)
    BY <2>1, <2>3 DEF Announce, Publish, Receive
  <2> QED
    BY <2>2, <2>3
<1>5. frames \in [Pages -> Seq(published')]
  BY <1>3, SeqGrows DEF Inv, Types
<1>6. answers \in [Pages -> Seq(SUBSET committed')]
  <2>1. Seq(SUBSET committed) \subseteq Seq(SUBSET committed')
    BY <1>2, SeqGrows
  <2> QED
    BY <2>1 DEF Inv, Types
<1>7. shown \in [Pages -> SUBSET committed'] /\ told \in [Pages -> SUBSET committed']
  BY <1>2, <1>3 DEF Inv, Types
<1>8. faults' \in 0 .. MaxFaults /\ faults <= faults'
  BY <1>1, FaultCounts DEF Inv
<1>9. Types'
  BY <1>1, <1>2, <1>3, <1>4, <1>5, <1>6, <1>7, <1>8 DEF page, Inv, Types
<1>10. \A p \in Pages : es[p] = "open" => Serving' /\ <<p, stream[p]>> \in clients'
  BY <1>1 DEF Inv, Served, Serving
<1> QED
  BY <1>1, <1>8, <1>9, <1>10, PageRests DEF Inv

LEMMA ProcessKeeps ==
  ASSUME Inv, Start \/ Subscribe \/ SigTerm
  PROVE  Inv'
<1>1. UNCHANGED <<feed, page, clients>> /\ (Fault \/ UNCHANGED faults)
  BY DEF Start, Subscribe, SigTerm, Boot, Subscribed, SubscribeFails, RedisLost, Signal
<1>2. inbox' \in {inbox, <<>>}
  BY DEF Start, Subscribe, SigTerm, Boot, Subscribed, SubscribeFails, RedisLost, Signal
<1>3. phase' = phase \/ phase' \in {"up", "closing"}
  BY DEF Start, Subscribe, SigTerm, Boot, Subscribed, SubscribeFails, RedisLost, Signal
<1>4. sub' \in Subscriptions
  BY DEF Start, Subscribe, SigTerm, Boot, Subscribed, SubscribeFails, RedisLost, Signal,
         Subscriptions, Inv, Types
<1>5. inbox' \in Seq(published)
  BY <1>2, EmptyIsSeq DEF Inv, Types
<1>6. faults' \in 0 .. MaxFaults /\ faults <= faults'
  BY <1>1, FaultCounts DEF Inv
<1>7. Types'
  BY <1>1, <1>3, <1>4, <1>5, <1>6 DEF feed, page, Phases, Inv, Types
<1>8. \A p \in Pages : es[p] = "open" => Serving' /\ <<p, stream[p]>> \in clients'
  BY <1>1, <1>3 DEF Inv, Served, Serving
<1> QED
  BY <1>1, <1>6, <1>7, <1>8, PageRests DEF Inv

LEMMA FanoutKeeps ==
  ASSUME Inv, Fanout
  PROVE  Inv'
<1>1. PICK gone \in SUBSET Dead : FanoutTo(gone)
  BY DEF Fanout
<1>2. Head(inbox) \in published /\ inbox' \in Seq(published)
  BY <1>1 DEF FanoutTo, Inv, Types
<1>3. frames' \in [Pages -> Seq(published)]
  BY <1>2 DEF Fanout, Inv, Types
<1>4. /\ UNCHANGED <<feed, es, stream, asked, answers, shown, told, blurred, faults>>
      /\ UNCHANGED <<phase, sub>> /\ clients' = clients \ gone
  BY <1>1 DEF Fanout, FanoutTo
<1>5. \A p \in Pages : es[p] = "open" => <<p, stream[p]>> \notin gone
  BY <1>1 DEF Dead
<1>6. Types'
  BY <1>2, <1>3, <1>4 DEF feed, Inv, Types
<1>7. \A p \in Pages : Served(p)' /\ Fresh(p)'
  BY <1>4, <1>5 DEF Inv, Served, Fresh, Loading, Serving
<1>9. \A p \in Pages : Blank(p)'
  BY <1>4 DEF Fanout, Open, Inv, Types, Blank, Loading
<1>8. \A p \in Pages : Room(p)'
  <2>1. clients' \subseteq clients /\ faults' \in 0 .. MaxFaults /\ faults <= faults'
    BY <1>4 DEF Inv, Types
  <2> QED
    BY <1>4, <2>1, RoomKept
<1> QED
  BY <1>6, <1>7, <1>8, <1>9 DEF Inv

\* An end of the process leaves no stream, and blurs what it cuts off.
LEMMA EndKeeps ==
  ASSUME Inv, ExitClean \/ ForceExit \/ Crash
  PROVE  Inv'
<1>1. Exit /\ Cut /\ UNCHANGED feed /\ (Fault \/ UNCHANGED faults)
  BY DEF ExitClean, ForceExit, Crash
<1>2. faults' \in 0 .. MaxFaults /\ faults <= faults'
  BY <1>1, FaultCounts DEF Inv
<1>3. \A p \in Pages : es'[p] # "open"
  BY <1>1 DEF Inv, Types, Cut
<1>4. Types'
  <2>1. es' \in [Pages -> {"none", "loading", "connecting", "open", "failed"}]
    BY <1>1 DEF Cut, Inv, Types
  <2>2. frames' \in [Pages -> Seq(published')] /\ inbox' \in Seq(published')
    BY <1>1, EmptyIsSeq DEF Cut, Exit
  <2>3. asked' \in [Pages -> Nat]
    BY <1>1 DEF Cut
  <2>4. blurred' \in [Pages -> BOOLEAN]
    <3>1. blurred' = [p \in Pages |-> blurred[p] \/ asked[p] > 0]
      BY <1>1 DEF Cut
    <3> QED
      BY <3>1
  <2> QED
    BY <1>1, <1>2, <2>1, <2>2, <2>3, <2>4 DEF Cut, Exit, feed, Phases, Subscriptions, Inv, Types
<1>5. ASSUME NEW p \in Pages PROVE Fresh(p)'
  <2>1. \A i \in DOMAIN answers'[p] : told'[p] \subseteq answers'[p][i]
    BY <1>1 DEF Cut, Inv, Fresh
  <2>2. ASSUME ~ blurred'[p] PROVE Loading(p)' \/ told'[p] \subseteq shown'[p]
    <3>1. ~ blurred[p] /\ ~ (asked[p] > 0)
      BY <1>1, <2>2 DEF Cut
    <3>2. asked[p] = 0 /\ asked'[p] = 0
      BY <1>1, <3>1 DEF Cut, Inv, Types
    <3> QED
      BY <1>1, <3>1, <3>2 DEF Cut, Inv, Fresh, Loading
  <2> QED
    BY <2>1, <2>2 DEF Fresh
<1>6. ASSUME NEW p \in Pages PROVE Room(p)'
  <2>1. Ids(p)' = {}
    BY <1>1 DEF Exit, Ids
  <2>2. Cardinality(Ids(p))' = 0
    BY <2>1, FS_EmptySet
  <2>3. faults' \in Nat /\ Held(p)' \in Nat
    BY <1>2 DEF Held
  <2> QED
    BY <2>2, <2>3 DEF Room
<1>7. ASSUME NEW p \in Pages PROVE Blank(p)'
  <2>1. es'[p] = "none" => es[p] = "none"
    BY <1>1 DEF Cut, Inv, Types
  <2>2. frames'[p] = <<>> /\ asked'[p] = 0 /\ answers'[p] = answers[p]
    BY <1>1 DEF Cut
  <2> QED
    BY <2>1, <2>2 DEF Inv, Blank, Loading
<1> QED
  BY <1>3, <1>4, <1>5, <1>6, <1>7 DEF Inv, Served

LEMMA DrainedKeeps ==
  ASSUME Inv, Drained
  PROVE  Inv'
<1>1. /\ clients = {} /\ clients' = {} /\ phase' = "stopping" /\ sub' = "off" /\ inbox' = <<>>
      /\ UNCHANGED <<feed, page, faults>>
  BY DEF Drained, Shutdown
<1>2. Types'
  BY <1>1, EmptyIsSeq DEF feed, page, Phases, Subscriptions, Inv, Types
<1>3. \A p \in Pages : es[p] # "open"
  BY <1>1 DEF Inv, Served
<1>4. faults <= faults'
  BY <1>1 DEF Inv, Types
<1> QED
  BY <1>1, <1>2, <1>3, <1>4, PageRests DEF Inv

LEMMA NoticeKeeps ==
  ASSUME Inv, Notice
  PROVE  Inv'
<1>1. PICK id \in Dead : RemoveClient(id) /\ UNCHANGED <<feed, page, faults>>
  BY DEF Notice
<1>2. Types'
  BY <1>1 DEF RemoveClient, feed, page, Inv, Types
<1>3. \A p \in Pages : es[p] = "open" => Serving' /\ <<p, stream[p]>> \in clients'
  BY <1>1 DEF RemoveClient, Dead, Inv, Served, Serving
<1>4. clients' \subseteq clients /\ faults <= faults'
  BY <1>1 DEF RemoveClient, Inv, Types
<1> QED
  BY <1>1, <1>2, <1>3, <1>4, PageRests DEF Inv
-----------------------------------------------------------------------------
(* The pages.                                                              *)

\* A step of page q that touches neither the feed nor the streams.
LEMMA LoadStep ==
  ASSUME Inv, NEW q \in Pages, UNCHANGED <<feed, process, stream>>,
         Types', faults <= faults', Fresh(q)', es'[q] # "none",
         es'[q] = "open" <=> es[q] = "open",
         \A p \in Pages \ {q} : /\ es'[p] = es[p] /\ frames'[p] = frames[p]
                                /\ asked'[p] = asked[p] /\ answers'[p] = answers[p]
                                /\ shown'[p] = shown[p] /\ told'[p] = told[p]
                                /\ blurred'[p] = blurred[p]
  PROVE  Inv'
<1>1. ASSUME NEW p \in Pages PROVE Served(p)'
  BY DEF Inv, process, Served, Serving
<1>2. ASSUME NEW p \in Pages PROVE Fresh(p)' /\ Blank(p)'
  BY DEF Inv, Fresh, Blank, Loading
<1>3. ASSUME NEW p \in Pages PROVE Room(p)'
  <2>1. Held(p)' = Held(p) /\ Held(p) \in Nat /\ faults \in Nat /\ faults' \in Nat
    BY SMTT(30) DEF Held, Inv, Types
  <2>2. clients' \subseteq clients /\ faults' \in 0 .. MaxFaults
    BY DEF process, Types
  <2> QED
    BY <2>1, <2>2, RoomStays
<1> QED
  BY <1>1, <1>2, <1>3 DEF Inv

LEMMA VisitKeeps ==
  ASSUME Inv, NEW q \in Pages, Visit(q)
  PROVE  Inv'
<1>1. /\ es[q] = "none" /\ es' = [es EXCEPT ![q] = "loading"]
      /\ asked' = [asked EXCEPT ![q] = 1]
      /\ told' = [told EXCEPT ![q] = committed]
      /\ UNCHANGED <<feed, process, stream, frames, answers, shown, blurred, faults>>
  BY DEF Visit
<1>2. Types'
  BY <1>1 DEF feed, process, Inv, Types
<1>3. answers[q] = <<>> /\ asked'[q] = 1 /\ es'[q] = "loading" /\ Len(answers'[q]) = 0
  BY <1>1 DEF Inv, Types, Blank, Loading
<1>4. Fresh(q)'
  BY <1>1, <1>3, EmptyIsSeq DEF Fresh, Loading
<1>5. faults <= faults'
  BY <1>1 DEF Inv, Types
<1> QED
  BY <1>1, <1>2, <1>3, <1>4, <1>5, LoadStep DEF Inv, Types

LEMMA ReadKeeps ==
  ASSUME Inv, NEW q \in Pages, Read(q)
  PROVE  Inv'
<1>1. /\ asked[q] > 0 /\ asked' = [asked EXCEPT ![q] = asked[q] - 1]
      /\ answers' = [answers EXCEPT ![q] = Append(answers[q], committed)]
      /\ UNCHANGED <<feed, process, es, stream, frames, shown, told, blurred, faults>>
  BY DEF Read
<1>2. asked[q] \in Nat /\ answers[q] \in Seq(SUBSET committed) /\ told[q] \subseteq committed
  BY DEF Inv, Types
<1>3. asked[q] - 1 \in Nat /\ Append(answers[q], committed) \in Seq(SUBSET committed)
  BY <1>1, <1>2
<1>4. Types'
  BY <1>1, <1>3 DEF feed, process, Inv, Types
<1>5. Fresh(q)'
  <2>1. answers'[q] = Append(answers[q], committed) /\ told'[q] = told[q]
    BY <1>1 DEF Inv, Types
  <2>2. /\ answers'[q] # <<>>
        /\ \A i \in DOMAIN answers'[q] :
             \/ i \in DOMAIN answers[q] /\ answers'[q][i] = answers[q][i]
             \/ answers'[q][i] = committed
    BY <1>2, <2>1
  <2>3. \A i \in DOMAIN answers'[q] : told'[q] \subseteq answers'[q][i]
    BY <1>2, <2>1, <2>2 DEF Inv, Fresh
  <2> QED
    BY <2>2, <2>3 DEF Fresh, Loading
<1>6. faults <= faults' /\ es[q] # "none"
  BY <1>1, <1>2 DEF Inv, Types, Blank, Loading
<1> QED
  BY <1>1, <1>4, <1>5, <1>6, LoadStep DEF Inv, Types

LEMMA RenderKeeps ==
  ASSUME Inv, NEW q \in Pages, Render(q)
  PROVE  Inv'
<1>1. PICK i \in DOMAIN answers[q] : /\ shown' = [shown EXCEPT ![q] = answers[q][i]]
                                     /\ answers' = [answers EXCEPT ![q] = RemoveAt(answers[q], i)]
  BY DEF Render
<1>2. /\ es' = [es EXCEPT ![q] = IF es[q] = "loading" THEN "connecting" ELSE es[q]]
      /\ blurred' = [blurred EXCEPT ![q] = FALSE]
      /\ UNCHANGED <<feed, process, stream, frames, asked, told, faults>>
  BY DEF Render
<1>3. answers[q] \in Seq(SUBSET committed) /\ answers[q][i] \in SUBSET committed
  BY <1>1 DEF Inv, Types
<1>4. /\ RemoveAt(answers[q], i) \in Seq(SUBSET committed)
      /\ Len(RemoveAt(answers[q], i)) = Len(answers[q]) - 1
  BY <1>1, <1>3, ListWithoutPlace
<1>5. answers'[q] = RemoveAt(answers[q], i) /\ shown'[q] = answers[q][i]
  BY <1>1 DEF Inv, Types
<1>6. Types'
  <2>1. es' \in [Pages -> {"none", "loading", "connecting", "open", "failed"}]
    BY <1>2 DEF Inv, Types
  <2>2. answers' \in [Pages -> Seq(SUBSET committed)]
    BY <1>1, <1>4 DEF Inv, Types
  <2>3. shown' \in [Pages -> SUBSET committed]
    BY <1>1, <1>3 DEF Inv, Types
  <2> QED
    BY <1>2, <2>1, <2>2, <2>3 DEF feed, process, Inv, Types
<1>7. Fresh(q)'
  <2>1. \A j \in DOMAIN answers'[q] : \E k \in DOMAIN answers[q] : answers'[q][j] = answers[q][k]
    BY <1>1, <1>3, <1>5, PlacesLeft
  <2>2. \A j \in DOMAIN answers'[q] : told'[q] \subseteq answers'[q][j]
    BY <1>2, <2>1 DEF Inv, Fresh
  <2>3. told'[q] \subseteq shown'[q]
    BY <1>1, <1>2, <1>5 DEF Inv, Fresh
  <2> QED
    BY <2>2, <2>3 DEF Fresh
<1>8. es[q] # "none"
  <2>1. answers[q] # <<>>
    BY <1>1
  <2> QED
    BY <2>1 DEF Inv, Blank, Loading
<1>9. faults <= faults' /\ es'[q] # "none" /\ (es'[q] = "open" <=> es[q] = "open")
  BY <1>2, <1>8 DEF Inv, Types
<1> QED
  BY <1>1, <1>2, <1>6, <1>7, <1>9, LoadStep DEF Inv, Types

LEMMA LoadFailsKeeps ==
  ASSUME Inv, NEW q \in Pages, LoadFails(q)
  PROVE  Inv'
<1>1. /\ es' = [es EXCEPT ![q] = IF es[q] = "loading" THEN "failed" ELSE es[q]]
      /\ blurred' = [blurred EXCEPT ![q] = TRUE]
      /\ UNCHANGED <<feed, process, stream, frames, shown, told>>
      /\ Fault \/ UNCHANGED faults
  BY DEF LoadFails
<1>2. faults' \in 0 .. MaxFaults /\ faults <= faults'
  BY <1>1, FaultCounts DEF Inv
<1>3. /\ Loading(q) /\ asked' \in [Pages -> Nat] /\ answers' \in [Pages -> Seq(SUBSET committed)]
      /\ \A p \in Pages \ {q} : asked'[p] = asked[p] /\ answers'[p] = answers[p]
  <2>1. CASE asked[q] > 0 /\ asked' = [asked EXCEPT ![q] = asked[q] - 1] /\ UNCHANGED answers
    <3>1. asked[q] \in Nat /\ asked[q] - 1 \in Nat
      BY <2>1 DEF Inv, Types
    <3> QED
      BY <2>1, <3>1 DEF Loading, Inv, Types
  <2>2. CASE /\ \E i \in DOMAIN answers[q] : answers' = [answers EXCEPT ![q] = RemoveAt(answers[q], i)]
             /\ UNCHANGED asked
    <3>1. PICK i \in DOMAIN answers[q] : answers' = [answers EXCEPT ![q] = RemoveAt(answers[q], i)]
      BY <2>2
    <3>2. answers[q] \in Seq(SUBSET committed)
      BY DEF Inv, Types
    <3>3. RemoveAt(answers[q], i) \in Seq(SUBSET committed)
      BY <3>1, <3>2, ListWithoutPlace
    <3>4. answers[q] # <<>>
      BY <3>1
    <3> QED
      BY <2>2, <3>1, <3>3, <3>4 DEF Loading, Inv, Types
  <2> QED
    BY <2>1, <2>2 DEF LoadFails
<1>4. Types'
  BY <1>1, <1>2, <1>3 DEF feed, process, Inv, Types
<1>5. Fresh(q)'
  <2>1. \A j \in DOMAIN answers'[q] : \E k \in DOMAIN answers[q] : answers'[q][j] = answers[q][k]
    <3>1. CASE UNCHANGED answers
      BY <3>1
    <3>2. CASE \E i \in DOMAIN answers[q] : answers' = [answers EXCEPT ![q] = RemoveAt(answers[q], i)]
      <4>1. PICK i \in DOMAIN answers[q] : answers' = [answers EXCEPT ![q] = RemoveAt(answers[q], i)]
        BY <3>2
      <4>2. answers'[q] = RemoveAt(answers[q], i) /\ answers[q] \in Seq(SUBSET committed)
        BY <4>1 DEF Inv, Types
      <4> QED
        BY <4>2, PlacesLeft
    <3> QED
      BY <3>1, <3>2 DEF LoadFails
  <2>2. \A j \in DOMAIN answers'[q] : told'[q] \subseteq answers'[q][j]
    BY <1>1, <2>1 DEF Inv, Fresh
  <2> QED
    BY <1>1, <2>2 DEF Fresh, Inv, Types
<1>6. es'[q] # "none" /\ (es'[q] = "open" <=> es[q] = "open")
  BY <1>1, <1>3 DEF Inv, Types, Blank
<1> QED
  BY <1>1, <1>2, <1>3, <1>4, <1>5, <1>6, LoadStep DEF Inv, Types

LEMMA HearKeeps ==
  ASSUME Inv, NEW q \in Pages, Hear(q)
  PROVE  Inv'
<1>1. /\ frames[q] # <<>> /\ frames' = [frames EXCEPT ![q] = Tail(frames[q])]
      /\ UNCHANGED <<feed, process, es, stream, answers, shown, blurred, faults>>
  BY DEF Hear
<1>2. Head(frames[q]) \in published /\ Tail(frames[q]) \in Seq(published)
  BY <1>1 DEF Inv, Types
<1>3. es[q] # "none" /\ faults <= faults'
  BY <1>1 DEF Inv, Types, Blank
<1>4. frames' \in [Pages -> Seq(published)]
  BY <1>1, <1>2 DEF Inv, Types
<1>5. CASE UNCHANGED <<asked, told>>
  <2>1. Types' /\ Fresh(q)'
    BY <1>1, <1>4, <1>5 DEF feed, process, Inv, Types, Fresh, Loading
  <2> QED
    BY <1>1, <1>3, <1>5, <2>1, LoadStep DEF Inv, Types
<1>6. CASE /\ asked' = [asked EXCEPT ![q] = asked[q] + 1]
           /\ told' = [told EXCEPT ![q] = IF Loading(q) THEN told[q] ELSE committed]
  <2>1. asked[q] \in Nat /\ asked[q] + 1 \in Nat /\ asked'[q] = asked[q] + 1
    BY <1>6 DEF Inv, Types
  <2>2. asked' \in [Pages -> Nat] /\ Loading(q)'
    BY <1>6, <2>1 DEF Inv, Types, Loading
  <2>3. told' \in [Pages -> SUBSET committed]
    <3>1. (IF Loading(q) THEN told[q] ELSE committed) \in SUBSET committed
      BY DEF Inv, Types
    <3> QED
      BY <1>6, <3>1 DEF Inv, Types
  <2>4. Types'
    BY <1>1, <1>4, <2>2, <2>3 DEF feed, process, Inv, Types
  <2>5. \A i \in DOMAIN answers'[q] : told'[q] \subseteq answers'[q][i]
    <3>1. CASE Loading(q)
      BY <1>1, <1>6, <3>1 DEF Inv, Types, Fresh
    <3>2. CASE ~ Loading(q)
      BY <1>1, <3>2, EmptyIsSeq DEF Loading
    <3> QED
      BY <3>1, <3>2
  <2>6. Fresh(q)'
    BY <2>2, <2>5 DEF Fresh
  <2> QED
    BY <1>1, <1>3, <1>6, <2>4, <2>6, LoadStep DEF Inv, Types
<1> QED
  BY <1>5, <1>6 DEF Hear

\* A stream that is gone is paid for by a fault; a refusal costs one for nothing.
LEMMA StreamEndKeeps ==
  ASSUME Inv, NEW q \in Pages, StreamRefused(q) \/ Break(q)
  PROVE  Inv'
<1>1. /\ UNCHANGED <<feed, process, stream, asked, answers, shown, told, blurred>>
      /\ Fault /\ es[q] \in {"connecting", "open"}
  BY DEF StreamRefused, Break
<1>2. PICK x \in {"failed", "connecting"} : es' = [es EXCEPT ![q] = x]
  BY DEF StreamRefused, Break
<1>3. frames' = frames \/ frames' = [frames EXCEPT ![q] = <<>>]
  BY DEF StreamRefused, Break
<1>4. faults \in Nat /\ faults' = faults + 1 /\ faults' \in 0 .. MaxFaults
  BY <1>1, LiveAssumption DEF Fault, Inv, Types
<1>5. Types'
  <2>1. frames' \in [Pages -> Seq(published)]
    <3>1. frames \in [Pages -> Seq(published)]
      BY DEF Inv, Types
    <3>2. CASE frames' = [frames EXCEPT ![q] = <<>>]
      BY ONLY <3>1, <3>2, EmptyIsSeq
    <3> QED
      BY ONLY <1>3, <3>1, <3>2
  <2>2. es' \in [Pages -> {"none", "loading", "connecting", "open", "failed"}]
    BY <1>2 DEF Inv, Types
  <2> QED
    BY <1>1, <1>4, <2>1, <2>2 DEF feed, process, Inv, Types
<1>6. \A p \in Pages : Served(p)' /\ Fresh(p)'
  BY <1>1, <1>2 DEF process, Inv, Types, Served, Serving, Fresh, Loading
<1>7. ASSUME NEW p \in Pages PROVE Blank(p)'
  <2>1. es'[p] = "none" => es[p] = "none" /\ p # q
    BY <1>2 DEF Inv, Types
  <2>2. p # q => frames'[p] = frames[p]
    BY <1>3 DEF Inv, Types
  <2> QED
    BY <1>1, <2>1, <2>2 DEF Inv, Blank, Loading
<1>8. ASSUME NEW p \in Pages PROVE Room(p)'
  <2>1. Held(p) \in 0 .. 1 /\ Held(p)' \in 0 .. 1
    BY DEF Held
  <2>2. faults + Held(p) <= faults' + Held(p)'
    BY <1>4, <2>1
  <2>3. clients' \subseteq clients
    BY <1>1 DEF process
  <2> QED
    BY <1>4, <2>2, <2>3, RoomStays
<1> QED
  BY <1>5, <1>6, <1>7, <1>8 DEF Inv

\* There is an id for every new stream: those of the page's broken ones are
\* not more than the faults.
LEMMA ConnectKeeps ==
  ASSUME Inv, NEW q \in Pages, Connect(q)
  PROVE  Inv'
<1> DEFINE n == CHOOSE k \in 1 .. MaxFaults + 1 : <<q, k>> \notin clients
<1>1. /\ phase = "up" /\ es[q] = "connecting" /\ es' = [es EXCEPT ![q] = "open"]
      /\ clients' = clients \cup {<<q, n>>} /\ stream' = [stream EXCEPT ![q] = n]
      /\ UNCHANGED <<phase, sub, inbox>>
      /\ UNCHANGED <<feed, frames, asked, answers, shown, told, blurred, faults>>
  BY DEF Connect, AddClient
<1>2. /\ IsFiniteSet(Ids(q)) /\ Cardinality(Ids(q)) \in Nat
      /\ Cardinality(1 .. MaxFaults + 1) = MaxFaults + 1
  BY IdsAreFinite
<1>3. Cardinality(Ids(q)) <= faults /\ faults \in 0 .. MaxFaults
  <2>1. Held(q) = 0
    BY <1>1 DEF Held
  <2>2. Cardinality(Ids(q)) <= faults + Held(q) /\ faults \in 0 .. MaxFaults
    BY DEF Inv, Room, Types
  <2> QED
    BY <1>2, <2>1, <2>2
<1>4. \E k \in 1 .. MaxFaults + 1 : <<q, k>> \notin clients
  <2>1. SUFFICES ASSUME \A k \in 1 .. MaxFaults + 1 : <<q, k>> \in clients PROVE FALSE
    OBVIOUS
  <2>2. Ids(q) = 1 .. MaxFaults + 1
    BY <2>1 DEF Ids
  <2> QED
    BY <1>2, <1>3, <2>2, LiveAssumption
<1>5. n \in 1 .. MaxFaults + 1 /\ <<q, n>> \notin clients
  BY <1>4
<1> HIDE DEF n
<1>6. Types'
  <2>1. clients' \subseteq Streams
    BY <1>1, <1>5 DEF Inv, Types, Streams
  <2>2. stream' \in [Pages -> 1 .. MaxFaults + 1]
    BY <1>1, <1>5 DEF Inv, Types
  <2>3. es' \in [Pages -> {"none", "loading", "connecting", "open", "failed"}]
    BY <1>1 DEF Inv, Types
  <2> QED
    BY <1>1, <2>1, <2>2, <2>3 DEF feed, Inv, Types
<1>7. \A p \in Pages : Served(p)'
  BY <1>1 DEF Inv, Types, Served, Serving
<1>8. \A p \in Pages : Fresh(p)' /\ Blank(p)'
  BY <1>1 DEF Inv, Types, Fresh, Blank, Loading
<1>9. Room(q)'
  <2>1. Ids(q)' = Ids(q) \cup {n} /\ n \notin Ids(q)
    BY <1>1, <1>5 DEF Ids
  <2>2. Cardinality(Ids(q) \cup {n}) = Cardinality(Ids(q)) + 1
    BY <1>2, <2>1, FS_AddElement
  <2>3. Cardinality(Ids(q))' = Cardinality(Ids(q)) + 1
    BY <2>1, <2>2
  <2>4. Held(q)' = 1
    BY <1>1 DEF Held, Inv, Types
  <2> QED
    BY <1>1, <1>2, <1>3, <2>3, <2>4 DEF Room
<1>10. ASSUME NEW p \in Pages \ {q} PROVE Room(p)'
  <2>1. Ids(p)' = Ids(p)
    BY <1>1 DEF Ids
  <2>2. Cardinality(Ids(p))' = Cardinality(Ids(p))
    BY <2>1
  <2>3. Held(p)' = Held(p)
    BY <1>1 DEF Held, Inv, Types
  <2> QED
    BY <1>1, <2>2, <2>3 DEF Room, Inv
<1> QED
  BY <1>6, <1>7, <1>8, <1>9, <1>10 DEF Inv

LEMMA NextInv == Inv /\ [Next]_vars => Inv'
<1> SUFFICES ASSUME Inv, [Next]_vars PROVE Inv'
  OBVIOUS
<1>1. CASE UNCHANGED vars
  <2>1. Types' /\ UNCHANGED page /\ clients' \subseteq clients /\ faults <= faults'
    BY <1>1 DEF vars, feed, process, page, Inv, Types
  <2>2. \A p \in Pages : es[p] = "open" => Serving' /\ <<p, stream[p]>> \in clients'
    BY <1>1 DEF vars, process, Inv, Served, Serving
  <2> QED
    BY <2>1, <2>2, PageRests DEF Inv
<1> QED
  BY <1>1, FeedKeeps, ProcessKeeps, FanoutKeeps, DrainedKeeps, EndKeeps, NoticeKeeps, VisitKeeps,
     ReadKeeps, RenderKeeps, LoadFailsKeeps, ConnectKeeps, StreamEndKeeps, HearKeeps DEF Next

LEMMA InvHolds == Spec => []Inv
BY InitInv, NextInv, PTL DEF Spec

-----------------------------------------------------------------------------
\* Feed, process and pages keep their types; in particular there is an id for
\* every stream, and a page shows committed moves only.
THEOREM TypeCorrect == Spec => []TypeOK
<1>1. Inv => TypeOK
  BY DEF Inv, Types, TypeOK
<1> QED
  BY <1>1, InvHolds, PTL

\* The broadcaster has the stream of every connected page, and a process that
\* shuts down cleanly cuts nobody off.
THEOREM OpenStreamsAreServed == Spec => []StreamsAreServed
<1>1. Inv => StreamsAreServed
  BY DEF Inv, Served, StreamsAreServed
<1> QED
  BY <1>1, InvHolds, PTL

\* A page at rest shows all that was committed when its last loads began, also
\* when their answers were rendered in the wrong order, unless the last failed.
THEOREM QuietPagesAreCurrent == Spec => []QuietPageIsCurrent
<1>1. Inv => QuietPageIsCurrent
  BY DEF Inv, Fresh, QuietPageIsCurrent
<1> QED
  BY <1>1, InvHolds, PTL
=============================================================================
