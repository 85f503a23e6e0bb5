-------------------------- MODULE TriageLoopProofs ---------------------------
(***************************************************************************)
(* What the agent and the people who move cards may rely on of each other, *)
(* for any number of cards, lanes, moves and faults.                       *)
(***************************************************************************)
EXTENDS TriageLoop, FiniteSetTheorems, SequenceTheorems, TLAPS

Types ==
  /\ committed \subseteq Events /\ published \subseteq committed /\ settled = {}
  /\ urgent \subseteq Cards
  /\ lane \in [Lanes -> Seq(Cards)] /\ version \in [Cards -> Nat]
  /\ placed \in [Cards -> Lanes]
  /\ listening \in BOOLEAN /\ inbox \in Seq(published)
  /\ seen \subseteq {IdOf(e) : e \in published}
  /\ \/ task = Idle
     \/ task \in [pc : {"fetch"}, event : published]
     \/ task \in [pc : {"put"}, event : published, version : Nat]
  /\ moves \in [person : Nat, agent : Nat]
  /\ triaged \in [Cards -> Nat] /\ missed \subseteq published
  /\ faults \in 0 .. MaxFaults

\* A card is in the lane a person chose, once, and nowhere else.
InPlaced(c) ==
  /\ Contains(lane[placed[c]], c)
  /\ \A t \in Lanes : Contains(lane[t], c) => t = placed[c]

Rows ==
  /\ \A s \in Lanes : IsInjective(lane[s])
  /\ \A c \in Cards : InPlaced(c)

\* A version counts some of the moves; what the agent knows is never ahead.
Counts ==
  /\ moves.person + moves.agent <= MaxMoves
  /\ \A c \in Cards : version[c] <= moves.person + moves.agent /\ triaged[c] <= version[c]
  /\ task.pc = "put" => /\ task.event.version <= task.version
                        /\ task.version <= version[task.event.card]

\* The event of a card's last move tells where the card is.
Tells ==
  /\ \A e \in committed : e.version <= version[e.card]
  /\ \A e \in committed : e.version = version[e.card] => e.to = placed[e.card]
  /\ \A e, f \in committed : IdOf(e) = IdOf(f) => e = f

\* The agent spends a move to bring its card to the front, and only a move of
\* a person takes the card from there.
First(c) == lane[placed[c]][1] = c

Spent ==
  (\A c, d \in urgent : c = d) =>
     /\ moves.agent <= moves.person
     /\ \A c \in urgent : version[c] >= 1 => First(c) \/ moves.agent < moves.person

\* The last move of an urgent card into the backlog is on its way to the agent,
\* is in its hands, was seen to, or was missed.
Due(e) == e.card \in urgent /\ e.version = version[e.card] /\ e.to = "backlog"

InHand(e) == task # Idle /\ task.event = e /\ (task.pc = "put" => task.version = e.version)

Minded(e) ==
  \/ triaged[e.card] = e.version
  \/ e \in missed
  \/ e \notin published
  \/ e \in ToSet(inbox) /\ IdOf(e) \notin seen
  \/ InHand(e)

Followed ==
  /\ \A e \in committed : Due(e) => Minded(e)
  /\ task # Idle => task.event.to = "backlog"
  /\ task.pc = "put" => task.event.card \in urgent

Inv == Types /\ Rows /\ Counts /\ Tells /\ Spent /\ Followed

-----------------------------------------------------------------------------
(* Lists without duplicates.                                               *)

LEMMA OneIsRemoved ==
  ASSUME NEW C, NEW q \in Seq(C), IsInjective(q), NEW i \in 1 .. Len(q)
  PROVE  RemoveFirst(q, q[i]) = RemoveAt(q, i)
<1>1. {j \in 1 .. Len(q) : q[j] = q[i]} = {i}
  BY DEF IsInjective
<1>2. Min({i}) = i
  BY DEF Min
<1> QED
  BY <1>1, <1>2 DEF RemoveFirst, SelectInSeq

\* A list without one of its elements.
LEMMA RemovedFromList ==
  ASSUME NEW C, NEW q \in Seq(C), IsInjective(q), NEW i \in 1 .. Len(q)
  PROVE  /\ RemoveAt(q, i) \in Seq(C)
         /\ Len(RemoveAt(q, i)) = Len(q) - 1
         /\ \A j \in 1 .. Len(q) - 1 : RemoveAt(q, i)[j] = q[IF j < i THEN j ELSE j + 1]
<1> DEFINE a == SubSeq(q, 1, i - 1)
           b == SubSeq(q, i + 1, Len(q))
<1>1. a \in Seq(C) /\ Len(a) = i - 1
  OBVIOUS
<1>2. b \in Seq(C) /\ Len(b) = Len(q) - i
  OBVIOUS
<1>3. \A j \in 1 .. i - 1 : a[j] = q[j]
  OBVIOUS
<1>4. \A j \in 1 .. Len(q) - i : b[j] = q[i + j]
  OBVIOUS
<1>5. RemoveAt(q, i) = a \o b
  BY DEF RemoveAt
<1> HIDE DEF a, b
<1>6. /\ a \o b \in Seq(C) /\ Len(a \o b) = Len(a) + Len(b)
      /\ \A j \in 1 .. Len(a) + Len(b) : (a \o b)[j] = IF j <= Len(a) THEN a[j] ELSE b[j - Len(a)]
  BY <1>1, <1>2, ConcatProperties
<1> DEFINE r == a \o b
<1> HIDE DEF r
<1>7. Len(a) + Len(b) = Len(q) - 1
  BY <1>1, <1>2
<1>8. ASSUME NEW j \in 1 .. Len(q) - 1
      PROVE  r[j] = q[IF j < i THEN j ELSE j + 1]
  <2>1. CASE j < i
    BY <1>1, <1>3, <1>6, <1>7, <2>1 DEF r
  <2>2. CASE ~ (j < i)
    <3>1. r[j] = b[j - (i - 1)]
      BY <1>1, <1>6, <1>7, <2>2 DEF r
    <3>2. j - (i - 1) \in 1 .. Len(q) - i /\ i + (j - (i - 1)) = j + 1
      BY <2>2
    <3> QED
      BY <1>4, <2>2, <3>1, <3>2
  <2> QED
    BY <2>1, <2>2
<1> QED
  BY <1>5, <1>6, <1>7, <1>8 DEF r

\* Taking a card out of a lane leaves the others there.
LEMMA CardIsTakenOut ==
  ASSUME NEW C, NEW q \in Seq(C), IsInjective(q), NEW c
  PROVE  /\ RemoveFirst(q, c) \in Seq(C)
         /\ IsInjective(RemoveFirst(q, c))
         /\ ~ Contains(RemoveFirst(q, c), c)
         /\ \A d : d # c => (Contains(RemoveFirst(q, c), d) <=> Contains(q, d))
<1>1. CASE ~ Contains(q, c)
  BY <1>1 DEF Contains, RemoveFirst
<1>2. CASE Contains(q, c)
  <2> PICK i \in 1 .. Len(q) : q[i] = c
    BY <1>2 DEF Contains
  <2> DEFINE r == RemoveAt(q, i)
  <2>1. r = RemoveFirst(q, c)
    BY OneIsRemoved
  <2>2. /\ r \in Seq(C) /\ Len(r) = Len(q) - 1
        /\ \A j \in 1 .. Len(q) - 1 : r[j] = q[IF j < i THEN j ELSE j + 1]
    BY RemovedFromList
  <2> HIDE DEF r
  <2>3. IsInjective(r)
    <3> SUFFICES ASSUME NEW a \in 1 .. Len(q) - 1, NEW b \in 1 .. Len(q) - 1, r[a] = r[b]
                 PROVE  a = b
      BY <2>2 DEF IsInjective
    <3>1. \A j, k \in 1 .. Len(q) : q[j] = q[k] => j = k
      BY DEF IsInjective
    <3> QED
      BY <2>2, <3>1, SMTT(30)
  <2>4. ~ Contains(r, c)
    BY <2>2, SMTT(30) DEF IsInjective, Contains
  <2>5. ASSUME NEW d, d # c, Contains(r, d)
        PROVE  Contains(q, d)
    BY <2>2, <2>5 DEF Contains
  <2>6. ASSUME NEW d, d # c, Contains(q, d)
        PROVE  Contains(r, d)
    <3> PICK k \in 1 .. Len(q) : q[k] = d
      BY <2>6 DEF Contains
    <3>1. k # i
      BY <2>6
    <3>2. CASE k < i
      BY <2>2, <3>2 DEF Contains
    <3>3. CASE k > i
      <4>1. k - 1 \in 1 .. Len(q) - 1 /\ ~ (k - 1 < i) /\ (k - 1) + 1 = k
        BY <3>3
      <4>2. r[k - 1] = q[k]
        BY <2>2, <4>1
      <4> QED
        BY <2>2, <4>1, <4>2 DEF Contains
    <3> QED
      BY <3>1, <3>2, <3>3
  <2> QED
    BY <2>1, <2>2, <2>3, <2>4, <2>5, <2>6
<1> QED
  BY <1>1, <1>2

\* A list with one more element.
LEMMA PutIntoList ==
  ASSUME NEW C, NEW r \in Seq(C), NEW c \in C, NEW slot \in 1 .. Len(r) + 1
  PROVE  /\ InsertAt(r, slot, c) \in Seq(C)
         /\ Len(InsertAt(r, slot, c)) = Len(r) + 1
         /\ \A j \in 1 .. Len(r) + 1 : InsertAt(r, slot, c)[j] =
               IF j < slot THEN r[j] ELSE IF j = slot THEN c ELSE r[j - 1]
<1> DEFINE a == SubSeq(r, 1, slot - 1)
           b == SubSeq(r, slot, Len(r))
           m == <<c>>
<1>1. a \in Seq(C) /\ Len(a) = slot - 1
  OBVIOUS
<1>2. b \in Seq(C) /\ Len(b) = Len(r) - slot + 1
  OBVIOUS
<1>3. \A j \in 1 .. slot - 1 : a[j] = r[j]
  OBVIOUS
<1>4. \A j \in 1 .. Len(r) - slot + 1 : b[j] = r[slot + j - 1]
  OBVIOUS
<1>5. m \in Seq(C) /\ Len(m) = 1 /\ m[1] = c
  OBVIOUS
<1>6. InsertAt(r, slot, c) = (a \o m) \o b
  BY DEF InsertAt
<1> HIDE DEF a, b, m
<1> DEFINE am == a \o m
           n == am \o b
<1>7. /\ am \in Seq(C) /\ Len(am) = slot
      /\ \A j \in 1 .. slot : am[j] = IF j < slot THEN r[j] ELSE c
  <2>1. /\ am \in Seq(C) /\ Len(am) = Len(a) + Len(m)
        /\ \A j \in 1 .. Len(a) + Len(m) : am[j] = IF j <= Len(a) THEN a[j] ELSE m[j - Len(a)]
    BY <1>1, <1>5, ConcatProperties
  <2> HIDE DEF am
  <2>2. Len(a) + Len(m) = slot
    BY <1>1, <1>5
  <2>3. ASSUME NEW j \in 1 .. slot
        PROVE  am[j] = IF j < slot THEN r[j] ELSE c
    BY <1>1, <1>3, <1>5, <2>1, <2>2
  <2> QED
    BY <2>1, <2>2, <2>3
<1> HIDE DEF am
<1>9. /\ n \in Seq(C) /\ Len(n) = Len(am) + Len(b)
      /\ \A j \in 1 .. Len(am) + Len(b) : n[j] = IF j <= Len(am) THEN am[j] ELSE b[j - Len(am)]
  BY <1>2, <1>7, ConcatProperties
<1>10. Len(am) + Len(b) = Len(r) + 1
  BY <1>2, <1>7
<1> HIDE DEF n
<1>11. ASSUME NEW j \in 1 .. Len(r) + 1
       PROVE  n[j] = IF j < slot THEN r[j] ELSE IF j = slot THEN c ELSE r[j - 1]
  <2>1. CASE j <= slot
    BY <1>7, <1>9, <1>10, <2>1
  <2>2. CASE j > slot
    <3>1. n[j] = b[j - slot]
      BY <1>7, <1>9, <1>10, <2>2
    <3>2. j - slot \in 1 .. Len(r) - slot + 1 /\ slot + (j - slot) - 1 = j - 1
      BY <2>2
    <3> QED
      BY <1>4, <2>2, <3>1, <3>2
  <2> QED
    BY <2>1, <2>2
<1> QED
  BY <1>6, <1>9, <1>10, <1>11 DEF n, am

\* Putting a card into a lane it is not in.
LEMMA CardIsPutIn ==
  ASSUME NEW C, NEW r \in Seq(C), IsInjective(r), NEW c \in C, ~ Contains(r, c),
         NEW slot \in 1 .. Len(r) + 1
  PROVE  /\ InsertAt(r, slot, c) \in Seq(C)
         /\ IsInjective(InsertAt(r, slot, c))
         /\ Contains(InsertAt(r, slot, c), c)
         /\ \A d : d # c => (Contains(InsertAt(r, slot, c), d) <=> Contains(r, d))
         /\ slot = 1 => InsertAt(r, slot, c)[1] = c
<1> DEFINE n == InsertAt(r, slot, c)
<1>5. n \in Seq(C) /\ Len(n) = Len(r) + 1
  BY PutIntoList
<1>6. \A j \in 1 .. Len(r) + 1 :
         n[j] = IF j < slot THEN r[j] ELSE IF j = slot THEN c ELSE r[j - 1]
  BY PutIntoList, SMTT(60)
<1> HIDE DEF n
<1>7. Contains(n, c)
  BY <1>5, <1>6 DEF Contains
<1>8. IsInjective(n)
  <2>1. \A j \in 1 .. Len(r) : r[j] # c
    BY DEF Contains
  <2> SUFFICES ASSUME NEW a \in 1 .. Len(r) + 1, NEW b \in 1 .. Len(r) + 1, n[a] = n[b]
               PROVE  a = b
    BY <1>5 DEF IsInjective
  <2>2. \A j, k \in 1 .. Len(r) : r[j] = r[k] => j = k
    BY DEF IsInjective
  <2>3. a < slot => a \in 1 .. Len(r) /\ n[a] = r[a]
    BY <1>6
  <2>4. a > slot => a - 1 \in 1 .. Len(r) /\ n[a] = r[a - 1]
    BY <1>6
  <2>5. b < slot => b \in 1 .. Len(r) /\ n[b] = r[b]
    BY <1>6
  <2>6. b > slot => b - 1 \in 1 .. Len(r) /\ n[b] = r[b - 1]
    BY <1>6
  <2>7. n[slot] = c
    BY <1>6
  <2>8. a = slot => b = slot
    BY <2>1, <2>5, <2>6, <2>7
  <2>9. b = slot => a = slot
    BY <2>1, <2>3, <2>4, <2>7
  <2>10. CASE a < slot /\ b < slot
    BY <2>2, <2>3, <2>5, <2>10
  <2>11. CASE a > slot /\ b > slot
    BY <2>2, <2>4, <2>6, <2>11
  <2>12. CASE a < slot /\ b > slot
    <3>1. a = b - 1
      BY <2>2, <2>3, <2>6, <2>12
    <3> QED
      BY <2>12, <3>1
  <2>13. CASE a > slot /\ b < slot
    <3>1. b = a - 1
      BY <2>2, <2>4, <2>5, <2>13
    <3> QED
      BY <2>13, <3>1
  <2> QED
    BY <2>8, <2>9, <2>10, <2>11, <2>12, <2>13
<1>9. ASSUME NEW d, d # c, Contains(n, d)
      PROVE  Contains(r, d)
  <2> PICK k \in 1 .. Len(r) + 1 : n[k] = d
    BY <1>5, <1>9 DEF Contains
  <2>1. CASE k < slot
    BY <1>6, <2>1 DEF Contains
  <2>2. CASE k > slot
    <3>1. k - 1 \in 1 .. Len(r) /\ n[k] = r[k - 1]
      BY <1>6, <2>2
    <3> QED
      BY <3>1 DEF Contains
  <2> QED
    BY <1>6, <1>9, <2>1, <2>2
<1>10. ASSUME NEW d, d # c, Contains(r, d)
       PROVE  Contains(n, d)
  <2> PICK k \in 1 .. Len(r) : r[k] = d
    BY <1>10 DEF Contains
  <2>1. CASE k < slot
    BY <1>5, <1>6, <2>1 DEF Contains
  <2>2. CASE k >= slot
    <3>1. k + 1 \in 1 .. Len(r) + 1 /\ ~ (k + 1 < slot) /\ k + 1 # slot /\ (k + 1) - 1 = k
      BY <2>2
    <3>2. n[k + 1] = r[k]
      BY <1>6, <3>1
    <3> QED
      BY <1>5, <3>1, <3>2 DEF Contains
  <2> QED
    BY <2>1, <2>2
<1>11. slot = 1 => n[1] = c
  BY <1>6
<1> QED
  BY <1>5, <1>7, <1>8, <1>9, <1>10, <1>11 DEF n

\* A card that is in front stays where it is when it is put there.
LEMMA FrontIsInPlace ==
  ASSUME NEW C, NEW q \in Seq(C), IsInjective(q), Len(q) >= 1
  PROVE  InsertAt(RemoveFirst(q, q[1]), 1, q[1]) = q
<1> DEFINE r == RemoveAt(q, 1)
           n == InsertAt(r, 1, q[1])
<1>1. r = RemoveFirst(q, q[1])
  BY OneIsRemoved
<1>2. /\ r \in Seq(C) /\ Len(r) = Len(q) - 1
      /\ \A j \in 1 .. Len(q) - 1 : r[j] = q[IF j < 1 THEN j ELSE j + 1]
  BY RemovedFromList
<1> HIDE DEF r
<1>3. /\ n \in Seq(C) /\ Len(n) = Len(r) + 1
      /\ \A j \in 1 .. Len(r) + 1 : n[j] = IF j < 1 THEN r[j] ELSE IF j = 1 THEN q[1] ELSE r[j - 1]
  BY <1>2, PutIntoList
<1> HIDE DEF n
<1>4. Len(n) = Len(q) /\ \A j \in 1 .. Len(q) : n[j] = q[j]
  <2>1. Len(r) + 1 = Len(q)
    BY <1>2
  <2>2. ASSUME NEW j \in 1 .. Len(q), j > 1
        PROVE  n[j] = q[j]
    <3>1. n[j] = r[j - 1]
      BY <1>3, <2>1, <2>2
    <3>2. j - 1 \in 1 .. Len(q) - 1 /\ ~ (j - 1 < 1) /\ (j - 1) + 1 = j
      BY <2>2
    <3>3. r[j - 1] = q[j]
      BY <1>2, <3>2
    <3> QED
      BY <3>1, <3>3
  <2>3. n[1] = q[1]
    BY <1>3, <2>1
  <2> QED
    BY <1>3, <2>1, <2>2, <2>3
<1>5. n = q
  BY <1>3, <1>4, SeqEqual
<1> QED
  BY <1>1, <1>5 DEF n

-----------------------------------------------------------------------------
LEMMA LaneIsPlace ==
  ASSUME Inv, NEW c \in Cards
  PROVE  LaneOf(c) = placed[c] /\ placed[c] \in Lanes
BY DEF Inv, Types, Rows, InPlaced, LaneOf

LEMMA SeqGrows ==
  ASSUME NEW S, NEW T, S \subseteq T
  PROVE  Seq(S) \subseteq Seq(T)
OBVIOUS

LEMMA EventFields ==
  ASSUME Inv, NEW e \in committed
  PROVE  e.card \in Cards /\ e.version \in Nat \ {0} /\ e.to \in Lanes
BY TriageAssumption, SMTT(30) DEF Inv, Types

LEMMA TaskFields ==
  ASSUME Inv
  PROVE  /\ task # Idle => task.event \in published
         /\ task.pc = "put" => task # Idle /\ task.version \in Nat
         /\ task.pc = "fetch" => task # Idle
BY DEF Inv, Types, Idle

\* The lanes after a move.
LEMMA MovedLanes ==
  ASSUME Inv, NEW c \in Cards, NEW s \in Lanes,
         NEW slot \in 1 .. Len(RemoveFirst(lane[s], c)) + 1
  PROVE  /\ Moved(c, s, slot) \in [Lanes -> Seq(Cards)]
         /\ \A t \in Lanes : IsInjective(Moved(c, s, slot)[t])
         /\ \A t \in Lanes : Contains(Moved(c, s, slot)[t], c) <=> t = s
         /\ \A t \in Lanes, d \in Cards \ {c} :
               (Contains(Moved(c, s, slot)[t], d) <=> Contains(lane[t], d))
         /\ slot = 1 => Moved(c, s, slot)[s][1] = c
<1> DEFINE out(t) == RemoveFirst(lane[t], c)
           m == Moved(c, s, slot)
<1>1. ASSUME NEW t \in Lanes
      PROVE  /\ out(t) \in Seq(Cards) /\ IsInjective(out(t)) /\ ~ Contains(out(t), c)
             /\ \A d : d # c => (Contains(out(t), d) <=> Contains(lane[t], d))
  BY CardIsTakenOut DEF Inv, Types, Rows
<1>2. /\ InsertAt(out(s), slot, c) \in Seq(Cards)
      /\ IsInjective(InsertAt(out(s), slot, c))
      /\ Contains(InsertAt(out(s), slot, c), c)
      /\ \A d : d # c => (Contains(InsertAt(out(s), slot, c), d) <=> Contains(out(s), d))
      /\ slot = 1 => InsertAt(out(s), slot, c)[1] = c
  BY <1>1, CardIsPutIn
<1> DEFINE put == InsertAt(out(s), slot, c)
<1>3. m = [t \in Lanes |-> IF t = s THEN put ELSE out(t)]
  BY DEF Moved
<1>4. put \in Seq(Cards)
  BY <1>2
<1> HIDE DEF out, m, put
<1>5. \A t \in Lanes : m[t] = IF t = s THEN put ELSE out(t)
  BY <1>3
<1>6. m \in [Lanes -> Seq(Cards)]
  BY <1>1, <1>3, <1>4
<1> USE DEF put
<1>7. \A t \in Lanes : IsInjective(m[t]) /\ (Contains(m[t], c) <=> t = s)
  BY <1>1, <1>2, <1>5
<1>8. \A t \in Lanes, d \in Cards \ {c} : (Contains(m[t], d) <=> Contains(lane[t], d))
  BY <1>1, <1>2, <1>5
<1>9. slot = 1 => m[s][1] = c
  BY <1>2, <1>5
<1> QED
  BY <1>6, <1>7, <1>8, <1>9 DEF m

\* What the agent leaves alone: a card in front is in place.
LEMMA FrontStays ==
  ASSUME Inv, NEW c \in Cards, First(c)
  PROVE  InPlace(c, placed[c], 1)
<1> DEFINE s == placed[c]
<1>1. s \in Lanes /\ lane[s] \in Seq(Cards) /\ IsInjective(lane[s]) /\ Contains(lane[s], c)
  BY DEF Inv, Types, Rows, InPlaced
<1>2. Len(lane[s]) >= 1 /\ lane[s][1] = c
  BY <1>1 DEF First, Contains
<1>3. InsertAt(RemoveFirst(lane[s], c), 1, c) = lane[s]
  BY <1>1, <1>2, FrontIsInPlace
<1>4. ASSUME NEW t \in Lanes, t # s
      PROVE  RemoveFirst(lane[t], c) = lane[t]
  <2>1. ~ Contains(lane[t], c)
    BY <1>4 DEF Inv, Rows, InPlaced
  <2> QED
    BY <2>1 DEF RemoveFirst, Contains
<1> DEFINE put == InsertAt(RemoveFirst(lane[s], c), 1, c)
<1>5. Moved(c, s, 1) = [t \in Lanes |-> IF t = s THEN put ELSE RemoveFirst(lane[t], c)]
  BY DEF Moved
<1>6. lane = [t \in Lanes |-> lane[t]]
  BY DEF Inv, Types
<1>7. Moved(c, s, 1) = lane
  BY <1>3, <1>4, <1>5, <1>6
<1> QED
  BY <1>7 DEF InPlace

-----------------------------------------------------------------------------
LEMMA InitInv == Init => Inv
<1> SUFFICES ASSUME Init
             PROVE  Inv
  OBVIOUS
<1> USE SeedAssumption, TriageAssumption
<1>1. ASSUME NEW c \in Cards
      PROVE  /\ LaneOf(c) \in Lanes /\ Contains(lane[LaneOf(c)], c)
             /\ \A t \in Lanes : Contains(lane[t], c) => t = LaneOf(c)
  BY DEF Init, LaneOf
<1>2. Rows
  BY <1>1 DEF Init, Rows, InPlaced
<1>3. Types
  <2>1. placed \in [Cards -> Lanes] /\ lane \in [Lanes -> Seq(Cards)]
    BY <1>1 DEF Init
  <2>2. version \in [Cards -> Nat] /\ triaged \in [Cards -> Nat] /\ moves \in [person : Nat, agent : Nat]
    BY DEF Init
  <2>3. task = Idle /\ inbox \in Seq(published)
    BY DEF Init
  <2>7. listening \in BOOLEAN
    BY Zenon DEF Init
  <2>6. faults \in 0 .. MaxFaults
    BY DEF Init
  <2>4. /\ committed \subseteq Events /\ published \subseteq committed /\ settled = {}
        /\ urgent \subseteq Cards /\ missed \subseteq published
    BY DEF Init, FeedInit
  <2>5. seen \subseteq {IdOf(e) : e \in published}
    BY DEF Init
  <2> QED
    BY <2>1, <2>2, <2>3, <2>4, <2>5, <2>6, <2>7 DEF Types
<1>4. Counts /\ Tells /\ Spent /\ Followed
  BY DEF Init, FeedInit, Counts, Tells, Spent, Followed, Idle
<1> QED
  BY <1>2, <1>3, <1>4 DEF Inv

\* A move, of a person or of the agent, as far as the board and the feed go.
LEMMA MoveStep ==
  ASSUME Inv, NEW c \in Cards, NEW s \in Lanes,
         NEW slot \in 1 .. Len(RemoveFirst(lane[s], c)) + 1,
         NEW who \in {"person", "agent"}, MoveCard(c, s, slot, who),
         placed' \in [Cards -> Lanes], placed'[c] = s,
         \A d \in Cards \ {c} : placed'[d] = placed[d]
  PROVE  /\ committed' \subseteq Events /\ published' \subseteq committed' /\ settled' = {}
         /\ published' = published
         /\ lane' \in [Lanes -> Seq(Cards)] /\ version' \in [Cards -> Nat]
         /\ version'[c] = version[c] + 1
         /\ \A d \in Cards \ {c} : version'[d] = version[d]
         /\ moves' \in [person : Nat, agent : Nat]
         /\ moves'.person = IF who = "person" THEN moves.person + 1 ELSE moves.person
         /\ moves'.agent = IF who = "agent" THEN moves.agent + 1 ELSE moves.agent
         /\ moves.person + moves.agent < MaxMoves
         /\ Rows' /\ Tells'
         /\ \A e \in committed' : \/ e \in committed /\ (e.card = c => e.version # version'[c])
                                  \/ e \notin published /\ e.card = c
<1> DEFINE ev == [card |-> c, version |-> version[c] + 1, to |-> s]
<1>1. /\ committed' = committed \cup {ev} /\ ev \in Events \ committed
      /\ published' = published /\ settled' = settled
  BY DEF MoveCard, Commit
<1>2. /\ lane' = Moved(c, s, slot)
      /\ version' = [version EXCEPT ![c] = @ + 1]
      /\ moves' = [moves EXCEPT ![who] = @ + 1]
      /\ moves.person + moves.agent < MaxMoves
  BY DEF MoveCard
<1>3. /\ version' \in [Cards -> Nat] /\ version'[c] = version[c] + 1
      /\ \A d \in Cards \ {c} : version'[d] = version[d]
  BY <1>2 DEF Inv, Types
<1>4. /\ moves' \in [person : Nat, agent : Nat]
      /\ moves'.person = IF who = "person" THEN moves.person + 1 ELSE moves.person
      /\ moves'.agent = IF who = "agent" THEN moves.agent + 1 ELSE moves.agent
  <2>1. moves \in [person : Nat, agent : Nat]
    BY DEF Inv, Types
  <2>2. CASE who = "person"
    <3>1. moves' = [moves EXCEPT !["person"] = @ + 1]
      BY <1>2, <2>2
    <3> QED
      BY <2>1, <2>2, <3>1
  <2>3. CASE who = "agent"
    <3>1. moves' = [moves EXCEPT !["agent"] = @ + 1]
      BY <1>2, <2>3
    <3> QED
      BY <2>1, <2>3, <3>1
  <2> QED
    BY <2>2, <2>3
<1>5. /\ lane' \in [Lanes -> Seq(Cards)]
      /\ \A t \in Lanes : IsInjective(lane'[t])
      /\ \A t \in Lanes : Contains(lane'[t], c) <=> t = s
      /\ \A t \in Lanes, d \in Cards \ {c} : (Contains(lane'[t], d) <=> Contains(lane[t], d))
  <2> DEFINE m == Moved(c, s, slot)
  <2>1. /\ m \in [Lanes -> Seq(Cards)]
        /\ \A t \in Lanes : IsInjective(m[t])
        /\ \A t \in Lanes : Contains(m[t], c) <=> t = s
        /\ \A t \in Lanes, d \in Cards \ {c} : (Contains(m[t], d) <=> Contains(lane[t], d))
    BY MovedLanes
  <2>2. lane' = m
    BY <1>2
  <2> HIDE DEF m
  <2> QED
    BY <2>1, <2>2
<1>6. Rows'
  <2> SUFFICES ASSUME NEW d \in Cards
               PROVE  InPlaced(d)'
    BY <1>5 DEF Rows
  <2>1. CASE d = c
    BY <1>5, <2>1 DEF InPlaced
  <2>2. CASE d # c
    <3>1. InPlaced(d) /\ placed[d] \in Lanes
      BY DEF Inv, Types, Rows
    <3>2. placed'[d] = placed[d]
      BY <2>2
    <3> QED
      BY <1>5, <2>2, <3>1, <3>2 DEF InPlaced
  <2> QED
    BY <2>1, <2>2
<1>7. \A e \in committed : e.card \in Cards /\ e.version \in Nat /\ e.version <= version[e.card]
  BY EventFields DEF Inv, Tells
<1>8. ev.card = c /\ ev.version = version[c] + 1 /\ ev.to = s
  OBVIOUS
<1> HIDE DEF ev
<1>9. \A e \in committed : e.card = c => e.version <= version[c]
  BY <1>7
<1>10. version[c] \in Nat
  BY DEF Inv, Types
<1>11. Tells'
  <2>1. ASSUME NEW e \in committed'
        PROVE  e.version <= version'[e.card]
    BY <1>1, <1>3, <1>7, <1>8, <1>9, <1>10
  <2>2. ASSUME NEW e \in committed', e.version = version'[e.card]
        PROVE  e.to = placed'[e.card]
    <3>1. CASE e = ev
      BY <1>8, <3>1
    <3>2. CASE e \in committed /\ e.card = c
      BY <1>3, <1>9, <1>7, <1>10, <2>2, <3>2
    <3>3. CASE e \in committed /\ e.card # c
      <4>1. version'[e.card] = version[e.card] /\ placed'[e.card] = placed[e.card]
        BY <1>3, <1>7, <3>3
      <4> QED
        BY <2>2, <3>3, <4>1 DEF Inv, Tells
    <3> QED
      BY <1>1, <3>1, <3>2, <3>3
  <2>3. ASSUME NEW e \in committed', NEW f \in committed', IdOf(e) = IdOf(f)
        PROVE  e = f
    <3>1. e.card = f.card /\ e.version = f.version
      BY <2>3 DEF IdOf
    <3>2. CASE e \in committed /\ f \in committed
      BY <2>3, <3>2 DEF Inv, Tells
    <3>3. ~ (e = ev /\ f \in committed) /\ ~ (f = ev /\ e \in committed)
      BY <1>7, <1>8, <1>9, <1>10, <3>1
    <3> QED
      BY <1>1, <3>2, <3>3
  <2> QED
    BY <2>1, <2>2, <2>3 DEF Tells
<1>12. ASSUME NEW e \in committed'
       PROVE  \/ e \in committed /\ (e.card = c => e.version # version'[c])
              \/ e \notin published /\ e.card = c
  <2>1. ev \notin published
    BY <1>1 DEF Inv, Types
  <2> QED
    BY <1>1, <1>3, <1>7, <1>8, <1>9, <1>10, <2>1
<1>13. committed' \subseteq Events /\ published' \subseteq committed' /\ settled' = {}
  BY <1>1 DEF Inv, Types
<1> QED
  BY <1>1, <1>2, <1>3, <1>4, <1>5, <1>6, <1>11, <1>12, <1>13

\* A step that leaves the board and its events alone.
LEMMA BoardStands ==
  ASSUME Inv, UNCHANGED <<committed, urgent, board>>
  PROVE  Rows' /\ Tells' /\ Spent'
<1>1. Rows'
  BY DEF Inv, board, Rows, InPlaced
<1>2. Tells'
  BY DEF Inv, board, Tells
<1>3. Spent'
  BY DEF Inv, board, Spent, First
<1> QED
  BY <1>1, <1>2, <1>3

LEMMA AppendToSet ==
  ASSUME NEW S, NEW q \in Seq(S), NEW e \in S
  PROVE  Append(q, e) \in Seq(S) /\ ToSet(q) \cup {e} \subseteq ToSet(Append(q, e))
<1>1. /\ Append(q, e) \in Seq(S) /\ Len(Append(q, e)) = Len(q) + 1
      /\ \A i \in 1 .. Len(q) : Append(q, e)[i] = q[i]
      /\ Append(q, e)[Len(q) + 1] = e
  OBVIOUS
<1> QED
  BY <1>1 DEF ToSet

LEMMA TailToSet ==
  ASSUME NEW S, NEW q \in Seq(S), q # <<>>
  PROVE  /\ Tail(q) \in Seq(S) /\ Head(q) \in S
         /\ ToSet(q) \subseteq {Head(q)} \cup ToSet(Tail(q))
<1>1. /\ Tail(q) \in Seq(S) /\ Head(q) \in S /\ Head(q) = q[1] /\ Len(Tail(q)) = Len(q) - 1
      /\ \A i \in 1 .. Len(q) - 1 : Tail(q)[i] = q[i + 1]
  OBVIOUS
<1>2. ASSUME NEW i \in 1 .. Len(q), i # 1
      PROVE  q[i] \in ToSet(Tail(q))
  <2>1. i - 1 \in 1 .. Len(q) - 1 /\ (i - 1) + 1 = i
    BY <1>2
  <2>2. Tail(q)[i - 1] = q[i]
    BY <1>1, <2>1
  <2>3. DOMAIN Tail(q) = 1 .. Len(q) - 1
    BY <1>1
  <2> QED
    BY <2>1, <2>2, <2>3 DEF ToSet
<1> QED
  BY <1>1, <1>2 DEF ToSet

LEMMA ToSetOfSeq ==
  ASSUME NEW S, NEW q \in Seq(S)
  PROVE  ToSet(q) \subseteq S
BY DEF ToSet

-----------------------------------------------------------------------------
\* A move of a person.
LEMMA PersonStep ==
  ASSUME Inv, NEW c \in Cards, NEW s \in Lanes, NEW slot, PersonMoves(c, s, slot)
  PROVE  Inv'
<1>1. /\ slot \in 1 .. Len(RemoveFirst(lane[s], c)) + 1
      /\ MoveCard(c, s, slot, "person")
      /\ placed' = [placed EXCEPT ![c] = s]
      /\ UNCHANGED <<urgent, listening, inbox, seen, task, triaged, missed, faults>>
  BY DEF PersonMoves, agent
<1>2. /\ placed' \in [Cards -> Lanes] /\ placed'[c] = s
      /\ \A d \in Cards \ {c} : placed'[d] = placed[d]
  BY <1>1 DEF Inv, Types
<1>3. /\ committed' \subseteq Events /\ published' \subseteq committed' /\ settled' = {}
      /\ published' = published
      /\ lane' \in [Lanes -> Seq(Cards)] /\ version' \in [Cards -> Nat]
      /\ version'[c] = version[c] + 1
      /\ \A d \in Cards \ {c} : version'[d] = version[d]
      /\ moves' \in [person : Nat, agent : Nat]
      /\ moves'.person = moves.person + 1
      /\ moves'.agent = moves.agent
      /\ moves.person + moves.agent < MaxMoves
      /\ Rows' /\ Tells'
      /\ \A e \in committed' : \/ e \in committed /\ (e.card = c => e.version # version'[c])
                               \/ e \notin published /\ e.card = c
  BY <1>1, <1>2, MoveStep
<1>4. Types'
  BY <1>1, <1>2, <1>3 DEF Inv, Types, Idle, IdOf
<1>5. moves.person \in Nat /\ moves.agent \in Nat /\ moves'.person \in Nat /\ moves'.agent \in Nat
  BY <1>3 DEF Inv, Types
<1>10. /\ moves'.person = moves.person + 1 /\ moves'.agent = moves.agent
       /\ moves.person + moves.agent < MaxMoves
  BY <1>3
<1>6. \A d \in Cards : /\ version[d] \in Nat /\ version'[d] \in Nat /\ version[d] <= version'[d]
                      /\ version'[d] <= version[d] + 1
  <2> SUFFICES ASSUME NEW d \in Cards
               PROVE  /\ version[d] \in Nat /\ version'[d] \in Nat /\ version[d] <= version'[d]
                      /\ version'[d] <= version[d] + 1
    OBVIOUS
  <2>1. version[d] \in Nat /\ version'[d] \in Nat
    BY <1>3 DEF Inv, Types
  <2>2. version'[d] = version[d] \/ version'[d] = version[d] + 1
    BY <1>3
  <2> QED
    BY <2>1, <2>2
<1>7. Counts'
  <2>1. moves'.person + moves'.agent = moves.person + moves.agent + 1
    BY <1>5, <1>10
  <2>2. \A d \in Cards : /\ version'[d] <= moves'.person + moves'.agent
                         /\ triaged'[d] <= version'[d]
    <3> SUFFICES ASSUME NEW d \in Cards
                 PROVE  version'[d] <= moves'.person + moves'.agent /\ triaged'[d] <= version'[d]
      OBVIOUS
    <3>1. version[d] <= moves.person + moves.agent /\ triaged[d] <= version[d] /\ triaged[d] \in Nat
      BY DEF Inv, Counts, Types
    <3>3. triaged'[d] = triaged[d]
      BY <1>1
    <3> QED
      BY <1>5, <1>6, <2>1, <3>1, <3>3
  <2>3. ASSUME task'.pc = "put"
        PROVE  /\ task'.event.version <= task'.version
               /\ task'.version <= version'[task'.event.card]
    <3>1. task' = task /\ task.event \in committed /\ task.version \in Nat
      BY <1>1, <2>3, TaskFields DEF Inv, Types
    <3>2. task.event.card \in Cards
      BY <3>1, EventFields
    <3>3. task.event.version <= task.version /\ task.version <= version[task.event.card]
      BY <2>3, <3>1 DEF Inv, Counts
    <3> QED
      BY <1>6, <3>1, <3>2, <3>3
  <2> QED
    <3>1. moves'.person + moves'.agent <= MaxMoves
      BY <1>5, <1>10, TriageAssumption
    <3> QED
      BY <2>2, <2>3, <3>1 DEF Counts
<1>8. Spent'
  BY <1>1, <1>3, <1>5 DEF Inv, Spent
<1>9. Followed'
  <2>1. ASSUME NEW e \in committed', Due(e)'
        PROVE  Minded(e)'
    <3>1. CASE e \in committed /\ e.card # c
      <4>1. version'[e.card] = version[e.card]
        BY <1>3, <3>1, EventFields
      <4>2. Minded(e)
        BY <1>1, <2>1, <3>1, <4>1 DEF Inv, Followed, Due
      <4> QED
        BY <1>1, <1>3, <4>2 DEF Minded, InHand
    <3>2. CASE e \notin published
      BY <1>3, <3>2 DEF Minded
    <3>3. ~ (e.card = c /\ e.version # version'[c])
      BY <2>1 DEF Due
    <3> QED
      BY <1>3, <3>1, <3>2, <3>3
  <2> QED
    BY <1>1, <2>1 DEF Inv, Followed
<1> QED
  BY <1>3, <1>4, <1>7, <1>8, <1>9 DEF Inv

\* A message reaches the agent, or nobody hears it.
LEMMA AnnounceStep ==
  ASSUME Inv, NEW e \in committed, Announce(e)
  PROVE  Inv'
<1>1. /\ committed' = committed /\ published' = published \cup {e} /\ settled' = settled
      /\ IF e \in published THEN Fault ELSE UNCHANGED faults
      /\ \/ listening /\ inbox' = Append(inbox, e) /\ missed' = missed
         \/ missed' = missed \cup {e} /\ inbox' = inbox
      /\ UNCHANGED <<urgent, board, listening, seen, task, triaged>>
  BY DEF Announce, Publish
<1>2. inbox' \in Seq(published') /\ ToSet(inbox) \subseteq ToSet(inbox')
  <2>1. inbox \in Seq(published')
    BY <1>1, SeqGrows DEF Inv, Types
  <2>2. Append(inbox, e) \in Seq(published') /\ ToSet(inbox) \subseteq ToSet(Append(inbox, e))
    BY <1>1, <2>1, AppendToSet
  <2> QED
    BY <1>1, <2>1, <2>2
<1>3. e \in ToSet(inbox') \/ e \in missed'
  BY <1>1, AppendToSet, SeqGrows DEF Inv, Types
<1>4. Types'
  <2>1. faults' \in 0 .. MaxFaults
    <3>1. faults \in Nat /\ faults <= MaxFaults /\ MaxFaults \in Nat
      BY TriageAssumption DEF Inv, Types
    <3>2. faults' = faults \/ (faults < MaxFaults /\ faults' = faults + 1)
      BY <1>1 DEF Fault
    <3> QED
      BY <3>1, <3>2
  <2>2. seen' \subseteq {IdOf(f) : f \in published'}
    BY <1>1 DEF Inv, Types, IdOf
  <2>3. missed' \subseteq published'
    BY <1>1 DEF Inv, Types
  <2>4. \/ task' = Idle
        \/ task' \in [pc : {"fetch"}, event : published']
        \/ task' \in [pc : {"put"}, event : published', version : Nat]
    BY <1>1 DEF Inv, Types, Idle
  <2> QED
    BY <1>1, <1>2, <2>1, <2>2, <2>3, <2>4 DEF Inv, Types, board
<1>5. Rows' /\ Tells' /\ Spent'
  BY <1>1, BoardStands
<1>6. Counts'
  BY <1>1 DEF Inv, Counts, board
<1>7. Followed'
  <2>1. ASSUME NEW f \in committed, Due(f)'
        PROVE  Minded(f)'
    <3>1. Minded(f)
      BY <1>1, <2>1 DEF Inv, Followed, Due, board
    <3>2. CASE f # e
      BY <1>1, <1>2, <3>1, <3>2 DEF Minded, InHand
    <3>3. CASE f = e /\ e \in published
      BY <1>1, <1>2, <3>1, <3>3 DEF Minded, InHand
    <3>4. CASE f = e /\ e \notin published
      <4>1. IdOf(e) \notin seen
        BY <3>4 DEF Inv, Types, Tells
      <4> QED
        BY <1>1, <1>3, <3>4, <4>1 DEF Minded
    <3> QED
      BY <3>2, <3>3, <3>4
  <2> QED
    BY <1>1, <2>1 DEF Inv, Followed
<1> QED
  BY <1>4, <1>5, <1>6, <1>7 DEF Inv

-----------------------------------------------------------------------------
(* The steps of the agent.                                                 *)

LEMMA FaultStep ==
  ASSUME Inv, Fault \/ UNCHANGED faults
  PROVE  faults' \in 0 .. MaxFaults
<1>1. faults \in Nat /\ faults <= MaxFaults /\ MaxFaults \in Nat
  BY TriageAssumption DEF Inv, Types
<1>2. faults' = faults \/ (faults < MaxFaults /\ faults' = faults + 1)
  BY DEF Fault
<1> QED
  BY <1>1, <1>2

\* An event that is given up is missed; what was not heard is missed as well.
LEMMA GivesUp ==
  ASSUME Inv, UNCHANGED <<feed, urgent, board, triaged>>,
         Fault \/ UNCHANGED faults,
         listening' \in BOOLEAN,
         inbox' = inbox \/ (inbox' = <<>> /\ ToSet(inbox) \subseteq missed'),
         seen' = seen \/ (seen' = {} /\ inbox' = <<>>),
         task' = task \/ (task' = Idle /\ (task # Idle => task.event \in missed')),
         missed \subseteq missed', missed' \subseteq published
  PROVE  Inv'
<1>1. inbox' \in Seq(published)
  <2>1. <<>> \in Seq(published)
    OBVIOUS
  <2>2. inbox \in Seq(published)
    BY DEF Inv, Types
  <2> QED
    BY <2>1, <2>2
<1>2. faults' \in 0 .. MaxFaults
  BY FaultStep
<1>3. Types'
  BY <1>1, <1>2 DEF Inv, Types, feed, board, Idle, IdOf
<1>4. Rows' /\ Tells' /\ Spent'
  BY BoardStands DEF feed
<1>5. Counts'
  BY DEF Inv, Counts, board, Idle
<1>6. Followed'
  <2>1. ASSUME NEW e \in committed, Due(e)'
        PROVE  Minded(e)'
    <3>1. Minded(e)
      BY <2>1 DEF Inv, Followed, Due, board
    <3>2. CASE triaged[e.card] = e.version \/ e \in missed \/ e \notin published
      BY <3>2 DEF Minded, feed
    <3>3. CASE e \in ToSet(inbox) /\ IdOf(e) \notin seen
      BY <3>3 DEF Minded
    <3>4. CASE InHand(e)
      BY <3>4 DEF Minded, InHand
    <3> QED
      BY <3>1, <3>2, <3>3, <3>4 DEF Minded
  <2> QED
    BY <2>1 DEF Inv, Followed, feed, Idle
<1> QED
  BY <1>3, <1>4, <1>5, <1>6 DEF Inv

LEMMA ListenStep == Inv /\ Listen => Inv'
<1> SUFFICES ASSUME Inv, Listen
             PROVE  Inv'
  OBVIOUS
<1>1. missed \subseteq published
  BY DEF Inv, Types
<1>2. listening' \in BOOLEAN
  BY Zenon DEF Listen
<1> QED
  BY <1>1, <1>2, GivesUp DEF Listen

LEMMA DropsStep == Inv /\ Drops => Inv'
<1> SUFFICES ASSUME Inv, Drops
             PROVE  Inv'
  OBVIOUS
<1>1. missed \subseteq published /\ ToSet(inbox) \subseteq published
  BY ToSetOfSeq DEF Inv, Types
<1>2. listening' \in BOOLEAN
  BY Zenon DEF Drops
<1>3. missed \subseteq missed' /\ missed' \subseteq published /\ ToSet(inbox) \subseteq missed'
  BY <1>1 DEF Drops
<1> QED
  BY <1>2, <1>3, GivesUp DEF Drops

LEMMA DiesStep == Inv /\ Dies => Inv'
<1> SUFFICES ASSUME Inv, Dies
             PROVE  Inv'
  OBVIOUS
<1>1. missed \subseteq published /\ ToSet(inbox) \subseteq published
  BY ToSetOfSeq DEF Inv, Types
<1>2. listening' \in BOOLEAN
  BY Zenon DEF Dies
<1>3. task # Idle => task.event \in published
  BY TaskFields
<1>4. /\ missed \subseteq missed' /\ missed' \subseteq published /\ ToSet(inbox) \subseteq missed'
      /\ task # Idle => task.event \in missed'
  BY <1>1, <1>3 DEF Dies
<1> QED
  BY <1>2, <1>4, GivesUp DEF Dies

LEMMA RequestFailsStep == Inv /\ RequestFails => Inv'
<1> SUFFICES ASSUME Inv, RequestFails
             PROVE  Inv'
  OBVIOUS
<1>1. missed \subseteq published /\ task.event \in published /\ listening \in BOOLEAN
  BY TaskFields DEF Inv, Types, RequestFails
<1>2. missed \subseteq missed' /\ missed' \subseteq published /\ task.event \in missed'
  BY <1>1 DEF RequestFails
<1> QED
  BY <1>1, <1>2, GivesUp DEF RequestFails

\* The first message is taken, and handled unless it is known or went elsewhere.
LEMMA TakeStep == Inv /\ Take => Inv'
<1> SUFFICES ASSUME Inv, Take
             PROVE  Inv'
  OBVIOUS
<1> DEFINE h == Head(inbox)
<1>1. /\ task = Idle /\ inbox # <<>> /\ inbox' = Tail(inbox)
      /\ seen' = seen \cup {IdOf(h)}
      /\ task' = IF IdOf(h) \in seen \/ h.to # "backlog" THEN Idle
                 ELSE [pc |-> "fetch", event |-> h]
      /\ UNCHANGED <<feed, urgent, board, listening, triaged, missed, faults>>
  BY DEF Take
<1>2. /\ inbox' \in Seq(published) /\ h \in published
      /\ ToSet(inbox) \subseteq {h} \cup ToSet(inbox')
  BY <1>1, TailToSet DEF Inv, Types
<1> HIDE DEF h
<1>3. Types'
  <2>1. seen' \subseteq {IdOf(f) : f \in published}
    BY <1>1, <1>2 DEF Inv, Types
  <2>2. \/ task' = Idle
        \/ task' \in [pc : {"fetch"}, event : published]
    BY <1>1, <1>2
  <2>3. seen' \subseteq {IdOf(f)' : f \in published'}
    BY <1>1, <2>1 DEF IdOf, feed
  <2> QED
    BY <1>1, <1>2, <2>2, <2>3 DEF Inv, Types, feed, board, Idle
<1>4. Rows' /\ Tells' /\ Spent'
  BY <1>1, BoardStands DEF feed
<1>5. task'.pc # "put"
  BY <1>1 DEF Idle
<1>6. Counts'
  BY <1>1, <1>5 DEF Inv, Counts, board
<1>7. Followed'
  <2>1. ASSUME NEW e \in committed, Due(e)'
        PROVE  Minded(e)'
    <3>1. Minded(e) /\ e.to = "backlog"
      BY <1>1, <2>1 DEF Inv, Followed, Due, board
    <3>2. CASE triaged[e.card] = e.version \/ e \in missed \/ e \notin published
      BY <1>1, <3>2 DEF Minded, feed
    <3>3. CASE e \in ToSet(inbox) /\ IdOf(e) \notin seen /\ e = h
      <4>1. task' = [pc |-> "fetch", event |-> e]
        BY <1>1, <3>1, <3>3
      <4>2. InHand(e)'
        BY <4>1 DEF InHand, Idle
      <4> QED
        BY <4>2 DEF Minded
    <3>4. CASE e \in ToSet(inbox) /\ IdOf(e) \notin seen /\ e # h
      <4>1. h \in committed
        BY <1>2 DEF Inv, Types
      <4>2. IdOf(e) # IdOf(h)
        BY <3>4, <4>1 DEF Inv, Tells
      <4>3. e \in ToSet(inbox') /\ IdOf(e) \notin seen'
        BY <1>1, <1>2, <3>4, <4>2
      <4> QED
        BY <4>3 DEF Minded, IdOf
    <3>5. ~ InHand(e)
      BY <1>1 DEF InHand
    <3> QED
      BY <3>1, <3>2, <3>3, <3>4, <3>5 DEF Minded
  <2>2. task' # Idle => task'.event.to = "backlog"
    BY <1>1
  <2> QED
    BY <1>1, <1>5, <2>1, <2>2 DEF Followed, feed
<1> QED
  BY <1>3, <1>4, <1>6, <1>7 DEF Inv

\* The card is read: at what version it is now.
LEMMA FetchStep == Inv /\ Fetch => Inv'
<1> SUFFICES ASSUME Inv, Fetch
             PROVE  Inv'
  OBVIOUS
<1> DEFINE ev == task.event
           c == ev.card
<1>1. /\ task.pc = "fetch"
      /\ task' = IF c \in urgent THEN [pc |-> "put", event |-> ev, version |-> version[c]] ELSE Idle
      /\ UNCHANGED <<feed, urgent, board, listening, inbox, seen, triaged, missed, faults>>
  BY DEF Fetch
<1>2. task # Idle /\ ev \in published /\ ev \in committed
  BY <1>1, TaskFields DEF Inv, Types
<1>3. c \in Cards /\ version[c] \in Nat /\ ev.version <= version[c]
  BY <1>2, EventFields DEF Inv, Types, Tells
<1>4. ev.to = "backlog"
  BY <1>2 DEF Inv, Followed
<1> HIDE DEF ev
<1>5. Types'
  <2>1. task' = Idle \/ task' \in [pc : {"put"}, event : published, version : Nat]
    BY <1>1, <1>2, <1>3
  <2> QED
    BY <1>1, <2>1 DEF Inv, Types, feed, board, Idle, IdOf
<1>6. Rows' /\ Tells' /\ Spent'
  BY <1>1, BoardStands DEF feed
<1>7. task'.pc = "put" => /\ task'.event = ev /\ task'.version = version[c] /\ c \in urgent
  BY <1>1 DEF Idle
<1>8. Counts'
  BY <1>1, <1>3, <1>7 DEF Inv, Counts, board
<1>9. Followed'
  <2>1. ASSUME NEW e \in committed, Due(e)'
        PROVE  Minded(e)'
    <3>1. Minded(e) /\ e.card \in urgent /\ e.version = version[e.card]
      BY <1>1, <2>1 DEF Inv, Followed, Due, board
    <3>2. CASE InHand(e)
      <4>1. e = ev
        BY <3>2 DEF InHand, ev
      <4>2. task' = [pc |-> "put", event |-> e, version |-> e.version]
        BY <1>1, <3>1, <4>1
      <4>3. InHand(e)'
        BY <4>2 DEF InHand, Idle
      <4> QED
        BY <4>3 DEF Minded
    <3>3. CASE ~ InHand(e)
      BY <1>1, <3>1, <3>3 DEF Minded, feed
    <3> QED
      BY <3>2, <3>3
  <2>2. task' # Idle => task'.event.to = "backlog"
    BY <1>1, <1>4
  <2> QED
    BY <1>1, <1>7, <2>1, <2>2 DEF Followed, feed
<1> QED
  BY <1>5, <1>6, <1>8, <1>9 DEF Inv

\* A conflict means that the event was not of the last move.
LEMMA PutConflictStep == Inv /\ PutConflict => Inv'
<1> SUFFICES ASSUME Inv, PutConflict
             PROVE  Inv'
  OBVIOUS
<1>1. /\ task.pc = "put" /\ version[task.event.card] # task.version
      /\ task' = Idle
      /\ UNCHANGED <<feed, urgent, board, listening, inbox, seen, triaged, missed, faults>>
  BY DEF PutConflict
<1>2. Types'
  BY <1>1 DEF Inv, Types, feed, board, Idle, IdOf
<1>3. Rows' /\ Tells' /\ Spent'
  BY <1>1, BoardStands DEF feed
<1>4. Counts'
  BY <1>1 DEF Inv, Counts, board, Idle
<1>5. Followed'
  <2>1. ASSUME NEW e \in committed, Due(e)'
        PROVE  Minded(e)'
    <3>1. Minded(e) /\ e.version = version[e.card]
      BY <1>1, <2>1 DEF Inv, Followed, Due, board
    <3>2. ~ InHand(e)
      BY <1>1, <3>1 DEF InHand
    <3> QED
      BY <1>1, <3>1, <3>2 DEF Minded, feed
  <2> QED
    BY <1>1, <2>1 DEF Followed, feed, Idle
<1> QED
  BY <1>2, <1>3, <1>4, <1>5 DEF Inv

\* The agent is content with a card that is in front.
LEMMA ContentStep ==
  ASSUME Inv, PutOk, UNCHANGED <<feed, board>>
  PROVE  Inv'
<1> DEFINE c == task.event.card
<1>1. /\ task.pc = "put" /\ version[c] = task.version
      /\ triaged' = [triaged EXCEPT ![c] = version'[c]]
      /\ task' = Idle
      /\ UNCHANGED <<urgent, listening, inbox, seen, missed, faults>>
  BY DEF PutOk
<1>2. c \in Cards
  BY <1>1, TaskFields, EventFields DEF Inv, Types
<1>3. version[c] \in Nat /\ version' = version
  BY <1>2 DEF Inv, Types, board
<1> HIDE DEF c
<1>4. /\ triaged' \in [Cards -> Nat] /\ triaged'[c] = version[c]
      /\ \A d \in Cards \ {c} : triaged'[d] = triaged[d]
  BY <1>1, <1>2, <1>3 DEF Inv, Types
<1>5. Types'
  BY <1>1, <1>4 DEF Inv, Types, feed, board, Idle, IdOf
<1>6. Rows' /\ Tells' /\ Spent'
  BY <1>1, BoardStands DEF feed
<1>7. Counts'
  <2>1. \A d \in Cards : triaged'[d] <= version[d]
    BY <1>3, <1>4 DEF Inv, Counts
  <2> QED
    BY <1>1, <2>1 DEF Inv, Counts, board, Idle
<1>8. Followed'
  <2>1. ASSUME NEW e \in committed, Due(e)'
        PROVE  Minded(e)'
    <3>1. Minded(e) /\ e.version = version[e.card] /\ e.card \in Cards
      BY <1>1, <2>1, EventFields DEF Inv, Followed, Due, board
    <3>2. CASE e.card = c
      BY <1>4, <3>1, <3>2 DEF Minded
    <3>3. CASE e.card # c
      <4>1. ~ InHand(e)
        BY <3>3 DEF InHand, c
      <4> QED
        BY <1>1, <1>4, <3>1, <3>3, <4>1 DEF Minded, feed
    <3> QED
      BY <3>2, <3>3
  <2> QED
    BY <1>1, <2>1 DEF Followed, feed, Idle
<1> QED
  BY <1>5, <1>6, <1>7, <1>8 DEF Inv

\* The agent moves a card, which was then not in front, to the front of the
\* lane a person chose for it.
LEMMA AgentMoveStep ==
  ASSUME Inv, PutOk, MoveCard(task.event.card, TargetLane(task.event.card), 1, "agent"),
         UNCHANGED placed
  PROVE  Inv'
<1> DEFINE c == task.event.card
           s == placed[c]
<1>1. /\ task.pc = "put" /\ version[c] = task.version
      /\ triaged' = [triaged EXCEPT ![c] = version'[c]]
      /\ task' = Idle
      /\ UNCHANGED <<urgent, listening, inbox, seen, missed, faults>>
  BY DEF PutOk
<1>2. task.event \in committed
  BY <1>1, TaskFields DEF Inv, Types
<1>3. c \in Cards /\ task.event.version \in Nat \ {0} /\ c \in urgent
  BY <1>1, <1>2, EventFields DEF Inv, Followed
<1>4. version[c] \in Nat /\ version[c] >= 1
  BY <1>1, <1>3 DEF Inv, Types, Counts
<1>5. s \in Lanes /\ MoveCard(c, s, 1, "agent")
  BY <1>3, LaneIsPlace DEF TargetLane
<1> HIDE DEF c
<1>6. 1 \in 1 .. Len(RemoveFirst(lane[s], c)) + 1
  <2>1. RemoveFirst(lane[s], c) \in Seq(Cards)
    BY <1>5, CardIsTakenOut DEF Inv, Types, Rows
  <2> QED
    BY <2>1
<1>7. /\ placed' \in [Cards -> Lanes] /\ placed'[c] = s
      /\ \A d \in Cards \ {c} : placed'[d] = placed[d]
  BY <1>3 DEF Inv, Types
<1>8. /\ committed' \subseteq Events /\ published' \subseteq committed' /\ settled' = {}
      /\ published' = published
      /\ lane' \in [Lanes -> Seq(Cards)] /\ version' \in [Cards -> Nat]
      /\ version'[c] = version[c] + 1
      /\ \A d \in Cards \ {c} : version'[d] = version[d]
      /\ moves' \in [person : Nat, agent : Nat]
      /\ moves'.person = moves.person
      /\ moves'.agent = moves.agent + 1
      /\ moves.person + moves.agent < MaxMoves
      /\ Rows' /\ Tells'
      /\ \A e \in committed' : \/ e \in committed /\ (e.card = c => e.version # version'[c])
                               \/ e \notin published /\ e.card = c
  BY <1>3, <1>5, <1>6, <1>7, MoveStep
<1>9. version'[c] \in Nat
  BY <1>3, <1>8
<1>10. /\ triaged' \in [Cards -> Nat] /\ triaged'[c] = version'[c]
       /\ \A d \in Cards \ {c} : triaged'[d] = triaged[d]
  BY <1>1, <1>3, <1>9 DEF Inv, Types
<1>11. Types'
  BY <1>1, <1>7, <1>8, <1>10 DEF Inv, Types, Idle, IdOf
<1>12. moves.person \in Nat /\ moves.agent \in Nat
  BY DEF Inv, Types
<1>13. /\ moves'.person = moves.person /\ moves'.agent = moves.agent + 1
       /\ moves.person + moves.agent < MaxMoves
  BY <1>8
<1>14. Counts'
  <2>1. moves'.person + moves'.agent <= MaxMoves
    BY <1>12, <1>13, TriageAssumption
  <2>2. ASSUME NEW d \in Cards
        PROVE  version'[d] <= moves'.person + moves'.agent /\ triaged'[d] <= version'[d]
    <3>1. /\ version[d] \in Nat /\ triaged[d] \in Nat
          /\ version[d] <= moves.person + moves.agent /\ triaged[d] <= version[d]
      BY DEF Inv, Types, Counts
    <3>2. CASE d = c
      <4>1. version'[d] = version[d] + 1 /\ triaged'[d] = version'[d]
        BY <1>8, <1>10, <3>2
      <4> QED
        BY <1>12, <1>13, <3>1, <4>1
    <3>3. CASE d # c
      <4>1. version'[d] = version[d] /\ triaged'[d] = triaged[d]
        BY <1>8, <1>10, <3>3
      <4> QED
        BY <1>12, <1>13, <3>1, <4>1
    <3> QED
      BY <3>2, <3>3
  <2>3. task'.pc # "put"
    BY <1>1 DEF Idle
  <2> QED
    BY <2>1, <2>2, <2>3 DEF Counts
<1>15. Spent'
  <2> SUFFICES ASSUME \A d, e \in urgent : d = e
               PROVE  /\ moves'.agent <= moves'.person
                      /\ \A d \in urgent : First(d)'
    BY <1>1 DEF Spent
  <2>1. ~ First(c)
    BY <1>3, <1>5, FrontStays DEF MoveCard
  <2>2. moves.agent < moves.person
    BY <1>3, <1>4, <2>1 DEF Inv, Spent
  <2>3. moves'.agent <= moves'.person
    BY <1>12, <1>13, <2>2
  <2>4. lane'[s][1] = c
    <3>1. Moved(c, s, 1)[s][1] = c
      BY <1>3, <1>5, <1>6, MovedLanes
    <3> QED
      BY <1>5, <3>1 DEF MoveCard
  <2>5. \A d \in urgent : d = c
    BY <1>3
  <2> QED
    BY <1>7, <2>3, <2>4, <2>5 DEF First
<1>16. Followed'
  <2>1. ASSUME NEW e \in committed', Due(e)'
        PROVE  Minded(e)'
    <3>1. CASE e \in committed /\ e.card # c
      <4>1. e.card \in Cards /\ version'[e.card] = version[e.card] /\ triaged'[e.card] = triaged[e.card]
        BY <1>8, <1>10, <3>1, EventFields
      <4>2. Minded(e)
        BY <1>1, <2>1, <3>1, <4>1 DEF Inv, Followed, Due
      <4>3. ~ InHand(e)
        BY <3>1 DEF InHand, c
      <4> QED
        BY <1>1, <1>8, <4>1, <4>2, <4>3 DEF Minded
    <3>2. CASE e \notin published
      BY <1>8, <3>2 DEF Minded
    <3>3. ~ (e.card = c /\ e.version # version'[c])
      BY <2>1 DEF Due
    <3> QED
      BY <1>8, <3>1, <3>2, <3>3
  <2> QED
    BY <1>1, <2>1 DEF Followed, Idle
<1> QED
  BY <1>8, <1>11, <1>14, <1>15, <1>16 DEF Inv

LEMMA PutOkStep == Inv /\ PutOk => Inv'
<1> SUFFICES ASSUME Inv, PutOk
             PROVE  Inv'
  OBVIOUS
<1>1. \/ UNCHANGED <<feed, board>>
      \/ /\ MoveCard(task.event.card, TargetLane(task.event.card), 1, "agent")
         /\ UNCHANGED placed
  BY DEF PutOk
<1> QED
  BY <1>1, ContentStep, AgentMoveStep

LEMMA NextInv == Inv /\ [Next]_vars => Inv'
<1> SUFFICES ASSUME Inv, [Next]_vars
             PROVE  Inv'
  OBVIOUS
<1>1. CASE \E c \in Cards, s \in Lanes : \E slot \in 1 .. Cardinality(Cards) : PersonMoves(c, s, slot)
  BY <1>1, PersonStep
<1>2. CASE \E e \in committed : Announce(e)
  BY <1>2, AnnounceStep
<1>3. CASE UNCHANGED vars
  <2>1. UNCHANGED <<feed, urgent, board, agent, triaged, missed, faults>>
    BY <1>3 DEF vars
  <2>2. listening \in BOOLEAN /\ missed \subseteq published
    BY DEF Inv, Types
  <2> QED
    BY <2>1, <2>2, GivesUp DEF agent
<1> QED
  BY <1>1, <1>2, <1>3, ListenStep, DropsStep, DiesStep, TakeStep, FetchStep, PutOkStep,
     PutConflictStep, RequestFailsStep DEF Next

LEMMA InvHolds == Spec => []Inv
BY InitInv, NextInv, PTL DEF Spec

-----------------------------------------------------------------------------
\* Every card is in one lane, versions never exceed the moves that were made,
\* and what the agent holds are events that were published.
THEOREM TypeCorrect == Spec => []TypeOK
<1>1. Inv => TypeOK
  <2> SUFFICES ASSUME Inv
               PROVE  TypeOK
    OBVIOUS
  <2>1. moves.person \in Nat /\ moves.agent \in Nat /\ moves.person + moves.agent <= MaxMoves
    BY DEF Inv, Types, Counts
  <2>2. moves \in [person : 0 .. MaxMoves, agent : 0 .. MaxMoves]
    <3>1. moves.person \in 0 .. MaxMoves /\ moves.agent \in 0 .. MaxMoves
      BY <2>1, TriageAssumption
    <3>2. moves = [person |-> moves.person, agent |-> moves.agent]
      BY DEF Inv, Types
    <3> QED
      BY <3>1, <3>2
  <2>3. \A c \in Cards : version[c] \in 0 .. MaxMoves /\ triaged[c] \in 0 .. MaxMoves
    <3> SUFFICES ASSUME NEW c \in Cards
                 PROVE  version[c] \in 0 .. MaxMoves /\ triaged[c] \in 0 .. MaxMoves
      OBVIOUS
    <3>1. /\ version[c] \in Nat /\ triaged[c] \in Nat
          /\ version[c] <= moves.person + moves.agent /\ triaged[c] <= version[c]
      BY DEF Inv, Types, Counts
    <3> QED
      BY <2>1, <3>1, TriageAssumption
  <2>4. version \in [Cards -> 0 .. MaxMoves] /\ triaged \in [Cards -> 0 .. MaxMoves]
    BY <2>3 DEF Inv, Types
  <2>5. ASSUME NEW c \in Cards
        PROVE  Cardinality({s \in Lanes : Contains(lane[s], c)}) = 1
    <3>1. {s \in Lanes : Contains(lane[s], c)} = {placed[c]}
      BY DEF Inv, Types, Rows, InPlaced
    <3> QED
      BY <3>1, FS_Singleton
  <2>6. \/ task = Idle
        \/ task \in [pc : {"fetch"}, event : published]
        \/ task \in [pc : {"put"}, event : published, version : 0 .. MaxMoves]
    <3>1. CASE task \in [pc : {"put"}, event : published, version : Nat]
      <4>1. task.pc = "put" /\ task.event \in committed /\ task.version \in Nat
        BY <3>1 DEF Inv, Types
      <4>2. task.event.card \in Cards
        BY <4>1, EventFields
      <4>3. task.version <= version[task.event.card]
        BY <4>1 DEF Inv, Counts
      <4>4. task.version \in 0 .. MaxMoves
        BY <2>3, <4>1, <4>2, <4>3, TriageAssumption
      <4> QED
        BY <3>1, <4>4
    <3> QED
      BY <3>1 DEF Inv, Types
  <2> QED
    BY <2>2, <2>4, <2>5, <2>6 DEF Inv, Types, TypeOK
<1> QED
  BY <1>1, InvHolds, PTL

\* Whatever the agent does and however late: a card is in the lane a person
\* last chose for it (reprioritise sends no status).
THEOREM PersonDecides == Spec => []PersonsLaneStands
<1>1. Inv => PersonsLaneStands
  BY LaneIsPlace DEF PersonsLaneStands
<1> QED
  BY <1>1, InvHolds, PTL

\* With one urgent card the agent makes no more moves than people do, whatever
\* it hears twice or forgets ("the API no-ops if already there").
THEOREM AgentIsTame == Spec => []NoRunaway
<1>1. ASSUME Inv, Cardinality(urgent) <= 1
      PROVE  moves.agent <= moves.person
  <2>1. IsFiniteSet(urgent)
    BY <1>1, SeedAssumption, FS_Subset DEF Inv, Types
  <2>2. \A c, d \in urgent : c = d
    <3> SUFFICES ASSUME NEW c \in urgent, NEW d \in urgent, c # d
                 PROVE  FALSE
      OBVIOUS
    <3>1. Cardinality({c}) = 1 /\ IsFiniteSet({c})
      BY FS_Singleton
    <3>2. Cardinality({c} \cup {d}) = 2
      BY <3>1, FS_AddElement
    <3>3. {c} \cup {d} \subseteq urgent
      OBVIOUS
    <3>4. Cardinality({c} \cup {d}) <= Cardinality(urgent)
      BY <2>1, <3>3, FS_Subset
    <3>5. Cardinality(urgent) \in Nat
      BY <2>1, FS_CardinalityType
    <3> QED
      BY <1>1, <3>2, <3>4, <3>5
  <2> QED
    BY <1>1, <2>2 DEF Inv, Spent
<1>2. Inv => NoRunaway
  BY <1>1 DEF NoRunaway
<1> QED
  BY <1>2, InvHolds, PTL

\* Nothing is left undone in silence: when everything is handled the agent has
\* seen to the last move of every urgent card into the backlog, or missed it.
THEOREM LastMoveIsSeenTo == Spec => []LastMoveIsTriaged
<1>1. Inv => LastMoveIsTriaged
  <2> SUFFICES ASSUME Inv, AllHandled, NEW e \in committed,
                      e.card \in urgent, e.version = version[e.card], LaneOf(e.card) = "backlog"
               PROVE  triaged[e.card] = e.version \/ e \in missed
    BY DEF LastMoveIsTriaged
  <2>1. e.to = "backlog"
    BY LaneIsPlace, EventFields DEF Inv, Tells
  <2>2. Minded(e)
    BY <2>1 DEF Inv, Followed, Due
  <2>3. ToSet(inbox) = {}
    BY DEF AllHandled, ToSet
  <2> QED
    BY <2>2, <2>3 DEF Minded, InHand, AllHandled
<1> QED
  BY <1>1, InvHolds, PTL
=============================================================================
