-------------------------- MODULE ClientsTableProofs --------------------------
(***************************************************************************)
(* What the queries and the decisions of moveCard give on any board whose  *)
(* lanes have no two cards of the same rank: facts about operators, which  *)
(* the promise (BoardProofs) and the service (MoveServiceProofs) share.    *)
(***************************************************************************)
EXTENDS ClientsTable, FiniteSetTheorems, TLAPS

-----------------------------------------------------------------------------
(* The gap a move goes into.                                               *)

\* Every other card of the target lane is on one side of the drop point: at
\* prev or in front of it, or at next or behind it.
OnOneSide(b, d, prev, next) ==
  \/ \E p \in prev : d = p \/ Below(b, d, p)
  \/ \E n \in next : d = n \/ Below(b, n, d)

\* Both neighbours are rows of the target lane other than the moving card.
LEMMA NeighboursInLane ==
  ASSUME NEW b \in Boards, NEW cmd \in Command,
         NEW prev \in RowSets, NEW next \in RowSets,
         Neighbours(b, cmd, prev, next)
  PROVE  /\ prev \subseteq LaneRows(b, ToStatus(b, cmd), cmd.card)
         /\ next \subseteq LaneRows(b, ToStatus(b, cmd), cmd.card)
BY DEF Neighbours, RefInLane, Adjacent, Extreme, AtOffset, First, Last

\* A lane has finitely many rows.
LEMMA LaneSizeIsNat ==
  ASSUME NEW b, NEW s, NEW x
  PROVE  Cardinality(LaneRows(b, s, x)) \in Nat
<1>1. LaneRows(b, s, x) \subseteq Cards
  BY DEF LaneRows
<1>2. IsFiniteSet(LaneRows(b, s, x))
  BY <1>1, CardsAssumption, FS_Subset
<1> QED
  BY <1>2, FS_CardinalityType

\* RanksUnique of a board.
UniqueIn(b) == \A c, d \in Cards : c # d /\ b[c].status = b[d].status
                                      => b[c].rank # b[d].rank

\* Two rows of a lane are comparable.
LEMMA LaneIsOrdered ==
  ASSUME NEW b \in Boards, UniqueIn(b), NEW s \in Lanes, NEW x,
         NEW c \in LaneRows(b, s, x), NEW d \in LaneRows(b, s, x), c # d
  PROVE  Below(b, c, d) \/ Below(b, d, c)
<1>1. /\ c \in Cards /\ d \in Cards /\ b[c].status = s /\ b[d].status = s
      /\ b[c].rank \in Rank /\ b[d].rank \in Rank
  BY DEF LaneRows, Boards, Row
<1>2. b[c].rank # b[d].rank
  BY <1>1 DEF UniqueIn
<1> QED
  BY <1>1, <1>2, OrderAssumption DEF Below

\* resolveNeighbours returns an empty gap: whichever argument it obeys, it
\* leaves no card of the lane between prev and next.
LEMMA GapIsEmpty ==
  ASSUME NEW b \in Boards, UniqueIn(b), NEW cmd \in Command, cmd.card \in Cards,
         NEW prev \in RowSets, NEW next \in RowSets,
         Neighbours(b, cmd, prev, next),
         NEW d \in LaneRows(b, ToStatus(b, cmd), cmd.card)
  PROVE  OnOneSide(b, d, prev, next)
<1> DEFINE s == ToStatus(b, cmd)
           L == LaneRows(b, s, cmd.card)
<1>1. s \in Lanes
  BY DEF ToStatus, Command, Boards, Row
<1>2. \A c \in L : c = d \/ Below(b, c, d) \/ Below(b, d, c)
  BY <1>1, LaneIsOrdered
<1>3. prev \subseteq L /\ next \subseteq L
  BY NeighboursInLane
<1>4. ASSUME NEW p \in L, prev = {p},
             Adjacent(b, s, b[p].rank, "next", cmd.card, next)
      PROVE  OnOneSide(b, d, prev, next)
  <2>1. CASE d = p \/ Below(b, d, p)
    BY <1>4, <2>1 DEF OnOneSide
  <2>2. CASE Before(b[p].rank, b[d].rank)
    <3> DEFINE S == {c \in L : Before(b[p].rank, b[c].rank)}
    <3>1. d \in S
      BY <2>2
    <3>2. First(b, S, next)
      BY <1>4 DEF Adjacent
    <3> QED
      BY <3>1, <3>2 DEF First, OnOneSide
  <2> QED
    BY <1>2, <1>4, <2>1, <2>2 DEF Below
<1>5. ASSUME NEW n \in L, next = {n},
             Adjacent(b, s, b[n].rank, "prev", cmd.card, prev)
      PROVE  OnOneSide(b, d, prev, next)
  <2>1. CASE d = n \/ Below(b, n, d)
    BY <1>5, <2>1 DEF OnOneSide
  <2>2. CASE Before(b[d].rank, b[n].rank)
    <3> DEFINE S == {c \in L : Before(b[c].rank, b[n].rank)}
    <3>1. d \in S
      BY <2>2
    <3>2. Last(b, S, prev)
      BY <1>5 DEF Adjacent
    <3> QED
      BY <3>1, <3>2 DEF Last, OnOneSide
  <2> QED
    BY <1>2, <1>5, <2>1, <2>2 DEF Below
<1>6. CASE cmd.place = "after" /\ RefInLane(b, cmd) /\ prev = {cmd.ref}
           /\ Adjacent(b, s, b[cmd.ref].rank, "next", cmd.card, next)
  BY <1>4, <1>6 DEF RefInLane
<1>7. CASE cmd.place = "before" /\ RefInLane(b, cmd) /\ next = {cmd.ref}
           /\ Adjacent(b, s, b[cmd.ref].rank, "prev", cmd.card, prev)
  BY <1>5, <1>7 DEF RefInLane
<1>8. CASE Extreme(b, s, "first", cmd.card, next)
  BY <1>8 DEF Extreme, First, OnOneSide
<1>9. CASE Extreme(b, s, "last", cmd.card, prev)
  BY <1>9 DEF Extreme, Last, OnOneSide
<1>10. CASE /\ cmd.place = "slot" /\ Slot(b, cmd) > 1
            /\ AtOffset(b, s, Slot(b, cmd) - 2, cmd.card, prev)
            /\ \/ prev = {} /\ next = {}
               \/ \E p \in prev : Adjacent(b, s, b[p].rank, "next", cmd.card, next)
  <2>1. Cardinality(L) \in Nat /\ LaneSize(b, s, cmd.card) = Cardinality(L)
    BY LaneSizeIsNat DEF LaneSize
  <2>2. cmd.slot \in Nat
    BY DEF Command
  <2>3. Slot(b, cmd) - 2 < Cardinality(L)
    BY <1>10, <2>1, <2>2 DEF Slot
  <2>4. Slot(b, cmd) \in Int
    BY <2>1, <2>2 DEF Slot
  <2>5. ~ (Cardinality(L) <= Slot(b, cmd) - 2)
    BY <2>1, <2>3, <2>4
  <2>6. PICK p \in L : prev = {p}
    BY <1>10, <2>5, Zenon DEF AtOffset
  <2> QED
    BY <1>4, <1>10, <2>6
<1> QED
  BY <1>6, <1>7, <1>8, <1>9, <1>10 DEF Neighbours

\* Two neighbours are in the order of their ranks.
LEMMA NeighboursAscend ==
  ASSUME NEW b, NEW cmd, NEW prev, NEW next, NEW p \in prev, NEW n \in next,
         Neighbours(b, cmd, prev, next)
  PROVE  Below(b, p, n)
<1>1. ASSUME NEW q \in prev, prev = {q},
             Adjacent(b, ToStatus(b, cmd), b[q].rank, "next", cmd.card, next)
      PROVE  Below(b, p, n)
  BY <1>1 DEF Adjacent, First, Below
<1>2. ASSUME NEW q \in next, next = {q},
             Adjacent(b, ToStatus(b, cmd), b[q].rank, "prev", cmd.card, prev)
      PROVE  Below(b, p, n)
  BY <1>2 DEF Adjacent, Last, Below
<1>3. \A s, i, x : AtOffset(b, s, i, x, prev) => prev = {p}
  BY DEF AtOffset
<1> QED
  BY <1>1, <1>2, <1>3 DEF Neighbours

\* The key of the two neighbours is strictly between their ranks.
LEMMA KeyIsInGap ==
  ASSUME NEW b \in Boards, NEW prev \in RowSets, NEW next \in RowSets,
         NewRank(b, prev, next) \in Rank
  PROVE  /\ \A p \in prev : Before(b[p].rank, NewRank(b, prev, next))
         /\ \A n \in next : Before(NewRank(b, prev, next), b[n].rank)
<1> DEFINE k == NewRank(b, prev, next)
<1>1. \A c \in Cards : b[c].rank \in Rank
  BY DEF Boards, Row
<1>2. prev \subseteq Cards /\ next \subseteq Cards
  BY DEF RowSets
<1>3. /\ prev = {} \/ \E p \in Cards : prev = {p} /\ RankOf(b, prev) = b[p].rank
      /\ next = {} \/ \E n \in Cards : next = {n} /\ RankOf(b, next) = b[n].rank
  BY DEF RowSets, RankOf
<1>4. RankOf(b, prev) \in Rank \cup {NoRank} /\ RankOf(b, next) \in Rank \cup {NoRank}
  BY <1>1, <1>3 DEF RankOf
<1>5. /\ RankOf(b, prev) # NoRank => Before(RankOf(b, prev), k)
      /\ RankOf(b, next) # NoRank => Before(k, RankOf(b, next))
  BY <1>4, KeyAssumption DEF NewRank
<1> QED
  BY <1>1, <1>2, <1>3, <1>5, CardsAssumption

\* generateKeyBetween of the two neighbours gives a rank no other card of the
\* target lane has: the key is strictly inside a gap that is empty.
LEMMA NewRankIsFree ==
  ASSUME NEW b \in Boards, UniqueIn(b), NEW cmd \in Command, cmd.card \in Cards,
         NEW prev \in RowSets, NEW next \in RowSets,
         Neighbours(b, cmd, prev, next),
         NewRank(b, prev, next) \in Rank,
         NEW d \in LaneRows(b, ToStatus(b, cmd), cmd.card)
  PROVE  b[d].rank # NewRank(b, prev, next)
<1> DEFINE k == NewRank(b, prev, next)
<1>1. \A c \in Cards : b[c].rank \in Rank
  BY DEF Boards, Row
<1>2. d \in Cards /\ prev \subseteq Cards /\ next \subseteq Cards
  BY DEF LaneRows, RowSets
<1>3. /\ \A p \in prev : Before(b[p].rank, k)
      /\ \A n \in next : Before(k, b[n].rank)
  BY KeyIsInGap
<1>4. OnOneSide(b, d, prev, next)
  BY GapIsEmpty
<1>5. CASE \E p \in prev : d = p \/ Below(b, d, p)
  BY <1>1, <1>2, <1>3, <1>5, OrderAssumption DEF Below
<1>6. CASE \E n \in next : d = n \/ Below(b, n, d)
  BY <1>1, <1>2, <1>3, <1>6, OrderAssumption DEF Below
<1> QED
  BY <1>4, <1>5, <1>6 DEF OnOneSide

-----------------------------------------------------------------------------
(* The order of a lane.                                                    *)

InOrder(b, q, n) == \A i, j \in 1 .. n : i < j => Below(b, q[i], q[j])

\* Some rows of a lane can be listed in the order of their ranks: the number
\* of rows in front of a row tells its place in the list.
LEMMA RowsHaveOrder ==
  ASSUME NEW b \in Boards, UniqueIn(b), NEW s \in Lanes, NEW x,
         NEW T, T \subseteq LaneRows(b, s, x)
  PROVE  /\ IsFiniteSet(T) /\ Cardinality(T) \in Nat
         /\ \E q \in [1 .. Cardinality(T) -> T] : InOrder(b, q, Cardinality(T))
<1> DEFINE n == Cardinality(T)
           Ahead(c) == {d \in T : Below(b, d, c)}
           f == [c \in T |-> Cardinality(Ahead(c)) + 1]
<1>1. /\ IsFiniteSet(T) /\ n \in Nat
      /\ \A c \in T : c \in Cards /\ b[c].rank \in Rank
  <2>1. T \subseteq Cards
    BY DEF LaneRows
  <2>2. IsFiniteSet(T)
    BY <2>1, CardsAssumption, FS_Subset
  <2>3. n \in Nat
    BY <2>2, FS_CardinalityType
  <2> QED
    BY <2>1, <2>2, <2>3 DEF Boards, Row
<1>2. \A c \in T : IsFiniteSet(Ahead(c)) /\ Cardinality(Ahead(c)) \in Nat
  <2> SUFFICES ASSUME NEW c \in T
               PROVE  IsFiniteSet(Ahead(c)) /\ Cardinality(Ahead(c)) \in Nat
    OBVIOUS
  <2>1. IsFiniteSet(Ahead(c))
    BY <1>1, FS_Subset
  <2> QED
    BY <2>1, FS_CardinalityType
<1>3. ASSUME NEW c \in T
      PROVE  c \notin Ahead(c)
  BY <1>1, OrderAssumption DEF Below
<1>4. ASSUME NEW c \in T, NEW S, S \subseteq T, IsFiniteSet(S),
             Ahead(c) \cup {c} \subseteq S
      PROVE  Cardinality(S) \in Nat /\ f[c] <= Cardinality(S)
  <2>1. Cardinality(Ahead(c) \cup {c}) = Cardinality(Ahead(c)) + 1
    BY <1>2, <1>3, FS_AddElement
  <2>2. Cardinality(Ahead(c) \cup {c}) <= Cardinality(S) /\ Cardinality(S) \in Nat
    BY <1>4, FS_Subset, FS_CardinalityType
  <2> QED
    BY <2>1, <2>2
<1>5. \A c \in T : f[c] \in 1 .. n
  <2> SUFFICES ASSUME NEW c \in T PROVE f[c] \in 1 .. n
    OBVIOUS
  <2>1. f[c] <= n
    BY <1>1, <1>4
  <2>2. f[c] = Cardinality(Ahead(c)) + 1 /\ Cardinality(Ahead(c)) \in Nat
    BY <1>2
  <2> QED
    BY <1>1, <2>1, <2>2
<1>6. ASSUME NEW c \in T, NEW d \in T, Below(b, c, d)
      PROVE  f[c] < f[d]
  <2>1. Ahead(c) \cup {c} \subseteq Ahead(d)
    BY <1>1, <1>6, OrderAssumption DEF Below
  <2>2. f[c] <= Cardinality(Ahead(d))
    BY <1>2, <1>4, <2>1
  <2>3. f[d] = Cardinality(Ahead(d)) + 1
    OBVIOUS
  <2>4. Cardinality(Ahead(d)) \in Int
    BY <1>2
  <2> HIDE DEF f, Ahead, n
  <2>5. f[c] \in Int
    BY <1>1, <1>5
  <2> QED
    BY <2>2, <2>3, <2>4, <2>5
<1>7. \A c, d \in T : c # d => Below(b, c, d) \/ Below(b, d, c)
  BY LaneIsOrdered
<1>8. f \in Injection(T, 1 .. n)
  <2>1. f \in [T -> 1 .. n]
    BY <1>5
  <2>2. \A c, d \in T : f[c] = f[d] => c = d
    <3> SUFFICES ASSUME NEW c \in T, NEW d \in T, c # d PROVE f[c] # f[d]
      OBVIOUS
    <3>1. f[c] < f[d] \/ f[d] < f[c]
      BY <1>6, <1>7
    <3>2. f[c] \in Nat /\ f[d] \in Nat
      BY <1>1, <1>5
    <3> QED
      BY <3>1, <3>2
  <2> QED
    BY <2>1, <2>2 DEF Injection, IsInjective
<1>9. f \in Surjection(T, 1 .. n)
  <2>1. IsFiniteSet(1 .. n) /\ Cardinality(1 .. n) = n
    BY <1>1, FS_Interval
  <2> QED
    BY <1>8, <2>1, FS_Injection
<1> DEFINE q == [i \in 1 .. n |-> CHOOSE c \in T : f[c] = i]
<1>10. \A i \in 1 .. n : q[i] \in T /\ f[q[i]] = i
  <2>1. \A i \in 1 .. n : \E c \in T : f[c] = i
    BY <1>9 DEF Surjection
  <2> QED
    BY <2>1
<1> HIDE DEF f, q, n, Ahead
<1>11. ASSUME NEW i \in 1 .. n, NEW j \in 1 .. n, i < j
       PROVE  Below(b, q[i], q[j])
  <2>1. q[i] \in T /\ q[j] \in T /\ f[q[i]] = i /\ f[q[j]] = j /\ i \in Nat /\ j \in Nat
    BY <1>1, <1>10
  <2>2. q[i] # q[j]
    BY <1>11, <2>1
  <2>3. ~ Below(b, q[j], q[i])
    BY <1>6, <1>11, <2>1
  <2> QED
    BY <1>7, <2>1, <2>2, <2>3
<1>12. q \in [1 .. n -> T]
  BY <1>10 DEF q
<1> QED
  BY <1>1, <1>11, <1>12 DEF InOrder, n

\* ... and a list in that order misses none of them.
LEMMA OrderedListIsComplete ==
  ASSUME NEW b \in Boards, NEW T, T \subseteq Cards,
         NEW q \in [1 .. Cardinality(T) -> T], InOrder(b, q, Cardinality(T)),
         NEW c \in T
  PROVE  \E i \in 1 .. Cardinality(T) : q[i] = c
<1> DEFINE n == Cardinality(T)
<1>1. IsFiniteSet(T) /\ n \in Nat
  BY CardsAssumption, FS_Subset, FS_CardinalityType
<1>2. IsFiniteSet(1 .. n) /\ Cardinality(1 .. n) = n
  BY <1>1, FS_Interval
<1>3. \A i \in 1 .. n : q[i] \in T /\ b[q[i]].rank \in Rank
  BY DEF Boards, Row
<1>4. \A i, j \in 1 .. n : i < j => q[i] # q[j]
  BY <1>3, OrderAssumption DEF InOrder, Below
<1>5. \A i, j \in 1 .. n : q[i] = q[j] => i = j
  BY <1>1, <1>4
<1>6. q \in Injection(1 .. n, T)
  BY <1>5 DEF Injection, IsInjective
<1>7. q \in Surjection(1 .. n, T)
  BY <1>1, <1>2, <1>6, FS_Injection
<1> QED
  BY <1>7 DEF Surjection

-----------------------------------------------------------------------------
(* What a move writes.                                                     *)

\* A move has a position in the types of the tables.
LEMMA ToStatusIsLane ==
  ASSUME NEW b \in Boards, NEW cmd \in Command, cmd.card \in Cards
  PROVE  ToStatus(b, cmd) \in Lanes
BY DEF ToStatus, Command, Boards, Row

\* The board after a move: the row of the card is new, the others are as they
\* were.
LEMMA UpdatedBoard ==
  ASSUME NEW b \in Boards, NEW card \in Cards, NEW position \in Position
  PROVE  /\ Updated(b, card, position) \in Boards
         /\ Updated(b, card, position)[card].version = b[card].version + 1
         /\ PositionOf(Updated(b, card, position)[card]) = position
         /\ \A d \in Cards \ {card} : Updated(b, card, position)[d] = b[d]
<1>1. b[card].version + 1 \in Nat
  BY DEF Boards, Row
<1> QED
  BY <1>1 DEF Updated, Boards, Row, Position, PositionOf
=============================================================================
