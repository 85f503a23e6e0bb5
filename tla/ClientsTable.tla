---------------------------- MODULE ClientsTable ----------------------------
(***************************************************************************)
(* The clients table as the repository and the move service use it: the    *)
(* rows of a lane, the LIMIT 1 queries that find the neighbours of a drop  *)
(* point, and the rows a move writes.                                      *)
(*                                                                         *)
(* A board b maps every card to its status, rank and version.  A query     *)
(* that returns at most one row is a relation between its arguments and    *)
(* the set of rows it returns, {} or {c}.                                  *)
(***************************************************************************)
EXTENDS Integers, FiniteSets

CONSTANTS Cards,             \* ids with a row in clients
          Ids,               \* ids a request may name
          Rank, NoRank,      \* ranks a card can have; "no neighbour"
          Before(_, _),      \* the order of ranks (COLLATE "C")
          KeyBetween(_, _)   \* generateKeyBetween; outside Rank: it throws

ASSUME CardsAssumption ==
  /\ IsFiniteSet(Cards) /\ Cards \subseteq Ids
  /\ NoRank \notin Rank

\* String comparison is a strict total order.
ASSUME OrderAssumption ==
  /\ \A j, k \in Rank : j # k => Before(j, k) \/ Before(k, j)
  /\ \A j, k \in Rank : Before(j, k) => ~ Before(k, j)
  /\ \A i, j, k \in Rank : Before(i, j) /\ Before(j, k) => Before(i, k)

\* What generateKeyBetween promises (rank.ts:119-123).  RankLaneProofs proves
\* this and the order of all keys of rank.ts.
ASSUME KeyAssumption ==
  \A j, k \in Rank \cup {NoRank} :
     KeyBetween(j, k) \in Rank =>
        /\ j # NoRank => Before(j, KeyBetween(j, k))
        /\ k # NoRank => Before(KeyBetween(j, k), k)

\* STATUSES
Lanes == {"backlog", "in-progress", "complete"}

Position == [status : Lanes, rank : Rank]
Row      == [status : Lanes, rank : Rank, version : Nat]
Boards   == [Cards -> Row]

\* MoveCardCommand.  The place is the argument resolveNeighbours obeys:
\* afterId, else beforeId, else toPriority, else the end of the lane.  A
\* command without toStatus has lane "same"; a priority is positive.
Command == [card : Ids, version : Nat, lane : Lanes \cup {"same"},
            place : {"after", "before", "slot", "end"}, ref : Ids, slot : Nat \ {0}]

-----------------------------------------------------------------------------
(* Queries.                                                                *)

RowSets == {{}} \cup {{c} : c \in Cards}

LaneRows(b, s, excluded) == {c \in Cards : b[c].status = s /\ c # excluded}

Below(b, c, d) == Before(b[c].rank, b[d].rank)

\* ORDER BY rank ASC LIMIT 1, ORDER BY rank DESC LIMIT 1
First(b, S, rows) ==
  \/ S = {} /\ rows = {}
  \/ \E c \in S : rows = {c} /\ \A d \in S \ {c} : Below(b, c, d)
Last(b, S, rows) ==
  \/ S = {} /\ rows = {}
  \/ \E c \in S : rows = {c} /\ \A d \in S \ {c} : Below(b, d, c)

\* lockAdjacent(status, rank, dir, excludeId)
Adjacent(b, s, rank, dir, excluded, rows) ==
  \/ /\ dir = "next"
     /\ First(b, {c \in LaneRows(b, s, excluded) : Before(rank, b[c].rank)}, rows)
  \/ /\ dir = "prev"
     /\ Last(b, {c \in LaneRows(b, s, excluded) : Before(b[c].rank, rank)}, rows)

\* lockExtreme(status, end, excludeId)
Extreme(b, s, end, excluded, rows) ==
  \/ end = "first" /\ First(b, LaneRows(b, s, excluded), rows)
  \/ end = "last"  /\ Last(b, LaneRows(b, s, excluded), rows)

\* laneSize(status, excludeId)
LaneSize(b, s, excluded) == Cardinality(LaneRows(b, s, excluded))

\* lockAtOffset(status, offset, excludeId)
AtOffset(b, s, offset, excluded, rows) ==
  LET S == LaneRows(b, s, excluded) IN
  \/ Cardinality(S) <= offset /\ rows = {}
  \/ \E c \in S : /\ rows = {c}
                  /\ Cardinality({d \in S : Below(b, d, c)}) = offset

-----------------------------------------------------------------------------
(* The decisions of moveCard.                                              *)

ToStatus(b, cmd) == IF cmd.lane = "same" THEN b[cmd.card].status ELSE cmd.lane

\* Variant: clamps to the cards that are there.
SlotOfExisting(b, cmd) ==
  LET end == LaneSize(b, ToStatus(b, cmd), cmd.card)
  IN  IF cmd.slot > end THEN end ELSE IF cmd.slot < 1 THEN 1 ELSE cmd.slot

\* the 1-based slot a priority means, clamped to the lane
Slot(b, cmd) ==
  LET end == LaneSize(b, ToStatus(b, cmd), cmd.card) + 1
  IN  IF cmd.slot > end THEN end ELSE IF cmd.slot < 1 THEN 1 ELSE cmd.slot

\* resolveNeighbours: prev and next are the rows around the drop point.  No
\* prev and next satisfy it when the command is refused with a 400.
RefInLane(b, cmd) == cmd.ref \in LaneRows(b, ToStatus(b, cmd), cmd.card)

Neighbours(b, cmd, prev, next) ==
  LET s == ToStatus(b, cmd) IN
  \/ /\ cmd.place = "after" /\ RefInLane(b, cmd)
     /\ prev = {cmd.ref}
     /\ Adjacent(b, s, b[cmd.ref].rank, "next", cmd.card, next)
  \/ /\ cmd.place = "before" /\ RefInLane(b, cmd)
     /\ next = {cmd.ref}
     /\ Adjacent(b, s, b[cmd.ref].rank, "prev", cmd.card, prev)
  \/ /\ cmd.place = "slot" /\ Slot(b, cmd) = 1
     /\ prev = {} /\ Extreme(b, s, "first", cmd.card, next)
  \/ /\ cmd.place = "slot" /\ Slot(b, cmd) > 1
     /\ AtOffset(b, s, Slot(b, cmd) - 2, cmd.card, prev)
     /\ \/ prev = {} /\ next = {}
        \/ \E p \in prev : Adjacent(b, s, b[p].rank, "next", cmd.card, next)
  \/ /\ cmd.place = "end"
     /\ Extreme(b, s, "last", cmd.card, prev) /\ next = {}

\* Variant: looks at one neighbour only.
StaysBehindPrev(b, cmd, prev, next) ==
  /\ ToStatus(b, cmd) = b[cmd.card].status
  /\ \A p \in prev : Below(b, p, cmd.card)

\* the move would leave the card between the neighbours it already has
StaysPut(b, cmd, prev, next) ==
  /\ ToStatus(b, cmd) = b[cmd.card].status
  /\ \A p \in prev : Below(b, p, cmd.card)
  /\ \A n \in next : Below(b, cmd.card, n)

RankOf(b, rows) == IF rows = {} THEN NoRank ELSE b[CHOOSE c \in rows : TRUE].rank

\* Variant: a key behind prev, wherever next is.
NewRankBehindPrev(b, prev, next) == KeyBetween(RankOf(b, prev), NoRank)

NewRank(b, prev, next) == KeyBetween(RankOf(b, prev), RankOf(b, next))

-----------------------------------------------------------------------------
(* What a move writes.                                                     *)

PositionOf(row) == [status |-> row.status, rank |-> row.rank]

\* Variant: the version is not bumped.
UpdatedSameVersion(b, card, position) ==
  [b EXCEPT ![card] = [status |-> position.status, rank |-> position.rank,
                       version |-> b[card].version]]

\* updatePosition: version = version + 1 is computed by the database
Updated(b, card, position) ==
  [b EXCEPT ![card] = [status |-> position.status, rank |-> position.rank,
                       version |-> b[card].version + 1]]

\* Variant: the row is read after the update.
AuditRowAfterUpdate(request, card, row, position) ==
  [request |-> request, client |-> card, from |-> position, to |-> position,
   versionBefore |-> row.version, versionAfter |-> row.version + 1]

\* the audit_log row: versionAfter is computed from the row that was read
AuditRow(request, card, row, position) ==
  [request |-> request, client |-> card, from |-> PositionOf(row), to |-> position,
   versionBefore |-> row.version, versionAfter |-> row.version + 1]

\* Variants: an event named for its lane; an event with the old version.
EventOfLane(card, row, position) ==
  [client |-> card, type |-> position.status,
   from |-> PositionOf(row), to |-> position, versionAfter |-> row.version + 1]
EventOldVersion(card, row, position) ==
  [client |-> card,
   type |-> IF position.status = "complete" THEN "card.completed" ELSE "card.moved",
   from |-> PositionOf(row), to |-> position, versionAfter |-> row.version]

\* the outbox row
Event(card, row, position) ==
  [client |-> card,
   type |-> IF position.status = "complete" THEN "card.completed" ELSE "card.moved",
   from |-> PositionOf(row), to |-> position, versionAfter |-> row.version + 1]
=============================================================================
