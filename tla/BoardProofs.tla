----------------------------- MODULE BoardProofs -----------------------------
(***************************************************************************)
(* What Board promises, for every set of cards, requests and commands and  *)
(* every order of ranks with a generator of keys in between.               *)
(***************************************************************************)
EXTENDS Board, ClientsTableProofs

-----------------------------------------------------------------------------
(* Type correctness.                                                       *)

\* The tables keep their types, whatever is moved (clients, audit_log and
\* outbox, 0001_init.sql).
LEMMA CommitTypes ==
  ASSUME TypeOK, NEW r \in Requests, NEW card \in Cards, NEW position \in Position,
         Commit(r, card, position)
  PROVE  TypeOK'
<1>1. board[card] \in Row /\ PositionOf(board[card]) \in Position
  BY DEF TypeOK, Boards, Row, Position, PositionOf
<1>2. board' \in Boards
  BY UpdatedBoard DEF TypeOK, Commit
<1>3. AuditRow(r, card, board[card], position) \in AuditRows
  BY <1>1 DEF AuditRow, AuditRows, Row
<1>4. Event(card, board[card], position) \in Events
  BY <1>1 DEF Event, Events, Row
<1> QED
  BY <1>2, <1>3, <1>4 DEF TypeOK, Commit

\* A move is a commit of a position in its target lane.
LEMMA MoveCommits ==
  ASSUME TypeOK, NEW r \in Requests, NEW cmd \in Commands, Move(r, cmd)
  PROVE  /\ cmd \in Command /\ cmd.card \in Cards /\ Unapplied(r)
         /\ \E prev, next \in RowSets :
              /\ Neighbours(board, cmd, prev, next)
              /\ NewRank(board, prev, next) \in Rank
              /\ [status |-> ToStatus(board, cmd), rank |-> NewRank(board, prev, next)]
                    \in Position
              /\ Commit(r, cmd.card, [status |-> ToStatus(board, cmd),
                                      rank |-> NewRank(board, prev, next)])
<1>1. cmd \in Command /\ cmd.card \in Cards
  BY SeedAssumption DEF Move
<1>2. ToStatus(board, cmd) \in Lanes
  BY <1>1, ToStatusIsLane DEF TypeOK
<1> QED
  BY <1>1, <1>2 DEF Move, Position

\* clients, audit_log and outbox hold rows of their types in every state.
THEOREM TypeCorrect == Spec => []TypeOK
<1>1. Init => TypeOK
  BY SeedAssumption DEF Init, TypeOK
<1>2. TypeOK /\ [Next]_vars => TypeOK'
  <2> SUFFICES ASSUME TypeOK, [Next]_vars PROVE TypeOK'
    OBVIOUS
  <2>1. ASSUME NEW r \in Requests, NEW cmd \in Commands, Move(r, cmd)
        PROVE  TypeOK'
    BY <2>1, MoveCommits, CommitTypes
  <2>2. CASE UNCHANGED vars
    BY <2>2 DEF vars, TypeOK
  <2> QED
    BY <2>1, <2>2 DEF Next
<1> QED
  BY <1>1, <1>2, PTL DEF Spec

-----------------------------------------------------------------------------
(* One order per lane.                                                     *)

\* No two cards of a lane ever have the same rank, so the deferred UNIQUE
\* (status, rank) constraint holds of every committed board.
THEOREM RanksStayUnique == Spec => []RanksUnique
<1>1. Init => RanksUnique
  BY SeedAssumption DEF Init, RanksUnique
<1>2. TypeOK /\ RanksUnique /\ [Next]_vars => RanksUnique'
  <2> SUFFICES ASSUME TypeOK, RanksUnique, [Next]_vars PROVE RanksUnique'
    OBVIOUS
  <2>1. ASSUME NEW r \in Requests, NEW cmd \in Commands, Move(r, cmd)
        PROVE  RanksUnique'
    <3>1. cmd \in Command /\ cmd.card \in Cards
      BY <2>1, MoveCommits
    <3>2. PICK prev \in RowSets, next \in RowSets :
             /\ Neighbours(board, cmd, prev, next)
             /\ NewRank(board, prev, next) \in Rank
             /\ [status |-> ToStatus(board, cmd), rank |-> NewRank(board, prev, next)]
                   \in Position
             /\ Commit(r, cmd.card, [status |-> ToStatus(board, cmd),
                                     rank |-> NewRank(board, prev, next)])
      BY <2>1, MoveCommits
    <3> DEFINE s == ToStatus(board, cmd)
               k == NewRank(board, prev, next)
    <3>3. \A d \in Cards \ {cmd.card} : board[d].status = s => board[d].rank # k
      BY <3>1, <3>2, NewRankIsFree DEF TypeOK, RanksUnique, UniqueIn, LaneRows
    <3>4. /\ PositionOf(board'[cmd.card]) = [status |-> s, rank |-> k]
          /\ \A d \in Cards \ {cmd.card} : board'[d] = board[d]
      BY <3>1, <3>2, UpdatedBoard DEF TypeOK, Commit
    <3>5. board'[cmd.card].status = s /\ board'[cmd.card].rank = k
      BY <3>4 DEF PositionOf
    <3> QED
      BY <3>1, <3>3, <3>4, <3>5 DEF RanksUnique
  <2>2. CASE UNCHANGED vars
    BY <2>2 DEF vars, RanksUnique
  <2> QED
    BY <2>1, <2>2 DEF Next
<1> QED
  BY <1>1, <1>2, TypeCorrect, PTL DEF Spec

-----------------------------------------------------------------------------
(* The ledger.                                                             *)

\* No version ever falls below that of the seed: with it the two properties of
\* the ledger are inductive.
VersionsRise == \A c \in Cards : Seed[c].version <= board[c].version

LedgerInv ==
  TypeOK /\ VersionsRise /\ LedgerCountsVersions /\ LedgerIsTrail /\ OutboxTellsLedger

\* The ledger after a commit: one row behind those that were there, which tell
\* of versions up to the one the card had.
LEMMA LedgerAfterCommit ==
  ASSUME TypeOK, NEW r \in Requests, NEW card \in Cards, NEW position \in Position,
         Commit(r, card, position)
  PROVE  /\ Len(audit) \in Nat
         /\ DOMAIN audit = 1 .. Len(audit) /\ DOMAIN audit' = 1 .. Len(audit) + 1
         /\ \A i \in DOMAIN audit : audit'[i] = audit[i] /\ audit[i] \in AuditRows
         /\ audit'[Len(audit) + 1] = AuditRow(r, card, board[card], position)
         /\ board' \in Boards
         /\ board'[card].version = board[card].version + 1
         /\ PositionOf(board'[card]) = position
         /\ \A d \in Cards \ {card} : board'[d] = board[d]
         /\ \A c \in Cards : board[c].version \in Nat /\ Seed[c].version \in Nat
<1>1. /\ board' \in Boards
      /\ board'[card].version = board[card].version + 1
      /\ PositionOf(board'[card]) = position
      /\ \A d \in Cards \ {card} : board'[d] = board[d]
  BY UpdatedBoard DEF TypeOK, Commit
<1>2. \A c \in Cards : board[c].version \in Nat /\ Seed[c].version \in Nat
  BY SeedAssumption DEF TypeOK, Boards, Row
<1>3. audit \in Seq(AuditRows)
      /\ audit' = Append(audit, AuditRow(r, card, board[card], position))
  BY DEF TypeOK, Commit
<1>4. AuditRow(r, card, board[card], position) \in AuditRows
  BY DEF TypeOK, Boards, Row, AuditRow, AuditRows, Position, PositionOf
<1> QED
  BY <1>1, <1>2, <1>3, <1>4

\* The invariant of the ledger is preserved by a commit.
LEMMA CommitKeepsLedger ==
  ASSUME LedgerInv, NEW r \in Requests, NEW card \in Cards, NEW position \in Position,
         Unapplied(r), Commit(r, card, position)
  PROVE  LedgerInv'
<1> DEFINE n == Len(audit) + 1
           v == board[card].version
<1>1. TypeOK'
  BY CommitTypes DEF LedgerInv
<1>2. /\ n \in Nat /\ n \notin DOMAIN audit /\ DOMAIN audit' = DOMAIN audit \cup {n}
      /\ DOMAIN audit = 1 .. n - 1
      /\ \A i \in DOMAIN audit : audit'[i] = audit[i] /\ audit[i] \in AuditRows
      /\ audit'[n].client = card /\ audit'[n].request = r
      /\ audit'[n].versionBefore = v /\ audit'[n].versionAfter = v + 1
      /\ audit'[n].from = PositionOf(board[card]) /\ audit'[n].to = position
  <2>1. /\ Len(audit) \in Nat /\ DOMAIN audit = 1 .. Len(audit)
        /\ DOMAIN audit' = 1 .. Len(audit) + 1
        /\ \A i \in DOMAIN audit : audit'[i] = audit[i] /\ audit[i] \in AuditRows
        /\ audit'[n] = AuditRow(r, card, board[card], position)
    BY LedgerAfterCommit DEF LedgerInv
  <2>2. /\ audit'[n].client = card /\ audit'[n].request = r
        /\ audit'[n].versionBefore = v /\ audit'[n].versionAfter = v + 1
        /\ audit'[n].from = PositionOf(board[card]) /\ audit'[n].to = position
    BY <2>1 DEF AuditRow
  <2> QED
    BY <2>1, <2>2
<1>3. /\ board'[card].version = v + 1
      /\ PositionOf(board'[card]) = position
      /\ \A d \in Cards \ {card} : board'[d] = board[d]
      /\ \A c \in Cards : board[c].version \in Nat /\ Seed[c].version \in Nat
  BY LedgerAfterCommit DEF LedgerInv
<1>4. VersionsRise'
  BY <1>3 DEF LedgerInv, VersionsRise
<1>5. \A i \in DOMAIN audit :
        /\ audit[i].client \in Cards /\ audit[i].request # r
        /\ audit[i].versionBefore \in Nat /\ audit[i].versionAfter \in Nat
        /\ audit[i].versionAfter = audit[i].versionBefore + 1
        /\ Seed[audit[i].client].version <= audit[i].versionBefore
        /\ audit[i].versionAfter <= board[audit[i].client].version
  BY <1>2 DEF LedgerInv, LedgerCountsVersions, AuditRows, Unapplied
<1>6. LedgerCountsVersions'
  <2>1. \A i \in DOMAIN audit' :
          /\ audit'[i].versionAfter = audit'[i].versionBefore + 1
          /\ Seed[audit'[i].client].version <= audit'[i].versionBefore
          /\ audit'[i].versionAfter <= board'[audit'[i].client].version
    <3>1. \A i \in DOMAIN audit :
             audit[i].versionAfter <= board'[audit[i].client].version
      BY <1>3, <1>5
    <3> QED
      BY <1>2, <1>3, <1>5, <3>1 DEF LedgerInv, VersionsRise
  <2>2. \A i, j \in DOMAIN audit' :
          i < j /\ audit'[i].client = audit'[j].client
             => audit'[i].versionAfter <= audit'[j].versionBefore
    <3> SUFFICES ASSUME NEW i \in DOMAIN audit', NEW j \in DOMAIN audit',
                        i < j, audit'[i].client = audit'[j].client
                 PROVE  audit'[i].versionAfter <= audit'[j].versionBefore
      OBVIOUS
    <3>1. i \in DOMAIN audit
      BY <1>2
    <3>2. CASE j \in DOMAIN audit
      BY <1>2, <3>1, <3>2 DEF LedgerInv, LedgerCountsVersions
    <3>3. CASE j = n
      BY <1>2, <1>5, <3>1, <3>3
    <3> QED
      BY <1>2, <3>2, <3>3
  <2>3. ASSUME NEW c \in Cards,
               NEW w \in Seed[c].version .. board'[c].version - 1
        PROVE  \E i \in DOMAIN audit' :
                  audit'[i].client = c /\ audit'[i].versionBefore = w
    <3>1. CASE c = card /\ w = v
      BY <1>2, <3>1
    <3>2. CASE ~ (c = card /\ w = v)
      <4>1. w \in Seed[c].version .. board[c].version - 1
        BY <1>3, <2>3, <3>2
      <4>2. PICK i \in DOMAIN audit : audit[i].client = c /\ audit[i].versionBefore = w
        BY <4>1 DEF LedgerInv, LedgerCountsVersions
      <4> QED
        BY <1>2, <4>2
    <3> QED
      BY <3>1, <3>2
  <2> QED
    BY <2>1, <2>2, <2>3 DEF LedgerCountsVersions
<1>7. LedgerIsTrail'
  <2>1. ASSUME NEW c \in Cards, board'[c].version = Seed[c].version
        PROVE  board'[c] = Seed[c]
    <3>1. c # card
      BY <1>3, <2>1 DEF LedgerInv, VersionsRise
    <3> QED
      BY <1>3, <2>1, <3>1 DEF LedgerInv, LedgerIsTrail
  <2>2. ASSUME NEW i \in DOMAIN audit',
               audit'[i].versionBefore = Seed[audit'[i].client].version
        PROVE  audit'[i].from = PositionOf(Seed[audit'[i].client])
    <3>1. CASE i = n
      BY <1>2, <2>2, <3>1 DEF LedgerInv, LedgerIsTrail
    <3>2. CASE i \in DOMAIN audit
      BY <1>2, <2>2, <3>2 DEF LedgerInv, LedgerIsTrail
    <3> QED
      BY <1>2, <3>1, <3>2
  <2>3. ASSUME NEW i \in DOMAIN audit',
               audit'[i].versionAfter = board'[audit'[i].client].version
        PROVE  audit'[i].to = PositionOf(board'[audit'[i].client])
    <3>1. CASE i = n
      BY <1>2, <1>3, <3>1
    <3>2. CASE i \in DOMAIN audit
      <4>1. audit[i].client # card
        BY <1>2, <1>3, <1>5, <2>3, <3>2
      <4> QED
        BY <1>2, <1>3, <1>5, <2>3, <3>2, <4>1 DEF LedgerInv, LedgerIsTrail
    <3> QED
      BY <1>2, <3>1, <3>2
  <2>4. ASSUME NEW i \in DOMAIN audit', NEW j \in DOMAIN audit',
               audit'[j].client = audit'[i].client,
               audit'[j].versionBefore = audit'[i].versionAfter
        PROVE  audit'[j].from = audit'[i].to
    <3>1. CASE i \in DOMAIN audit /\ j \in DOMAIN audit
      BY <1>2, <2>4, <3>1 DEF LedgerInv, LedgerIsTrail
    <3>2. CASE i \in DOMAIN audit /\ j = n
      BY <1>2, <2>4, <3>2 DEF LedgerInv, LedgerIsTrail
    <3>3. CASE i = n /\ j \in DOMAIN audit
      BY <1>2, <1>3, <1>5, <2>4, <3>3
    <3>4. CASE i = n /\ j = n
      BY <1>2, <1>3, <2>4, <3>4
    <3> QED
      BY <1>2, <3>1, <3>2, <3>3, <3>4
  <2> QED
    BY <2>1, <2>2, <2>3, <2>4 DEF LedgerIsTrail
<1>8. OutboxTellsLedger'
  <2> DEFINE e == Event(card, board[card], position)
  <2>1. outbox \in Seq(Events) /\ outbox' = Append(outbox, e) /\ Len(outbox) = n - 1
    BY DEF LedgerInv, TypeOK, OutboxTellsLedger, Commit
  <2>2. Len(audit') = n
    BY DEF LedgerInv, TypeOK, Commit
  <2>3. Len(outbox') = n /\ outbox'[n] = e /\ \A i \in 1 .. n - 1 : outbox'[i] = outbox[i]
    BY <1>2, <2>1
  <2>4. /\ e.client = card /\ e.versionAfter = v + 1
        /\ e.from = PositionOf(board[card]) /\ e.to = position
    BY DEF Event
  <2>5. ASSUME NEW i \in DOMAIN audit'
        PROVE  /\ outbox'[i].client = audit'[i].client
               /\ outbox'[i].versionAfter = audit'[i].versionAfter
               /\ outbox'[i].from = audit'[i].from /\ outbox'[i].to = audit'[i].to
    <3>1. CASE i = n
      BY <1>2, <2>3, <2>4, <3>1
    <3>2. CASE i \in DOMAIN audit
      BY <1>2, <2>3, <3>2 DEF LedgerInv, OutboxTellsLedger
    <3> QED
      BY <1>2, <3>1, <3>2
  <2> QED
    BY <2>2, <2>3, <2>5 DEF OutboxTellsLedger
<1> QED
  BY <1>1, <1>4, <1>6, <1>7, <1>8 DEF LedgerInv

\* The ledger never drifts from the board: in every state each card's rows
\* number its versions without gap or repetition, lead from the seed to where
\* the card is, and are matched one to one by the events of the outbox.
THEOREM LedgerNeverDrifts ==
  Spec => [](LedgerCountsVersions /\ LedgerIsTrail /\ OutboxTellsLedger)
<1>1. Init => LedgerInv
  <2> SUFFICES ASSUME Init PROVE LedgerInv
    OBVIOUS
  <2>1. board = Seed /\ audit = <<>> /\ outbox = <<>> /\ DOMAIN audit = {}
    BY DEF Init
  <2>2. \A c \in Cards : Seed[c].version \in Nat
    BY SeedAssumption DEF Boards, Row
  <2>3. TypeOK
    BY <2>1, SeedAssumption DEF TypeOK
  <2>4. VersionsRise /\ LedgerCountsVersions
    BY <2>1, <2>2 DEF VersionsRise, LedgerCountsVersions
  <2>5. LedgerIsTrail /\ OutboxTellsLedger
    BY <2>1 DEF LedgerIsTrail, OutboxTellsLedger
  <2> QED
    BY <2>3, <2>4, <2>5 DEF LedgerInv
<1>2. LedgerInv /\ [Next]_vars => LedgerInv'
  <2> SUFFICES ASSUME LedgerInv, [Next]_vars PROVE LedgerInv'
    OBVIOUS
  <2>1. ASSUME NEW r \in Requests, NEW cmd \in Commands, Move(r, cmd)
        PROVE  LedgerInv'
    BY <2>1, MoveCommits, CommitKeepsLedger DEF LedgerInv
  <2>2. CASE UNCHANGED vars
    BY <2>2 DEF vars, LedgerInv, TypeOK, VersionsRise, LedgerCountsVersions,
                LedgerIsTrail, OutboxTellsLedger
  <2> QED
    BY <2>1, <2>2 DEF Next
<1>3. LedgerInv => LedgerCountsVersions /\ LedgerIsTrail /\ OutboxTellsLedger
  BY DEF LedgerInv
<1> QED
  BY <1>1, <1>2, <1>3, PTL DEF Spec

\* Part by part: the positions of the ledger are a trail from the seed to the
\* board ...
THEOREM LedgerTrails == Spec => []LedgerIsTrail
BY LedgerNeverDrifts, PTL

\* ... and the outbox has one event per row, with the same transition.
THEOREM OutboxAgrees == Spec => []OutboxTellsLedger
BY LedgerNeverDrifts, PTL

-----------------------------------------------------------------------------
(* The place a move asks for.                                              *)

\* The rows of the target lane in front of the card, and those at the drop
\* point or in front of it.
InFront(b, cmd) ==
  {d \in LaneRows(b, ToStatus(b, cmd), cmd.card) : Below(b, d, cmd.card)}
UpTo(b, cmd, prev) ==
  {d \in LaneRows(b, ToStatus(b, cmd), cmd.card) : \E p \in prev : d = p \/ Below(b, d, p)}

\* Ranks order the cards of a lane, the moving card included.
LEMMA LaneIsTotal ==
  ASSUME NEW b \in Boards, UniqueIn(b)
  PROVE  /\ \A c, d \in Cards : c # d /\ b[c].status = b[d].status
                                   => Below(b, c, d) \/ Below(b, d, c)
         /\ \A c, d \in Cards : Below(b, c, d) => ~ Below(b, d, c)
         /\ \A c \in Cards : ~ Below(b, c, c)
         /\ \A c, d, e \in Cards : Below(b, c, d) /\ Below(b, d, e) => Below(b, c, e)
<1>1. \A c \in Cards : b[c].rank \in Rank
  BY DEF Boards, Row
<1> QED
  BY <1>1, OrderAssumption DEF UniqueIn, Below

\* A card of the target lane is between the neighbours exactly if the rows in
\* front of it are those up to the drop point.
LEMMA GapIsPlace ==
  ASSUME NEW b \in Boards, UniqueIn(b), NEW cmd \in Command, cmd.card \in Cards,
         NEW prev \in RowSets, NEW next \in RowSets, Neighbours(b, cmd, prev, next),
         b[cmd.card].status = ToStatus(b, cmd)
  PROVE  StaysPut(b, cmd, prev, next) <=> InFront(b, cmd) = UpTo(b, cmd, prev)
<1> DEFINE L == LaneRows(b, ToStatus(b, cmd), cmd.card)
           x == cmd.card
<1>1. /\ prev \subseteq L /\ next \subseteq L /\ x \in Cards
      /\ \A d \in L : d \in Cards /\ d # x /\ b[d].status = b[x].status
  BY NeighboursInLane DEF LaneRows
<1>2. /\ \A d \in L : Below(b, d, x) \/ Below(b, x, d)
      /\ \A c, d \in L \cup {x} : Below(b, c, d) => ~ Below(b, d, c)
      /\ \A c, d, e \in L \cup {x} : Below(b, c, d) /\ Below(b, d, e) => Below(b, c, e)
  BY <1>1, LaneIsTotal
<1>3. \A d \in L : \/ \E p \in prev : d = p \/ Below(b, d, p)
                   \/ \E n \in next : d = n \/ Below(b, n, d)
  BY GapIsEmpty DEF OnOneSide
<1>4. \A p \in prev, n \in next : Below(b, p, n) /\ p # n
  <2>1. \A p \in prev, n \in next : Below(b, p, n)
    BY NeighboursAscend
  <2> QED
    BY <1>1, <1>2, <2>1
<1> HIDE DEF L, x
<1>5. ASSUME StaysPut(b, cmd, prev, next)
      PROVE  InFront(b, cmd) = UpTo(b, cmd, prev)
  <2>1. /\ \A p \in prev : Below(b, p, x)
        /\ \A n \in next : Below(b, x, n)
    BY <1>5 DEF StaysPut, x
  <2>2. ASSUME NEW d \in L
        PROVE  Below(b, d, x) <=> \E p \in prev : d = p \/ Below(b, d, p)
    <3>1. CASE \E p \in prev : d = p \/ Below(b, d, p)
      BY <1>1, <1>2, <2>1, <3>1
    <3>2. CASE \E n \in next : d = n \/ Below(b, n, d)
      <4>1. Below(b, x, d)
        BY <1>1, <1>2, <2>1, <3>2
      <4>2. ~ Below(b, d, x)
        BY <1>2, <4>1
      <4> QED
        BY <1>1, <1>2, <2>1, <4>2
    <3> QED
      BY <1>3, <3>1, <3>2
  <2> QED
    BY <2>2 DEF InFront, UpTo, L, x
<1>6. ASSUME InFront(b, cmd) = UpTo(b, cmd, prev)
      PROVE  StaysPut(b, cmd, prev, next)
  <2>1. \A d \in L : Below(b, d, x) <=> \E p \in prev : d = p \/ Below(b, d, p)
    BY <1>6 DEF InFront, UpTo, L, x
  <2>2. \A p \in prev : Below(b, p, x)
    BY <1>1, <2>1
  <2>3. \A n \in next : Below(b, x, n)
    <3> SUFFICES ASSUME NEW n \in next, ~ Below(b, x, n) PROVE FALSE
      OBVIOUS
    <3>1. PICK p \in prev : n = p \/ Below(b, n, p)
      BY <1>1, <1>2, <2>1
    <3> QED
      BY <1>1, <1>2, <1>4, <3>1
  <2> QED
    BY <2>2, <2>3 DEF StaysPut, x
<1> QED
  BY <1>5, <1>6

\* "Directly behind" and "directly in front of" a card, and "at the end".
LEMMA PlaceByRef ==
  ASSUME NEW b \in Boards, UniqueIn(b), NEW cmd \in Command, cmd.card \in Cards,
         NEW prev \in RowSets, NEW next \in RowSets, Neighbours(b, cmd, prev, next),
         b[cmd.card].status = ToStatus(b, cmd), cmd.place # "slot"
  PROVE  InFront(b, cmd) = UpTo(b, cmd, prev) <=> IsPlaced(b, cmd, ToStatus(b, cmd))
<1> DEFINE L == LaneRows(b, ToStatus(b, cmd), cmd.card)
           x == cmd.card
           B == InFront(b, cmd)
           P == UpTo(b, cmd, prev)
<1>1. /\ prev \subseteq L /\ next \subseteq L /\ x \in Cards
      /\ \A d \in L : d \in Cards /\ d # x /\ b[d].status = b[x].status
  BY NeighboursInLane DEF LaneRows
<1>2. /\ \A c, d \in L \cup {x} : c # d => Below(b, c, d) \/ Below(b, d, c)
      /\ \A c, d \in L \cup {x} : Below(b, c, d) => ~ Below(b, d, c)
      /\ \A c, d, e \in L \cup {x} : Below(b, c, d) /\ Below(b, d, e) => Below(b, c, e)
  BY <1>1, LaneIsTotal
<1>3. /\ B = {d \in L : Below(b, d, x)}
      /\ P = {d \in L : \E p \in prev : d = p \/ Below(b, d, p)}
  BY DEF InFront, UpTo
<1>4. \A d \in L : d \in P \/ \E n \in next : d = n \/ Below(b, n, d)
  BY <1>3, GapIsEmpty DEF OnOneSide
<1>5. \A p \in prev, n \in next : Below(b, p, n)
  BY NeighboursAscend
<1>6. B = {d \in LaneRows(b, ToStatus(b, cmd), cmd.card) : Below(b, d, cmd.card)}
  BY DEF InFront
<1>7. CASE cmd.place = "after"
  <2>1. prev = {cmd.ref} /\ cmd.ref \in L
    BY <1>7 DEF Neighbours, RefInLane
  <2>2. IsPlaced(b, cmd, ToStatus(b, cmd)) <=> Last(b, B, {cmd.ref})
    BY <1>7 DEF IsPlaced, InFront
  <2> DEFINE ref == cmd.ref
  <2> HIDE DEF L, x, B, P, ref
  <2>3. Last(b, B, {ref}) <=> ref \in B /\ \A d \in B \ {ref} : Below(b, d, ref)
    BY DEF Last
  <2>4. \A d \in L : d \in P <=> d = ref \/ Below(b, d, ref)
    BY <1>3, <2>1 DEF ref
  <2>5. ASSUME B = P PROVE Last(b, B, {ref})
    BY <1>3, <2>1, <2>3, <2>4, <2>5 DEF ref
  <2>6. ASSUME Last(b, B, {ref}) PROVE B = P
    <3>1. \A d \in L : d \in B <=> d \in P
      BY <1>2, <1>3, <2>1, <2>3, <2>4, <2>6
    <3> QED
      BY <1>3, <3>1
  <2> QED
    BY <2>2, <2>5, <2>6 DEF ref, B, P
<1>8. CASE cmd.place = "before"
  <2>1. next = {cmd.ref} /\ cmd.ref \in L
    BY <1>8 DEF Neighbours, RefInLane
  <2>2. IsPlaced(b, cmd, ToStatus(b, cmd)) <=> First(b, L \ B, {cmd.ref})
    BY <1>8 DEF IsPlaced, InFront
  <2> DEFINE ref == cmd.ref
             A == L \ B
  <2> HIDE DEF L, x, B, P, ref
  <2>3. First(b, A, {ref}) <=> ref \in A /\ \A d \in A \ {ref} : Below(b, ref, d)
    BY DEF First
  <2>4. \A d \in L : d \in P <=> ~ (d = ref \/ Below(b, ref, d))
    <3> SUFFICES ASSUME NEW d \in L, d \in P, d = ref \/ Below(b, ref, d) PROVE FALSE
      BY <1>4, <2>1 DEF ref
    <3>1. PICK p \in prev : d = p \/ Below(b, d, p)
      BY <1>3
    <3>2. Below(b, p, ref) /\ p \in L /\ ref \in L
      BY <1>1, <1>5, <2>1 DEF ref
    <3> QED
      BY <1>2, <3>1, <3>2
  <2>5. ASSUME B = P PROVE First(b, A, {ref})
    BY <1>3, <2>1, <2>3, <2>4, <2>5 DEF ref
  <2>6. ASSUME First(b, A, {ref}) PROVE B = P
    <3>1. ref \in L /\ ~ Below(b, ref, x) /\ Below(b, x, ref)
      BY <1>1, <1>2, <1>3, <2>1, <2>3, <2>6 DEF ref
    <3>2. \A d \in L : d \in B => d \in P
      BY <1>2, <1>3, <2>4, <3>1
    <3>3. \A d \in L : d \in P => d \in B
      BY <2>3, <2>4, <2>6
    <3> QED
      BY <1>3, <3>2, <3>3
  <2> QED
    BY <2>2, <2>5, <2>6 DEF ref, B, P
<1>9. CASE cmd.place = "end"
  <2>1. next = {}
    BY <1>9 DEF Neighbours
  <2>2. IsPlaced(b, cmd, ToStatus(b, cmd)) <=> B = L
    BY <1>9 DEF IsPlaced, InFront
  <2>3. P = L
    BY <1>3, <1>4, <2>1
  <2> QED
    BY <2>2, <2>3
<1> QED
  BY <1>7, <1>8, <1>9 DEF Command

\* "At a 1-based slot", or at the end of a lane that is shorter.
LEMMA PlaceBySlot ==
  ASSUME NEW b \in Boards, UniqueIn(b), NEW cmd \in Command, cmd.card \in Cards,
         NEW prev \in RowSets, NEW next \in RowSets, Neighbours(b, cmd, prev, next),
         b[cmd.card].status = ToStatus(b, cmd), cmd.place = "slot"
  PROVE  InFront(b, cmd) = UpTo(b, cmd, prev) <=> IsPlaced(b, cmd, ToStatus(b, cmd))
<1> DEFINE L == LaneRows(b, ToStatus(b, cmd), cmd.card)
           x == cmd.card
           B == InFront(b, cmd)
           P == UpTo(b, cmd, prev)
           N == Cardinality(L)
           S == Slot(b, cmd)
<1>1. /\ prev \subseteq L /\ x \in Cards
      /\ \A d \in L : d \in Cards /\ d # x /\ b[d].status = b[x].status
  BY NeighboursInLane DEF LaneRows
<1>2. /\ \A c, d \in L \cup {x} : c # d => Below(b, c, d) \/ Below(b, d, c)
      /\ \A c, d \in L \cup {x} : Below(b, c, d) => ~ Below(b, d, c)
      /\ \A c \in L \cup {x} : ~ Below(b, c, c)
      /\ \A c, d, e \in L \cup {x} : Below(b, c, d) /\ Below(b, d, e) => Below(b, c, e)
  BY <1>1, LaneIsTotal
<1>3. /\ B = {d \in L : Below(b, d, x)}
      /\ P = {d \in L : \E p \in prev : d = p \/ Below(b, d, p)}
  BY DEF InFront, UpTo
<1>4. /\ IsFiniteSet(L) /\ N \in Nat
      /\ \A T \in SUBSET L : /\ IsFiniteSet(T) /\ Cardinality(T) \in Nat
                             /\ Cardinality(T) <= N
                             /\ Cardinality(T) = N => T = L
  <2>1. L \subseteq Cards
    BY DEF LaneRows
  <2>2. IsFiniteSet(L)
    BY <2>1, CardsAssumption, FS_Subset
  <2> HIDE DEF L
  <2> QED
    BY <2>2, FS_Subset, FS_CardinalityType
<1>5. /\ cmd.slot \in Nat \ {0}
      /\ S = IF cmd.slot > N + 1 THEN N + 1 ELSE cmd.slot
  <2>1. cmd.slot \in Nat \ {0}
    BY DEF Command
  <2> QED
    BY <2>1, <1>4 DEF Slot, LaneSize
<1>6. IsPlaced(b, cmd, ToStatus(b, cmd)) <=> Cardinality(B) = S - 1
  <2>1. IsPlaced(b, cmd, ToStatus(b, cmd))
          <=> Cardinality(B) = cmd.slot - 1 \/ (B = L /\ N < cmd.slot)
    BY DEF IsPlaced, InFront
  <2>2. B \subseteq L
    BY <1>3
  <2> HIDE DEF L, B, N, S
  <2>3. Cardinality(B) \in Nat /\ Cardinality(B) <= N /\ (Cardinality(B) = N <=> B = L)
    BY <1>4, <2>2 DEF N
  <2> HIDE DEF B
  <2> QED
    BY <1>4, <1>5, <2>1, <2>3
<1>7. Cardinality(P) = S - 1
  <2>1. CASE S = 1
    <3>1. prev = {}
      BY <1>5, <2>1 DEF Neighbours
    <3>2. P = {}
      BY <1>3, <3>1
    <3> QED
      BY <2>1, <3>2, FS_EmptySet
  <2>2. CASE S > 1
    <3>1. AtOffset(b, ToStatus(b, cmd), S - 2, cmd.card, prev)
      BY <2>2 DEF Neighbours
    <3>2. ~ (N <= S - 2)
      BY <1>4, <1>5
    <3>3. PICK p \in L : prev = {p} /\ Cardinality({d \in L : Below(b, d, p)}) = S - 2
      BY <3>1, <3>2, Zenon DEF AtOffset
    <3> DEFINE A == {d \in L : Below(b, d, p)}
    <3>4. P = A \cup {p} /\ p \notin A
      BY <1>2, <1>3, <3>3
    <3>5. IsFiniteSet(A)
      BY <1>4
    <3>6. Cardinality(A) = S - 2
      BY <3>3
    <3> HIDE DEF A, S, P
    <3>7. Cardinality(P) = Cardinality(A) + 1
      BY <3>4, <3>5, FS_AddElement
    <3>8. S \in Nat
      BY <1>4, <1>5
    <3> QED
      BY <3>6, <3>7, <3>8
  <2>3. S \in Nat \ {0}
    BY <1>4, <1>5
  <2> QED
    BY <2>1, <2>2, <2>3
<1>8. B \subseteq P \/ P \subseteq B
  <2>1. prev = {} => P \subseteq B
    BY <1>3
  <2>2. ASSUME NEW p \in L, prev = {p}, Below(b, p, x) PROVE P \subseteq B
    BY <1>2, <1>3, <2>2
  <2>3. ASSUME NEW p \in L, prev = {p}, ~ Below(b, p, x) PROVE B \subseteq P
    <3>1. p # x /\ Below(b, x, p)
      BY <1>1, <1>2, <2>3
    <3> QED
      BY <1>2, <1>3, <2>3, <3>1
  <2> QED
    BY <1>1, <2>1, <2>2, <2>3 DEF RowSets
<1>9. Cardinality(B) = Cardinality(P) => B = P
  <2>1. B \subseteq L /\ P \subseteq L
    BY <1>3
  <2>2. IsFiniteSet(B) /\ IsFiniteSet(P)
    BY <1>4, <2>1
  <2> HIDE DEF B, P
  <2> QED
    BY <1>8, <2>2, FS_Subset
<1> QED
  BY <1>6, <1>7, <1>9

\* The card is between the neighbours exactly if it has the place the command
\* names.
LEMMA PlaceIsBetween ==
  ASSUME NEW b \in Boards, UniqueIn(b), NEW cmd \in Command, cmd.card \in Cards,
         NEW prev \in RowSets, NEW next \in RowSets, Neighbours(b, cmd, prev, next)
  PROVE  StaysPut(b, cmd, prev, next) <=> IsPlaced(b, cmd, ToStatus(b, cmd))
<1>1. CASE b[cmd.card].status = ToStatus(b, cmd)
  BY <1>1, GapIsPlace, PlaceByRef, PlaceBySlot
<1>2. CASE b[cmd.card].status # ToStatus(b, cmd)
  BY <1>2 DEF StaysPut, IsPlaced
<1> QED
  BY <1>1, <1>2

\* A move that is answered without a change leaves a card that was already at
\* the place its command names; no other move is answered so.
THEOREM NoChangeMeansInPlace == Spec => []NoOpIsInPlace
<1>1. TypeOK /\ RanksUnique => NoOpIsInPlace
  <2> SUFFICES ASSUME TypeOK, RanksUnique,
                      NEW cmd \in Commands, NEW prev \in RowSets, NEW next \in RowSets,
                      cmd.card \in Cards, Neighbours(board, cmd, prev, next)
               PROVE  StaysPut(board, cmd, prev, next)
                        <=> IsPlaced(board, cmd, ToStatus(board, cmd))
    BY DEF NoOpIsInPlace
  <2>1. board \in Boards /\ UniqueIn(board) /\ cmd \in Command
    BY SeedAssumption DEF TypeOK, RanksUnique, UniqueIn
  <2> QED
    BY <2>1, PlaceIsBetween
<1> QED
  BY <1>1, TypeCorrect, RanksStayUnique, PTL

\* What resolveNeighbours finds depends on the cards that stay and on the lane
\* the card goes to, not on where the card is.
LEMMA NeighboursOfOthers ==
  ASSUME NEW b \in Boards, NEW b2 \in Boards, NEW cmd \in Command, cmd.card \in Cards,
         \A d \in Cards \ {cmd.card} : b2[d] = b[d],
         ToStatus(b2, cmd) = ToStatus(b, cmd),
         NEW prev \in RowSets, NEW next \in RowSets, Neighbours(b, cmd, prev, next)
  PROVE  Neighbours(b2, cmd, prev, next)
<1> DEFINE s == ToStatus(b, cmd)
           L == LaneRows(b, s, cmd.card)
<1>1. LaneRows(b2, s, cmd.card) = L /\ \A d \in L : b2[d] = b[d]
  BY DEF LaneRows
<1>2. ASSUME NEW T \in SUBSET L, NEW rows
      PROVE  /\ First(b, T, rows) => First(b2, T, rows)
             /\ Last(b, T, rows) => Last(b2, T, rows)
  BY <1>1, <1>2 DEF First, Last, Below
<1>3. ASSUME NEW c \in L, NEW dir, NEW rows, Adjacent(b, s, b[c].rank, dir, cmd.card, rows)
      PROVE  Adjacent(b2, s, b2[c].rank, dir, cmd.card, rows)
  <2>1. b2[c].rank = b[c].rank
    BY <1>1
  <2>2. {d \in LaneRows(b2, s, cmd.card) : Before(b[c].rank, b2[d].rank)}
          = {d \in L : Before(b[c].rank, b[d].rank)}
    BY <1>1
  <2>3. {d \in LaneRows(b2, s, cmd.card) : Before(b2[d].rank, b[c].rank)}
          = {d \in L : Before(b[d].rank, b[c].rank)}
    BY <1>1
  <2> QED
    BY <1>2, <1>3, <2>1, <2>2, <2>3 DEF Adjacent
<1>4. ASSUME NEW end, NEW rows, Extreme(b, s, end, cmd.card, rows)
      PROVE  Extreme(b2, s, end, cmd.card, rows)
  BY <1>1, <1>2, <1>4 DEF Extreme
<1>5. ASSUME NEW n, NEW rows, AtOffset(b, s, n, cmd.card, rows)
      PROVE  AtOffset(b2, s, n, cmd.card, rows)
  <2>1. \A c \in L : {d \in L : Below(b2, d, c)} = {d \in L : Below(b, d, c)}
    BY <1>1 DEF Below
  <2> HIDE DEF L
  <2> QED
    BY <1>1, <1>5, <2>1 DEF AtOffset, L
<1>6. Slot(b2, cmd) = Slot(b, cmd)
  BY <1>1 DEF Slot, LaneSize
<1>7. /\ RefInLane(b, cmd) => RefInLane(b2, cmd)
      /\ RefInLane(b, cmd) => cmd.ref \in L
  BY <1>1 DEF RefInLane
<1>8. prev \subseteq L
  BY NeighboursInLane
<1> HIDE DEF L
<1> QED
  BY <1>3, <1>4, <1>5, <1>6, <1>7, <1>8 DEF Neighbours

\* A card that moved is between the neighbours its key was made for, on a board
\* whose ranks are still unique.
LEMMA MoveIsBetween ==
  ASSUME TypeOK, RanksUnique, RanksUnique', TypeOK',
         NEW r \in Requests, NEW cmd \in Commands, Move(r, cmd)
  PROVE  /\ \A d \in Cards \ {cmd.card} : board'[d] = board[d]
         /\ IsPlaced(board', cmd, ToStatus(board, cmd))
<1> DEFINE s == ToStatus(board, cmd)
           x == cmd.card
<1>1. cmd \in Command /\ x \in Cards
  BY MoveCommits
<1>2. PICK prev \in RowSets, next \in RowSets :
        /\ Neighbours(board, cmd, prev, next)
        /\ NewRank(board, prev, next) \in Rank
        /\ [status |-> s, rank |-> NewRank(board, prev, next)] \in Position
        /\ Commit(r, x, [status |-> s, rank |-> NewRank(board, prev, next)])
  BY MoveCommits
<1> DEFINE k == NewRank(board, prev, next)
<1>3. /\ board \in Boards /\ UniqueIn(board) /\ board' \in Boards /\ UniqueIn(board')
  BY DEF TypeOK, RanksUnique, UniqueIn
<1>4. /\ \A d \in Cards \ {x} : board'[d] = board[d]
      /\ board'[x].status = s /\ board'[x].rank = k
  BY <1>1, <1>2, <1>3, UpdatedBoard DEF Commit, PositionOf
<1>5. ToStatus(board', cmd) = s
  BY <1>4 DEF ToStatus
<1>6. Neighbours(board', cmd, prev, next)
  BY <1>1, <1>2, <1>3, <1>4, <1>5, NeighboursOfOthers
<1>7. /\ \A p \in prev : Before(board[p].rank, k)
      /\ \A n \in next : Before(k, board[n].rank)
  BY <1>1, <1>2, <1>3, KeyIsInGap
<1>8. \A c \in prev \cup next : c \in Cards \ {x}
  BY <1>1, <1>2, <1>3, NeighboursInLane DEF LaneRows
<1>9. StaysPut(board', cmd, prev, next)
  BY <1>4, <1>5, <1>7, <1>8 DEF StaysPut, Below
<1>10. IsPlaced(board', cmd, s)
  BY <1>1, <1>2, <1>3, <1>5, <1>6, <1>9, PlaceIsBetween
<1> QED
  BY <1>4, <1>10

\* Every move takes its card to the place the command names and moves no other.
THEOREM MovesReachTheirPlace == Spec => MoveReachesPlace
<1>1. TypeOK /\ TypeOK' /\ RanksUnique /\ RanksUnique'
        => \A r \in Requests, cmd \in Commands :
             Move(r, cmd) => /\ IsPlaced(board', cmd, ToStatus(board, cmd))
                             /\ \A d \in Cards \ {cmd.card} : board'[d] = board[d]
  BY MoveIsBetween
<1> QED
  BY <1>1, TypeCorrect, RanksStayUnique, PTL DEF MoveReachesPlace
=============================================================================
