--------------------------- MODULE MoveServiceProofs ---------------------------
(***************************************************************************)
(* What MoveService keeps, for every set of cards, requests and commands,  *)
(* every pool, number of retries and number of lost connections, and that  *)
(* it implements Board.                                                    *)
(***************************************************************************)
EXTENDS MoveService, ClientsTableProofs

-----------------------------------------------------------------------------
(* The rows a transaction locks.                                           *)

Lists(s, c) == \E i \in DOMAIN s : s[i] = c

\* At most one row, as a list.
LEMMA AsSeqIsList ==
  ASSUME NEW rows \in RowSets
  PROVE  AsSeq(rows) \in Seq(Cards) /\ \A c \in rows : Lists(AsSeq(rows), c)
<1>1. CASE rows = {}
  BY <1>1 DEF AsSeq
<1>2. ASSUME NEW c \in Cards, rows = {c}
      PROVE  AsSeq(rows) \in Seq(Cards) /\ \A d \in rows : Lists(AsSeq(rows), d)
  <2>1. AsSeq(rows) = <<c>>
    BY <1>2 DEF AsSeq
  <2>2. <<c>> \in Seq(Cards) /\ 1 \in DOMAIN <<c>> /\ <<c>>[1] = c
    OBVIOUS
  <2> QED
    BY <1>2, <2>1, <2>2 DEF Lists
<1> QED
  BY <1>1, <1>2 DEF RowSets

\* Two lists one after the other have the rows of both.
LEMMA ConcatLists ==
  ASSUME NEW s \in Seq(Cards), NEW t \in Seq(Cards)
  PROVE  /\ s \o t \in Seq(Cards)
         /\ \A c : Lists(s, c) \/ Lists(t, c) => Lists(s \o t, c)
<1>1. s \o t \in Seq(Cards)
  OBVIOUS
<1>2. ASSUME NEW i \in DOMAIN s
      PROVE  i \in DOMAIN (s \o t) /\ (s \o t)[i] = s[i]
  OBVIOUS
<1>3. ASSUME NEW i \in DOMAIN t
      PROVE  Len(s) + i \in DOMAIN (s \o t) /\ (s \o t)[Len(s) + i] = t[i]
  OBVIOUS
<1> QED
  BY <1>1, <1>2, <1>3 DEF Lists

\* The leading rows of a lane are a list, and each of them is on it.
LEMMA LeadingRowsAreListed ==
  ASSUME NEW b \in Boards, UniqueIn(b), NEW cmd \in Command, cmd.card \in Cards,
         NEW n \in Int
  PROVE  /\ LeadingRows(b, cmd, n) \in Seq(Cards)
         /\ \A c \in LaneRows(b, ToStatus(b, cmd), cmd.card) :
              Cardinality({d \in LaneRows(b, ToStatus(b, cmd), cmd.card) : Below(b, d, c)}) < n
                => Lists(LeadingRows(b, cmd, n), c)
<1> DEFINE S == LaneRows(b, ToStatus(b, cmd), cmd.card)
           T == {c \in S : Cardinality({d \in S : Below(b, d, c)}) < n}
           L == LeadingRows(b, cmd, n)
<1>1. T \subseteq S /\ T \subseteq Cards
  BY DEF LaneRows
<1>2. /\ Cardinality(T) \in Nat
      /\ \E q \in [1 .. Cardinality(T) -> T] : InOrder(b, q, Cardinality(T))
  BY <1>1, RowsHaveOrder, ToStatusIsLane
<1>3. \A q \in [1 .. Cardinality(T) -> T] :
         InOrder(b, q, Cardinality(T))
           <=> \A i, j \in DOMAIN q : i < j => Below(b, q[i], q[j])
  BY DEF InOrder
<1>4. L = CHOOSE q \in [1 .. Cardinality(T) -> T] :
             \A i, j \in DOMAIN q : i < j => Below(b, q[i], q[j])
  BY DEF LeadingRows
<1> HIDE DEF T, L
<1>5. L \in [1 .. Cardinality(T) -> T] /\ InOrder(b, L, Cardinality(T))
  BY <1>2, <1>3, <1>4
<1>6. L \in Seq(Cards)
  BY <1>1, <1>2, <1>5
<1>7. \A c \in T : Lists(L, c)
  <2>1. \A c \in T : \E i \in 1 .. Cardinality(T) : L[i] = c
    BY <1>1, <1>5, OrderedListIsComplete
  <2>2. DOMAIN L = 1 .. Cardinality(T)
    BY <1>5
  <2> QED
    BY <2>1, <2>2 DEF Lists
<1> QED
  BY <1>6, <1>7 DEF T, L

\* resolveNeighbours locks both neighbours, whichever argument it obeys.
LEMMA LockOrderListsNeighbours ==
  ASSUME NEW b \in Boards, UniqueIn(b), NEW cmd \in Command, cmd.card \in Cards,
         NEW prev \in RowSets, NEW next \in RowSets, Neighbours(b, cmd, prev, next)
  PROVE  /\ LockOrder(b, cmd, prev, next) \in Seq(Cards)
         /\ \A c \in prev \cup next : Lists(LockOrder(b, cmd, prev, next), c)
<1> DEFINE P == AsSeq(prev)
           N == AsSeq(next)
           L == LeadingRows(b, cmd, Slot(b, cmd) - 1)
           order == LockOrder(b, cmd, prev, next)
<1>1. /\ P \in Seq(Cards) /\ N \in Seq(Cards)
      /\ \A c \in prev : Lists(P, c)
      /\ \A c \in next : Lists(N, c)
  BY AsSeqIsList
<1>2. CASE cmd.place = "after"
  <2>1. order = P \o N
    BY <1>2 DEF LockOrder
  <2> QED
    BY <1>1, <2>1, ConcatLists
<1>3. CASE cmd.place = "before"
  <2>1. order = N \o P
    BY <1>3 DEF LockOrder
  <2> QED
    BY <1>1, <2>1, ConcatLists
<1>4. CASE cmd.place = "slot"
  <2> DEFINE S == LaneRows(b, ToStatus(b, cmd), cmd.card)
  <2>1. order = L \o N
    BY <1>4 DEF LockOrder
  <2>2. /\ Cardinality(S) \in Nat /\ LaneSize(b, ToStatus(b, cmd), cmd.card) = Cardinality(S)
        /\ cmd.slot \in Nat
    BY LaneSizeIsNat DEF LaneSize, Command
  <2>3. Slot(b, cmd) \in Int /\ Slot(b, cmd) <= Cardinality(S) + 1
    BY <2>2 DEF Slot
  <2>4. L \in Seq(Cards) /\ \A c \in S : Cardinality({d \in S : Below(b, d, c)})
                                           < Slot(b, cmd) - 1 => Lists(L, c)
    BY <2>3, LeadingRowsAreListed
  <2>5. \A c \in prev : Lists(L, c)
    <3>1. CASE prev = {}
      BY <3>1
    <3>2. CASE AtOffset(b, ToStatus(b, cmd), Slot(b, cmd) - 2, cmd.card, prev)
      <4>1. ~ (Cardinality(S) <= Slot(b, cmd) - 2)
        BY <2>2, <2>3
      <4>2. PICK p \in S : /\ prev = {p}
                           /\ Cardinality({d \in S : Below(b, d, p)}) = Slot(b, cmd) - 2
        BY <3>2, <4>1, Zenon DEF AtOffset
      <4>3. Cardinality({d \in S : Below(b, d, p)}) < Slot(b, cmd) - 1
        BY <2>3, <4>2
      <4> QED
        BY <2>4, <4>2, <4>3
    <3> QED
      BY <1>4, <3>1, <3>2 DEF Neighbours
  <2> QED
    BY <1>1, <2>1, <2>4, <2>5, ConcatLists
<1>5. CASE cmd.place = "end"
  <2>1. order = P /\ next = {}
    BY <1>5 DEF LockOrder, Neighbours
  <2> QED
    BY <1>1, <2>1
<1> QED
  BY <1>2, <1>3, <1>4, <1>5 DEF Command

-----------------------------------------------------------------------------
(* The inductive invariant.                                                *)

Calls == [pc : Phases, cmd : Commands, attempt : 0 .. MaxRetries, snap : Boards,
          todo : Seq(Cards), prev : RowSets, next : RowSets, rank : Rank \cup {NoRank}]

Replies == [status : {0, 200, 400, 404, 409, 500, 503}, cause : Causes]

Types ==
  /\ board \in Boards
  /\ audit \in Seq(Promise!AuditRows) /\ outbox \in Seq(Promise!Events)
  /\ lock \in [Cards -> Requests \cup {NoOne}]
  /\ tx \in [Requests -> Calls]
  /\ reply \in [Requests -> Replies]
  /\ metrics \in [cardMoves : Nat, versionConflicts : Nat, txRetries : Nat]
  /\ faults \in 0 .. MaxFaults

\* Every board a call works on has one order per lane.
OneOrder == UniqueIn(board) /\ \A r \in Requests : UniqueIn(tx[r].snap)

\* A locked row is as its holder read it.
LocksHold ==
  \A c \in Cards : \A r \in Requests :
     lock[c] = r => tx[r].pc \in Working /\ board[c] = tx[r].snap[c]

\* r has locked row c or is going to.
Claimed(r, c) == lock[c] = r \/ Lists(tx[r].todo, c)

\* How far a call has come is what the conditions it passed say.
Prepared(r) ==
  /\ tx[r].pc = "card" /\ tx[r].cmd.card \in Cards => Claimed(r, tx[r].cmd.card)
  /\ tx[r].pc \in {"neighbours", "commit"} =>
       /\ tx[r].cmd.card \in Cards /\ VersionMatches(r)
       /\ Neighbours(tx[r].snap, tx[r].cmd, tx[r].prev, tx[r].next)
       /\ \A c \in {tx[r].cmd.card} \cup tx[r].prev \cup tx[r].next : Claimed(r, c)
  /\ tx[r].pc = "commit" => tx[r].todo = <<>>
  /\ tx[r].rank # NoRank =>
       /\ tx[r].pc = "commit" /\ ~ InPlace(r)
       /\ tx[r].rank = NewRank(tx[r].snap, tx[r].prev, tx[r].next)

\* The answer tells whether the ledger has a row of the request.
Told(r) ==
  /\ tx[r].pc = "done" => reply[r].status # 0 /\ reply[r].cause \notin {"none", "23505"}
  /\ tx[r].pc # "done" => reply[r] = NoReply
  /\ RowsOf(r) # {} => reply[r].cause \in {"moved", "connection"}
  /\ reply[r].cause = "moved" => RowsOf(r) # {}

\* The ledger has one row of a request at most.
Once == \A i, j \in DOMAIN audit : i # j => audit[i].request # audit[j].request

Conflicts == {r \in Requests : reply[r].status = 409}
Counted   == IsFiniteSet(Conflicts) /\ metrics.versionConflicts = Cardinality(Conflicts)

Inv == /\ Types /\ OneOrder /\ LocksHold
       /\ \A r \in Requests : Prepared(r) /\ Told(r)
       /\ Once /\ Counted

\* Board's rows are made of the same positions and boards.
LEMMA SameTypes ==
  /\ Promise!Boards = Boards
  /\ Promise!AuditRows = [request : Requests, client : Cards, from : Position, to : Position,
                          versionBefore : Nat, versionAfter : Nat]
  /\ Promise!Events = [client : Cards, type : {"card.moved", "card.completed"},
                       from : Position, to : Position, versionAfter : Nat]
<1>1. Promise!Lanes = Lanes
  BY DEF Promise!Lanes, Lanes
<1>2. Promise!Position = Position
  BY <1>1 DEF Promise!Position, Position
<1>3. Promise!Boards = Boards
  BY <1>1 DEF Promise!Boards, Boards, Promise!Row, Row
<1> QED
  BY <1>2, <1>3 DEF Promise!AuditRows, Promise!Events

\* The state of a call as withTransaction starts, restarts or leaves it.
LEMMA CallIsCall ==
  ASSUME NEW pc \in Phases, NEW cmd \in Commands, NEW n \in 0 .. MaxRetries
  PROVE  /\ Call(pc, cmd, n) \in Calls
         /\ Call(pc, cmd, n).pc = pc /\ Call(pc, cmd, n).cmd = cmd
         /\ Call(pc, cmd, n).snap = Seed /\ Call(pc, cmd, n).rank = NoRank
         /\ Call(pc, cmd, n).todo = <<>>
<1>1. {} \in RowSets
  BY DEF RowSets
<1> QED
  BY <1>1, InputAssumption DEF Call, Calls

\* What the runs check follows from the invariant.
LEMMA InvGivesTypes == Inv => TypeOK
<1> SUFFICES ASSUME Inv PROVE TypeOK
  OBVIOUS
<1>1. Promise!TypeOK
  BY SameTypes DEF Inv, Types, Promise!TypeOK
<1>2. \A r \in Requests :
       /\ tx[r].pc \in Phases /\ tx[r].cmd \in Commands
       /\ tx[r].attempt \in 0 .. MaxRetries /\ tx[r].snap \in Boards
       /\ tx[r].todo \in Seq(Cards) /\ tx[r].prev \in RowSets /\ tx[r].next \in RowSets
       /\ tx[r].rank \in Rank \cup {NoRank}
  BY DEF Inv, Types, Calls
<1>3. metrics \in [{"cardMoves", "versionConflicts", "txRetries"} -> Nat]
  BY DEF Inv, Types
<1> QED
  BY <1>1, <1>2, <1>3 DEF Inv, Types, TypeOK, Replies

LEMMA InitInv == Init => Inv
<1> SUFFICES ASSUME Init PROVE Inv
  OBVIOUS
<1>1. PICK cmds \in [Requests -> Commands] :
         tx = [r \in Requests |-> Call("idle", cmds[r], 0)]
  BY DEF Init
<1>2. \A r \in Requests :
         /\ tx[r] \in Calls /\ tx[r].pc = "idle" /\ tx[r].snap = Seed
         /\ tx[r].rank = NoRank
  <2> TAKE r \in Requests
  <2>1. "idle" \in Phases /\ cmds[r] \in Commands /\ 0 \in 0 .. MaxRetries
    BY ServiceAssumption DEF Phases
  <2>2. tx[r] = Call("idle", cmds[r], 0)
    BY <1>1
  <2>3. /\ Call("idle", cmds[r], 0) \in Calls
        /\ Call("idle", cmds[r], 0).pc = "idle"
        /\ Call("idle", cmds[r], 0).snap = Seed
        /\ Call("idle", cmds[r], 0).rank = NoRank
    BY <2>1, CallIsCall
  <2> QED
    BY <2>2, <2>3
<1>3. tx \in [Requests -> Calls]
  BY <1>1, <1>2
<1>4. /\ board = Seed /\ audit = <<>> /\ outbox = <<>> /\ faults = 0
      /\ lock = [c \in Cards |-> NoOne]
      /\ reply = [r \in Requests |-> NoReply]
      /\ metrics = [cardMoves |-> 0, versionConflicts |-> 0, txRetries |-> 0]
  BY DEF Init
<1>5. Types
  BY <1>3, <1>4, InputAssumption, ServiceAssumption
  DEF Types, Replies, NoReply, Causes
<1>6. OneOrder
  BY <1>2, <1>4, InputAssumption DEF OneOrder, UniqueIn
<1>7. LocksHold
  BY <1>4, ServiceAssumption DEF LocksHold
<1>8. \A r \in Requests : Prepared(r)
  BY <1>2 DEF Prepared
<1>9. DOMAIN audit = {}
  BY <1>4
<1>10. Once /\ \A r \in Requests : Told(r)
  BY <1>2, <1>4, <1>9 DEF Once, Told, RowsOf, NoReply
<1>11. Counted
  <2>1. Conflicts = {}
    BY <1>4 DEF Conflicts, NoReply
  <2> QED
    BY <1>4, <2>1, FS_EmptySet DEF Counted
<1> QED
  BY <1>5, <1>6, <1>7, <1>8, <1>10, <1>11 DEF Inv

-----------------------------------------------------------------------------
(* Kinds of steps.                                                         *)

\* A call that keeps its state and its locks stays as prepared as it was.
LEMMA OthersPrepared ==
  ASSUME Inv, NEW q \in Requests, tx'[q] = tx[q],
         \A c \in Cards : lock[c] = q => lock'[c] = q
  PROVE  Prepared(q)'
<1>1. Prepared(q) /\ tx[q].prev \subseteq Cards /\ tx[q].next \subseteq Cards
  <2>1. Prepared(q) /\ tx[q] \in Calls
    BY DEF Inv, Types
  <2> QED
    BY <2>1 DEF Calls, RowSets
<1>2. \A c \in Cards : Claimed(q, c) => Claimed(q, c)'
  BY DEF Claimed, Lists
<1> QED
  BY <1>1, <1>2 DEF Prepared, VersionMatches, InPlace

\* The answers and what they are compared with stay as they are.
LEMMA NoAnswer ==
  ASSUME Inv, reply' = reply, audit' = audit,
         metrics'.versionConflicts = metrics.versionConflicts,
         \A q \in Requests : tx'[q].pc = "done" <=> tx[q].pc = "done"
  PROVE  (\A q \in Requests : Told(q)') /\ Once' /\ Counted'
<1>1. \A q \in Requests : RowsOf(q)' = RowsOf(q)
  BY DEF RowsOf
<1>2. \A q \in Requests : Told(q)'
  BY <1>1 DEF Inv, Told
<1>3. Once'
  BY DEF Inv, Once
<1>4. Conflicts' = Conflicts
  BY DEF Conflicts
<1> QED
  BY <1>2, <1>3, <1>4 DEF Inv, Counted

\* What an answer adds to the counter of conflicts.
Added(status) == IF status = 409 THEN 1 ELSE 0

\* One call is answered with what happened to it.
LEMMA OneAnswer ==
  ASSUME Inv, NEW r \in Requests, tx[r].pc # "done", tx'[r].pc = "done",
         \A q \in Requests \ {r} : tx'[q] = tx[q] /\ RowsOf(q)' = RowsOf(q),
         NEW status \in {200, 400, 404, 409, 500, 503},
         NEW cause \in Causes \ {"none", "23505"},
         reply' \in [Requests -> Replies],
         reply'[r].status = status, reply'[r].cause = cause,
         \A q \in Requests \ {r} : reply'[q] = reply[q],
         RowsOf(r)' # {} => cause \in {"moved", "connection"},
         cause = "moved" => RowsOf(r)' # {},
         metrics'.versionConflicts =
           metrics.versionConflicts + Added(status)
  PROVE  (\A q \in Requests : Told(q)') /\ Counted'
<1>2. \A q \in Requests : Told(q)'
  BY DEF Inv, Told
<1>3. reply[r].status = 0
  BY DEF Inv, Told, NoReply
<1>4. Conflicts' = IF status = 409 THEN Conflicts \cup {r} ELSE Conflicts
  BY <1>3 DEF Conflicts
<1>5. r \notin Conflicts
  BY <1>3 DEF Conflicts
<1>6. IsFiniteSet(Conflicts) /\ metrics.versionConflicts = Cardinality(Conflicts)
      /\ metrics.versionConflicts \in Nat
  BY DEF Inv, Counted, Types
<1>7. Counted'
  <2>1. CASE status = 409
    <3>1. Conflicts' = Conflicts \cup {r}
      BY <1>4, <2>1
    <3>2. IsFiniteSet(Conflicts') /\ Cardinality(Conflicts') = Cardinality(Conflicts) + 1
      BY <1>5, <1>6, <3>1, FS_AddElement
    <3> QED
      BY <1>6, <2>1, <3>2 DEF Counted, Added
  <2>2. CASE status # 409
    BY <1>4, <1>6, <2>2 DEF Counted, Added
  <2> QED
    BY <2>1, <2>2
<1> QED
  BY <1>2, <1>7

\* What ROLLBACK, a retry and an answer have in common.
Ended(r) ==
  /\ Release(r) /\ UNCHANGED tables
  /\ tx' \in [Requests -> Calls] /\ \A q \in Requests \ {r} : tx'[q] = tx[q]
  /\ tx'[r].pc \in {"backoff", "done"} /\ tx'[r].snap = Seed /\ tx'[r].rank = NoRank

LEMMA ReleaseFrees ==
  ASSUME Inv, NEW r \in Requests, Release(r)
  PROVE  /\ lock' \in [Cards -> Requests \cup {NoOne}]
         /\ \A c \in Cards : \A q \in Requests :
               lock'[c] = q <=> q # r /\ lock[c] = q
BY ServiceAssumption DEF Release, Inv, Types

LEMMA EndedKeeps ==
  ASSUME Inv, NEW r \in Requests, Ended(r)
  PROVE  /\ OneOrder' /\ LocksHold' /\ \A q \in Requests : Prepared(q)'
         /\ lock' \in [Cards -> Requests \cup {NoOne}]
<1>1. /\ board' = board /\ tx'[r].pc \in {"backoff", "done"}
      /\ tx'[r].snap = Seed /\ tx'[r].rank = NoRank
      /\ \A q \in Requests \ {r} : tx'[q] = tx[q]
  BY DEF Ended, tables
<1>2. /\ lock' \in [Cards -> Requests \cup {NoOne}]
      /\ \A c \in Cards : \A q \in Requests :
           lock'[c] = q <=> q # r /\ lock[c] = q
  BY ReleaseFrees DEF Ended
<1>3. OneOrder'
  <2>1. UniqueIn(Seed) /\ UniqueIn(board) /\ \A q \in Requests : UniqueIn(tx[q].snap)
    BY InputAssumption DEF Inv, OneOrder, UniqueIn
  <2>2. \A q \in Requests : tx'[q].snap \in {Seed, tx[q].snap}
    BY <1>1
  <2> QED
    BY <1>1, <2>1, <2>2 DEF OneOrder
<1>4. LocksHold'
  BY <1>1, <1>2 DEF Inv, LocksHold
<1>5. Prepared(r)'
  BY <1>1 DEF Prepared
<1>6. \A q \in Requests \ {r} : Prepared(q)'
  BY <1>1, <1>2, OthersPrepared
<1> QED
  BY <1>2, <1>3, <1>4, <1>5, <1>6

\* The state of the calls after an answer.
LEMMA AnswerEnds ==
  ASSUME Inv, NEW r \in Requests, NEW status \in {200, 400, 404, 409, 500, 503},
         NEW cause \in Causes, Answer(r, status, cause)
  PROVE  /\ tx' \in [Requests -> Calls] /\ \A q \in Requests \ {r} : tx'[q] = tx[q]
         /\ tx'[r].pc = "done" /\ tx'[r].snap = Seed /\ tx'[r].rank = NoRank
         /\ reply' \in [Requests -> Replies]
         /\ reply'[r].status = status /\ reply'[r].cause = cause
         /\ \A q \in Requests \ {r} : reply'[q] = reply[q]
<1> DEFINE t == Call("done", tx[r].cmd, tx[r].attempt)
<1>1. tx[r].cmd \in Commands /\ tx[r].attempt \in 0 .. MaxRetries /\ "done" \in Phases
      /\ tx \in [Requests -> Calls]
  BY DEF Inv, Types, Calls, Phases
<1>2. t \in Calls /\ t.pc = "done" /\ t.snap = Seed /\ t.rank = NoRank
  BY <1>1, CallIsCall
<1>3. tx' = [tx EXCEPT ![r] = t]
      /\ reply' = [reply EXCEPT ![r] = [status |-> status, cause |-> cause]]
  BY DEF Answer
<1>4. /\ reply' \in [Requests -> Replies]
      /\ reply'[r].status = status /\ reply'[r].cause = cause
      /\ \A q \in Requests \ {r} : reply'[q] = reply[q]
  BY <1>3 DEF Inv, Types, Replies
<1> HIDE DEF t
<1> QED
  BY <1>1, <1>2, <1>3, <1>4

\* An answer without effect: the ledger has no row of the request and gets
\* none.
LEMMA ThrowKeeps ==
  ASSUME Inv, NEW r \in Requests, tx[r].pc # "done",
         NEW status \in {200, 400, 404, 409, 500, 503},
         NEW cause \in Causes \ {"none", "23505", "moved"}, Throw(r, status, cause),
         faults' \in 0 .. MaxFaults,
         metrics' \in [cardMoves : Nat, versionConflicts : Nat, txRetries : Nat],
         metrics'.versionConflicts =
           metrics.versionConflicts + Added(status)
  PROVE  Inv'
<1>1. /\ tx' \in [Requests -> Calls] /\ \A q \in Requests \ {r} : tx'[q] = tx[q]
      /\ tx'[r].pc = "done" /\ tx'[r].snap = Seed /\ tx'[r].rank = NoRank
      /\ reply' \in [Requests -> Replies]
      /\ reply'[r].status = status /\ reply'[r].cause = cause
      /\ \A q \in Requests \ {r} : reply'[q] = reply[q]
  BY AnswerEnds DEF Throw
<1>2. board' = board /\ audit' = audit /\ outbox' = outbox
  BY DEF Throw, tables
<1>3. \A q \in Requests : RowsOf(q)' = RowsOf(q)
  BY <1>2 DEF RowsOf
<1>4. RowsOf(r) = {}
  BY DEF Inv, Told, NoReply
<1>5. Ended(r)
  BY <1>1 DEF Throw, Ended
<1>6. /\ OneOrder' /\ LocksHold' /\ \A q \in Requests : Prepared(q)'
      /\ lock' \in [Cards -> Requests \cup {NoOne}]
  BY <1>5, EndedKeeps
<1>7. (\A q \in Requests : Told(q)') /\ Counted'
  BY <1>1, <1>3, <1>4, OneAnswer
<1>8. Once'
  BY <1>2 DEF Inv, Once
<1>9. Types'
  BY <1>1, <1>2, <1>6 DEF Inv, Types
<1> QED
  BY <1>6, <1>7, <1>8, <1>9 DEF Inv

\* The catch block for a retryable error, below the limit and at it.
LEMMA RetryKeeps ==
  ASSUME Inv, NEW r \in Requests, tx[r].pc # "done",
         NEW sqlstate \in {"40001", "40P01"}, RetryOrGiveUp(r, sqlstate),
         UNCHANGED faults
  PROVE  Inv'
<1>1. metrics \in [cardMoves : Nat, versionConflicts : Nat, txRetries : Nat]
  BY DEF Inv, Types
<1>2. CASE tx[r].attempt < MaxRetries
  <2> DEFINE t == Call("backoff", tx[r].cmd, tx[r].attempt + 1)
  <2>1. tx[r].cmd \in Commands /\ tx[r].attempt + 1 \in 0 .. MaxRetries
        /\ "backoff" \in Phases /\ tx \in [Requests -> Calls]
    BY <1>2, ServiceAssumption DEF Inv, Types, Calls, Phases
  <2>2. t \in Calls /\ t.pc = "backoff" /\ t.snap = Seed /\ t.rank = NoRank
    BY <2>1, CallIsCall
  <2>3. /\ tx' = [tx EXCEPT ![r] = t] /\ reply' = reply
        /\ metrics' = [metrics EXCEPT !.txRetries = @ + 1]
        /\ board' = board /\ audit' = audit /\ outbox' = outbox
    BY <1>2 DEF RetryOrGiveUp, tables
  <2> HIDE DEF t
  <2>4. /\ tx' \in [Requests -> Calls] /\ \A q \in Requests \ {r} : tx'[q] = tx[q]
        /\ tx'[r] = t
    BY <2>1, <2>2, <2>3
  <2>5. Ended(r)
    BY <2>2, <2>4 DEF RetryOrGiveUp, Ended
  <2>6. /\ OneOrder' /\ LocksHold' /\ \A q \in Requests : Prepared(q)'
        /\ lock' \in [Cards -> Requests \cup {NoOne}]
    BY <2>5, EndedKeeps
  <2>7. /\ metrics' \in [cardMoves : Nat, versionConflicts : Nat, txRetries : Nat]
        /\ metrics'.versionConflicts = metrics.versionConflicts
    BY <1>1, <2>3
  <2>8. \A q \in Requests : tx'[q].pc = "done" <=> tx[q].pc = "done"
    BY <2>2, <2>4
  <2>9. (\A q \in Requests : Told(q)') /\ Once' /\ Counted'
    BY <2>3, <2>7, <2>8, NoAnswer
  <2>10. Types'
    BY <2>3, <2>4, <2>6, <2>7 DEF Inv, Types
  <2> QED
    BY <2>6, <2>9, <2>10 DEF Inv
<1>3. CASE ~ (tx[r].attempt < MaxRetries)
  <2>1. Throw(r, 503, sqlstate) /\ metrics' = metrics
    BY <1>3 DEF RetryOrGiveUp, Throw
  <2>2. metrics'.versionConflicts = metrics.versionConflicts + Added(503)
    BY <1>1, <2>1 DEF Added
  <2>3. faults' \in 0 .. MaxFaults /\ sqlstate \in Causes \ {"none", "23505", "moved"}
    BY DEF Inv, Types, Causes
  <2> QED
    BY <1>1, <2>1, <2>2, <2>3, ThrowKeeps
<1> QED
  BY <1>2, <1>3

\* A call goes on: nothing another call could notice.
LEMMA AdvanceKeeps ==
  ASSUME Inv, NEW r \in Requests, NEW t \in Calls, tx' = [tx EXCEPT ![r] = t],
         tx[r].pc # "done", t.pc # "done", UniqueIn(t.snap),
         tx[r].pc \in Working => t.pc \in Working /\ t.snap = tx[r].snap,
         Prepared(r)',
         UNCHANGED <<tables, lock, reply, faults>>,
         metrics' \in [cardMoves : Nat, versionConflicts : Nat, txRetries : Nat],
         metrics'.versionConflicts = metrics.versionConflicts
  PROVE  Inv'
<1>1. /\ board' = board /\ audit' = audit /\ outbox' = outbox
      /\ lock' = lock /\ reply' = reply /\ faults' = faults
  BY DEF tables
<1>2. /\ tx' \in [Requests -> Calls] /\ \A q \in Requests \ {r} : tx'[q] = tx[q]
      /\ tx'[r] = t
  BY DEF Inv, Types
<1>3. Types'
  BY <1>1, <1>2 DEF Inv, Types
<1>4. OneOrder'
  BY <1>1, <1>2 DEF Inv, OneOrder
<1>5. LocksHold'
  BY <1>1, <1>2 DEF Inv, LocksHold
<1>6. \A q \in Requests : Prepared(q)'
  BY <1>1, <1>2, OthersPrepared
<1>7. (\A q \in Requests : Told(q)') /\ Once' /\ Counted'
  BY <1>1, <1>2, NoAnswer
<1> QED
  BY <1>3, <1>4, <1>5, <1>6, <1>7 DEF Inv

\* A row is locked that nobody else holds and that is as it was read.
LEMMA LockRowKeeps ==
  ASSUME Inv, NEW r \in Requests, LockRow(r)
  PROVE  Inv'
<1> DEFINE w == Wanted(r)
           t == [tx[r] EXCEPT !.todo = Tail(@)]
<1>1. /\ tx[r] \in Calls /\ tx \in [Requests -> Calls]
      /\ tx[r].todo \in Seq(Cards) /\ tx[r].todo # <<>> /\ tx[r].pc \in Working
  BY DEF Inv, Types, Calls, LockRow, ToLock
<1>2. w \in Cards /\ Tail(tx[r].todo) \in Seq(Cards)
  BY <1>1 DEF Wanted
<1>3. /\ t \in Calls /\ t.pc = tx[r].pc /\ t.cmd = tx[r].cmd /\ t.snap = tx[r].snap
      /\ t.prev = tx[r].prev /\ t.next = tx[r].next /\ t.rank = tx[r].rank
      /\ t.todo = Tail(tx[r].todo)
  BY <1>1, <1>2 DEF Calls
<1>4. tx' = [tx EXCEPT ![r] = t]
  BY DEF LockRow
<1> HIDE DEF t
<1>5. /\ tx' \in [Requests -> Calls] /\ tx'[r] = t
      /\ \A q \in Requests \ {r} : tx'[q] = tx[q]
  BY <1>1, <1>3, <1>4
<1>6. /\ board' = board /\ audit' = audit /\ outbox' = outbox
      /\ reply' = reply /\ faults' = faults /\ metrics' = metrics
      /\ lock[w] \in {NoOne, r} /\ board[w] = tx[r].snap[w]
      /\ lock' = [lock EXCEPT ![w] = r]
  BY DEF LockRow, LockFree, Stale, tables
<1>7. /\ lock' \in [Cards -> Requests \cup {NoOne}]
      /\ lock'[w] = r /\ \A c \in Cards \ {w} : lock'[c] = lock[c]
  BY <1>2, <1>6 DEF Inv, Types
<1>8. \A c \in Cards : \A q \in Requests \ {r} : lock[c] = q <=> lock'[c] = q
  BY <1>6, <1>7, ServiceAssumption
<1>9. Types'
  BY <1>5, <1>6, <1>7 DEF Inv, Types
<1>10. OneOrder'
  BY <1>3, <1>5, <1>6 DEF Inv, OneOrder
<1>11. LocksHold'
  <2> SUFFICES ASSUME NEW c \in Cards, NEW q \in Requests, lock'[c] = q
               PROVE  tx'[q].pc \in Working /\ board'[c] = tx'[q].snap[c]
    BY DEF LocksHold
  <2>1. CASE q # r
    BY <1>5, <1>6, <1>8, <2>1 DEF Inv, LocksHold
  <2>2. CASE q = r /\ c = w
    BY <1>1, <1>3, <1>5, <1>6, <2>2
  <2>3. CASE q = r /\ c # w
    <3>1. lock[c] = r
      BY <1>7, <2>3
    <3>2. board[c] = tx[r].snap[c]
      BY <3>1 DEF Inv, LocksHold
    <3> QED
      BY <1>1, <1>3, <1>5, <1>6, <2>3, <3>2
  <2> QED
    BY <2>1, <2>2, <2>3
<1>12. \A c \in Cards : Claimed(r, c) => Claimed(r, c)'
  <2> SUFFICES ASSUME NEW c \in Cards, Claimed(r, c), c # w
               PROVE  Claimed(r, c)'
    BY <1>7 DEF Claimed
  <2>1. CASE lock[c] = r
    BY <1>7, <2>1 DEF Claimed
  <2>2. CASE Lists(tx[r].todo, c)
    <3>1. PICK i \in DOMAIN tx[r].todo : tx[r].todo[i] = c
      BY <2>2 DEF Lists
    <3>2. i # 1
      BY <1>1, <3>1 DEF Wanted
    <3>3. i - 1 \in DOMAIN Tail(tx[r].todo) /\ Tail(tx[r].todo)[i - 1] = c
      BY <1>1, <3>1, <3>2
    <3>4. Lists(tx'[r].todo, c)
      BY <1>3, <1>5, <3>3 DEF Lists
    <3> QED
      BY <3>4 DEF Claimed
  <2> QED
    BY <2>1, <2>2 DEF Claimed
<1>13. Prepared(r)'
  <2>1. tx[r].prev \subseteq Cards /\ tx[r].next \subseteq Cards
    BY <1>1 DEF Calls, RowSets
  <2>2. Prepared(r) /\ tx[r].pc # "commit"
    BY <1>1 DEF Inv, Prepared
  <2> QED
    BY <1>3, <1>5, <1>12, <2>1, <2>2 DEF Prepared, VersionMatches, InPlace
<1>14. \A q \in Requests : Prepared(q)'
  BY <1>5, <1>8, <1>13, OthersPrepared
<1>15. (\A q \in Requests : Told(q)') /\ Once' /\ Counted'
  BY <1>3, <1>5, <1>6, NoAnswer
<1> QED
  BY <1>9, <1>10, <1>11, <1>14, <1>15 DEF Inv

-----------------------------------------------------------------------------
(* COMMIT.                                                                 *)

\* What a call that wrote is about to commit: a move on the board of this
\* instant, to a rank that no other card of the lane has.
LEMMA WriteFits ==
  ASSUME Inv, NEW r \in Requests, Wrote(r), Serializable(r)
  PROVE  /\ tx[r].cmd \in Command /\ tx[r].cmd.card \in Cards
         /\ board = tx[r].snap /\ board[tx[r].cmd.card].version = tx[r].cmd.version
         /\ tx[r].prev \in RowSets /\ tx[r].next \in RowSets
         /\ Neighbours(board, tx[r].cmd, tx[r].prev, tx[r].next)
         /\ ~ StaysPut(board, tx[r].cmd, tx[r].prev, tx[r].next)
         /\ tx[r].rank = NewRank(board, tx[r].prev, tx[r].next) /\ tx[r].rank \in Rank
         /\ NewPosition(r) \in Position
         /\ lock[tx[r].cmd.card] = r /\ ~ RankTaken(r)
<1>1. tx[r].pc = "commit" /\ tx[r].rank # NoRank /\ board = tx[r].snap
  BY DEF Wrote, Serializable
<1>2. tx[r] \in Calls
  BY DEF Inv, Types
<1>3. /\ tx[r].cmd \in Command /\ tx[r].prev \in RowSets /\ tx[r].next \in RowSets
      /\ tx[r].rank \in Rank
  BY <1>1, <1>2, InputAssumption DEF Calls
<1>4. /\ tx[r].cmd.card \in Cards /\ VersionMatches(r) /\ tx[r].todo = <<>>
      /\ Neighbours(tx[r].snap, tx[r].cmd, tx[r].prev, tx[r].next)
      /\ Claimed(r, tx[r].cmd.card) /\ ~ InPlace(r)
      /\ tx[r].rank = NewRank(tx[r].snap, tx[r].prev, tx[r].next)
  BY <1>1 DEF Inv, Prepared
<1>5. lock[tx[r].cmd.card] = r
  BY <1>4 DEF Claimed, Lists
<1>6. board \in Boards /\ UniqueIn(board)
  BY DEF Inv, Types, OneOrder
<1>7. ToStatus(board, tx[r].cmd) \in Lanes
  BY <1>3, <1>4, <1>6, ToStatusIsLane
<1>8. NewPosition(r) = [status |-> ToStatus(board, tx[r].cmd), rank |-> tx[r].rank]
  BY <1>1 DEF NewPosition
<1>9. NewPosition(r) \in Position
  BY <1>3, <1>7, <1>8 DEF Position
<1>10. ~ RankTaken(r)
  <2> SUFFICES ASSUME NEW d \in Cards \ {tx[r].cmd.card},
                      PositionOf(board[d]) = NewPosition(r)
               PROVE  FALSE
    BY DEF RankTaken
  <2>1. board[d].status = ToStatus(board, tx[r].cmd) /\ board[d].rank = tx[r].rank
    BY <1>8 DEF PositionOf
  <2>2. d \in LaneRows(board, ToStatus(board, tx[r].cmd), tx[r].cmd.card)
    BY <2>1 DEF LaneRows
  <2> QED
    BY <1>1, <1>3, <1>4, <1>6, <2>1, <2>2, NewRankIsFree
<1> QED
  BY <1>1, <1>3, <1>4, <1>5, <1>9, <1>10 DEF VersionMatches, InPlace

\* What a commit adds to the tables.
LEMMA ApplyAdds ==
  ASSUME Inv, NEW r \in Requests, Wrote(r), Serializable(r), Apply(r)
  PROVE  /\ board' \in Boards /\ audit' \in Seq(Promise!AuditRows)
         /\ outbox' \in Seq(Promise!Events)
         /\ PositionOf(board'[tx[r].cmd.card]) = NewPosition(r)
         /\ \A d \in Cards \ {tx[r].cmd.card} : board'[d] = board[d]
         /\ Len(audit) \in Nat
         /\ DOMAIN audit = 1 .. Len(audit) /\ DOMAIN audit' = 1 .. Len(audit) + 1
         /\ \A i \in DOMAIN audit : audit'[i] = audit[i]
         /\ audit'[Len(audit) + 1].request = r
<1> DEFINE card == tx[r].cmd.card
           a == AuditRow(r, card, tx[r].snap[card], NewPosition(r))
           e == Event(card, tx[r].snap[card], NewPosition(r))
<1>1. card \in Cards /\ board = tx[r].snap /\ NewPosition(r) \in Position
  BY WriteFits
<1>2. /\ board \in Boards /\ audit \in Seq(Promise!AuditRows)
      /\ outbox \in Seq(Promise!Events)
  BY DEF Inv, Types
<1>3. /\ board' = Updated(board, card, NewPosition(r))
      /\ audit' = Append(audit, a) /\ outbox' = Append(outbox, e)
  BY DEF Apply
<1>4. tx[r].snap[card] \in Row
  BY <1>1, <1>2 DEF Boards
<1>5. PositionOf(tx[r].snap[card]) \in Position
  BY <1>4 DEF PositionOf, Position, Row
<1>6. a \in Promise!AuditRows /\ a.request = r
  BY <1>1, <1>4, <1>5, SameTypes DEF AuditRow, Row
<1>7. e \in Promise!Events
  BY <1>1, <1>4, <1>5, SameTypes DEF Event, Row
<1>8. /\ board' \in Boards /\ PositionOf(board'[card]) = NewPosition(r)
      /\ \A d \in Cards \ {card} : board'[d] = board[d]
  BY <1>1, <1>2, <1>3, UpdatedBoard
<1> HIDE DEF a, e
<1>9. /\ audit' \in Seq(Promise!AuditRows) /\ outbox' \in Seq(Promise!Events)
      /\ Len(audit) \in Nat
      /\ DOMAIN audit = 1 .. Len(audit) /\ DOMAIN audit' = 1 .. Len(audit) + 1
      /\ \A i \in DOMAIN audit : audit'[i] = audit[i]
      /\ audit'[Len(audit) + 1] = a
  BY <1>2, <1>3, <1>6, <1>7
<1> QED
  BY <1>6, <1>8, <1>9

\* A commit, heard or not.
LEMMA ApplyKeeps ==
  ASSUME Inv, NEW r \in Requests, Committable(r), ~ (Wrote(r) /\ RankTaken(r)),
         Apply(r), Release(r), NEW status \in {200, 500},
         NEW cause \in {"moved", "unchanged", "connection"}, Answer(r, status, cause),
         cause \in {"moved", "connection"} \/ ~ Wrote(r),
         cause \in {"unchanged", "connection"} \/ Wrote(r),
         metrics' = metrics, faults' \in 0 .. MaxFaults
  PROVE  Inv'
<1>1. tx[r].pc = "commit" /\ Serializable(r) /\ cause \in Causes \ {"none", "23505"}
      /\ status \in {200, 400, 404, 409, 500, 503}
  <2>1. tx[r].pc = "commit" /\ Serializable(r)
    BY DEF Committable
  <2>2. cause \in Causes \ {"none", "23505"}
    BY DEF Causes
  <2>3. status \in {200, 400, 404, 409, 500, 503}
    OBVIOUS
  <2> QED
    BY <2>1, <2>2, <2>3
<1>2. /\ metrics' \in [cardMoves : Nat, versionConflicts : Nat, txRetries : Nat]
      /\ metrics'.versionConflicts = metrics.versionConflicts + Added(status)
  BY DEF Inv, Types, Added
<1>3. CASE ~ Wrote(r)
  <2>1. Throw(r, status, cause) /\ cause # "moved"
    BY <1>3 DEF Apply, Throw
  <2> QED
    BY <1>1, <1>2, <2>1, ThrowKeeps
<1>4. CASE Wrote(r)
  <2> DEFINE card == tx[r].cmd.card
             n == Len(audit) + 1
  <2>1. card \in Cards /\ lock[card] = r /\ ~ RankTaken(r) /\ cause \in {"moved", "connection"}
    BY <1>1, <1>4, WriteFits
  <2>2. /\ board' \in Boards /\ audit' \in Seq(Promise!AuditRows)
        /\ outbox' \in Seq(Promise!Events)
        /\ PositionOf(board'[card]) = NewPosition(r)
        /\ \A d \in Cards \ {card} : board'[d] = board[d]
        /\ Len(audit) \in Nat
        /\ DOMAIN audit = 1 .. Len(audit) /\ DOMAIN audit' = 1 .. Len(audit) + 1
        /\ \A i \in DOMAIN audit : audit'[i] = audit[i]
        /\ audit'[n].request = r
    BY <1>1, <1>4, ApplyAdds
  <2>3. /\ tx' \in [Requests -> Calls] /\ \A q \in Requests \ {r} : tx'[q] = tx[q]
        /\ tx'[r].pc = "done" /\ tx'[r].snap = Seed /\ tx'[r].rank = NoRank
        /\ reply' \in [Requests -> Replies]
        /\ reply'[r].status = status /\ reply'[r].cause = cause
        /\ \A q \in Requests \ {r} : reply'[q] = reply[q]
    BY <1>1, AnswerEnds
  <2>4. /\ lock' \in [Cards -> Requests \cup {NoOne}]
        /\ \A c \in Cards : \A q \in Requests :
             lock'[c] = q <=> q # r /\ lock[c] = q
    BY ReleaseFrees
  <2>5. RowsOf(r) = {}
    BY <1>1 DEF Inv, Told, NoReply
  <2>6. n \in RowsOf(r)' /\ \A q \in Requests \ {r} : RowsOf(q)' = RowsOf(q)
    BY <2>2 DEF RowsOf
  <2>7. (\A q \in Requests : Told(q)') /\ Counted'
    BY <1>1, <1>2, <2>1, <2>3, <2>6, OneAnswer
  <2>8. Once'
    BY <2>2, <2>5 DEF Inv, Once, RowsOf
  <2>9. Types'
    BY <1>2, <2>2, <2>3, <2>4 DEF Inv, Types
  <2>10. OneOrder'
    <3>1. UniqueIn(board')
      <4>1. \A d \in Cards \ {card} : PositionOf(board[d]) # PositionOf(board'[card])
        BY <2>1, <2>2 DEF RankTaken
      <4>2. \A d \in Cards \ {card} : board[d].status = board'[card].status
                                       => board[d].rank # board'[card].rank
        BY <4>1 DEF PositionOf
      <4> QED
        BY <2>2, <4>2 DEF Inv, OneOrder, UniqueIn
    <3>2. UniqueIn(Seed) /\ \A q \in Requests : UniqueIn(tx[q].snap)
      BY InputAssumption DEF Inv, OneOrder, UniqueIn
    <3>3. \A q \in Requests : tx'[q].snap \in {Seed, tx[q].snap}
      BY <2>3
    <3> QED
      BY <3>1, <3>2, <3>3 DEF OneOrder
  <2>11. LocksHold'
    BY <2>1, <2>2, <2>3, <2>4 DEF Inv, LocksHold
  <2>12. \A q \in Requests : Prepared(q)'
    <3>1. Prepared(r)'
      BY <2>3 DEF Prepared
    <3>2. \A q \in Requests \ {r} : Prepared(q)'
      BY <2>3, <2>4, OthersPrepared
    <3> QED
      BY <3>1, <3>2
  <2> QED
    BY <2>7, <2>8, <2>9, <2>10, <2>11, <2>12 DEF Inv
<1> QED
  BY <1>3, <1>4

-----------------------------------------------------------------------------
(* The steps.                                                              *)

\* The counters when nothing, or only another counter, is counted.
LEMMA CountersKept ==
  ASSUME Inv
  PROVE  /\ metrics \in [cardMoves : Nat, versionConflicts : Nat, txRetries : Nat]
         /\ [metrics EXCEPT !.cardMoves = @ + 1]
               \in [cardMoves : Nat, versionConflicts : Nat, txRetries : Nat]
         /\ [metrics EXCEPT !.cardMoves = @ + 1].versionConflicts = metrics.versionConflicts
         /\ metrics.versionConflicts \in Nat
BY SMTT(30) DEF Inv, Types

\* Sending a request, or sending it again after the sleep.
LEMMA WaitKeeps ==
  ASSUME Inv, NEW r \in Requests, tx[r].pc \in {"idle", "backoff"},
         tx' = [tx EXCEPT ![r].pc = "connect"],
         UNCHANGED <<tables, lock, reply, metrics, faults>>
  PROVE  Inv'
<1> DEFINE t == [tx[r] EXCEPT !.pc = "connect"]
<1>1. tx[r] \in Calls /\ tx \in [Requests -> Calls] /\ UniqueIn(tx[r].snap)
  BY DEF Inv, Types, OneOrder
<1>2. t \in Calls /\ t.pc = "connect" /\ t.snap = tx[r].snap /\ t.rank = tx[r].rank
  BY <1>1 DEF Calls, Phases
<1>3. tx' = [tx EXCEPT ![r] = t]
  OBVIOUS
<1> HIDE DEF t
<1>4. tx'[r] = t
  BY <1>1, <1>3
<1>5. tx[r].rank = NoRank
  BY DEF Inv, Prepared
<1>6. Prepared(r)'
  BY <1>2, <1>4, <1>5 DEF Prepared
<1>7. metrics' = metrics /\ tx[r].pc \notin Working
  BY DEF Working
<1> QED
  BY <1>1, <1>2, <1>3, <1>6, <1>7, CountersKept, AdvanceKeeps

\* A connection is taken and the snapshot with it.
LEMMA ConnectKeeps ==
  ASSUME Inv, NEW r \in Requests, Connect(r)
  PROVE  Inv'
<1> DEFINE list == IF tx[r].cmd.card \in Cards THEN <<tx[r].cmd.card>> ELSE <<>>
           t == [tx[r] EXCEPT !.pc = "card", !.snap = board, !.todo = list]
<1>1. tx[r] \in Calls /\ tx \in [Requests -> Calls] /\ board \in Boards /\ UniqueIn(board)
  BY DEF Inv, Types, OneOrder
<1>2. list \in Seq(Cards)
  OBVIOUS
<1>3. tx[r].cmd.card \in Cards => Lists(list, tx[r].cmd.card)
  <2> SUFFICES ASSUME tx[r].cmd.card \in Cards PROVE Lists(list, tx[r].cmd.card)
    OBVIOUS
  <2>1. list = <<tx[r].cmd.card>>
    OBVIOUS
  <2>2. 1 \in DOMAIN list /\ list[1] = tx[r].cmd.card
    BY <2>1
  <2> QED
    BY <2>2 DEF Lists
<1>4. tx' = [tx EXCEPT ![r] = t] /\ tx[r].pc = "connect"
  BY DEF Connect
<1> HIDE DEF list
<1>5. /\ t \in Calls /\ t.pc = "card" /\ t.snap = board /\ t.rank = tx[r].rank
      /\ t.cmd = tx[r].cmd /\ t.todo = list
  BY <1>1, <1>2 DEF Calls, Phases, Working
<1> HIDE DEF t
<1>6. tx'[r] = t
  BY <1>1, <1>4
<1>7. tx[r].rank = NoRank
  BY <1>4 DEF Inv, Prepared
<1>8. Prepared(r)'
  BY <1>3, <1>5, <1>6, <1>7 DEF Prepared, Claimed
<1>9. metrics' = metrics /\ tx[r].pc \notin Working
      /\ UNCHANGED <<tables, lock, reply, faults>>
  BY <1>4 DEF Working, Connect
<1> QED
  BY <1>1, <1>4, <1>5, <1>8, <1>9, CountersKept, AdvanceKeeps

\* A card that is locked and has the version: a ref outside the lane ...
LEMMA ResolveBadRefKeeps ==
  ASSUME Inv, NEW r \in Requests, ResolveBadRef(r)
  PROVE  Inv'
<1> DEFINE list == IF tx[r].cmd.ref \in Cards \ {tx[r].cmd.card}
                   THEN <<tx[r].cmd.ref>> ELSE <<>>
           t == [tx[r] EXCEPT !.pc = "refused", !.todo = list]
<1>1. tx[r] \in Calls /\ tx \in [Requests -> Calls] /\ UniqueIn(tx[r].snap)
  BY DEF Inv, Types, OneOrder
<1>2. list \in Seq(Cards)
  OBVIOUS
<1>3. tx' = [tx EXCEPT ![r] = t] /\ tx[r].pc = "card"
  BY DEF ResolveBadRef, At
<1> HIDE DEF list
<1>4. t \in Calls /\ t.pc = "refused" /\ t.snap = tx[r].snap /\ t.rank = tx[r].rank
  BY <1>1, <1>2 DEF Calls, Phases, Working
<1> HIDE DEF t
<1>5. tx'[r] = t
  BY <1>1, <1>3
<1>6. tx[r].rank = NoRank
  BY <1>3 DEF Inv, Prepared
<1>7. Prepared(r)'
  BY <1>4, <1>5, <1>6 DEF Prepared
<1>8. metrics' = metrics /\ "refused" \in Working /\ UNCHANGED <<tables, lock, reply, faults>>
  BY DEF ResolveBadRef, Working
<1> QED
  BY <1>1, <1>3, <1>4, <1>7, <1>8, CountersKept, AdvanceKeeps

\* ... or the neighbours of its drop point, which are locked next.
LEMMA ResolveKeeps ==
  ASSUME Inv, NEW r \in Requests, Resolve(r)
  PROVE  Inv'
<1>1. tx[r] \in Calls /\ tx \in [Requests -> Calls] /\ UniqueIn(tx[r].snap)
  BY DEF Inv, Types, OneOrder
<1>2. /\ tx[r].snap \in Boards /\ tx[r].cmd \in Command /\ tx[r].cmd.card \in Cards
      /\ tx[r].pc = "card" /\ tx[r].todo = <<>> /\ VersionMatches(r)
  BY <1>1, InputAssumption DEF Calls, Resolve, At
<1>3. PICK prev \in RowSets, next \in RowSets :
         /\ Neighbours(tx[r].snap, tx[r].cmd, prev, next)
         /\ tx' = [tx EXCEPT ![r].pc = "neighbours", ![r].prev = prev, ![r].next = next,
                             ![r].todo = LockOrder(tx[r].snap, tx[r].cmd, prev, next)]
  BY DEF Resolve
<1> DEFINE list == LockOrder(tx[r].snap, tx[r].cmd, prev, next)
           t == [tx[r] EXCEPT !.pc = "neighbours", !.prev = prev, !.next = next,
                              !.todo = list]
<1>4. list \in Seq(Cards) /\ \A c \in prev \cup next : Lists(list, c)
  BY <1>1, <1>2, <1>3, LockOrderListsNeighbours
<1>5. tx' = [tx EXCEPT ![r] = t]
  BY <1>3
<1> HIDE DEF list
<1>6. /\ t \in Calls /\ t.pc = "neighbours" /\ t.snap = tx[r].snap /\ t.cmd = tx[r].cmd
      /\ t.rank = tx[r].rank /\ t.prev = prev /\ t.next = next /\ t.todo = list
  BY <1>1, <1>4 DEF Calls, Phases, Working
<1> HIDE DEF t
<1>7. tx'[r] = t
  BY <1>1, <1>5
<1>8. tx[r].rank = NoRank /\ Claimed(r, tx[r].cmd.card)
  BY <1>2 DEF Inv, Prepared
<1>9. lock[tx[r].cmd.card] = r /\ lock' = lock
  BY <1>2, <1>8 DEF Claimed, Lists, Resolve
<1>10. Prepared(r)'
  <2>1. Claimed(r, tx[r].cmd.card)' /\ \A c \in prev \cup next : Claimed(r, c)'
    BY <1>4, <1>6, <1>7, <1>9 DEF Claimed
  <2> QED
    BY <1>2, <1>3, <1>6, <1>7, <1>8, <2>1 DEF Prepared, VersionMatches
<1>11. metrics' = metrics /\ "neighbours" \in Working
       /\ UNCHANGED <<tables, lock, reply, faults>>
  BY DEF Resolve, Working
<1> QED
  BY <1>1, <1>2, <1>5, <1>6, <1>10, <1>11, CountersKept, AdvanceKeeps

\* Both neighbours are locked: the call has nothing to write, or writes.
LEMMA DecideKeeps ==
  ASSUME Inv, NEW r \in Requests, At(r, "neighbours"),
         NEW rank \in Rank \cup {NoRank},
         tx' = [tx EXCEPT ![r].pc = "commit", ![r].rank = rank],
         rank # NoRank => /\ ~ InPlace(r)
                          /\ rank = NewRank(tx[r].snap, tx[r].prev, tx[r].next),
         UNCHANGED <<tables, lock, reply, faults>>,
         metrics' \in [cardMoves : Nat, versionConflicts : Nat, txRetries : Nat],
         metrics'.versionConflicts = metrics.versionConflicts
  PROVE  Inv'
<1> DEFINE t == [tx[r] EXCEPT !.pc = "commit", !.rank = rank]
<1>1. tx[r] \in Calls /\ tx \in [Requests -> Calls] /\ UniqueIn(tx[r].snap)
  BY DEF Inv, Types, OneOrder
<1>2. tx' = [tx EXCEPT ![r] = t] /\ tx[r].pc = "neighbours" /\ tx[r].todo = <<>>
  BY DEF At
<1>3. /\ t \in Calls /\ t.pc = "commit" /\ t.snap = tx[r].snap /\ t.cmd = tx[r].cmd
      /\ t.rank = rank /\ t.prev = tx[r].prev /\ t.next = tx[r].next /\ t.todo = <<>>
  BY <1>1, <1>2 DEF Calls, Phases, Working
<1> HIDE DEF t
<1>4. tx'[r] = t /\ lock' = lock
  BY <1>1, <1>2
<1>5. Prepared(r)
  BY DEF Inv
<1>6. \A c : Claimed(r, c) => Claimed(r, c)'
  BY <1>2, <1>3, <1>4 DEF Claimed
<1>7. VersionMatches(r)' <=> VersionMatches(r)
  BY <1>3, <1>4 DEF VersionMatches
<1>8. InPlace(r)' <=> InPlace(r)
  BY <1>3, <1>4 DEF InPlace
<1>9. Prepared(r)'
  BY <1>2, <1>3, <1>4, <1>5, <1>6, <1>7, <1>8 DEF Prepared
<1>10. "commit" \in Working
  BY DEF Working
<1> QED
  BY <1>1, <1>2, <1>3, <1>9, <1>10, AdvanceKeeps, ZenonT(30)

\* Every step keeps the invariant.
LEMMA StepKeeps == Inv /\ [Next]_vars => Inv'
<1> SUFFICES ASSUME Inv, [Next]_vars PROVE Inv'
  OBVIOUS
<1>1. CASE UNCHANGED vars
  <2>1. Types' /\ OneOrder' /\ LocksHold' /\ Once' /\ Counted'
    BY <1>1 DEF vars, Inv, Types, OneOrder, LocksHold, Once, Counted, Conflicts
  <2>2. \A r \in Requests : Prepared(r)'
    BY <1>1, OthersPrepared DEF vars
  <2>3. \A r \in Requests : Told(r)'
    BY <1>1 DEF vars, Inv, Told, RowsOf
  <2> QED
    BY <2>1, <2>2, <2>3 DEF Inv
<1>2. ASSUME NEW r \in Requests,
             \/ Submit(r) \/ ConnectTimeout(r) \/ Step(r) \/ DeadlockVictim(r)
             \/ LoseConnection(r) \/ CommitUnheard(r)
      PROVE  Inv'
  <2>1. /\ metrics \in [cardMoves : Nat, versionConflicts : Nat, txRetries : Nat]
        /\ faults \in 0 .. MaxFaults /\ metrics.versionConflicts \in Nat
    BY DEF Inv, Types
  <2>2. \A status \in {200, 400, 404, 500, 503} :
           metrics.versionConflicts = metrics.versionConflicts + Added(status)
    BY <2>1 DEF Added
  <2>3. CASE Submit(r)
    BY <2>3, WaitKeeps DEF Submit
  <2>4. CASE ConnectTimeout(r)
    <3>1. \A c \in Cards : lock[c] # r
      BY <2>4 DEF Inv, LocksHold, ConnectTimeout, Working
    <3>2. lock = [c \in Cards |-> IF lock[c] = r THEN NoOne ELSE lock[c]]
      BY <3>1 DEF Inv, Types
    <3>3. Throw(r, 500, "timeout") /\ metrics' = metrics /\ faults' = faults
          /\ tx[r].pc # "done"
      BY <2>4, <3>2 DEF ConnectTimeout, Throw, Release, tables
    <3>4. "timeout" \in Causes \ {"none", "23505", "moved"}
      BY DEF Causes
    <3> QED
      BY <2>1, <2>2, <3>3, <3>4, ThrowKeeps
  <2>5. CASE Connect(r)
    BY <2>5, ConnectKeeps
  <2>6. CASE Retry(r)
    BY <2>6, WaitKeeps DEF Retry
  <2>7. CASE LockRow(r)
    BY <2>7, LockRowKeeps
  <2>8. CASE StaleRow(r)
    <3>1. RetryOrGiveUp(r, "40001") /\ tx[r].pc # "done" /\ UNCHANGED faults
      BY <2>8 DEF StaleRow, ToLock, Working
    <3> QED
      BY <3>1, RetryKeeps
  <2>9. CASE CardMissing(r)
    <3> DEFINE cause == "no card"
    <3>1. Throw(r, 404, cause) /\ metrics' = metrics /\ faults' = faults
          /\ tx[r].pc # "done"
      BY <2>9 DEF CardMissing, At
    <3>2. cause \in Causes \ {"none", "23505", "moved"}
      BY DEF Causes
    <3> HIDE DEF cause
    <3> QED
      BY <2>1, <2>2, <3>1, <3>2, ThrowKeeps
  <2>10. CASE VersionConflict(r)
    <3>1. Throw(r, 409, "version") /\ faults' = faults /\ tx[r].pc # "done"
          /\ metrics' = [metrics EXCEPT !.versionConflicts = @ + 1]
      BY <2>10 DEF VersionConflict, At
    <3>2. "version" \in Causes \ {"none", "23505", "moved"}
      BY DEF Causes
    <3>3. /\ metrics' \in [cardMoves : Nat, versionConflicts : Nat, txRetries : Nat]
          /\ metrics'.versionConflicts = metrics.versionConflicts + Added(409)
      BY <2>1, <3>1 DEF Added
    <3> QED
      BY <2>1, <3>1, <3>2, <3>3, ThrowKeeps
  <2>11. CASE ResolveBadRef(r)
    BY <2>11, ResolveBadRefKeeps
  <2>12. CASE RefuseRef(r)
    <3>1. Throw(r, 400, "ref") /\ metrics' = metrics /\ faults' = faults
          /\ tx[r].pc # "done"
      BY <2>12 DEF RefuseRef, At
    <3>2. "ref" \in Causes \ {"none", "23505", "moved"}
      BY DEF Causes
    <3>3. metrics'.versionConflicts = metrics.versionConflicts + Added(400)
      BY <2>2, <3>1
    <3> QED
      BY <2>1, <3>1, <3>2, <3>3, ThrowKeeps
  <2>13. CASE Resolve(r)
    BY <2>13, ResolveKeeps
  <2>14. CASE NoChange(r)
    <3>1. At(r, "neighbours") /\ tx' = [tx EXCEPT ![r].pc = "commit"]
          /\ UNCHANGED <<tables, lock, reply, faults>> /\ metrics' = metrics
      BY <2>14 DEF NoChange
    <3>2. tx[r] \in Calls /\ tx[r].rank = NoRank
      BY <3>1 DEF Inv, Types, Prepared, At
    <3>3. [tx[r] EXCEPT !.pc = "commit"] = [tx[r] EXCEPT !.pc = "commit", !.rank = NoRank]
      BY <3>2 DEF Calls
    <3>4. tx' = [tx EXCEPT ![r].pc = "commit", ![r].rank = NoRank]
      BY <3>1, <3>3
    <3> QED
      BY <2>1, <3>1, <3>4, DecideKeeps
  <2>15. CASE Write(r)
    <3> DEFINE rank == NewRank(tx[r].snap, tx[r].prev, tx[r].next)
    <3>1. CASE rank \in Rank
      <4>1. /\ At(r, "neighbours") /\ ~ InPlace(r)
            /\ tx' = [tx EXCEPT ![r].pc = "commit", ![r].rank = rank]
            /\ metrics' = [metrics EXCEPT !.cardMoves = @ + 1]
            /\ UNCHANGED <<tables, lock, reply, faults>>
        BY <2>15, <3>1 DEF Write
      <4>2. rank \in Rank \cup {NoRank}
        BY <3>1
      <4>3. /\ metrics' \in [cardMoves : Nat, versionConflicts : Nat, txRetries : Nat]
            /\ metrics'.versionConflicts = metrics.versionConflicts
        BY <4>1, CountersKept
      <4> HIDE DEF rank
      <4>4. rank = NewRank(tx[r].snap, tx[r].prev, tx[r].next)
        BY DEF rank
      <4> QED
        BY <4>1, <4>2, <4>3, <4>4, DecideKeeps
    <3>2. CASE rank \notin Rank
      <4>1. Throw(r, 500, "rank") /\ metrics' = metrics /\ faults' = faults
            /\ tx[r].pc # "done"
        BY <2>15, <3>2 DEF Write, At
      <4>2. "rank" \in Causes \ {"none", "23505", "moved"}
        BY DEF Causes
      <4> QED
        BY <2>1, <2>2, <4>1, <4>2, ThrowKeeps
    <3> QED
      BY <3>1, <3>2
  <2>16. CASE SerializationFailure(r)
    <3>1. RetryOrGiveUp(r, "40001") /\ tx[r].pc # "done" /\ UNCHANGED faults
      BY <2>16 DEF SerializationFailure, At, Serializable, Wrote
    <3> QED
      BY <3>1, RetryKeeps
  <2>17. CASE Commit(r)
    <3>1. ~ (Wrote(r) /\ RankTaken(r))
      BY <2>17, WriteFits DEF Commit, Committable
    <3>2. /\ Committable(r) /\ Apply(r) /\ Release(r)
          /\ Answer(r, 200, IF Wrote(r) THEN "moved" ELSE "unchanged")
          /\ metrics' = metrics /\ faults' = faults
      BY <2>17, <3>1 DEF Commit
    <3>3. CASE Wrote(r)
      BY <2>1, <3>1, <3>2, <3>3, ApplyKeeps
    <3>4. CASE ~ Wrote(r)
      BY <2>1, <3>1, <3>2, <3>4, ApplyKeeps
    <3> QED
      BY <3>3, <3>4
  <2>18. CASE DeadlockVictim(r)
    <3>1. RetryOrGiveUp(r, "40P01") /\ UNCHANGED faults
      BY <2>18 DEF DeadlockVictim
    <3>2. tx[r].pc # "done"
      BY <2>18 DEF DeadlockVictim, Deadlocked, Waits, ToLock, Working
    <3> QED
      BY <3>1, <3>2, RetryKeeps
  <2>19. CASE LoseConnection(r)
    <3>1. Throw(r, 500, "connection") /\ metrics' = metrics /\ tx[r].pc # "done"
      BY <2>19 DEF LoseConnection, Working
    <3>2. "connection" \in Causes \ {"none", "23505", "moved"}
      BY DEF Causes
    <3>3. faults' \in 0 .. MaxFaults
      BY <2>1, <2>19, ServiceAssumption DEF LoseConnection
    <3>4. metrics'.versionConflicts = metrics.versionConflicts + Added(500)
      BY <2>2, <3>1
    <3> QED
      BY <2>1, <3>1, <3>2, <3>3, <3>4, ThrowKeeps
  <2>20. CASE CommitUnheard(r)
    <3>1. /\ Committable(r) /\ ~ (Wrote(r) /\ RankTaken(r)) /\ Apply(r) /\ Release(r)
          /\ Answer(r, 500, "connection") /\ metrics' = metrics
      BY <2>20 DEF CommitUnheard
    <3>2. faults' \in 0 .. MaxFaults
      BY <2>1, <2>20, ServiceAssumption DEF CommitUnheard
    <3> QED
      BY <3>1, <3>2, ApplyKeeps
  <2> QED
    BY <1>2, <2>3, <2>4, <2>5, <2>6, <2>7, <2>8, <2>9, <2>10, <2>11, <2>12, <2>13,
       <2>14, <2>15, <2>16, <2>17, <2>18, <2>19, <2>20 DEF Step
<1> QED
  BY <1>1, <1>2 DEF Next

\* The invariant holds in every state.
LEMMA Invariance == Spec => []Inv
BY InitInv, StepKeeps, PTL DEF Spec

-----------------------------------------------------------------------------
(* What the invariant says.                                                *)

\* The tables, the locks and every call have the types the code gives them.
THEOREM TypeCorrect == Spec => []TypeOK
BY Invariance, InvGivesTypes, PTL

\* No row stays locked by a request that sleeps, waits for a connection or has
\* been answered: COMMIT, ROLLBACK and a lost connection free them all.
THEOREM LocksAreReleased == Spec => []LocksEndWithTransaction
<1>1. Inv => LocksEndWithTransaction
  <2> SUFFICES ASSUME Inv, NEW c \in Cards, lock[c] # NoOne
               PROVE  tx[lock[c]].pc \in Working
    BY DEF LocksEndWithTransaction
  <2>1. lock[c] \in Requests
    BY DEF Inv, Types
  <2> QED
    BY <2>1 DEF Inv, LocksHold
<1> QED
  BY <1>1, Invariance, PTL

\* From the new rank to COMMIT the card and both neighbours are locked by the
\* mover and as it read them, whatever else runs.
THEOREM DropPointIsPinned == Spec => []NeighboursPinned
<1>1. Inv => NeighboursPinned
  <2> SUFFICES ASSUME Inv, NEW r \in Requests, At(r, "neighbours") \/ At(r, "commit"),
                      NEW c \in {tx[r].cmd.card} \cup tx[r].prev \cup tx[r].next
               PROVE  lock[c] = r /\ board[c] = tx[r].snap[c]
    BY DEF NeighboursPinned
  <2>1. tx[r].pc \in {"neighbours", "commit"} /\ tx[r].todo = <<>> /\ tx[r] \in Calls
    BY DEF At, Inv, Types
  <2>2. Claimed(r, c) /\ tx[r].cmd.card \in Cards
    BY <2>1 DEF Inv, Prepared
  <2>3. c \in Cards
    BY <2>1, <2>2 DEF Calls, RowSets
  <2>4. lock[c] = r
    BY <2>1, <2>2 DEF Claimed, Lists
  <2> QED
    BY <2>3, <2>4 DEF Inv, LocksHold
<1> QED
  BY <1>1, Invariance, PTL

\* kanban_version_conflicts_total is the number of 409 answers, however often
\* the transactions were retried.
THEOREM ConflictsAreCounted == Spec => []ConflictsCounted
<1>1. Inv => ConflictsCounted
  BY DEF Inv, Counted, Conflicts, ConflictsCounted
<1> QED
  BY <1>1, Invariance, PTL

\* What a request was answered is what happened to it: 400, 404, 409 and 503
\* mean that it left no trace, "moved" that it was applied, and no request is
\* applied twice.
THEOREM AnswersStayTrue == Spec => []AnswersAreTrue
<1>1. Inv => AnswersAreTrue
  <2> SUFFICES ASSUME Inv, NEW r \in Requests
               PROVE  /\ Cardinality(RowsOf(r)) <= 1
                      /\ reply[r].cause = "moved" => RowsOf(r) # {}
                      /\ reply[r].cause \notin {"moved", "connection"} => RowsOf(r) = {}
    BY DEF AnswersAreTrue
  <2>1. Told(r)
    BY DEF Inv
  <2>2. Cardinality(RowsOf(r)) <= 1
    <3>1. CASE RowsOf(r) = {}
      BY <3>1, FS_EmptySet
    <3>2. ASSUME NEW i \in RowsOf(r)
          PROVE  Cardinality(RowsOf(r)) <= 1
      <4>1. RowsOf(r) = {i}
        BY <3>2 DEF Inv, Once, RowsOf
      <4>2. Cardinality({i}) = 1
        BY FS_Singleton
      <4> QED
        BY <4>1, <4>2
    <3> QED
      BY <3>1, <3>2
  <2> QED
    BY <2>1, <2>2 DEF Told
<1> QED
  BY <1>1, Invariance, PTL

\* The half of BackstopsNeverFire that is about the database: the UNIQUE
\* constraint never refuses a commit.
ConstraintNeverFires == \A r \in Requests : reply[r].cause # "23505"

\* ... and of the half about generateKeyBetween: it is never called with its
\* arguments in the wrong order, for which it throws.
KeysAskedInOrder ==
  \A r \in Requests : At(r, "neighbours") =>
     LET a == RankOf(tx[r].snap, tx[r].prev)
         b == RankOf(tx[r].snap, tx[r].next)
     IN  a # NoRank /\ b # NoRank => Before(a, b)

\* Two movers into one gap compute the same key, and still the second never
\* meets the UNIQUE constraint: it is a serialization failure, which is retried.
\* And prev is always below next when a key between them is asked for.
THEOREM BackstopsStayQuiet == Spec => [](ConstraintNeverFires /\ KeysAskedInOrder)
<1>1. Inv => ConstraintNeverFires
  BY DEF Inv, Told, ConstraintNeverFires, NoReply
<1>2. Inv => KeysAskedInOrder
  <2> SUFFICES ASSUME Inv, NEW r \in Requests, At(r, "neighbours"),
                      RankOf(tx[r].snap, tx[r].prev) # NoRank,
                      RankOf(tx[r].snap, tx[r].next) # NoRank
               PROVE  Before(RankOf(tx[r].snap, tx[r].prev), RankOf(tx[r].snap, tx[r].next))
    BY DEF KeysAskedInOrder
  <2>1. /\ tx[r].prev \in RowSets /\ tx[r].next \in RowSets
        /\ Neighbours(tx[r].snap, tx[r].cmd, tx[r].prev, tx[r].next)
    BY DEF Inv, Types, Calls, Prepared, At
  <2>2. PICK p, n : tx[r].prev = {p} /\ tx[r].next = {n}
    BY <2>1 DEF RowSets, RankOf
  <2>3. Below(tx[r].snap, p, n)
    BY <2>1, <2>2, NeighboursAscend
  <2> QED
    BY <2>2, <2>3 DEF RankOf, Below
<1> QED
  BY <1>1, <1>2, Invariance, PTL

-----------------------------------------------------------------------------
(* generateKeyBetween has a key as long as there is room for one.          *)

\* height says how many cards may still be put in front of a rank: a rank
\* between two others has the smaller height of the two, less one.
Roomy(height, n) ==
  /\ height \in [Rank -> Nat]
  /\ \A j, k \in Rank \cup {NoRank}, m \in 1 .. n :
       /\ j # NoRank /\ k # NoRank => Before(j, k)
       /\ j # NoRank => height[j] > m
       /\ k # NoRank => height[k] > m
       => KeyBetween(j, k) \in Rank /\ height[KeyBetween(j, k)] >= m

Left(n) == n - Len(audit)

\* No rank that a call may build on is lower than the moves that are left.
RoomLeft(height, n) ==
  /\ \A c \in Cards : height[board[c].rank] > Left(n)
  /\ \A r \in Requests :
       /\ \A c \in Cards : height[tx[r].snap[c].rank] > Left(n)
       /\ tx[r].rank # NoRank => height[tx[r].rank] >= Left(n)
       /\ reply[r].cause # "rank"

\* Every row of the ledger is of another request, and none of this one.
LEMMA MovesAreLeft ==
  ASSUME Inv, IsFiniteSet(Requests), NEW r \in Requests, tx[r].pc # "done"
  PROVE  Left(Cardinality(Requests)) \in 1 .. Cardinality(Requests)
<1> DEFINE n == Len(audit)
           S == Requests \ {r}
           f == [i \in 1 .. n |-> audit[i].request]
<1>1. n \in Nat /\ \A i \in 1 .. n : i \in DOMAIN audit /\ audit[i].request \in Requests
  <2>1. audit \in Seq(Promise!AuditRows)
    BY DEF Inv, Types
  <2>2. \A a \in Promise!AuditRows : a.request \in Requests
    BY DEF Promise!AuditRows
  <2> QED
    BY <2>1, <2>2
<1>2. RowsOf(r) = {}
  BY DEF Inv, Told, NoReply
<1>3. \A i \in 1 .. n : audit[i].request \in S
  BY <1>1, <1>2 DEF RowsOf
<1>4. f \in Injection(1 .. n, S)
  <2>1. \A i, j \in 1 .. n : i # j => audit[i].request # audit[j].request
    BY <1>1 DEF Inv, Once
  <2> HIDE DEF n, S
  <2> QED
    BY <1>3, <2>1 DEF Injection, IsInjective
<1>5. /\ IsFiniteSet(S) /\ Cardinality(S) = Cardinality(Requests) - 1
      /\ Cardinality(Requests) \in Nat /\ Cardinality(S) \in Nat
  BY FS_RemoveElement, FS_CardinalityType
<1>6. Cardinality(1 .. n) = n
  <2> HIDE DEF n
  <2>1. 1 \in Int /\ n \in Int
    BY <1>1
  <2>2. Cardinality(1 .. n) = IF 1 > n THEN 0 ELSE n - 1 + 1
    BY <2>1, FS_Interval
  <2> QED
    BY <1>1, <2>2
<1> HIDE DEF f, S
<1>7. Cardinality(1 .. n) <= Cardinality(S)
  BY <1>4, <1>5, FS_Injection
<1> HIDE DEF n
<1>8. Cardinality(Requests) - n \in 1 .. Cardinality(Requests)
  BY <1>1, <1>5, <1>6, <1>7
<1> QED
  BY <1>8 DEF Left, n

\* A step that adds no ledger row and reads only what is there keeps the room.
LEMMA RoomIsKept ==
  ASSUME NEW height, NEW n, RoomLeft(height, n), board' = board, audit' = audit,
         \A c \in Cards : height[Seed[c].rank] > Left(n),
         \A q \in Requests : /\ tx'[q].snap \in {tx[q].snap, board, Seed}
                             /\ tx'[q].rank \in {tx[q].rank, NoRank}
                             /\ reply'[q].cause # "rank"
  PROVE  RoomLeft(height, n)'
<1>1. Left(n)' = Left(n)
  BY DEF Left
<1>2. ASSUME NEW q \in Requests
      PROVE  /\ \A c \in Cards : height[tx'[q].snap[c].rank] > Left(n)
             /\ tx'[q].rank # NoRank => height[tx'[q].rank] >= Left(n)
  BY DEF RoomLeft
<1> QED
  BY <1>1, <1>2 DEF RoomLeft

\* What the calls work on, and what they were answered, after a step that
\* computes no rank.
BuildsOnWhatIsThere ==
  \A q \in Requests : /\ tx'[q].snap \in {tx[q].snap, board, Seed}
                      /\ tx'[q].rank \in {tx[q].rank, NoRank}
                      /\ reply'[q].cause # "rank"

LEMMA AnswersBuildOnNothing ==
  ASSUME Inv, \A q \in Requests : reply[q].cause # "rank", NEW r \in Requests,
         NEW status, NEW cause, cause # "rank", Answer(r, status, cause)
  PROVE  BuildsOnWhatIsThere
<1>1. tx \in [Requests -> Calls] /\ reply \in [Requests -> Replies]
  BY DEF Inv, Types
<1> DEFINE done == Call("done", tx[r].cmd, tx[r].attempt)
<1>2. done.snap = Seed /\ done.rank = NoRank
  BY DEF Call
<1> HIDE DEF done
<1>3. /\ tx' = [tx EXCEPT ![r] = done]
      /\ reply' = [reply EXCEPT ![r] = [status |-> status, cause |-> cause]]
  BY DEF Answer, done
<1>4. \A q \in Requests : tx'[q] = tx[q] \/ tx'[q] = done
  BY <1>1, <1>3
<1>5. \A q \in Requests : reply'[q].cause # "rank"
  BY <1>1, <1>3
<1> QED
  BY <1>2, <1>4, <1>5 DEF BuildsOnWhatIsThere

LEMMA RetriesBuildOnNothing ==
  ASSUME Inv, \A q \in Requests : reply[q].cause # "rank", NEW r \in Requests,
         NEW sqlstate, sqlstate # "rank", RetryOrGiveUp(r, sqlstate)
  PROVE  BuildsOnWhatIsThere
<1>1. tx \in [Requests -> Calls]
  BY DEF Inv, Types
<1>2. CASE tx[r].attempt < MaxRetries
  <2> DEFINE sleep == Call("backoff", tx[r].cmd, tx[r].attempt + 1)
  <2>1. sleep.snap = Seed /\ sleep.rank = NoRank
    BY DEF Call
  <2> HIDE DEF sleep
  <2>2. tx' = [tx EXCEPT ![r] = sleep] /\ reply' = reply
    BY <1>2 DEF RetryOrGiveUp, sleep
  <2>3. \A q \in Requests : tx'[q] = tx[q] \/ tx'[q] = sleep
    BY <1>1, <2>2
  <2> QED
    BY <2>1, <2>2, <2>3 DEF BuildsOnWhatIsThere
<1>3. CASE ~ (tx[r].attempt < MaxRetries)
  <2>1. Answer(r, 503, sqlstate)
    BY <1>3 DEF RetryOrGiveUp
  <2> QED
    BY <2>1, AnswersBuildOnNothing
<1> QED
  BY <1>2, <1>3

\* A new rank leaves room for the moves that are left without this one.
LEMMA NewRankHasRoom ==
  ASSUME Inv, IsFiniteSet(Requests), NEW height, Roomy(height, Cardinality(Requests)),
         RoomLeft(height, Cardinality(Requests)), NEW r \in Requests, At(r, "neighbours")
  PROVE  LET rank == NewRank(tx[r].snap, tx[r].prev, tx[r].next)
         IN  rank \in Rank /\ height[rank] >= Left(Cardinality(Requests))
<1> DEFINE n == Cardinality(Requests)
           b == tx[r].snap
           j == RankOf(b, tx[r].prev)
           k == RankOf(b, tx[r].next)
<1>1. /\ tx[r].prev \in RowSets /\ tx[r].next \in RowSets /\ b \in Boards
      /\ Neighbours(b, tx[r].cmd, tx[r].prev, tx[r].next)
      /\ tx[r].pc = "neighbours"
  BY DEF Inv, Types, Calls, Prepared, At
<1>2. Left(n) \in 1 .. n
  BY <1>1, MovesAreLeft
<1>3. ASSUME NEW rows \in RowSets
      PROVE  \/ RankOf(b, rows) = NoRank
             \/ \E c \in Cards : rows = {c} /\ RankOf(b, rows) = b[c].rank
  BY DEF RowSets, RankOf
<1>4. \A c \in Cards : b[c].rank \in Rank /\ height[b[c].rank] > Left(n)
  BY <1>1 DEF Boards, Row, RoomLeft
<1>5. /\ j \in Rank \cup {NoRank} /\ k \in Rank \cup {NoRank}
      /\ j # NoRank => height[j] > Left(n)
      /\ k # NoRank => height[k] > Left(n)
  BY <1>1, <1>3, <1>4
<1>6. ASSUME j # NoRank, k # NoRank PROVE Before(j, k)
  <2>1. PICK p \in Cards : tx[r].prev = {p} /\ j = b[p].rank
    BY <1>1, <1>3, <1>6
  <2>2. PICK q \in Cards : tx[r].next = {q} /\ k = b[q].rank
    BY <1>1, <1>3, <1>6
  <2>3. Below(b, p, q)
    <3> HIDE DEF j, k
    <3> QED
      BY <1>1, <2>1, <2>2, NeighboursAscend
  <2> QED
    BY <2>1, <2>2, <2>3 DEF Below
<1> HIDE DEF j, k, n
<1>7. KeyBetween(j, k) \in Rank /\ height[KeyBetween(j, k)] >= Left(n)
  BY <1>2, <1>5, <1>6 DEF Roomy, n
<1> QED
  BY <1>7 DEF NewRank, j, k, n

LEMMA RoomStep ==
  ASSUME Inv, IsFiniteSet(Requests), NEW height, Roomy(height, Cardinality(Requests)),
         RoomLeft(height, Cardinality(Requests)), [Next]_vars,
         \A c \in Cards : height[Seed[c].rank] > Cardinality(Requests)
  PROVE  RoomLeft(height, Cardinality(Requests))'
<1> DEFINE n == Cardinality(Requests)
<1>1. /\ tx \in [Requests -> Calls] /\ reply \in [Requests -> Replies]
      /\ \A q \in Requests : reply[q].cause # "rank"
      /\ Len(audit) \in Nat /\ n \in Nat
  BY FS_CardinalityType DEF Inv, Types, RoomLeft
<1>2. \A c \in Cards : height[Seed[c].rank] > Left(n)
  <2>1. \A c \in Cards : Seed[c].rank \in Rank
    BY InputAssumption DEF Boards, Row
  <2>2. \A c \in Cards : height[Seed[c].rank] \in Nat
    BY <2>1 DEF Roomy
  <2> HIDE DEF n
  <2>3. Left(n) \in Int /\ Left(n) <= n
    BY <1>1 DEF Left
  <2> QED
    BY <1>1, <2>2, <2>3 DEF n
<1> HIDE DEF n
<1>3. ASSUME board' = board, audit' = audit, BuildsOnWhatIsThere
      PROVE  RoomLeft(height, n)'
  BY <1>2, <1>3, RoomIsKept DEF n, BuildsOnWhatIsThere
<1>4. ASSUME UNCHANGED vars
      PROVE  RoomLeft(height, n)'
  <2>1. BuildsOnWhatIsThere
    BY <1>1, <1>4 DEF BuildsOnWhatIsThere, vars
  <2> QED
    BY <1>3, <1>4, <2>1 DEF vars, n
<1>5. ASSUME NEW r \in Requests,
             \/ Submit(r) \/ ConnectTimeout(r) \/ Step(r) \/ DeadlockVictim(r)
             \/ LoseConnection(r) \/ CommitUnheard(r)
      PROVE  RoomLeft(height, n)'
  <2>1. CASE \/ Submit(r) \/ Connect(r) \/ Retry(r) \/ LockRow(r) \/ ResolveBadRef(r)
             \/ Resolve(r) \/ NoChange(r)
    <3>1. board' = board /\ audit' = audit /\ reply' = reply
      BY <2>1 DEF Submit, Connect, Retry, LockRow, ResolveBadRef, Resolve, NoChange, tables
    <3>2. \A q \in Requests : tx'[q].snap \in {tx[q].snap, board} /\ tx'[q].rank = tx[q].rank
      <4>1. CASE Submit(r)
        BY <1>1, <4>1 DEF Submit, Calls
      <4>2. CASE Connect(r)
        BY <1>1, <4>2 DEF Connect, Calls
      <4>3. CASE Retry(r)
        BY <1>1, <4>3 DEF Retry, Calls
      <4>4. CASE LockRow(r)
        BY <1>1, <4>4 DEF LockRow, Calls
      <4>5. CASE ResolveBadRef(r)
        BY <1>1, <4>5 DEF ResolveBadRef, Calls
      <4>6. CASE Resolve(r)
        BY <1>1, <4>6 DEF Resolve, Calls
      <4>7. CASE NoChange(r)
        BY <1>1, <4>7 DEF NoChange, Calls
      <4> QED
        BY <2>1, <4>1, <4>2, <4>3, <4>4, <4>5, <4>6, <4>7
    <3>3. BuildsOnWhatIsThere
      BY <1>1, <3>1, <3>2 DEF BuildsOnWhatIsThere
    <3> QED
      BY <1>3, <3>1, <3>3
  <2>2. CASE StaleRow(r) \/ DeadlockVictim(r) \/ SerializationFailure(r)
    <3>1. PICK sqlstate \in {"40001", "40P01"} : RetryOrGiveUp(r, sqlstate)
      BY <2>2 DEF StaleRow, DeadlockVictim, SerializationFailure
    <3>2. board' = board /\ audit' = audit
      BY <3>1 DEF RetryOrGiveUp, tables
    <3>3. BuildsOnWhatIsThere
      BY <1>1, <3>1, RetriesBuildOnNothing
    <3> QED
      BY <1>3, <3>2, <3>3
  <2>3. CASE ConnectTimeout(r) \/ CardMissing(r) \/ VersionConflict(r) \/ RefuseRef(r) \/ LoseConnection(r)
    <3>1. board' = board /\ audit' = audit
      BY <2>3 DEF ConnectTimeout, CardMissing, VersionConflict, RefuseRef, LoseConnection, Throw, tables
    <3>2. ASSUME NEW status, NEW cause, cause # "rank", Answer(r, status, cause)
          PROVE  BuildsOnWhatIsThere
      BY <1>1, <3>2, AnswersBuildOnNothing
    <3>3. BuildsOnWhatIsThere
      <4>1. CASE ConnectTimeout(r)
        <5>1. Answer(r, 500, "timeout")
          BY <4>1 DEF ConnectTimeout, Throw
        <5> QED
          BY <3>2, <5>1, "timeout" # "rank"
      <4>2. CASE CardMissing(r)
        <5>1. Answer(r, 404, "no card")
          BY <4>2 DEF CardMissing, Throw
        <5> QED
          BY <3>2, <5>1, "no card" # "rank"
      <4>3. CASE VersionConflict(r)
        <5>1. Answer(r, 409, "version")
          BY <4>3 DEF VersionConflict, Throw
        <5> QED
          BY <3>2, <5>1, "version" # "rank"
      <4>4. CASE RefuseRef(r)
        <5>1. Answer(r, 400, "ref")
          BY <4>4 DEF RefuseRef, Throw
        <5> QED
          BY <3>2, <5>1, "ref" # "rank"
      <4>5. CASE LoseConnection(r)
        <5>1. Answer(r, 500, "connection")
          BY <4>5 DEF LoseConnection, Throw
        <5> QED
          BY <3>2, <5>1, "connection" # "rank"
      <4> QED
        BY <2>3, <4>1, <4>2, <4>3, <4>4, <4>5
    <3> QED
      BY <1>3, <3>1, <3>3
  <2>4. CASE Write(r)
    <3> DEFINE rank == NewRank(tx[r].snap, tx[r].prev, tx[r].next)
    <3>1. rank \in Rank /\ height[rank] >= Left(n)
      BY <2>4, NewRankHasRoom DEF Write, n
    <3> HIDE DEF rank
    <3>2. /\ tx' = [tx EXCEPT ![r].pc = "commit", ![r].rank = rank]
          /\ board' = board /\ audit' = audit /\ reply' = reply
      BY <2>4, <3>1 DEF Write, tables, rank
    <3>3. \A q \in Requests : /\ tx'[q].snap = tx[q].snap
                              /\ tx'[q].rank = tx[q].rank \/ tx'[q].rank = rank
      BY <1>1, <3>2 DEF Calls
    <3>4. Left(n)' = Left(n)
      BY <3>2 DEF Left, n
    <3> QED
      BY <3>1, <3>2, <3>3, <3>4 DEF RoomLeft, n
  <2>5. CASE Commit(r) \/ CommitUnheard(r)
    <3>1. CASE Wrote(r) /\ ~ RankTaken(r)
      <4> DEFINE card == tx[r].cmd.card
      <4>1. Serializable(r) /\ Apply(r) /\ \E status, cause : cause # "rank" /\ Answer(r, status, cause)
        <5>1. /\ Serializable(r) /\ Apply(r)
              /\ Answer(r, 200, "moved") \/ Answer(r, 500, "connection")
          BY <2>5, <3>1 DEF Commit, CommitUnheard, Committable
        <5>2. "moved" # "rank" /\ "connection" # "rank"
          OBVIOUS
        <5> QED
          BY <5>1, <5>2
      <4>2. /\ PositionOf(board'[card]) = NewPosition(r)
            /\ \A d \in Cards \ {card} : board'[d] = board[d]
            /\ card \in Cards /\ DOMAIN audit' = 1 .. Len(audit) + 1
            /\ audit' \in Seq(Promise!AuditRows)
        BY <3>1, <4>1, ApplyAdds, WriteFits
      <4>3. board'[card].rank = tx[r].rank /\ tx[r].rank # NoRank /\ tx[r].rank \in Rank
        BY <3>1, <4>1, <4>2, WriteFits DEF PositionOf, NewPosition, Wrote
      <4>4. Len(audit') = Len(audit) + 1
        <5>1. \E a : audit' = Append(audit, a)
          BY <3>1, <4>1 DEF Apply
        <5>2. audit \in Seq(Promise!AuditRows)
          BY DEF Inv, Types
        <5> QED
          BY <5>1, <5>2
      <4>5. Left(n)' = Left(n) - 1 /\ Left(n) \in Int
        BY <1>1, <4>4 DEF Left, n
      <4>6. BuildsOnWhatIsThere
        BY <1>1, <4>1, AnswersBuildOnNothing
      <4>7. \A k \in Rank : height[k] \in Nat
        BY DEF Roomy
      <4>8. /\ \A c \in Cards : board[c].rank \in Rank
            /\ \A c \in Cards : Seed[c].rank \in Rank
            /\ \A q \in Requests : /\ \A c \in Cards : tx[q].snap[c].rank \in Rank
                                   /\ tx[q].rank # NoRank => tx[q].rank \in Rank
        BY InputAssumption DEF Inv, Types, Calls, Boards, Row
      <4> DEFINE l == Left(n)
      <4>9. \A k \in Rank : (height[k] > l => height[k] > l - 1) /\ (height[k] >= l => height[k] > l - 1 /\ height[k] >= l - 1)
        <5> HIDE DEF l
        <5>1. l \in Int
          BY <4>5 DEF l
        <5> QED
          BY <4>7, <5>1
      <4>10. /\ \A c \in Cards : height[board[c].rank] > l
             /\ \A q \in Requests : /\ \A c \in Cards : height[tx[q].snap[c].rank] > l
                                    /\ tx[q].rank # NoRank => height[tx[q].rank] >= l
             /\ \A c \in Cards : height[Seed[c].rank] > l
        BY <1>2 DEF RoomLeft, n
      <4> HIDE DEF l
      <4>11. \A c \in Cards : height[board'[c].rank] > l - 1
        BY <4>2, <4>3, <4>8, <4>9, <4>10
      <4>12. ASSUME NEW q \in Requests
             PROVE  /\ \A c \in Cards : height[tx'[q].snap[c].rank] > l - 1
                    /\ tx'[q].rank # NoRank => height[tx'[q].rank] >= l - 1
                    /\ reply'[q].cause # "rank"
        <5>1. /\ tx'[q].snap \in {tx[q].snap, board, Seed}
              /\ tx'[q].rank \in {tx[q].rank, NoRank}
              /\ reply'[q].cause # "rank"
          BY <4>6 DEF BuildsOnWhatIsThere
        <5>2. \A c \in Cards : height[tx'[q].snap[c].rank] > l - 1
          BY <4>8, <4>9, <4>10, <5>1
        <5>3. tx'[q].rank # NoRank => height[tx'[q].rank] >= l - 1
          BY <4>8, <4>9, <4>10, <5>1
        <5> QED
          BY <5>1, <5>2, <5>3
      <4> QED
        BY <4>5, <4>11, <4>12 DEF RoomLeft, l, n
    <3>2. CASE ~ Wrote(r)
      <4>1. /\ board' = board /\ audit' = audit
            /\ \E status, cause : cause # "rank" /\ Answer(r, status, cause)
        <5>1. /\ board' = board /\ audit' = audit
              /\ Answer(r, 200, "unchanged") \/ Answer(r, 500, "connection")
          BY <2>5, <3>2 DEF Commit, CommitUnheard, Apply, tables
        <5>2. "unchanged" # "rank" /\ "connection" # "rank"
          OBVIOUS
        <5> QED
          BY <5>1, <5>2
      <4>2. BuildsOnWhatIsThere
        BY <1>1, <4>1, AnswersBuildOnNothing
      <4> QED
        BY <1>3, <4>1, <4>2
    <3>3. Wrote(r) => ~ RankTaken(r)
      BY <2>5, WriteFits DEF Commit, CommitUnheard, Committable
    <3> QED
      BY <3>1, <3>2, <3>3
  <2> QED
    BY <1>5, <2>1, <2>2, <2>3, <2>4, <2>5 DEF Step
<1>6. RoomLeft(height, n)'
  BY <1>4, <1>5 DEF Next
<1> QED
  BY <1>6 DEF n

\* Neither backstop ever fires, where the ranks have room for as many moves as
\* there are requests and the seed lies that far up: the UNIQUE constraint
\* refuses no commit, and generateKeyBetween always has a key, however the
\* transactions are interleaved, retried and lost.
THEOREM BackstopsHold ==
  ASSUME IsFiniteSet(Requests), NEW height, Roomy(height, Cardinality(Requests)),
         \A c \in Cards : height[Seed[c].rank] > Cardinality(Requests)
  PROVE  Spec => []BackstopsNeverFire
<1> DEFINE n == Cardinality(Requests)
           Room == RoomLeft(height, n)
<1>1. Init => Room
  <2> SUFFICES ASSUME Init PROVE Room
    OBVIOUS
  <2>1. board = Seed /\ Len(audit) = 0 /\ n \in Nat
    BY FS_CardinalityType DEF Init
  <2>2. \A r \in Requests : tx[r].snap = Seed /\ tx[r].rank = NoRank /\ reply[r].cause # "rank"
    BY DEF Init, Call, NoReply
  <2>3. Left(n) = n
    BY <2>1 DEF Left
  <2> QED
    BY <2>1, <2>2, <2>3 DEF RoomLeft
<1>2. Inv /\ Room /\ [Next]_vars => Room'
  BY RoomStep
<1>3. Inv /\ Room => BackstopsNeverFire
  BY DEF Inv, Told, NoReply, RoomLeft, BackstopsNeverFire
<1> QED
  BY <1>1, <1>2, <1>3, Invariance, PTL DEF Spec

-----------------------------------------------------------------------------
(* The service implements the board.                                       *)

\* Board's words mean what they mean here: both modules extend ClientsTable.
LEMMA SameWords ==
  ASSUME NEW b, NEW cmd, NEW prev, NEW next
  PROVE  /\ Promise!ToStatus(b, cmd) = ToStatus(b, cmd)
         /\ Promise!NewRank(b, prev, next) = NewRank(b, prev, next)
         /\ Promise!StaysPut(b, cmd, prev, next) <=> StaysPut(b, cmd, prev, next)
         /\ Promise!Neighbours(b, cmd, prev, next) <=> Neighbours(b, cmd, prev, next)
<1>1. Promise!ToStatus(b, cmd) = ToStatus(b, cmd)
  BY DEF Promise!ToStatus, ToStatus
<1>2. Promise!NewRank(b, prev, next) = NewRank(b, prev, next)
  BY DEF Promise!NewRank, NewRank, Promise!RankOf, RankOf
<1>3. Promise!StaysPut(b, cmd, prev, next) <=> StaysPut(b, cmd, prev, next)
  BY <1>1 DEF Promise!StaysPut, StaysPut, Promise!Below, Below
<1>4. Promise!Neighbours(b, cmd, prev, next) <=> Neighbours(b, cmd, prev, next)
  <2>1. \A s, x : Promise!LaneRows(b, s, x) = LaneRows(b, s, x)
    BY DEF Promise!LaneRows, LaneRows
  <2>2. \A c, d : Promise!Below(b, c, d) <=> Below(b, c, d)
    BY DEF Promise!Below, Below
  <2>3. \A S : Promise!Cardinality(S) = Cardinality(S)
    BY DEF Promise!Cardinality, Cardinality
  <2>4. \A S, rows : /\ Promise!First(b, S, rows) <=> First(b, S, rows)
                     /\ Promise!Last(b, S, rows) <=> Last(b, S, rows)
    BY <2>2 DEF Promise!First, First, Promise!Last, Last
  <2>5. \A s, rank, dir, x, rows :
           Promise!Adjacent(b, s, rank, dir, x, rows) <=> Adjacent(b, s, rank, dir, x, rows)
    BY <2>1, <2>4, ZenonT(60) DEF Promise!Adjacent, Adjacent
  <2>6. \A s, end, x, rows :
           Promise!Extreme(b, s, end, x, rows) <=> Extreme(b, s, end, x, rows)
    BY <2>1, <2>4 DEF Promise!Extreme, Extreme
  <2>7. \A s, n, x, rows :
           Promise!AtOffset(b, s, n, x, rows) <=> AtOffset(b, s, n, x, rows)
    BY <2>1, <2>2, <2>3, ZenonT(60) DEF Promise!AtOffset, AtOffset
  <2>8. Promise!Slot(b, cmd) = Slot(b, cmd)
    BY <1>1, <2>1, <2>3 DEF Promise!Slot, Slot, Promise!LaneSize, LaneSize
  <2>9. Promise!RefInLane(b, cmd) <=> RefInLane(b, cmd)
    BY <1>1, <2>1 DEF Promise!RefInLane, RefInLane
  <2> QED
    BY <1>1, <2>5, <2>6, <2>7, <2>8, <2>9 DEF Promise!Neighbours, Neighbours
<1> QED
  BY <1>1, <1>2, <1>3, <1>4

LEMMA SameWrites ==
  ASSUME NEW r, NEW b, NEW card, NEW row, NEW position
  PROVE  /\ Promise!Updated(b, card, position) = Updated(b, card, position)
         /\ Promise!AuditRow(r, card, row, position) = AuditRow(r, card, row, position)
         /\ Promise!Event(card, row, position) = Event(card, row, position)
<1>1. Promise!Updated(b, card, position) = Updated(b, card, position)
  BY DEF Promise!Updated, Updated
<1>2. Promise!PositionOf(row) = PositionOf(row)
  BY DEF Promise!PositionOf, PositionOf
<1>3. Promise!AuditRow(r, card, row, position) = AuditRow(r, card, row, position)
  BY <1>2 DEF Promise!AuditRow, AuditRow
<1>4. Promise!Event(card, row, position) = Event(card, row, position)
  BY <1>2 DEF Promise!Event, Event
<1> QED
  BY <1>1, <1>3, <1>4

\* A commit of a transaction that wrote is a move of Board, from the board of
\* that instant.
LEMMA CommitIsMove ==
  ASSUME Inv, NEW r \in Requests, Committable(r), Wrote(r), Apply(r)
  PROVE  Promise!Move(r, tx[r].cmd)
<1> DEFINE cmd == tx[r].cmd
           prev == tx[r].prev
           next == tx[r].next
<1>1. Serializable(r) /\ tx[r].pc = "commit"
  BY DEF Committable
<1>2. /\ cmd.card \in Cards
      /\ board = tx[r].snap /\ board[cmd.card].version = cmd.version
      /\ prev \in RowSets /\ next \in RowSets
      /\ Neighbours(board, cmd, prev, next) /\ ~ StaysPut(board, cmd, prev, next)
      /\ tx[r].rank = NewRank(board, prev, next) /\ tx[r].rank \in Rank
  BY <1>1, WriteFits
<1>3. Promise!Unapplied(r)
  BY <1>1 DEF Inv, Told, NoReply, RowsOf, Promise!Unapplied
<1>4. Promise!RowSets = RowSets
  BY DEF Promise!RowSets, RowSets
<1>5. NewPosition(r) = [status |-> ToStatus(board, cmd), rank |-> NewRank(board, prev, next)]
  BY <1>2 DEF NewPosition
<1>6. Promise!Commit(r, cmd.card, NewPosition(r))
  BY <1>2, SameWrites, SMTT(30) DEF Apply, Promise!Commit
<1>7. /\ Promise!Neighbours(board, cmd, prev, next)
      /\ ~ Promise!StaysPut(board, cmd, prev, next)
      /\ Promise!NewRank(board, prev, next) \in Rank
      /\ Promise!Commit(r, cmd.card, [status |-> Promise!ToStatus(board, cmd),
                                      rank |-> Promise!NewRank(board, prev, next)])
  BY <1>2, <1>5, <1>6, SameWords
<1> QED
  BY <1>2, <1>3, <1>4, <1>7 DEF Promise!Move

\* Interleaved transactions with retries, deadlocks and lost connections
\* implement the promise: a commit that wrote is one atomic move, the one its
\* own request asked for, and no other step changes a table.
THEOREM ServiceImplementsBoard == Spec => RefinesBoard
<1>1. Init => Promise!Init
  BY DEF Init, Promise!Init
<1>2. Inv /\ [Next]_vars => [OwnMove]_tables
  <2> SUFFICES ASSUME Inv, [Next]_vars
               PROVE  OwnMove \/ UNCHANGED tables
    OBVIOUS
  <2>1. CASE UNCHANGED vars
    BY <2>1 DEF vars, tables
  <2>2. ASSUME NEW r \in Requests, Committable(r), Apply(r)
        PROVE  OwnMove \/ UNCHANGED tables
    <3>1. CASE Wrote(r)
      BY <2>2, <3>1, CommitIsMove DEF OwnMove
    <3>2. CASE ~ Wrote(r)
      BY <2>2, <3>2 DEF Apply
    <3> QED
      BY <3>1, <3>2
  <2>3. ASSUME NEW r \in Requests,
               \/ Submit(r) \/ ConnectTimeout(r) \/ Step(r) \/ DeadlockVictim(r)
               \/ LoseConnection(r) \/ CommitUnheard(r)
        PROVE  (UNCHANGED tables) \/ (Committable(r) /\ Apply(r))
    <3>1. (\E cause : RetryOrGiveUp(r, cause)) => UNCHANGED tables
      BY DEF RetryOrGiveUp, Throw
    <3>2. \A status, body : Throw(r, status, body) => UNCHANGED tables
      BY DEF Throw
    <3> HIDE DEF tables
    <3>3. CASE Submit(r) \/ ConnectTimeout(r) \/ DeadlockVictim(r) \/ LoseConnection(r)
      BY <3>1, <3>2, <3>3 DEF Submit, ConnectTimeout, DeadlockVictim, LoseConnection
    <3>4. CASE CommitUnheard(r)
      BY <3>4 DEF CommitUnheard
    <3>5. CASE Step(r)
      <4>1. CASE Connect(r) \/ Retry(r) \/ LockRow(r) \/ StaleRow(r)
        BY <3>1, <3>2, <4>1 DEF Connect, Retry, LockRow, StaleRow
      <4>2. CASE \/ CardMissing(r) \/ VersionConflict(r) \/ ResolveBadRef(r)
                 \/ RefuseRef(r) \/ Resolve(r)
        BY <3>1, <3>2, <4>2
        DEF CardMissing, VersionConflict, ResolveBadRef, RefuseRef, Resolve
      <4>3. CASE NoChange(r) \/ Write(r) \/ SerializationFailure(r)
        BY <3>1, <3>2, <4>3 DEF NoChange, Write, SerializationFailure
      <4>4. CASE Commit(r)
        BY <3>2, <4>4 DEF Commit
      <4> QED
        BY <3>5, <4>1, <4>2, <4>3, <4>4 DEF Step
    <3> QED
      BY <2>3, <3>3, <3>4, <3>5
  <2> QED
    BY <2>1, <2>2, <2>3 DEF Next
<1>3. Inv /\ [OwnMove]_tables => [Promise!Next]_Promise!vars
  <2>1. tables = Promise!vars /\ (UNCHANGED tables => UNCHANGED Promise!vars)
    BY DEF tables, Promise!vars
  <2>2. Inv => \A r \in Requests : tx[r].cmd \in Commands
    BY DEF Inv, Types, Calls
  <2> QED
    BY <2>1, <2>2 DEF OwnMove, Promise!Next
<1> QED
  BY <1>1, <1>2, <1>3, Invariance, PTL DEF Spec, RefinesBoard, Promise!Spec
=============================================================================
