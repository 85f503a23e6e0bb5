-------------------------------- MODULE Board --------------------------------
(***************************************************************************)
(* What the move service promises: every request moves its card at most    *)
(* once, in a single step, from the version it was shown to the place it   *)
(* asked for on the board of that instant; the audit ledger and the outbox *)
(* get their rows in the same step.  Requests that are refused, fail, or   *)
(* ask for the place the card already has leave no trace.                  *)
(***************************************************************************)
EXTENDS ClientsTable, Sequences

CONSTANTS Requests, Commands,
          Seed              \* the board the migrations leave

ASSUME SeedAssumption ==
  /\ Commands \subseteq Command
  /\ Seed \in Boards
  /\ \A c, d \in Cards : c # d /\ Seed[c].status = Seed[d].status
                            => Seed[c].rank # Seed[d].rank

VARIABLES board,    \* clients
          audit,    \* audit_log, in commit order
          outbox    \* outbox, in commit order

vars == <<board, audit, outbox>>

AuditRows == [request : Requests, client : Cards, from : Position, to : Position,
              versionBefore : Nat, versionAfter : Nat]
Events    == [client : Cards, type : {"card.moved", "card.completed"},
              from : Position, to : Position, versionAfter : Nat]

Init == board = Seed /\ audit = <<>> /\ outbox = <<>>

\* The effects of a committed moveCard.
Commit(r, card, position) ==
  /\ board' = Updated(board, card, position)
  /\ audit' = Append(audit, AuditRow(r, card, board[card], position))
  /\ outbox' = Append(outbox, Event(card, board[card], position))

\* A request ends with the COMMIT of its transaction.
Unapplied(r) == \A i \in DOMAIN audit : audit[i].request # r

Move(r, cmd) ==
  /\ Unapplied(r)
  /\ cmd.card \in Cards
  /\ board[cmd.card].version = cmd.version
  /\ \E prev, next \in RowSets :
       /\ Neighbours(board, cmd, prev, next)
       /\ ~ StaysPut(board, cmd, prev, next)
       /\ NewRank(board, prev, next) \in Rank
       /\ Commit(r, cmd.card, [status |-> ToStatus(board, cmd),
                               rank |-> NewRank(board, prev, next)])

Next == \E r \in Requests, cmd \in Commands : Move(r, cmd)

Spec == Init /\ [][Next]_vars

-----------------------------------------------------------------------------
TypeOK ==
  /\ board \in Boards
  /\ audit \in Seq(AuditRows)
  /\ outbox \in Seq(Events)

\* No two cards of a lane have the same rank, so a lane has one order
\* (UNIQUE (status, rank), 0001_init.sql:25-28).
RanksUnique ==
  \A c, d \in Cards : c # d /\ board[c].status = board[d].status
                         => board[c].rank # board[d].rank

\* "The ledger can never drift from reality" (audit.repository.ts:1-5).  The
\* rows of a card account for each of its versions, in order and once ...
LedgerCountsVersions ==
  /\ \A i \in DOMAIN audit :
       LET a == audit[i] IN
       /\ a.versionAfter = a.versionBefore + 1
       /\ Seed[a.client].version <= a.versionBefore
       /\ a.versionAfter <= board[a.client].version
  /\ \A i, j \in DOMAIN audit :
       i < j /\ audit[i].client = audit[j].client
          => audit[i].versionAfter <= audit[j].versionBefore
  /\ \A c \in Cards : \A v \in Seed[c].version .. board[c].version - 1 :
       \E i \in DOMAIN audit : audit[i].client = c /\ audit[i].versionBefore = v

\* ... and its positions are a trail from the seed to where the card is.
LedgerIsTrail ==
  /\ \A c \in Cards : board[c].version = Seed[c].version => board[c] = Seed[c]
  /\ \A i \in DOMAIN audit :
       LET a == audit[i] IN
       /\ a.versionBefore = Seed[a.client].version => a.from = PositionOf(Seed[a.client])
       /\ a.versionAfter = board[a.client].version => a.to = PositionOf(board[a.client])
       /\ \A j \in DOMAIN audit :
            audit[j].client = a.client /\ audit[j].versionBefore = a.versionAfter
               => audit[j].from = a.to

\* The outbox holds one event per ledger row and tells the same transition.
OutboxTellsLedger ==
  /\ Len(outbox) = Len(audit)
  /\ \A i \in DOMAIN audit :
       /\ outbox[i].client = audit[i].client
       /\ outbox[i].versionAfter = audit[i].versionAfter
       /\ outbox[i].from = audit[i].from /\ outbox[i].to = audit[i].to

\* The place a command names, read off a board on which the card has it.
IsPlaced(b, cmd, s) ==
  LET others == LaneRows(b, s, cmd.card)
      below  == {d \in others : Below(b, d, cmd.card)}
  IN  /\ b[cmd.card].status = s
      /\ CASE cmd.place = "after"  -> Last(b, below, {cmd.ref})
           [] cmd.place = "before" -> First(b, others \ below, {cmd.ref})
           [] cmd.place = "slot"   -> \/ Cardinality(below) = cmd.slot - 1
                                      \/ below = others /\ Cardinality(others) < cmd.slot
           [] cmd.place = "end"    -> below = others

\* A move takes its card to the place the command names - directly behind or
\* in front of the card it refers to, to the 1-based slot or, when the lane is
\* shorter, to its end - and moves no other card.  The same holds of a move
\* that is answered without a change: the card was there already.
MoveReachesPlace ==
  [][\A r \in Requests, cmd \in Commands :
        Move(r, cmd) => /\ IsPlaced(board', cmd, ToStatus(board, cmd))
                        /\ \A d \in Cards \ {cmd.card} : board'[d] = board[d]]_vars

NoOpIsInPlace ==
  \A cmd \in Commands : \A prev, next \in RowSets :
     /\ cmd.card \in Cards
     /\ Neighbours(board, cmd, prev, next)
     => (StaysPut(board, cmd, prev, next) <=> IsPlaced(board, cmd, ToStatus(board, cmd)))
=============================================================================
