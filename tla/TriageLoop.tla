----------------------------- MODULE TriageLoop ------------------------------
(***************************************************************************)
(* The triage agent beside the people who move cards: it hears of a move,  *)
(* fetches the card and, when it is urgent, puts it into the first slot of *)
(* the lane it is in by then, which is a move it hears of again.           *)
(*                                                                         *)
(* A move is one step, as Board promises; its event reaches the channel as *)
(* EventFeed promises.  Redis is external: a message goes to the agent if  *)
(* it listens, and is lost when the agent dies.                            *)
(***************************************************************************)
EXTENDS EventFeed, Integers, FiniteSets, SequencesExt

CONSTANTS Cards,
          Seed,          \* the cards of each lane, in order
          MaxMoves,      \* bound: moves of people and of the agent
          MaxFaults      \* bound: repeated events, failed requests, agents that die

Lanes == DOMAIN Seed

ASSUME TriageAssumption ==
  /\ "backlog" \in Lanes
  /\ MaxMoves \in Nat /\ MaxFaults \in Nat
  /\ Events = [card : Cards, version : 1 .. MaxMoves, to : Lanes]

\* clients has one row per card, in one lane
ASSUME SeedAssumption ==
  /\ IsFiniteSet(Cards)
  /\ Seed \in [Lanes -> Seq(Cards)]
  /\ \A c \in Cards : \E s \in Lanes :
        /\ Contains(Seed[s], c)
        /\ \A t \in Lanes \ {s} : ~ Contains(Seed[t], c)
  /\ \A s \in Lanes : IsInjective(Seed[s])

VARIABLES urgent,     \* what classify_priority says, from name and description
          lane,       \* the cards of each lane, in order
          version,    \* of each card
          listening,  \* whether an agent runs and is subscribed
          inbox,      \* messages it has not taken yet
          seen,       \* _seen
          task,       \* the event it handles, and the card it fetched
          placed,     \* the lane a person last chose for each card
          moves,      \* how many moves people and the agent made
          triaged,    \* the version of each card the agent was last content with
          missed,     \* events it did not hear, or failed with
          faults

agent == <<listening, inbox, seen, task>>
board == <<lane, version, placed, moves>>
vars  == <<feed, urgent, board, agent, triaged, missed, faults>>

Idle == [pc |-> "idle"]

LaneOf(c) == CHOOSE s \in Lanes : Contains(lane[s], c)

Init ==
  /\ FeedInit
  /\ urgent \in SUBSET Cards
  /\ lane = Seed
  /\ version = [c \in Cards |-> 0]
  /\ listening = FALSE /\ inbox = <<>> /\ seen = {} /\ task = Idle
  /\ placed = [c \in Cards |-> LaneOf(c)]
  /\ moves = [person |-> 0, agent |-> 0]
  /\ triaged = [c \in Cards |-> 0]
  /\ missed = {} /\ faults = 0

Fault == faults < MaxFaults /\ faults' = faults + 1

-----------------------------------------------------------------------------
(* The API: moveCard and its no-op.                                        *)

\* Variant: the row stays in its old place as well.
MovedCopy(c, s, slot) == [lane EXCEPT ![s] = InsertAt(@, slot, c)]

Moved(c, s, slot) ==
  LET without == [t \in Lanes |-> RemoveFirst(lane[t], c)]
  IN  [without EXCEPT ![s] = InsertAt(@, slot, c)]

\* Variant: a card that is in its place is moved all the same.
NeverInPlace(c, s, slot) == FALSE

InPlace(c, s, slot) == Moved(c, s, slot) = lane

MoveCard(c, s, slot, who) ==
  /\ ~ InPlace(c, s, slot)
  /\ moves.person + moves.agent < MaxMoves
  /\ lane' = Moved(c, s, slot)
  /\ version' = [version EXCEPT ![c] = @ + 1]
  /\ moves' = [moves EXCEPT ![who] = @ + 1]
  /\ Commit([card |-> c, version |-> version[c] + 1, to |-> s])

\* a person sends the version on the board; other requests leave no trace
PersonMoves(c, s, slot) ==
  /\ slot \in 1 .. Len(RemoveFirst(lane[s], c)) + 1
  /\ MoveCard(c, s, slot, "person")
  /\ placed' = [placed EXCEPT ![c] = s]
  /\ UNCHANGED <<urgent, agent, triaged, missed, faults>>

Announce(e) ==
  /\ Publish(e)
  /\ IF e \in published THEN Fault ELSE UNCHANGED faults
  /\ IF listening THEN inbox' = Append(inbox, e) /\ UNCHANGED missed
                  ELSE missed' = missed \cup {e} /\ UNCHANGED inbox
  /\ UNCHANGED <<urgent, board, listening, seen, task, triaged>>

-----------------------------------------------------------------------------
(* The agent.                                                              *)

\* main subscribes, or redis-py does so again after a lost connection
Listen ==
  /\ ~ listening /\ listening' = TRUE
  /\ UNCHANGED <<feed, urgent, board, inbox, seen, task, triaged, missed, faults>>

\* the connection is lost, with what it carried
Drops ==
  /\ listening /\ Fault
  /\ listening' = FALSE /\ inbox' = <<>>
  /\ missed' = missed \cup ToSet(inbox)
  /\ UNCHANGED <<feed, urgent, board, seen, task, triaged>>

\* listen() raises outside the try: what was heard and _seen are gone
Dies ==
  /\ listening /\ Fault
  /\ listening' = FALSE /\ inbox' = <<>> /\ seen' = {} /\ task' = Idle
  /\ missed' = missed \cup ToSet(inbox)
                 \cup (IF task = Idle THEN {} ELSE {task.event})
  /\ UNCHANGED <<feed, urgent, board, triaged>>

\* Variant: one event of a card stands for all.
CardOf(e) == e.card

\* eventId
IdOf(e) == <<e.card, e.version>>

\* handle_event up to fetch_card: dedup, and cards that went elsewhere.  An
\* event into another lane than complete is card.moved.
Take ==
  /\ listening /\ task = Idle /\ inbox # <<>>
  /\ inbox' = Tail(inbox)
  /\ seen' = seen \cup {IdOf(Head(inbox))}
  /\ task' = IF IdOf(Head(inbox)) \in seen \/ Head(inbox).to # "backlog" THEN Idle
             ELSE [pc |-> "fetch", event |-> Head(inbox)]
  /\ UNCHANGED <<feed, urgent, board, listening, triaged, missed, faults>>

\* fetch_card and classify_priority; the card may have moved on since
Fetch ==
  /\ task.pc = "fetch"
  /\ LET c == task.event.card IN
       task' = IF c \in urgent
               THEN [pc |-> "put", event |-> task.event, version |-> version[c]]
               ELSE Idle
  /\ UNCHANGED <<feed, urgent, board, listening, inbox, seen, triaged, missed, faults>>

\* Variant: the request names the lane of the event.
EventLane(c) == "backlog"

\* reprioritise sends priority and version, and no status
TargetLane(c) == LaneOf(c)

\* 200: the card is moved, or is there already
PutOk ==
  /\ task.pc = "put"
  /\ LET c == task.event.card IN
       /\ version[c] = task.version
       /\ \/ /\ InPlace(c, TargetLane(c), 1)
             /\ UNCHANGED <<feed, board>>
          \/ MoveCard(c, TargetLane(c), 1, "agent") /\ UNCHANGED placed
       /\ triaged' = [triaged EXCEPT ![c] = version'[c]]
  /\ task' = Idle
  /\ UNCHANGED <<urgent, listening, inbox, seen, missed, faults>>

\* 409: "drop this decision - a fresh event will arrive"
PutConflict ==
  /\ task.pc = "put" /\ version[task.event.card] # task.version
  /\ task' = Idle
  /\ UNCHANGED <<feed, urgent, board, listening, inbox, seen, triaged, missed, faults>>

\* a request is refused, fails or times out: logged, and the event is over
RequestFails ==
  /\ task # Idle /\ Fault
  /\ task' = Idle
  /\ missed' = missed \cup {task.event}
  /\ UNCHANGED <<feed, urgent, board, listening, inbox, seen, triaged>>

-----------------------------------------------------------------------------
Next ==
  \/ \E c \in Cards, s \in Lanes : \E slot \in 1 .. Cardinality(Cards) : PersonMoves(c, s, slot)
  \/ \E e \in committed : Announce(e)
  \/ Listen \/ Drops \/ Dies \/ Take \/ Fetch \/ PutOk \/ PutConflict \/ RequestFails

Spec == Init /\ [][Next]_vars

-----------------------------------------------------------------------------
TypeOK ==
  /\ committed \subseteq Events /\ published \subseteq committed /\ settled = {}
  /\ urgent \subseteq Cards
  /\ lane \in [Lanes -> Seq(Cards)] /\ version \in [Cards -> 0 .. MaxMoves]
  /\ placed \in [Cards -> Lanes]
  /\ \A c \in Cards : Cardinality({s \in Lanes : Contains(lane[s], c)}) = 1
  /\ listening \in BOOLEAN /\ inbox \in Seq(published) /\ seen \subseteq {IdOf(e) : e \in published}
  /\ \/ task = Idle
     \/ task \in [pc : {"fetch"}, event : published]
     \/ task \in [pc : {"put"}, event : published, version : 0 .. MaxMoves]
  /\ moves \in [person : 0 .. MaxMoves, agent : 0 .. MaxMoves]
  /\ triaged \in [Cards -> 0 .. MaxMoves] /\ missed \subseteq published
  /\ faults \in 0 .. MaxFaults

\* A card is in the lane a person last chose for it: the agent acts on what it
\* heard some time ago, and still never takes a card back into the backlog.
PersonsLaneStands == \A c \in Cards : LaneOf(c) = placed[c]

\* The agent hears of its own moves, repeats and what it forgot when it died,
\* and still does not run away: with one urgent card it makes no more moves
\* than people do ("the API no-ops if already there").
NoRunaway == Cardinality(urgent) <= 1 => moves.agent <= moves.person

\* When everything is handled the agent has seen to the last move of every
\* urgent card in the backlog, also after a 409 ("a fresh event will arrive"),
\* unless its event was not heard or its handling failed.
AllHandled == published = committed /\ inbox = <<>> /\ task = Idle
LastMoveIsTriaged ==
  AllHandled => \A e \in committed :
                e.card \in urgent /\ e.version = version[e.card] /\ LaneOf(e.card) = "backlog"
                  => triaged[e.card] = e.version \/ e \in missed
=============================================================================
