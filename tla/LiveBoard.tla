------------------------------ MODULE LiveBoard ------------------------------
(***************************************************************************)
(* The pages of examples/live-board.html, the API process they are         *)
(* connected to, and the feed of events that the relays publish.           *)
(*                                                                         *)
(* A page loads the board, opens an EventSource, and on each event loads   *)
(* the board again, without waiting for a load that is under way.  A board *)
(* is the set of events it reflects.  The browser is external: it connects *)
(* a stream that broke again, and gives up one that is refused.  A relay   *)
(* marks a row or sends it again, at the expense of MaxFaults.             *)
(***************************************************************************)
EXTENDS EventFeed, Broadcaster, SequencesExt

CONSTANTS Pages,
          Completed,     \* the events of type card.completed
          MaxFaults      \* bound: repeats, broken connections, refusals, crashes

ASSUME LiveAssumption == Completed \subseteq Events /\ MaxFaults \in Nat

VARIABLES es,        \* readyState of each page's EventSource, and before it
          stream,    \* the id the server gave its last connection
          frames,    \* events written to that stream and not yet heard
          asked,     \* loadBoard calls that were not answered yet
          answers,   \* the boards the others were answered with
          shown,     \* the board last rendered
          told,      \* what was committed when the loads under way, or the last
                     \* ones, began: when the first of them was asked for
          blurred,   \* whether the load that ended last failed
          faults

page == <<es, stream, frames, asked, answers, shown, told, blurred>>
vars == <<feed, process, page, faults>>

\* whether loadBoard calls are under way
Loading(p) == asked[p] > 0 \/ answers[p] # <<>>

\* a stream is known by its page and the randomUUID it was given
Streams == Pages \X (1 .. MaxFaults + 1)

Init ==
  /\ FeedInit /\ ProcessInit
  /\ es = [p \in Pages |-> "none"]
  /\ stream = [p \in Pages |-> 1]
  /\ frames = [p \in Pages |-> <<>>]
  /\ asked = [p \in Pages |-> 0] /\ answers = [p \in Pages |-> <<>>]
  /\ shown = [p \in Pages |-> {}] /\ told = [p \in Pages |-> {}]
  /\ blurred = [p \in Pages |-> FALSE]
  /\ faults = 0

Fault == faults < MaxFaults /\ faults' = faults + 1

-----------------------------------------------------------------------------
(* The feed and the process.                                               *)

Move(e) == Commit(e) /\ UNCHANGED <<process, page, faults>>

Announce(e) ==
  /\ Publish(e) /\ Receive(e)
  /\ IF e \in published THEN Fault ELSE UNCHANGED faults
  /\ UNCHANGED page

Start == Boot /\ UNCHANGED <<feed, page, faults>>

Subscribe ==
  \/ Subscribed /\ UNCHANGED <<feed, page, faults>>
  \/ (SubscribeFails \/ RedisLost) /\ Fault /\ UNCHANGED <<feed, page>>

Open(p)  == es[p] = "open" /\ <<p, stream[p]>> \in clients
Dead     == {id \in clients : es[id[1]] # "open" \/ stream[id[1]] # id[2]}

\* a write to a response whose connection is gone may throw
Fanout ==
  /\ \E gone \in SUBSET Dead : FanoutTo(gone)
  /\ frames' = [p \in Pages |-> IF Open(p) THEN Append(frames[p], Head(inbox))
                                ELSE frames[p]]
  /\ UNCHANGED <<feed, es, stream, asked, answers, shown, told, blurred, faults>>

SigTerm == Signal /\ UNCHANGED <<feed, page, faults>>

\* server.close calls back once no stream and no request is open
Drained ==
  /\ clients = {} /\ \A p \in Pages : asked[p] = 0
  /\ Shutdown
  /\ UNCHANGED <<feed, page, faults>>

\* Every connection ends with the process: the streams are connected again
\* and the loads that were not answered are rejected, like first loads.
Cut ==
  /\ es' = [p \in Pages |-> CASE es[p] = "open" -> "connecting"
                              [] es[p] = "loading" /\ asked[p] > 0 -> "failed"
                              [] OTHER -> es[p]]
  /\ frames' = [p \in Pages |-> <<>>]
  /\ asked' = [p \in Pages |-> 0]
  /\ blurred' = [p \in Pages |-> blurred[p] \/ asked[p] > 0]
  /\ UNCHANGED <<stream, answers, shown, told>>

\* process.exit(0)
ExitClean == phase = "stopping" /\ Exit /\ Cut /\ UNCHANGED <<feed, faults>>

\* Variant: the timer is cleared when the server starts to close.
ForceCleared == phase = "stopping" /\ Exit /\ Cut /\ UNCHANGED <<feed, faults>>

\* 10 s after the signal: process.exit(1)
ForceExit == phase \in {"closing", "stopping"} /\ Exit /\ Cut /\ UNCHANGED <<feed, faults>>

Crash == phase # "down" /\ Exit /\ Cut /\ Fault /\ UNCHANGED feed

-----------------------------------------------------------------------------
(* A page.                                                                 *)

\* someone opens the page: main calls loadBoard
Visit(p) ==
  /\ phase = "up" /\ es[p] = "none"
  /\ es' = [es EXCEPT ![p] = "loading"]
  /\ asked' = [asked EXCEPT ![p] = 1]
  /\ told' = [told EXCEPT ![p] = committed]
  /\ UNCHANGED <<feed, process, stream, frames, answers, shown, blurred, faults>>

\* Variant: answered from a cache that holds the board the page shows.
ReadCached(p) ==
  /\ Serving /\ asked[p] > 0
  /\ asked' = [asked EXCEPT ![p] = @ - 1]
  /\ answers' = [answers EXCEPT ![p] = Append(@, shown[p])]
  /\ UNCHANGED <<feed, process, es, stream, frames, shown, told, blurred, faults>>

\* GET /clients: findAll reads what is committed
Read(p) ==
  /\ Serving /\ asked[p] > 0
  /\ asked' = [asked EXCEPT ![p] = @ - 1]
  /\ answers' = [answers EXCEPT ![p] = Append(@, committed)]
  /\ UNCHANGED <<feed, process, es, stream, frames, shown, told, blurred, faults>>

\* answers arrive in any order; the first one is followed by new EventSource
Render(p) ==
  /\ \E i \in DOMAIN answers[p] :
       /\ shown' = [shown EXCEPT ![p] = answers[p][i]]
       /\ answers' = [answers EXCEPT ![p] = RemoveAt(@, i)]
  /\ es' = [es EXCEPT ![p] = IF @ = "loading" THEN "connecting" ELSE @]
  /\ blurred' = [blurred EXCEPT ![p] = FALSE]
  /\ UNCHANGED <<feed, process, stream, frames, asked, told, faults>>

\* fetch or res.json() rejects, or what came is no list of cards: the first
\* time main ends there
LoadFails(p) ==
  /\ IF phase = "up" THEN Fault ELSE UNCHANGED faults
  /\ \/ asked[p] > 0 /\ asked' = [asked EXCEPT ![p] = @ - 1] /\ UNCHANGED answers
     \/ /\ \E i \in DOMAIN answers[p] : answers' = [answers EXCEPT ![p] = RemoveAt(@, i)]
        /\ UNCHANGED asked
  /\ es' = [es EXCEPT ![p] = IF @ = "loading" THEN "failed" ELSE @]
  /\ blurred' = [blurred EXCEPT ![p] = TRUE]
  /\ UNCHANGED <<feed, process, stream, frames, shown, told>>

\* GET /stream: the broadcaster gets a client with a fresh id
Connect(p) ==
  /\ phase = "up" /\ es[p] = "connecting"
  /\ LET n == CHOOSE k \in 1 .. MaxFaults + 1 : <<p, k>> \notin clients IN
       AddClient(<<p, n>>) /\ stream' = [stream EXCEPT ![p] = n]
  /\ es' = [es EXCEPT ![p] = "open"]
  /\ UNCHANGED <<feed, frames, asked, answers, shown, told, blurred, faults>>

\* 401, 403, 429: the EventSource is closed for ever
StreamRefused(p) ==
  /\ phase = "up" /\ es[p] = "connecting" /\ Fault
  /\ es' = [es EXCEPT ![p] = "failed"]
  /\ UNCHANGED <<feed, process, stream, frames, asked, answers, shown, told, blurred>>

\* the connection breaks, with what it carried; the server learns of it later
Break(p) ==
  /\ es[p] = "open" /\ Fault
  /\ es' = [es EXCEPT ![p] = "connecting"]
  /\ frames' = [frames EXCEPT ![p] = <<>>]
  /\ UNCHANGED <<feed, process, stream, asked, answers, shown, told, blurred>>

\* req.on('close')
Notice == \E id \in Dead : RemoveClient(id) /\ UNCHANGED <<feed, page, faults>>

Type(e) == IF e \in Completed THEN "card.completed" ELSE "card.moved"

\* Variant: no listener for card.completed.
ListenedMoved == {"card.moved", "card.created"}

\* addEventListener
Listened == {"card.moved", "card.completed", "card.created"}

\* onEvent: the board is loaded again
Hear(p) ==
  /\ frames[p] # <<>>
  /\ frames' = [frames EXCEPT ![p] = Tail(@)]
  /\ IF Type(Head(frames[p])) \in Listened
     THEN /\ asked' = [asked EXCEPT ![p] = @ + 1]
          /\ told' = [told EXCEPT ![p] = IF Loading(p) THEN @ ELSE committed]
     ELSE UNCHANGED <<asked, told>>
  /\ UNCHANGED <<feed, process, es, stream, answers, shown, blurred, faults>>

-----------------------------------------------------------------------------
Next ==
  \/ \E e \in Events : Move(e) \/ Announce(e)
  \/ Start \/ Subscribe \/ Fanout \/ SigTerm \/ Drained \/ ExitClean \/ ForceExit \/ Crash
  \/ Notice
  \/ \E p \in Pages : \/ Visit(p) \/ Read(p) \/ Render(p) \/ LoadFails(p)
                      \/ Connect(p) \/ StreamRefused(p) \/ Break(p) \/ Hear(p)

\* Messages that arrived are handled, requests are answered, and a timer fires.
\* Nobody has to publish, to connect again, or to close a page.
Fairness ==
  /\ WF_vars(Fanout) /\ WF_vars(Drained) /\ WF_vars(ExitClean) /\ WF_vars(ForceExit)
  /\ \A p \in Pages : WF_vars(Read(p)) /\ WF_vars(Render(p)) /\ WF_vars(Hear(p))

Spec == Init /\ [][Next]_vars /\ Fairness

-----------------------------------------------------------------------------
TypeOK ==
  /\ committed \subseteq Events /\ published \subseteq committed /\ settled = {}
  /\ phase \in Phases /\ sub \in Subscriptions
  /\ inbox \in Seq(published) /\ clients \subseteq Streams
  /\ es \in [Pages -> {"none", "loading", "connecting", "open", "failed"}]
  /\ stream \in [Pages -> 1 .. MaxFaults + 1]
  /\ frames \in [Pages -> Seq(published)]
  /\ asked \in [Pages -> Nat] /\ answers \in [Pages -> Seq(SUBSET committed)]
  /\ shown \in [Pages -> SUBSET committed] /\ told \in [Pages -> SUBSET committed]
  /\ blurred \in [Pages -> BOOLEAN] /\ faults \in 0 .. MaxFaults

\* As long as a page is connected the broadcaster writes to its stream, also
\* when streams of the same page that broke are cleaned up late and while the
\* process waits for its connections to end (index.ts:3, "in-flight requests
\* drain"): a clean shutdown cuts nobody off.
StreamsAreServed ==
  \A p \in Pages : es[p] = "open" => Serving /\ <<p, stream[p]>> \in clients

\* A page that loads nothing shows every move that was committed when its last
\* loads began, unless the one that ended last failed.  So an event brings the
\* page up to date with whatever it missed before, and loads that overlap, with
\* the older answer rendered last, set it back to the first of them at worst.
QuietPageIsCurrent ==
  \A p \in Pages : blurred[p] \/ Loading(p) \/ told[p] \subseteq shown[p]

\* A move whose event reaches the process is shown on every page that is
\* connected, unless something fails meanwhile or the process is told to stop.
MoveReachesPage ==
  \A p \in Pages, e \in Events, k \in 0 .. MaxFaults :
     es[p] = "open" /\ Contains(inbox, e) /\ faults = k
       ~> e \in shown[p] \/ faults > k \/ phase # "up"

\* A signal ends the process, also when viewers keep their streams open and
\* the server never gets to close (index.ts:28, "Force-exit guard").
ShutdownEnds == phase = "closing" ~> phase = "down"
=============================================================================
