------------------------------ MODULE EventFeed ------------------------------
(***************************************************************************)
(* What the outbox and its relays promise to whoever listens on the        *)
(* channel: an event is published only once its move is committed, again   *)
(* perhaps, and is settled, never to be published any more, only after it  *)
(* was published.                                                          *)
(***************************************************************************)
CONSTANT Events

VARIABLES committed,   \* the events of the moves that were committed
          published,   \* ... that were published at least once
          settled      \* ... whose rows are marked

feed == <<committed, published, settled>>

FeedInit == committed = {} /\ published = {} /\ settled = {}

Commit(e) ==
  /\ e \in Events \ committed
  /\ committed' = committed \cup {e}
  /\ UNCHANGED <<published, settled>>

\* Variant: before the move is committed.
PublishEarly(e) ==
  /\ e \notin settled
  /\ published' = published \cup {e}
  /\ UNCHANGED <<committed, settled>>

\* at least once: also what was published before
Publish(e) ==
  /\ e \in committed \ settled
  /\ published' = published \cup {e}
  /\ UNCHANGED <<committed, settled>>

Settle(S) ==
  /\ S \subseteq published
  /\ settled' = settled \cup S
  /\ UNCHANGED <<committed, published>>

FeedNext ==
  \/ \E e \in Events : Commit(e) \/ Publish(e)
  \/ \E S \in SUBSET Events : Settle(S)

Feed == FeedInit /\ [][FeedNext]_feed
=============================================================================
