---------------------------- MODULE MCOutboxRelay ----------------------------
(* Three moves of one card, or of two cards, whose transactions may commit *)
(* in another order than they began.                                       *)
EXTENDS OutboxRelay

CONSTANTS c1, c2

OneCard  == {<<c1, 1>>, <<c1, 2>>, <<c1, 3>>}
TwoCards == {<<c1, 1>>, <<c1, 2>>, <<c2, 1>>}
=============================================================================
