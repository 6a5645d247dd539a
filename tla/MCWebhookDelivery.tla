------------------------- MODULE MCWebhookDelivery -------------------------
(* Small instances of WebhookDelivery.                                      *)
EXTENDS WebhookDelivery, TLC

CONSTANTS s1, d1, d2, t1

ToAll == Rows
Ladder == <<1, 2>>
TwoPings == {101, 102}
ThreePings == {101, 102, 103}
NoPings == {}

TickSymmetry == Permutations(Ticks)
=============================================================================
