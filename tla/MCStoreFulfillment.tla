------------------------- MODULE MCStoreFulfillment -------------------------
(* Small instances of StoreFulfillment.  Lines are numbers (line 0 is the   *)
(* one whose transaction id is the bare order id), so they are not          *)
(* symmetric; calls are.                                                    *)
EXTENDS StoreFulfillment, TLC

CONSTANTS c1, c2, p1, p2

OneLine == {0}
TwoLines == {0, 1}
LastLine == {1}
OneGift == {1}
NoLines == {}

CallSymmetry == Permutations(Calls)
=============================================================================
