---------------------------- MODULE MCStoreRefund ----------------------------
(* Small instances of StoreRefund.                                          *)
EXTENDS StoreRefund

CONSTANTS c1, p1, p2, r1, r2

OneLine == {0}
TwoLines == {0, 1}
NoLines == {}
=============================================================================
