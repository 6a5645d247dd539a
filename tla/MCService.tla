----------------------------- MODULE MCService ------------------------------
(* Small instances of the parts of Service.                                 *)
EXTENDS Service, TLC

CONSTANTS p1, p2, p3, d1, d2, k1, k2, r1, r2, r3, i1, i2, read, crash

OwnerOf == (k1 :> p1) @@ (k2 :> p2)
Shown == [n \in {"omen", "vote", "told"} |->
            CASE n = "omen" -> {1, 2} [] n = "vote" -> {1} [] OTHER -> {2}]
Span == (read :> 1) @@ (crash :> 3)
One == [l \in {read, crash} |-> 1]
=============================================================================
