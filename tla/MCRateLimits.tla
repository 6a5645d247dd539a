---------------------------- MODULE MCRateLimits -----------------------------
(* The second limiter alone, with one caller.                               *)
EXTENDS RateLimits

CONSTANT i1

NoWindow == [l \in {} |-> 1]
=============================================================================
