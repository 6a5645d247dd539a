------------------------ MODULE MCSessionRevocations ------------------------
(* Small instances of SessionRevocations.                                   *)
EXTENDS SessionRevocations, TLC

CONSTANTS t1, t2, discord, minecraft, w1, w2

Symmetries == Permutations(Tokens) \cup Permutations(Identities) \cup Permutations(Writers)
=============================================================================
