------------------------------ MODULE MCClient ------------------------------
(***************************************************************************)
(* A small instance of Client.  Objects and keys are interchangeable.      *)
(***************************************************************************)
EXTENDS Client, TLC

CONSTANTS s1, s2, c1, c2, c3, p1, p2, k1, k2

MCObjects == Permutations({s1, s2}) \cup Permutations({c1, c2, c3}) \cup Permutations({k1, k2})
=============================================================================
