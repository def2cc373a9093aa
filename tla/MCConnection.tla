----------------------------- MODULE MCConnection -----------------------------
(***************************************************************************)
(* Small instances of Connection: two or three nodes, all alike, and the   *)
(* nonces of up to four connections.                                       *)
(***************************************************************************)
EXTENDS Connection, TLC

Symmetric == Permutations(Node) \cup Permutations(Nonce)
=============================================================================
