-------------------------------- MODULE MCTalk --------------------------------
(***************************************************************************)
(* A small instance of Talk: each user has two sessions, one after the     *)
(* other or at once.                                                       *)
(***************************************************************************)
EXTENDS Talk

CONSTANTS s1, s2
=============================================================================
