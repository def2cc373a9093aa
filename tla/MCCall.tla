-------------------------------- MODULE MCCall --------------------------------
(***************************************************************************)
(* A small instance of Call: three sessions, two lookups at a time.        *)
(***************************************************************************)
EXTENDS Call

CONSTANTS s1, s2, s3
=============================================================================
