----------------------------- MODULE MCRtpStream -----------------------------
(***************************************************************************)
(* A small instance of RtpStream: six packets to a roll-over.              *)
(***************************************************************************)
EXTENDS RtpStream

CONSTANTS audio, video
=============================================================================
