------------------------------ MODULE MCSession ------------------------------
(* Instances of SessionSilence, and so of Session, for TLC. *)
EXTENDS SessionSilence
=============================================================================
