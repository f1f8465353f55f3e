--------------------------- MODULE MCCorConnection ---------------------------
(* Instances of CorConnection for TLC. *)
EXTENDS CorConnection
=============================================================================
