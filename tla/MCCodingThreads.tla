--------------------------- MODULE MCCodingThreads ---------------------------
(* Instances of CodingThreads for TLC. *)
EXTENDS CodingThreads
=============================================================================
