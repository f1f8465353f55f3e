---------------------------- MODULE MCVideoStream ----------------------------
(* Instances of VideoStream for TLC. *)
EXTENDS VideoStream
=============================================================================
