--------------------------- MODULE MCConferenceView ---------------------------
(* Instances of ConferenceView for TLC. *)
EXTENDS ConferenceView
=============================================================================
