----------------------------- MODULE MCCorParser -----------------------------
(* Instances of CorParser for TLC. *)
EXTENDS CorParser

\* Bodies without, with one and with several bytes; a zero byte could be taken
\* for the beginning of the next header.
MCBodies == {<<>>, <<7>>, <<0, 1>>}
=============================================================================
