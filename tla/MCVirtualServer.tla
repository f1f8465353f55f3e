--------------------------- MODULE MCVirtualServer ---------------------------
(* Instances of VirtualServer for TLC. *)
EXTENDS VirtualServer, TLC

\* Ports are interchangeable: no definition orders or selects among them.
PortSymmetry == Permutations(Ports)

=============================================================================
