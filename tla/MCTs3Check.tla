------------------------------ MODULE MCTs3Check ------------------------------
(* Instances of Ts3Check for TLC. *)
EXTENDS Ts3Check

CONSTANTS home, away, friends

\* The client that asks, a query client of the same address, another client of
\* the same address, and the same identity somewhere else.
MCVisitors ==
  {[dbid |-> 1, ip |-> home, type |-> 0], [dbid |-> 2, ip |-> home, type |-> 1],
   [dbid |-> 2, ip |-> home, type |-> 0], [dbid |-> 1, ip |-> away, type |-> 0]}

MCWanted == {[dbid |-> 1, ip |-> home], [dbid |-> 0, ip |-> home]}
=============================================================================
