----------------------------- MODULE MCHostRecord -----------------------------
(***************************************************************************)
(* HostRecord for TLC: stations, and interfaces, can be exchanged without  *)
(* any property seeing it.                                                 *)
(***************************************************************************)
EXTENDS HostRecord, TLC

Symmetry == Permutations(Stations) \cup Permutations(Nics)

=============================================================================
