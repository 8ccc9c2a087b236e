--------------------------- MODULE MCStationRecord ---------------------------
(***************************************************************************)
(* StationRecord for TLC: which process has which id changes nothing any   *)
(* property sees, so exchanging ids is a symmetry.                         *)
(***************************************************************************)
EXTENDS StationRecord

Symmetry == Permutations(Pids)

=============================================================================
