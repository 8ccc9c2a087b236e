---------------------------- MODULE MCPublishLoop ----------------------------
(***************************************************************************)
(* PublishLoop for TLC, with its symmetry: when no station is singled out  *)
(* by Placeholder or InitiallyOn, exchanging stations changes nothing the  *)
(* safety properties can see.                                              *)
(***************************************************************************)
EXTENDS PublishLoop, TLC

Symmetry == Permutations(Stations)

=============================================================================
