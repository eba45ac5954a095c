------------------------------ MODULE MCReclaimer ------------------------------
(* The Reclaimer on small instances.                                       *)
EXTENDS Reclaimer, TLC

ReclaimerSymmetry == Permutations(Users)
=============================================================================
