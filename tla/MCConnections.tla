----------------------------- MODULE MCConnections -----------------------------
(* The connection tracker on small instances.                              *)
EXTENDS Connections, TLC

RouterSymmetry == Permutations(Replicas) \cup Permutations(Sessions)
=============================================================================
