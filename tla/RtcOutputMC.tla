---------------------------- MODULE RtcOutputMC ----------------------------
(* An output with two connections to choose from and a few goroutines.      *)
EXTENDS RtcOutput, TLC

CONSTANTS n1, n2, u1, u2

MCSymmetry == Permutations({n1, n2}) \cup Permutations({u1, u2})
=============================================================================
