---------------------------- MODULE ConnectionMC ----------------------------
(* A connection with two Connect calls, two closers, an output and a task.  *)
EXTENDS Connection, TLC

CONSTANTS c1, c2, k1, k2, o1, r1, u1

MCSymmetry == Permutations({c1, c2}) \cup Permutations({k1, k2})
=============================================================================
