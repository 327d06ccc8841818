-------------------------- MODULE StorageClientMC --------------------------
(* The storage client with two list calls, a replay and two closers.        *)
EXTENDS StorageClient, TLC

CONSTANTS c1, c2, r1, a1, k1, k2

MCSymmetry == Permutations({c1, c2}) \cup Permutations({k1, k2})
=============================================================================
