-------------------------- MODULE CallbackQueueMC --------------------------
(* The callback queue with a few callers, for TLC.                          *)
EXTENDS CallbackQueue, TLC

CONSTANTS c1, c2, c3

MCSymmetry == Permutations({c1, c2, c3})
=============================================================================
