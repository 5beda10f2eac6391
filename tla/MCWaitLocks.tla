---------------------------- MODULE MCWaitLocks ----------------------------
(* Small instances of WaitLocks. *)
EXTENDS WaitLocks, TLC

CONSTANTS c1, c2, s1, s2

ChildSymmetry == Permutations(Children) \cup Permutations(Sweepers)
=============================================================================
