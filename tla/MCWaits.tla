------------------------------ MODULE MCWaits ------------------------------
(* Small instances of Waits. *)
EXTENDS Waits, TLC

CONSTANTS a, b, p, q

OneEach == [w \in Waits |-> 1]
PoolSymmetry == Permutations(Pools)
=============================================================================
