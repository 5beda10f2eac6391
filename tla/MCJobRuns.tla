----------------------------- MODULE MCJobRuns -----------------------------
(* Small instances of JobRuns for TLC. *)
EXTENDS JobPromise, TLC

CONSTANTS p1, p2, lane

Alone   == <<None>>          \* one job, in no lane
OneJob  == <<lane>>          \* one job, in the lane
TwoJobs == <<lane, lane>>    \* two jobs that share the lane
Mixed   == <<lane, None>>    \* one in the lane, one beside it

SymmetricPools == Permutations(Pools)
=============================================================================
