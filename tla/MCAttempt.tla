----------------------------- MODULE MCAttempt -----------------------------
(* Small instances of Attempt: what handlers use, two features at a time.  *)
EXTENDS Attempt, TLC

CONSTANT s

Use(features, n) == [features |-> features, runs |-> n]

Used == {Use({"steps", "waits"}, 3), Use({"steps", "continue"}, 3),
         Use({"progress", "waits"}, 2), Use({"progress", "continue"}, 2),
         Use({"lookups", "waits", "continue"}, 3)}
=============================================================================
