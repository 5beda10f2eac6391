-------------------------------- MODULE Jobs --------------------------------
(***************************************************************************)
(* What the library promises of jobs, whatever befalls the pools that run  *)
(* them: a job runs in numbered attempts, each started at most once, until *)
(* it ends; an end is final, and comes only after an attempt; a job that   *)
(* continues ends and begins its continuation in one step.                 *)
(***************************************************************************)
EXTENDS Naturals

CONSTANTS
  Ids,       \* ids of jobs
  Attempts,  \* numbers of attempts
  Enqueued   \* jobs that exist at first

VARIABLES
  state,    \* of each job
  started   \* the attempts of each job that were started

jobs == <<state, started>>

Init ==
  /\ state = [j \in Ids |-> IF j \in Enqueued THEN "open" ELSE "absent"]
  /\ started = [j \in Ids |-> {}]

Begun(j) == state[j] = "open" /\ started[j] # {}

Start(j, n) ==
  /\ state[j] = "open" /\ n \notin started[j]
  /\ started' = [started EXCEPT ![j] = @ \cup {n}]
  /\ UNCHANGED state

(* Locks of several jobs may be released, and those jobs end, at once. *)
End(js) ==
  /\ \A j \in js : Begun(j)
  /\ state' = [j \in Ids |-> IF j \in js THEN "ended" ELSE state[j]]
  /\ UNCHANGED started

Continue(j, k) ==
  /\ Begun(j) /\ state[k] = "absent"
  /\ state' = [state EXCEPT ![j] = "ended", ![k] = "open"]
  /\ UNCHANGED started

Next ==
  \/ \E j \in Ids, n \in Attempts : Start(j, n)
  \/ \E js \in SUBSET Ids : End(js)
  \/ \E j, k \in Ids : Continue(j, k)

Spec == Init /\ [][Next]_jobs
=============================================================================
