----------------------------- MODULE JobPromise -----------------------------
(* JobRuns keeps the promise of Jobs.                                      *)
EXTENDS JobRuns

(* A job ends when a run commits its end, when its row goes, or when its   *)
(* last attempt is over.                                                   *)
HasEnded(j) ==
  \/ Ended(j)
  \/ ~rows[j].live
  \/ rows[j].lockedBy = None /\ rows[j].attempts >= rows[j].max

StateOf(j) ==
  IF j >= nextId THEN "absent" ELSE IF HasEnded(j) THEN "ended" ELSE "open"

StartedOf(j) == {n \in 1..MaxAttempts : runs[<<j, n>>].phase # "none"}

Promise == INSTANCE Jobs WITH
  Ids      <- JobIds,
  Attempts <- 1..MaxAttempts,
  Enqueued <- 1..Len(JobLane),
  state    <- [j \in JobIds |-> StateOf(j)],
  started  <- [j \in JobIds |-> StartedOf(j)]

(* Through crashes, stalls, false deaths, lost replies and retries, the    *)
(* pools and the sweeps do to jobs only what Jobs allows: no attempt of an *)
(* ended job starts, ends stay, and no continuation begins without its job *)
(* ending in the same transaction.                                         *)
KeepsPromise == Promise!Spec
=============================================================================
