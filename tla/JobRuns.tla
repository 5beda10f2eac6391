------------------------------ MODULE JobRuns ------------------------------
(***************************************************************************)
(* The runs of jobs by worker pools that share one PostgreSQL database.    *)
(*                                                                         *)
(* A job is a row of Graphile's _private_jobs.  A worker pool locks a row  *)
(* (external: Graphile 0.17), executeTask (worker.ts) runs the handler and *)
(* decides how the run ends, and Graphile then completes or fails the job  *)
(* in a later, batched statement.  Between the two the library writes the  *)
(* row itself (private-jobs.ts), each time only while the run still owns   *)
(* the row.  A pool that stops heartbeating is presumed dead by the        *)
(* maintenance loop of the others (maintenance.ts), rightly or wrongly.    *)
(***************************************************************************)
EXTENDS Naturals, Sequences, FiniteSets

CONSTANTS
  Pools,          \* Graphile worker pool ids; a restarted runner has a new one
  None,           \* no pool, no lane
  Lanes,          \* Graphile job queues
  MaxJobs,        \* bound: rows 1..MaxJobs can be enqueued
  JobLane,        \* the lane, or None, of each job in the table at first
  MaxAttempts,    \* max_attempts of every job when it is enqueued
  Results,        \* the ways a handler may end: subset of HandlerResults
  Faults,         \* what may befall a statement: subset of {"lost", "error"}
  MaxCrashes,     \* bound: pools that crash
  MaxStalls,      \* bound: live pools that go staleAfter without a beat
  BeatMayFail,    \* whether a pool's first heartbeat may fail
  JobOutcomes,    \* the jobOutcomes option
  Discard         \* permanentFailure: 'discard'

HandlerResults == {"ok", "error", "fatal", "retryAt"}

ASSUME JobRunsAssumption ==
  /\ None \notin Pools \cup Lanes
  /\ MaxJobs \in Nat /\ MaxAttempts \in Nat \ {0}
  /\ MaxCrashes \in Nat /\ MaxStalls \in Nat
  /\ JobLane \in Seq(Lanes \cup {None}) /\ Len(JobLane) \in 1..MaxJobs
  /\ Results \subseteq HandlerResults
  /\ Faults \subseteq {"lost", "error"}
  /\ {BeatMayFail, JobOutcomes, Discard} \subseteq BOOLEAN

VARIABLES
  rows,       \* _private_jobs
  lanes,      \* _private_job_queues: the pool that locks each lane
  outcome,    \* bgw_job_outcomes
  nextId,     \* the sequence behind the ids of _private_jobs
  runs,       \* the calls of executeTask, one per lock of a row
  beat,       \* bgw_worker_heartbeats, seen against staleAfter
  ready,      \* pools whose maintenance.ready has settled
  registered, \* pools that have recorded a heartbeat
  up,         \* pools whose process runs
  stalled,    \* history: pools that went stale while they were up
  origin      \* history: the row that a row continues, 0 for a producer's

vars == <<rows, lanes, outcome, nextId, runs, beat, ready, registered, up,
          stalled, origin>>

database == <<rows, lanes, outcome, nextId, origin>>
workers  == <<beat, ready, registered, up, stalled>>

---------------------------------------------------------------------------
(* Rows and runs.  lockedAt identifies a lock of the row: Graphile's       *)
(* locked_at, whose milliseconds differ between two locks of one row.      *)

JobIds == 1..MaxJobs
Runs   == JobIds \X (1..MaxAttempts)

Row == [live : BOOLEAN, lane : Lanes \cup {None}, lockedBy : Pools \cup {None},
        lockedAt : 0..MaxAttempts, attempts : 0..MaxAttempts,
        max : 0..MaxAttempts, due : BOOLEAN]

NoRow == [live |-> FALSE, lane |-> None, lockedBy |-> None, lockedAt |-> 0,
          attempts |-> 0, max |-> 0, due |-> FALSE]

NewRow(lane, max, due) ==
  [NoRow EXCEPT !.live = TRUE, !.lane = lane, !.max = max, !.due = due]

Phases == {"none", "locked", "handler", "ending", "failing", "completing",
           "failed", "done"}
Writes == {"nothing", "completed", "failed", "retained", "continued"}

Run == [pool : Pools \cup {None}, phase : Phases, last : BOOLEAN,
        cont : {"no", "inflight", "committed", "refused"},
        result : HandlerResults \cup {"none"}, wrote : Writes]

NoRun == [pool |-> None, phase |-> "none", last |-> FALSE, cont |-> "no",
          result |-> "none", wrote |-> "nothing"]

Over(r) == [NoRun EXCEPT !.phase = "done", !.wrote = runs[r].wrote]

(* Variant: the fence of private-jobs.ts without the time of the lock. *)
Owned_ByPool(r) == rows[r[1]].live /\ rows[r[1]].lockedBy = runs[r].pool

(* owned(): the row as this attempt locked it. *)
Owned(r) ==
  /\ rows[r[1]].live
  /\ rows[r[1]].lockedBy = runs[r].pool
  /\ rows[r[1]].lockedAt = r[2]

(* Variants: attempts left untouched; one attempt too many. *)
Exhausted_Kept(row) == row
Exhausted_OneMore(row) == [row EXCEPT !.max = row.attempts + 1]

(* max_attempts := attempts: whatever fails it now fails it for good. *)
Exhausted(row) == [row EXCEPT !.max = row.attempts]

(* A row that pool p locks for attempt n. *)
Fetched(row, p, n) ==
  [row EXCEPT !.lockedBy = p, !.lockedAt = n, !.attempts = n]

(* A failed or released row; run_at moves a backoff ahead. *)
Unlocked(row) == [row EXCEPT !.lockedBy = None, !.lockedAt = 0, !.due = FALSE]

(* Variant: the lane is not released. *)
FreeLane_Kept(l, p) == [x \in Lanes |-> lanes[x]]

(* A lane as pool p leaves it when its job in lane l is done. *)
FreeLane(l, p) ==
  [x \in Lanes |-> IF x = l /\ lanes[x] = p THEN None ELSE lanes[x]]

---------------------------------------------------------------------------
Init ==
  /\ rows = [j \in JobIds |-> IF j <= Len(JobLane)
                              THEN NewRow(JobLane[j], MaxAttempts, TRUE)
                              ELSE NoRow]
  /\ lanes = [l \in Lanes |-> None]
  /\ outcome = [j \in JobIds |-> "none"]
  /\ nextId = Len(JobLane) + 1
  /\ runs = [r \in Runs |-> NoRun]
  /\ beat = [p \in Pools |-> "none"]
  /\ ready = {}
  /\ registered = {}
  /\ up = Pools
  /\ stalled = {}
  /\ origin = [j \in JobIds |-> 0]

---------------------------------------------------------------------------
(* Graphile 0.17. *)

(* get_job. *)
Fetch(p, j) ==
  LET n == rows[j].attempts + 1 IN
  /\ p \in up
  /\ rows[j].live /\ rows[j].lockedBy = None /\ rows[j].due
  /\ rows[j].attempts < rows[j].max
  /\ rows[j].lane \in Lanes => lanes[rows[j].lane] = None
  /\ rows' = [rows EXCEPT ![j] = Fetched(rows[j], p, n)]
  /\ lanes' = [l \in Lanes |-> IF l = rows[j].lane THEN p ELSE lanes[l]]
  /\ runs' = [runs EXCEPT ![<<j, n>>] =
                [NoRun EXCEPT !.pool = p, !.phase = "locked", !.last = n >= rows[j].max]]
  /\ UNCHANGED <<outcome, nextId, origin, workers>>

(* complete_jobs: deletes by id, whoever locks the row. *)
GraphileCompletes(r) ==
  /\ runs[r].phase = "completing"
  /\ rows' = [rows EXCEPT ![r[1]] = NoRow]
  /\ lanes' = FreeLane(rows[r[1]].lane, runs[r].pool)
  /\ runs' = [runs EXCEPT ![r] = Over(r)]
  /\ UNCHANGED <<outcome, nextId, origin, workers>>

(* fail_jobs: matches the id and the pool, not the time of the lock. *)
GraphileFails(r) ==
  LET held == rows[r[1]].lockedBy = runs[r].pool IN
  /\ runs[r].phase = "failed"
  /\ rows' = IF held THEN [rows EXCEPT ![r[1]] = Unlocked(@)] ELSE rows
  /\ lanes' = IF held THEN FreeLane(rows[r[1]].lane, runs[r].pool) ELSE lanes
  /\ runs' = [runs EXCEPT ![r] = Over(r)]
  /\ UNCHANGED <<outcome, nextId, origin, workers>>

(* run_at passes. *)
BecomesDue(j) ==
  /\ rows[j].live /\ ~rows[j].due /\ rows[j].lockedBy = None
  /\ rows[j].attempts < rows[j].max
  /\ rows' = [rows EXCEPT ![j].due = TRUE]
  /\ UNCHANGED <<lanes, outcome, nextId, origin, runs, workers>>

---------------------------------------------------------------------------
(* executeTask. *)

(* Variant: the handler does not wait for maintenance.ready. *)
StartHandler_AtOnce(r) ==
  /\ runs[r].phase = "locked"
  /\ runs' = [runs EXCEPT ![r].phase = "handler"]
  /\ UNCHANGED <<database, workers>>

(* The handler starts once maintenance.ready has settled. *)
StartHandler(r) ==
  /\ runs[r].phase = "locked"
  /\ runs[r].pool \in ready
  /\ runs' = [runs EXCEPT ![r].phase = "handler"]
  /\ UNCHANGED <<database, workers>>

(* The handler returns or throws, also after ctx.continue() threw. *)
HandlerEnds(r) ==
  /\ runs[r].phase = "handler"
  /\ \E result \in Results :
       runs' = [runs EXCEPT ![r].phase = "ending", ![r].result = result]
  /\ UNCHANGED <<database, workers>>

(* The attempt fails without the handler, whose later calls are refused. *)
TimesOut(r) ==
  /\ runs[r].phase = "handler"
  /\ runs' = [runs EXCEPT ![r].phase = "ending", ![r].result = "error"]
  /\ UNCHANGED <<database, workers>>

InFlight == {r \in Runs : runs[r].cont = "inflight"}

(* ctx.continue() puts its transaction on the run's chain of endings. *)
CallContinue(r) ==
  /\ runs[r].phase = "handler" /\ runs[r].cont = "no"
  /\ nextId + Cardinality(InFlight) \in JobIds
  /\ runs' = [runs EXCEPT ![r].cont = "inflight"]
  /\ UNCHANGED <<database, workers>>

(* continueJob's transaction commits. *)
ContinueJob(r) ==
  LET j == r[1] IN
  /\ runs[r].cont = "inflight"
  /\ Owned(r)
  /\ nextId \in JobIds
  /\ \E due \in BOOLEAN :
       rows' = [rows EXCEPT
         ![nextId] = NewRow(rows[j].lane, rows[j].max, due),
         ![j] = IF JobOutcomes THEN NoRow ELSE Exhausted(rows[j])]
  /\ lanes' = IF JobOutcomes THEN FreeLane(rows[j].lane, runs[r].pool) ELSE lanes
  /\ outcome' = IF JobOutcomes THEN [outcome EXCEPT ![j] = "continued"] ELSE outcome
  /\ nextId' = nextId + 1
  /\ origin' = [origin EXCEPT ![nextId] = j]
  /\ \E seen \in {"committed"} \cup {f \in {"refused"} : "lost" \in Faults} :
       runs' = [runs EXCEPT ![r].cont = seen, ![r].wrote = "continued"]
  /\ UNCHANGED workers

(* continueJob finds the row locked anew, or rolls back. *)
ContinueRefused(r) ==
  /\ runs[r].cont = "inflight"
  /\ ~Owned(r) \/ "error" \in Faults
  /\ runs' = [runs EXCEPT ![r].cont = "refused"]
  /\ UNCHANGED <<database, workers>>

(* settleLockedJob, for a run that goes on as yes when the statement is    *)
(* seen to have written and as no otherwise.                               *)
Settle(r, state, row, yes, no) ==
  LET j == r[1] IN
  \/ /\ Owned(r)
     /\ rows' = CASE row = "delete"  -> [rows EXCEPT ![j] = NoRow]
                  [] row = "exhaust" -> [rows EXCEPT ![j] = Exhausted(@)]
                  [] OTHER           -> rows
     /\ lanes' = IF row = "delete" THEN FreeLane(rows[j].lane, runs[r].pool) ELSE lanes
     /\ outcome' = IF JobOutcomes THEN [outcome EXCEPT ![j] = state] ELSE outcome
     /\ \E next \in {yes} \cup {f \in {no} : "lost" \in Faults} :
          runs' = [runs EXCEPT ![r] =
            [next EXCEPT !.wrote = IF row = "exhaust" THEN "retained" ELSE state]]
     /\ UNCHANGED <<nextId, origin>>
  \/ /\ ~Owned(r) \/ "error" \in Faults
     /\ runs' = [runs EXCEPT ![r] = no]
     /\ UNCHANGED database

As(r, phase) == [runs[r] EXCEPT !.phase = phase]

(* Endings settle before the run is decided; a committed one decides it. *)
Decided(r) == runs[r].phase = "ending" /\ runs[r].cont # "inflight"

EndContinued(r) ==
  /\ Decided(r) /\ runs[r].cont = "committed"
  /\ runs' = [runs EXCEPT ![r] = As(r, "completing")]
  /\ UNCHANGED <<database, workers>>

(* Variant: nobody looks whether the completion was recorded. *)
EndOk_Unchecked(r) ==
  /\ Decided(r) /\ runs[r].cont # "committed" /\ runs[r].result = "ok"
  /\ Settle(r, "completed", "delete", As(r, "completing"), As(r, "completing"))
  /\ UNCHANGED workers

(* A completion that cannot be recorded fails the attempt. *)
EndOk(r) ==
  /\ Decided(r) /\ runs[r].cont # "committed" /\ runs[r].result = "ok"
  /\ IF JobOutcomes
     THEN Settle(r, "completed", "delete", As(r, "completing"),
                 [As(r, "failing") EXCEPT !.result = "error"])
     ELSE runs' = [runs EXCEPT ![r] = As(r, "completing")] /\ UNCHANGED database
  /\ UNCHANGED workers

EndError(r) ==
  /\ Decided(r) /\ runs[r].cont # "committed" /\ runs[r].result # "ok"
  /\ runs' = [runs EXCEPT ![r] = As(r, "failing")]
  /\ UNCHANGED <<database, workers>>

(* A retry, at Graphile's time or, by scheduleRetry, at the handler's. *)
FailRetried(r) ==
  /\ runs[r].phase = "failing" /\ runs[r].result \in {"error", "retryAt"}
  /\ ~runs[r].last
  /\ runs' = [runs EXCEPT ![r] = As(r, "failed")]
  /\ UNCHANGED <<database, workers>>

(* The attempts are spent: the outcome is best effort, the row stays. *)
FailLast(r) ==
  /\ runs[r].phase = "failing" /\ runs[r].result \in {"error", "retryAt"}
  /\ runs[r].last
  /\ IF JobOutcomes
     THEN Settle(r, "failed", "keep", As(r, "failed"), As(r, "failed"))
     ELSE runs' = [runs EXCEPT ![r] = As(r, "failed")] /\ UNCHANGED database
  /\ UNCHANGED workers

(* NonRetriableError, retained: the row's attempts are exhausted. *)
FailRetained(r) ==
  /\ runs[r].phase = "failing" /\ runs[r].result = "fatal" /\ ~Discard
  /\ Settle(r, "failed", "exhaust", As(r, "failed"), As(r, "failed"))
  /\ UNCHANGED workers

(* NonRetriableError, discarded: best effort, then acknowledged. *)
FailDiscarded(r) ==
  /\ runs[r].phase = "failing" /\ runs[r].result = "fatal" /\ Discard
  /\ IF JobOutcomes
     THEN Settle(r, "failed", "delete", As(r, "completing"), As(r, "completing"))
     ELSE runs' = [runs EXCEPT ![r] = As(r, "completing")] /\ UNCHANGED database
  /\ UNCHANGED workers

---------------------------------------------------------------------------
(* Heartbeats and crash recovery. *)

(* beat(), and maintenance.ready after the first one. *)
Beat(p) ==
  /\ p \in up
  /\ beat[p] # "fresh" \/ p \notin ready
  /\ beat' = [beat EXCEPT ![p] = "fresh"]
  /\ ready' = ready \cup {p}
  /\ registered' = registered \cup {p}
  /\ UNCHANGED <<database, runs, up, stalled>>

(* beatSafely() swallows the error and ready settles all the same. *)
FirstBeatFails(p) ==
  /\ BeatMayFail
  /\ p \in up /\ p \notin ready
  /\ ready' = ready \cup {p}
  /\ UNCHANGED <<database, runs, beat, registered, up, stalled>>

(* staleAfter passes without a beat: the process is gone, or its event     *)
(* loop is blocked.                                                        *)
GoesStale(p) ==
  /\ beat[p] = "fresh"
  /\ p \in up => Cardinality(stalled) < MaxStalls
  /\ beat' = [beat EXCEPT ![p] = "stale"]
  /\ stalled' = stalled \cup ({p} \cap up)
  /\ UNCHANGED <<database, runs, ready, registered, up>>

(* Variant: workers without a heartbeat row count as dead. *)
Dead_NotRegistered(q) == {p \in Pools \ {q} : beat[p] # "fresh"}

(* The workers that sweepDeadWorkers run by pool q claims. *)
Dead(q) == {p \in Pools \ {q} : beat[p] = "stale"}

(* Variants: only the lanes, or only the jobs, are released. *)
ReleasedRows_Kept(dead) == [j \in JobIds |-> rows[j]]
ReleasedLanes_Kept(dead) == [l \in Lanes |-> lanes[l]]

(* releaseJobsLockedBy. *)
ReleasedRows(dead) ==
  [j \in JobIds |-> IF rows[j].lockedBy \in dead THEN Unlocked(rows[j]) ELSE rows[j]]
ReleasedLanes(dead) ==
  [l \in Lanes |-> IF lanes[l] \in dead THEN None ELSE lanes[l]]

(* sweepDeadWorkers, one transaction. *)
Sweep(q) ==
  /\ q \in up
  /\ Dead(q) # {}
  /\ beat' = [p \in Pools |-> IF p \in Dead(q) THEN "none" ELSE beat[p]]
  /\ rows' = ReleasedRows(Dead(q))
  /\ lanes' = ReleasedLanes(Dead(q))
  /\ UNCHANGED <<outcome, nextId, origin, runs, ready, registered, up, stalled>>

(* The process dies; its locks and its heartbeat row stay. *)
Crash(p) ==
  /\ p \in up
  /\ Cardinality(Pools \ up) < MaxCrashes
  /\ up' = up \ {p}
  /\ ready' = ready \ {p}
  /\ runs' = [r \in Runs |-> IF runs[r].pool = p THEN Over(r) ELSE runs[r]]
  /\ UNCHANGED <<database, beat, registered, stalled>>

---------------------------------------------------------------------------
RunProgress(r) ==
  \/ StartHandler(r) \/ HandlerEnds(r) \/ TimesOut(r)
  \/ ContinueJob(r) \/ ContinueRefused(r)
  \/ EndContinued(r) \/ EndOk(r) \/ EndError(r)
  \/ FailRetried(r) \/ FailLast(r) \/ FailRetained(r) \/ FailDiscarded(r)
  \/ GraphileCompletes(r) \/ GraphileFails(r)

PoolStep(p) ==
  \/ Beat(p) \/ FirstBeatFails(p) \/ GoesStale(p) \/ Sweep(p) \/ Crash(p)

Next ==
  \/ \E r \in Runs : RunProgress(r) \/ CallContinue(r)
  \/ \E p \in Pools : PoolStep(p)
  \/ \E p \in Pools, j \in JobIds : Fetch(p, j)
  \/ \E j \in JobIds : BecomesDue(j)

Spec == Init /\ [][Next]_vars

(* Graphile keeps polling and flushing, timers fire, handlers end or time  *)
(* out; two jobs of one lane compete, so a fetch needs strong fairness.    *)
Fairness ==
  /\ \A r \in Runs : WF_vars(RunProgress(r))
  /\ \A p \in Pools : WF_vars(Beat(p)) /\ WF_vars(Sweep(p))
  /\ \A p \in Pools : WF_vars(p \notin up /\ GoesStale(p))
  /\ \A j \in JobIds : WF_vars(BecomesDue(j))
  /\ \A j \in JobIds : SF_vars(\E p \in Pools : Fetch(p, j))

FairSpec == Spec /\ Fairness

---------------------------------------------------------------------------
(* Properties. *)

(* Every variable has its type; in particular no row is locked more often  *)
(* than its attempts allow.                                                *)
TypeOK ==
  /\ rows \in [JobIds -> Row]
  /\ lanes \in [Lanes -> Pools \cup {None}]
  /\ outcome \in [JobIds -> {"none", "completed", "failed", "continued"}]
  /\ nextId \in 1..(MaxJobs + 1)
  /\ runs \in [Runs -> Run]
  /\ beat \in [Pools -> {"none", "fresh", "stale"}]
  /\ ready \subseteq Pools /\ registered \subseteq Pools
  /\ up \subseteq Pools /\ stalled \subseteq Pools
  /\ origin \in [JobIds -> 0..MaxJobs]

(* However many runs of a job were in flight, through crashes, false       *)
(* deaths and retries, at most one of them committed a continuation.       *)
OneContinuation ==
  \A j, k \in JobIds : origin[j] = origin[k] /\ origin[j] # 0 => j = k

(* The jobs whose end a run has committed: continued, completed with a     *)
(* record, or retained after a NonRetriableError.                          *)
Ended(j) ==
  \E n \in 1..MaxAttempts :
    runs[<<j, n>>].wrote \in {"continued", "completed", "retained"}

(* Such a job is never run again: not by a retry next to the continuation, *)
(* not when a crash, a sweep or a lost reply comes between the library's   *)
(* write and Graphile's own update.                                        *)
NoRunAfterEnd ==
  [][\A r \in Runs : Ended(r[1]) /\ runs[r].phase = "none"
                       => runs'[r].phase = "none"]_vars

Active(r) == runs[r].phase \in {"locked", "handler"}

Locked(j)  == rows[j].live /\ rows[j].lockedBy # None
LockOf(j)  == <<j, rows[j].lockedAt>>

(* A run whose handler may be working still holds its row, unless its pool *)
(* has been stale or it committed its own continuation: no second run of a *)
(* job starts beside a live one.                                           *)
ActiveRunOwnsRow ==
  \A r \in Runs : Active(r) =>
    \/ Locked(r[1]) /\ LockOf(r[1]) = r /\ rows[r[1]].lockedBy = runs[r].pool
    \/ runs[r].pool \in stalled
    \/ runs[r].wrote = "continued"

(* jobOutcomes: a completed or continued job has a recorded outcome and no *)
(* row, and a job has no row only with such an outcome - also when workers *)
(* presumed dead finish late.                                              *)
OutcomeMatchesRow ==
  \A j \in 1..(nextId - 1) :
    ~rows[j].live <=> outcome[j] \in {"completed", "continued"}

(* A row that is locked is deleted only in a step of the run that locks it *)
(* or, once that run died with its process, by nobody.                     *)
OnlyOwnerDeletes ==
  [][\A j \in JobIds :
       Locked(j) /\ ~rows'[j].live => runs'[LockOf(j)] # runs[LockOf(j)]]_vars

(* A lane is locked exactly while one of its rows is, by the same pool: no *)
(* lane is left locked by nobody, and none runs two jobs.                  *)
LaneMatchesRows ==
  \A l \in Lanes :
    LET held == {j \in JobIds : Locked(j) /\ rows[j].lane = l}
    IN /\ Cardinality(held) <= 1
       /\ lanes[l] = None <=> held = {}
       /\ \A j \in held : lanes[l] = rows[j].lockedBy

(* A handler runs only in a pool that has a heartbeat row, unless the pool *)
(* has been stale: if it kills its process, the sweep finds its locks.     *)
RunningIsRegistered ==
  \A r \in Runs :
    runs[r].phase = "handler" => beat[runs[r].pool] # "none" \/ runs[r].pool \in stalled

(* A job locked by a crashed pool that has a heartbeat row is released. *)
CrashedPoolReleased ==
  \A p \in Pools, j \in JobIds :
    rows[j].lockedBy = p /\ p \notin up /\ beat[p] # "none" ~> rows[j].lockedBy # p

(* Held by a pool that crashed without a heartbeat row, which only         *)
(* Graphile's scan for locks older than four hours releases.               *)
Stranded(j) ==
  \E p \in Pools \ up :
    /\ p \notin registered \/ p \in stalled
    /\ rows[j].lockedBy = p \/ \E l \in Lanes : l = rows[j].lane /\ lanes[l] = p

(* Every job ends, whatever crashes and however its lane is shared: its    *)
(* row is deleted or its attempts are spent.                               *)
EveryJobEnds ==
  \A j \in JobIds :
    <>[](\/ ~rows[j].live
         \/ rows[j].lockedBy = None /\ rows[j].attempts >= rows[j].max
         \/ Stranded(j))

=============================================================================
