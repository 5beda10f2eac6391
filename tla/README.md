# A TLA+ development for better-graphile-worker

better-graphile-worker runs typed jobs on Graphile Worker 0.17 and PostgreSQL. It adds
continuations, durable steps, waits on child jobs, crash recovery by heartbeat, job
outcomes, idempotency keys and a worker lifecycle. Graphile keeps fetching, completing and
failing the jobs; the library writes Graphile's private tables between those steps. What is
hard about it is that interplay: two parties write one row in separate statements, workers
may be presumed dead while they live, and replies get lost.

Paths below are relative to `src/src/`.

## Files

| file | what it is |
| --- | --- |
| `JobRuns.tla` | the runs of jobs by pools that share a database |
| `JobRunsProofs.tla` | theorems about `JobRuns`: types, continuations and ends |
| `JobOwnershipProofs.tla` | theorems about its locks, lanes, heartbeats and outcomes |
| `MCJobRuns.tla`, `JobRuns*.cfg` | its instances for TLC |
| `Jobs.tla`, `JobPromise.tla` | what is promised of jobs, and how `JobRuns` maps to it |
| `JobPromiseProofs.tla` | the proof that `JobRuns` implements `Jobs` |
| `Waits.tla`, `MCWaits.tla`, `Waits*.cfg` | a parent that waits on child jobs |
| `WaitsProofs.tla` | theorems about `Waits` |
| `WaitLocks.tla`, `MCWaitLocks.tla`, `WaitLocks*.cfg` | one wait, lock by lock |
| `WaitLocksProofs.tla` | theorems about `WaitLocks` |
| `Attempt.tla`, `MCAttempt.tla`, `Attempt.cfg` | steps, progress and readers of one job |
| `AttemptProofs.tla` | theorems about `Attempt` |
| `Enqueue.tla`, `MCEnqueue.tla`, `Enqueue.cfg` | producers, job keys and idempotency keys |
| `EnqueueProofs.tla` | theorems about `Enqueue` |
| `Runner.tla`, `Lifecycle.tla`, `WorkerPool.tla` | the runners, the workers and the pool of a process, each on top of the one before |
| `WorkerPoolProofs.tla` | theorems about the three of them |
| `MCWorkerPool.tla`, `WorkerPool.cfg` | their instances for TLC |
| `PROJECT.json` | runs, mutants, map to the source, findings, hazards, theorems |

Definitions whose name ends in a suffix after an underscore (`Owned_ByPool`,
`Woken_Unlocked`) are variants that no specification uses: each is a plausible bug, and
`PROJECT.json` names the property that must fail when it replaces the definition after it.

## Inventory

| component | state | operations | hard behaviour | correct when |
| --- | --- | --- | --- | --- |
| task execution (`worker.ts`) | a run's signal, deadline, endings | `executeTask`, `ctx.continue`, waits | endings race timeouts; Graphile's update comes later | a job ends once and is not run again after |
| private job rows (`private-jobs.ts`) | `_private_jobs`, `_private_job_queues` | `settleJob`, `continueJob`, `enterWait`, `finishWait`, `sweepWaits`, `releaseJobsLockedBy`, `scheduleRetry`, `patchEnvelope` | stale runs, lost replies, row locks | only the run that holds the lock writes the row; lanes are released with their jobs |
| heartbeats and crash recovery (`maintenance.ts`) | `bgw_worker_heartbeats` | beat, `sweepDeadWorkers`, the maintenance loop | false deaths, first beat, stop during a pass | a dead pool's jobs are released, a live one's are not |
| waits (`waits.ts`) | `bgw_wait_groups`, `bgw_waits`, checkpoints | enter, report, wake, sweep | lost wakeups, crashes between steps, parallel waits | children are enqueued and counted once; the parent sleeps only while it must |
| job outcomes (`job-outcomes.ts`) | `bgw_job_outcomes` | record, `queryJob`, prune | job ends between two reads | a job has a row or an outcome |
| steps (`steps.ts`) | the envelope's checkpoints, a cache per run | `run`, `wait` | concurrent checkpoints, failing writes | a completed step is not run again |
| progress (`progress.ts`) | value, timer, chain of writes | set, flush, close | failing write against close | the last value is written or the failure told, unless the run suspends |
| lifecycle (`lifecycle.ts`) | run, starting, stopping, once | start, stop, relaunch, `runOnce` | interleavings at every await | no runner outlives `stop()` |
| shutdown (`shutdown.ts`) | probes | probe, give up | probe against settle | gives up only on silence |
| worker pool (`worker-pool.ts`) | its workers, an idle promise | start, stop, runOnce, signals | one of several fails to start or ends | all workers run or none does |
| idempotency keys (`enqueue-sql.ts`) | `bgw_idempotency_keys` | `bgw_add_jobs`, `addJobsSql`, prune | concurrent claims, expiry, rows in any order | one job per claim; each id is its item's, but for defaults given and left out |
| enqueue options (`create-job.ts`) | none | `deriveOptions`, `resolveEnqueueSpec`, `createJobs` | precedence, two paths for one batch | the path does not change the mode |
| client (`client.ts`) | cached utilities | getUtils, release, migrate, add, retry | release during use | nothing cached after release |
| completed jobs (`completed-jobs-store.ts`) | a ring | add, list | the bound | newest kept |
| factory, registry, validation, admin, prisma, cli, test harness, observability | none or configuration | | | |

Interaction: producers enqueue rows through `enqueue-sql.ts`. A Graphile pool fetches a row
and calls `executeTask`, which awaits the first heartbeat, runs the handler and settles the
row in its own statement; Graphile then completes or fails it by a batched update. Waits and
continuations are transactions of the run, one at a time on a chain (`createEndings`). Every
worker's maintenance loop beats and sweeps for all. The lifecycle replaces a runner that
Graphile stopped by a new pool, for which the old one is a dead worker.

## JobRuns

State: `rows` and `lanes` are Graphile's tables, `outcome` is `bgw_job_outcomes`, `nextId`
the id sequence. `runs[<<j, n>>]` is the call of `executeTask` for the `n`-th lock of row
`j`; a lock is named by its number, as `locked_at` does in the fence. A run goes `locked`,
`handler`, `ending` (the handler is over, endings may be in flight), `failing`, and then
`completing` or `failed` until Graphile's update, which is an action of its own. `beat`,
`ready` and `registered` are a pool's heartbeat row, `maintenance.ready` and whether it ever
beat; `up` is its process. `origin` and `stalled` record history for the properties.

Actions: `Fetch`, `GraphileCompletes` (by id, whoever locks the row), `GraphileFails` (by id
and pool) and `BecomesDue` are external and follow Graphile 0.17 as the source describes it.
`StartHandler`, `HandlerEnds`, `TimesOut`, `CallContinue`, `ContinueJob`, `ContinueRefused`
and `End*`, `Fail*` are `executeTask`; `Settle` is `settleLockedJob` with its three ways to
treat the row; `Beat`, `FirstBeatFails`, `GoesStale`, `Sweep`, `Crash` are `maintenance.ts`
and its environment. A statement may fail without effect (`"error"`) or commit with its reply
lost (`"lost"`).

| run | shows | distinct states |
| --- | --- | --- |
| `jobruns_outcomes` | with `jobOutcomes`: crash, false death, timeouts, lost statements | 683 000 |
| `jobruns_continue` | several runs of one job race to continue it, a false death | 949 000 |
| `jobruns_live` | Graphile completes or discards two jobs of one lane: each ends, crashed pools are released, the lane is not left locked | 8 600 |
| `jobruns_first_beat` | finding: `ready` settles although the first beat failed | |
| `jobruns_discard` | finding: a discard acknowledges what it did not settle | |

Bounds: two pools are enough for a sweeper and its victim, and for a second run beside the
first; two attempts for a retry after each; three rows for a chain of two continuations; one
crash and one false death, since the second would need a third pool to see it. Two jobs of
one lane are needed for a lane left locked.

Without `jobOutcomes`, README.md:275 of the repository warns that a falsely dead worker's
completion deletes the row of the second run. The model shows the same, and that the lane then
stays locked by the second run's pool. So `OnlyOwnerDeletes` is checked with `jobOutcomes`,
`EveryJobEnds` without false deaths, and `LaneMatchesRows` in both of these settings.

Fairness: Graphile polls and flushes; a handler ends or times out; timers fire, so live pools
beat and sweep. Fetching is strongly fair because two jobs of a lane alternate in being
fetchable, and Graphile takes the oldest. The heartbeat of a dead pool goes stale because time
passes. A pool that crashes before it registered is what the code leaves to Graphile's
four-hour scan, which is not modelled: `Stranded` excludes it.

## Waits

State: the `parent` row (its `run_at` as the set of instants it is the least of), `group` and
`wait` rows, `saved` checkpoints, `jobs[<<child, generation>>]` for the rows of the children
and their continuations, and `runs[n]` for the parent's `n`-th run with its chain of endings.
The three statements of `sweepWaits` are actions of their own (`SweepLost`, `SweepWake`,
`SweepOrphans`): sweeps of several workers interleave them in any order. Each transaction of `enterWait` is one
action: `SuspendWait` (which also enqueues the children the first time) or `FinishWait`;
`EndingFails` is its rollback. `ChildReports` is `settleJob` with a report. `GraphileFails` adds
the backoff to whatever `run_at` holds, which is how a wakeup is swallowed. `ChildEndsUnheard`
and `ChildRevived` are what operators, crash recovery and older workers do to a child.
`TimesOut` leaves an ending in flight; `Refuses` is what waits and `ctx.continue()` check of
each other. A child is `live` through its retries.

| run | shows | distinct states |
| --- | --- | --- |
| `waits` | one wait with a deadline, a child that continues, is lost or revived, `ctx.continue()`, timeouts, rollbacks, a crash, a false death | 2 250 000 |
| `waits_live` | two waits at once: attempts add up, the parent resumes, unheard children are found, orphans go | 34 000 |

`ParentResumes` needs the sweep: when `FinishWait` of one wait rolls back and another wait of
the run suspends, the suspend starts from `infinity` and overwrites the wakeup of the first;
only the second statement of `sweepWaits` repairs that. `SleepsOnlyWhileWaiting` is the safety
part that holds without it.

Bounds: `waits` has one wait, so that everything which may happen to its child and its parent
fits in one run; its parent runs twice, once to suspend and once to find the checkpoint or to
suspend again. `waits_live` has two, because the order of two suspends and finishes is what
the chain is for. A child has one continuation. Two children of one group, which a sweep or
two reports may count together, are in `WaitLocks`. Fairness is that of `JobRuns`, with sweeps
that keep coming and deadlines that pass; children are not assumed to make progress.

The runs leave out a lost COMMIT reply of a suspend. With `"lost"` in `Faults` the model shows
what the code does then: the run takes the suspend for failed, so a handler that catches the
rejection and waits again gives the attempt back a second time (`AttemptsConserved` fails;
`endings.end` is called only after `enterWait` returned, worker.ts:203-206), and one that calls
`ctx.continue()` instead ends the run twice (`OneEnding` fails).

Not in this model: the results themselves, children found by idempotency key, `discard`, and
progress carried by a suspended run.

## WaitLocks

The same wait, one lock at a time, with statement snapshots under READ COMMITTED. `Enter`'s
transaction locks the parent's row, then the group, then (to delete them) the wait rows; a
child's report and a sweep lock wait rows, the group, and for the last child the parent's
row. A row is looked at again once it is locked, whereas what a statement found comes from its
snapshot. `wait_locks` (3 300 states) shows that no wakeup is lost and no child counted twice,
and, with deadlock checking on, that only circular waits get stuck, which PostgreSQL breaks by
rolling one transaction back (`Aborts`).
`wait_locks_circular` shows that such a circle is reachable between a replayed parent and its
last child: the finding in `PROJECT.json`. Two children and two sweepers give every pair of
lockers; the parent's first suspend is not the interesting one, since its children exist only
once it committed, so the model starts at a replay.

The statements two and three of `sweepWaits` each write one table and take one lock per row;
they are atomic in `Waits` and absent here.

## Jobs, the abstract specification

`Jobs` has no pools, rows or locks: a job is absent, open or ended, and `started[j]` holds the
numbers of its attempts. An attempt starts only of an open job and under a new number; a job
ends after an attempt at the earliest, and for good; `Continue` ends one job and opens another
in a single step. `JobPromise` maps `JobRuns` to it: a job is open until a run commits its end,
its row is gone, or its row is unlocked with its attempts spent. `jobruns_continue` checks
`KeepsPromise` with several runs of one job, lost replies and a false death. `End` takes a set of jobs, because
one sweep may release several rows on their last attempt.

## Attempt

One job and its continuation, run by up to three runs that may overlap: a run that timed out
leaves its handler and its steps behind, and a run that lost its lock goes on. A run is the
state of `executeTask` (`handler`, `ended`, `closing`, `settling`, `leaving`), the chain of its
endings, its cache of steps, the steps that run their function or hold a result to write, and
the record `prog` of `createProgressRunner`: the value, `dirty`, the link that waits on the
chain of writes, the one in flight, the timer, `failure` and `closed`. A row holds the
envelope's checkpoints and progress, its lock as the number of the run, and `spent` once its
attempts are exhausted.

Every statement that writes the row commits only while the run holds the lock; one that does
not hold it fails. A fault (bound `MaxFaults`) makes a statement fail, or commit without its
reply, or takes the lock away. `Checkpoint`, `LinkEnds`, `WaitEnds`, `ContinueEnds` and `Settle`
are such statements, and `LinkStarts`, `Parsed` and `Decide` what happens between two awaits.

Two fields of `prog` are history: `owes` is the last value that `set()` accepted, and `lost`
whether the last write failed while `close()` waited for it, `silent` until a caller or the log
is told. What the next run must read is settled from these when the row is unlocked or moved,
and not from the flag `dirty` of the code.

The run `attempt` (3 150 000 states) chooses at the start what handlers use: steps or progress,
with waits or with `ctx.continue()`, or a reader with both. It shows that

- a step resolves to one result in every run and in the continuation (`ResolvedStepsStay`);
- the next run, or the continuation, reads the last value of progress that the run before
  accepted, pending for its timer or not (`NextRunReadsLast`). It reads the last value written
  instead only if the write that `close()` waited for failed, and the failure was thrown or
  logged or the run suspends, or if the run lost its lock. A failure that is neither told nor
  excused so breaks the property, as its second mutant shows;
- a reader who calls `queryJob` again and again is told of an end only once it is final, and
  `not_found` only after the outcome was pruned (`AnswersAreFinal`).

Bounds: two attempts and three runs are a stale run, its successor and a continuation; two
results of a step tell a checkpoint from a stale one; two values of progress are a write in
flight and a newer one behind it; one fault, since each property already fails with one when
the guard that handles it is left out.

Not in this model: `jobOutcomes` off, waits that finish at once (`Waits`), and what a handler
calls long after it settled.

## Enqueue

Producers make calls, one at a time each. A call is a single item or a batch, inside the
application's transaction or in one of its own. It resolves to a mode and a path as
`resolveOne` and `resolveMany` do; on the path without idempotency keys `Add` takes its items
in any order, and `Answer` gives each item its row as `addJobsSql` does: by job key, or by
content and rank. An item carries its options as the call gave them (`Given`), which is what
`assertDistinguishable` compares, and as SQL fills the defaults in (`Filled`, `Content`), which
is what the answer is matched by; `maxAttempts` stands for all options that have a default. On
the other path `bgw_add_jobs` goes item by item: `Claim` waits for the
key's row and finds its job, or takes the key for the job that the following `Add` creates.
Rows keep their committed value beside the one an open transaction wrote; `Commit` and
`Rollback` end it, whether or not the caller hears of it. Workers fetch, retry and end the jobs
with a job key. Time passes, keys expire and `Prune` deletes them.

The run `enqueue` (1 320 000 states) shows `OneJobPerClaim`, `RepliesNameTheirJobs` and
`RunAtPreserved`. Two producers make every race of two claims; a TTL of one and a clock of two
let a key expire and be claimed again; three rows suffice for two calls of which one has two
items. The workloads keep apart what does not interact: idempotency keys, batches of equal
and unequal items, items that spell a default out or leave it out, and job keys with modes.

`RepliesNameTheirJobs` asks that an id names a job with its item's key, content and options, and
that no two items of a call get one id. The job's lane (task and queue) must be the item's too,
except for the items of `Mistakable`: unkeyed items of one `addJobs` which
`assertDistinguishable` took for different (enqueue-sql.ts:221-227) because one gives the default
the other leaves out, and which the SQL takes for equal (78-81). Such items may be answered with
each other's jobs, and are in a workload of the run: without the exception TLC finds
`{maxAttempts: 25}` for one task and `{}` for another exchanged.

Not in this model: enqueues that a hook skips, validation of payloads, priorities, and
idempotency keys of several queues, which never meet.

## Runner, Lifecycle, WorkerPool

`Runner` has what `startRunner` returns: Graphile's pool from `opening` to its end, whether a
stop was asked for, and the maintenance beside it, which starts at `pool:create`, makes passes
over a held connection, and is stopped once the pool has drained. A runner that is let go of
leaves its maintenance as it is (`Left`): that no pass is left after a stop is the doing of
`MaintenanceStops`, which awaits the one under way. The database answers or
does not.

`Lifecycle` has the variables of `createLifecycle` for each worker and the utilities that
`createWorkerClient` caches. Each action is the code between two awaits: `TablesAnswer` and
`MigrationEnds` are `prepareTables`, `RunnerOpened` and `RunnerUnopened` what `options.start`
settles to, `Watch`, `BackoffEnds` and `LateStopped` are `supervise` and `relaunch`,
`StopProceeds`, `RunEnds` and `ReleaseEnds` are `stop()`, and `TasksEnd` and `SweepEnds`
`runOnce()`. `on` are the callers and what they have been answered.

`WorkerPool` calls all workers and waits for all answers; `Undoes`, `Alarm` and `Signal` stop
them again; the pool without queues idles. `StopGivesUp` is a probe that got no answer,
`StopTimesOut` the timeout; the workers go on stopping.

The run `worker_pool` (290 000 states) takes one worker that restarts, and a pool without
queues, under any sequence of calls, signals, failures and outages, and two workers, one of
which does not restart, under three of them (`MaxEvents`): that is enough for a start, the
failure of one and a stop or a signal. Two `Slots` tell a runner from its successor.
`OneRunner` and `NothingOutlivesStop` are the safety of a worker, `AllOrNone` that of the pool,
`StopSettlesInTime` and `RunnerComesBack` its liveness.

Fairness: promises settle, timers fire and jobs end, and what needs the database does so while
it answers. Callers, signals, failures and the database are not fair, so the liveness
properties assume that the database answers, or is silent, for good. `release()` of utilities
is taken to settle either way.

Two things that the code does are excepted by `crossed`. A `stop()` that comes while another is
under way joins it, and a `start()` queued behind the first still runs: after `stop(); start();
stop()` a worker runs, and in a pool of which only some workers still had to stop, some run and
some do not. A signal likewise reaches only the workers that listen by then. And a `runOnce()`
called while a pool's `start()` settles makes the pool watch the promise of `runOnce()` in place
of the run's (worker-pool.ts:212, lifecycle.ts:217), so that a worker which fails later does not
stop the others. This is at odds with the comment at worker-pool.ts:211, "Likewise a runner that
stopped and is not restarted: the pool stops the rest and rejects." Take `crossed` out of
`CallOnce`, and TLC finds `AllOrNone` violated.

Not in these models: the delays of the backoff, and calls to a single worker of a pool.

## Seen while modelling

No run is about these, but the models show or exclude them:

- Without `jobOutcomes`, a step whose checkpoint lands after `ctx.continue()` committed is
  written to the old row and resolves, and the continuation does not have it; with them the row
  is gone and the step rejects.
- progress.ts:41 says that a failed write "is retried". The one that `close()` waits for is not
  (progress.ts:111): a run that fails logs it, and one that suspends drops it silently
  (worker.ts:492), so that the resumed run may read an older value although worker.ts:491 says it
  "reads the latest value". `NextRunReadsLast` excepts both, and a run that lost its lock.
- `add_job` may find the row of a job key locked between its statements and return none. Then
  `bgw_add_jobs` answers a null id, and outside of a transaction only rows are counted
  (client.ts:134), so `createJob` resolves to null.
- `assertDistinguishable` takes an option left out and its default for different, which the SQL
  does not: the ids of two such items may be exchanged (`Mistakable`). The same goes for flags in
  another order.
- Without `jobOutcomes` the row of a child that continued stays until Graphile completes it. If
  its worker dies before that and an operator revives the row with `retryJobs`, it may continue
  again, while the wait row follows the first continuation: when that one goes unheard, the child
  is reported lost although its second continuation can run. With `jobOutcomes` the row goes with
  the continuation, and `LostChildrenCannotRun` assumes them.

## What is proved

Every invariant and every action property that a passing run checks is also a theorem, checked
by TLAPS, for every value of the constants that the module's named assumption allows. Each
module of proofs states one inductive invariant as a conjunction of named parts. TLC checked it
on the runs' instances before it was proved. A proof of preservation has a lemma per action, or
per kind of step where several actions do the same to the state: most steps are steps of one
run, producer, transaction or worker, so one lemma says what such a step leaves to the others,
and another what it has to establish of its own. The theorems then follow from the invariant,
and the last step of each is temporal.

### JobRuns

`JobRunsProofs`, for every set of pools and lanes, every bound, every set of faults and both
values of each option:

- `TypeCorrect`: `Spec => []TypeOK`.
- `ContinuedOnce`: `Spec => []OneContinuation`.
- `EndedIsFinal`: `Spec => NoRunAfterEnd`.

`OneContinuation` is not inductive: it says nothing about why a second run cannot commit. The
invariant is `EndInv`, which adds that a run which has not started has an idle record
(`IdleRuns`), that ids not yet handed out have no row and no origin (`FreshIds`), that a locked
row's lock is its latest attempt (`LatestLock`), and that once a run has committed a
continuation, a completion or a retention, the row is gone or has no attempt left and its
latest lock is that run's (`EndedIsSpent`, `ContinuedIsSpent`). A run that owns a row holds the
latest lock, so a second continuation would be of the run that already wrote one, and `cont`
shows it has not. A fetch needs an attempt left, so an ended job is never fetched.

`JobOwnershipProofs`:

- `HandlersAreRegistered`: `~BeatMayFail` gives `[]RunningIsRegistered`. That a first beat may
  fail is what `jobruns_first_beat` refutes the property with.
- `ActiveRunsOwn`, `LanesAreExact`, `OwnersDelete`: `Guarded` gives `[]ActiveRunOwnsRow`,
  `[]LaneMatchesRows` and `OnlyOwnerDeletes`.
- `OutcomesAreExact`: `Fenced` gives `[]OutcomeMatchesRow`.

`Fenced` is `jobOutcomes` without `'discard'`: every end is the library's own fenced statement.
`Guarded` is `Fenced`, or that no live pool is ever taken for dead. README.md:275 of the
repository warns of exactly the rest, and `jobruns_discard` shows it. The centre of the
invariant `OwnInv` is `WorkingHolds`: a run that works owns its row, or its pool has once been
stale, or the row is gone. `PoolInv` relates `ready`, `registered` and the heartbeats;
`CompletingGone` and `ContinuedGone` say that a fenced run which completes or has continued left
no row; `DeadRows` and `OutcomeFresh` that a row which is gone or not yet there is blank, and
that nothing is recorded of ids to come; `LaneRows` says that a locked lane has one locked row, of the same pool, and
conversely. A completion or a continuation is recorded exactly when the row has gone: a fenced
end does both in one statement.

`JobPromiseProofs`:

- `PromiseKept`: `Spec => KeepsPromise`, the refinement of `Jobs`, without hypothesis.

`PromiseInv` adds to `OwnInv` that a row counts as attempts the runs there have been (`Tried`),
that a run writes its end only when it is over (`Shapes`), and that the run which wrote an end
was the last (`WroteLast`). Each step of `JobRuns` is then a `Start`, a `Continue`, an `End` of
the jobs it newly ends, or leaves `Jobs` alone.

### Waits

`WaitsProofs`, for any finite set of waits, any number of children of each, and every bound:

- `RemainingIsExact`: `Spec => []RemainingCounts`; `NoWakeupIsLost`:
  `Spec => []SleepsOnlyWhileWaiting`. Both without hypothesis.
- `TypesHold`, `OneEndingPerRun`, `AttemptsAreConserved`, `ChildrenAreEnqueuedOnce`:
  `RepliesArrive` gives `[]TypeOK`, `[]OneEnding`, `[]AttemptsConserved` and `ChildrenOnce`.
- `LostChildrenCannotRun`: `RepliesArrive` and `JobOutcomes` give `LostCannotRun`.

`RepliesArrive` is `"lost" \notin Faults`; what a lost COMMIT reply does is described under
`Waits` above, and with it these properties are false. (`TypeOK` is among them since it bounds
the attempts from below.) `CoreInv` has the types with attempts as any integers, that
only a run that works has calls on its chain (`ChainsWork`), the exact counts, and that the
parent sleeps only while a group with children left is open, whose deadline would wake it, or
while a run holds it whose unlock adds a backoff (`AwakeUnlessWaiting`). `OnceInv` adds what
runs know while replies arrive: a run knows its own ending (`RunsFit`), the run of the latest
lock knows every checkpoint (`KnowsSaved`), a wait with neither group nor checkpoint has
enqueued nothing (`OneBatch`), and the row counts the locks whose runs did not suspend
(`AttemptsFit`). `LineInv` adds that only the last row of a child exists (`OneLine`) and that
the wait row names it (`Followed`), so that a child found missing has none that can run.

`WaitLocksProofs`, for any finite set of children and any set of sweepers:

- `TypesHold`, `RemainingIsExact`, `WakeupsAreKept`: `Spec` implies `[]TypeOK`,
  `[]RemainingCounts` and `[]NoLostWakeup`.

The invariant says that what a transaction has looked at under a lock stays true until it
commits: the parent's transaction has the parent's row and then the group (`EnterLocked`), a
report has the wait rows it claims, none of which has a result, and, once it knows that it is
the last, the group (`ClaimsHeld`); and nobody claims a row of a closed group (`ClosedIsQuiet`).

### Attempt

`AttemptProofs`, for any number of runs, steps, results, values and faults:

- `TypesHold`, `ResolvedStaysResolved`, `ProgressIsReadBack`, `AnswersStayFinal`: `Spec` implies
  `[]TypeOK`, `[]ResolvedStepsStay`, `[]NextRunReadsLast` and `AnswersAreFinal`.

The invariant `AttemptInv` is about the run that holds the lock, of which there is one at most.
The run of a locked row is alive (`LocksWork`). What is resolved or cached is the checkpoint in
the row (`Kept`), and when the holder still has a step to run or to write, nobody knows a result
of it (`OnlyUnknown`): a stale run that finishes the step late cannot write, and the holder
cannot contradict anyone. A value of progress that is neither dirty nor in flight is in the row
(`Written`). What a run owes is the value it has in memory, and `Accounted` follows a failed
write through `close()`: until it is told, `failure` is set, and a run that leaves with an
unwritten value has either told of it or suspends. An attempt is given back once, and once more for each lost reply (`Tries`), which
is why `TypeOK` lets attempts fall to `-MaxFaults`. `Readers` relates what the reader was
told to the row and the outcome.

### Enqueue

`EnqueueProofs`, for any set of producers and keys, calls of any length and every workload:

- `TypesHold`, `KeysClaimOneJob`, `RepliesAreTheirs`, `RunAtIsPreserved`: `Spec` implies
  `[]TypeOK`, `[]OneJobPerClaim`, `[]RepliesNameTheirJobs` and `RunAtPreserved`.

A transaction keeps locked what it wrote until it ends, so what its call will answer is in the
rows: the key of the next item (`NextClaimed`), of a duplicate (`DuplicatesHeld`), of a claim
(`ClaimsHeld`) and the jobs themselves (`NamesHeld`). The committed row of a key is its latest
claim until that has expired (`ClaimsLatest`), which a second claim has to wait for. For
batches, the answer by content and rank is one-to-one because ranks in a finite set of numbers
are; the job it finds then has the item's own lane, or that of an item which SQL cannot tell
from it though they were given differently, since the check made the others agree: the lemmas
`RankTells`, `RankCovers` and `RankFinds`, from cardinalities.

### Runner, Lifecycle, WorkerPool

`WorkerPoolProofs`, for every finite set of workers, whichever of them restart, and both values
of each option:

- `TypesHold`, `OneRunnerAtATime`, `AllRunOrNone`, `NothingOutlivesAStop`: `Spec` implies
  `[]TypeOK`, `[]OneRunner`, `[]AllOrNone` and `NothingOutlivesStop`.

Of each worker, `PoolInv` says what its variables say of each other (`Opens`, `Runs`, `Hears`):
one of start, restart and `runOnce()` is getting ready, or none; a stopped run belongs to a
stop; signals are heard exactly from start to stop. Only the active runner exists, it ends
only when asked and is asked only by a stop, and its maintenance is over when it has ended
(`RunnersSound`), and while utilities are released
none are cached (`UtilsSound`). `Member` relates the pool's calls to each worker: who waits on
a start, and that a run is watched once its start has been answered. `AllOrNone` rests on
`Together`: unless something that will stop them all is already under way (`MustStop`: an alarm,
or a member whose start failed or whose run ended during a start), all members have or get a
run, or none does.

### Assumptions

They are `JobRunsAssumption`, `WaitsAssumption`, `WaitLocksAssumption`, `AttemptAssumption`,
`EnqueueAssumption`, `RunnerAssumption`, `LifecycleAssumption` and `WorkerPoolAssumption`, and
TLC evaluates each. They give the types of the constants, keep `None`, `Continue` and the names
of transactions apart from the sets beside them, and say that waits, children and workers are
finitely many and that a call of `createJob` has one item.

### Only model-checked

- Liveness, since fairness and ENABLED are beyond the prover: `EveryJobEnds`,
  `CrashedPoolReleased`, `ParentResumes`, `EveryChildHeard`, `OrphansDropped`,
  `StopSettlesInTime` and `RunnerComesBack`; and that the specifications do not deadlock.
- The three findings, which are counterexamples.

## Plan

Modelled, checked and proved: `JobRuns` with `Jobs`, `Waits`, `WaitLocks`, `Attempt`, `Enqueue`
and `WorkerPool`. What is left:

1. a refinement between `WaitLocks` and the wait of `Waits`, so that the atomic transactions of
   the latter follow from the locks of the former;
2. the part of `Waits` that survives a lost COMMIT reply, as `Attempt` states it for attempts:
   how far each property is off per lost reply;
3. waits inside children, whose reports are then those of a parent.

## Not modelled

The admin view and the completed jobs it lists, the test harness, the command line, telemetry
and hooks have no state that a run, a producer or a stop depends on. Registry and validation
are checks of configuration at construction. The restart backoff and `resolveCrashRecovery` are
arithmetic on options. Graphile itself and PostgreSQL are modelled only as far as the source
relies on them.
