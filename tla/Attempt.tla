------------------------------ MODULE Attempt ------------------------------
(***************************************************************************)
(* What runs of one job leave for the next: the checkpoints of its steps   *)
(* (steps.ts) and its progress (progress.ts), which live in the job's row  *)
(* (private-jobs.ts) and end with the run (worker.ts), or move to its      *)
(* continuation; and a reader that looks the job up (job-outcomes.ts).     *)
(* jobOutcomes is on.  Which pool locks a row is the subject of JobRuns:   *)
(* here a lock is the number of the run that holds it.                     *)
(***************************************************************************)
EXTENDS Integers, FiniteSets

CONSTANTS
  Uses,        \* features that handlers and readers use, and how many runs
  Steps,       \* step ids
  MaxAttempts, \* max_attempts of the job
  MaxRuns,     \* bound: runs of the job and its continuation
  MaxResults,  \* bound: results that the functions of a step return
  MaxSets,     \* bound: values that progress is set to
  MaxFaults    \* bound: statements that fail or whose reply is lost, locks lost

Features == {"steps", "progress", "waits", "continue", "lookups"}

ASSUME AttemptAssumption ==
  /\ Uses \subseteq [features : SUBSET Features, runs : 0..MaxRuns]
  /\ {MaxAttempts, MaxRuns} \subseteq Nat \ {0}
  /\ {MaxResults, MaxSets, MaxFaults} \subseteq Nat

VARIABLES
  uses,      \* the features in use, and the bound on runs
  rows,      \* _private_jobs: the job and its continuation
  outcomes,  \* bgw_job_outcomes
  runs,      \* the runs: executeTask's state and the handler's
  reader,    \* a reader of the job: its query, and the last answer it got
  results,   \* history: results of each step so far; each is a new one
  sets,      \* history: values that progress was set to so far
  resolved,  \* history: what step.run() resolved to
  owed,      \* history: the progress that the next run of a row must read
  pruned,    \* history: whether the outcome of the job was pruned
  faults     \* statements that failed or whose reply was lost, locks lost

history == <<uses, results, sets, resolved, owed, pruned>>
vars == <<rows, outcomes, runs, reader, history, faults>>

Job          == 1
Continuation == 2
Rows         == {Job, Continuation}
Runs         == 1..MaxRuns
Results      == 0..MaxResults   \* 0: none
Values       == 0..MaxSets      \* 0: undefined

NoSteps == [s \in Steps |-> 0]
NoRow   == [state |-> "none", lock |-> 0, tries |-> 0, spent |-> FALSE,
            steps |-> NoSteps, progress |-> 0]
Queued  == [NoRow EXCEPT !.state = "queued"]

(* createProgressRunner: writing is the value of the write in flight, and  *)
(* flush what the calls of flush() wait for.  Two fields are history: owes *)
(* is the last value that set() accepted, or else the one the run was to   *)
(* read; lost, whether the last write failed while close() waited for it,  *)
(* and whether a caller or the log was told.                               *)
Progress == [value : Values, dirty : BOOLEAN, queued : BOOLEAN, closed : BOOLEAN,
             timer : BOOLEAN, writing : SUBSET Values, parsing : BOOLEAN,
             flush : SUBSET {"link", "write"}, failure : BOOLEAN,
             owes : Values, lost : {"no", "silent", "told"}]
NewProgress(v) == [value |-> v, dirty |-> FALSE, queued |-> FALSE, closed |-> FALSE,
                   timer |-> FALSE, writing |-> {}, parsing |-> FALSE, flush |-> {},
                   failure |-> FALSE, owes |-> 0, lost |-> "no"]

(* A run: pending steps run their function or hold a result to write;      *)
(* chain is the transaction of the ending that is under way.               *)
NoRun == [row |-> 0, state |-> "none", how |-> "none", last |-> FALSE,
          expired |-> FALSE, called |-> FALSE, chain |-> "free", ending |-> "none",
          cache |-> NoSteps, running |-> {}, writing |-> NoSteps,
          prog |-> NewProgress(0)]

(* What is left of a run that is over: its steps that still work.          *)
Over(run) == [NoRun EXCEPT !.row = run.row, !.state = "over",
                           !.running = run.running, !.writing = run.writing]

Outcomes == {"none", "completed", "failed", "continued"}

States == {"none", "handler", "ended", "closing", "settling", "leaving", "over", "dead"}
Gone   == {"none", "dead", "over"}

Init ==
  /\ uses \in Uses
  /\ rows = [j \in Rows |-> IF j = Job THEN Queued ELSE NoRow]
  /\ outcomes = [j \in Rows |-> "none"]
  /\ runs = [r \in Runs |-> NoRun]
  /\ reader = [missed |-> FALSE, told |-> "nothing"]
  /\ results = NoSteps /\ sets = 0
  /\ resolved = [s \in Steps |-> {}]
  /\ owed = [j \in Rows |-> 0] /\ pruned = FALSE
  /\ faults = 0

---------------------------------------------------------------------------
(* private-jobs.ts *)

RowOf(r) == rows[runs[r].row]

(* Variant: locked by the run's pool, whichever attempt holds the lock. *)
Owned_ByPool(r) == RowOf(r).state = "locked"

Owned(r) == RowOf(r).state = "locked" /\ RowOf(r).lock = r

(* A statement of r that writes its row: it does, or fails without the     *)
(* lock, or a fault stops it or loses its reply.                           *)
Writes(r, row) ==
  rows' = IF Owned(r) THEN [rows EXCEPT ![runs[r].row] = row] ELSE rows
Faulty(r, row) ==
  /\ faults < MaxFaults /\ faults' = faults + 1
  /\ Writes(r, row) \/ UNCHANGED rows
Clean == UNCHANGED faults

Become(r, run) == runs' = [runs EXCEPT ![r] = run]
Prog(r, p)     == Become(r, [runs[r] EXCEPT !.prog = p])

---------------------------------------------------------------------------
(* Graphile, and a sweep that presumes a pool dead *)

(* The run's store and progress come from the envelope it was given.       *)
Fetch(j, r) ==
  /\ rows[j].state = "queued" /\ ~rows[j].spent
  /\ r <= uses.runs /\ runs[r].state = "none" /\ \A q \in 1..(r - 1) : runs[q].state # "none"
  /\ rows' = [rows EXCEPT ![j].state = "locked", ![j].lock = r, ![j].tries = @ + 1]
  /\ Become(r, [NoRun EXCEPT !.row = j, !.state = "handler", !.cache = rows[j].steps,
                  !.last = rows[j].tries + 1 >= MaxAttempts,
                  !.prog = [NewProgress(rows[j].progress) EXCEPT !.owes = owed[j]]])
  /\ UNCHANGED <<outcomes, reader, history, faults>>

Unlocked(row) == [row EXCEPT !.state = "queued", !.lock = 0,
                             !.spent = @ \/ row.tries >= MaxAttempts]

(* The write that close() waited for failed: the failure was told, or the  *)
(* run suspends, and executeTask drops it.                                 *)
Excused(run) == run.prog.lost = "told" \/ (run.prog.lost = "silent" /\ run.how = "wait")

(* The failure update that follows a run which threw.                      *)
GraphileFails(r) ==
  LET run == runs[r] IN
  /\ run.state = "leaving"
  /\ Writes(r, Unlocked(RowOf(r)))
  /\ owed' = IF Owned(r)
             THEN [owed EXCEPT ![run.row] = IF Excused(run) THEN RowOf(r).progress
                                            ELSE run.prog.owes]
             ELSE owed
  /\ Become(r, Over(run))
  /\ UNCHANGED <<uses, outcomes, reader, results, sets, resolved, pruned, faults>>

(* The lock of a run that crashed, or of a live one that stalled, goes.    *)
Release(r) ==
  /\ runs[r].state \notin Gone /\ Owned(r)
  /\ faults < MaxFaults /\ faults' = faults + 1
  /\ rows' = [rows EXCEPT ![runs[r].row] = Unlocked(@)]
  /\ owed' = [owed EXCEPT ![runs[r].row] = RowOf(r).progress]
  /\ \/ Become(r, [NoRun EXCEPT !.row = Job, !.state = "dead"]) \/ UNCHANGED runs
  /\ UNCHANGED <<uses, outcomes, reader, results, sets, resolved, pruned>>

---------------------------------------------------------------------------
(* Steps *)

(* assertActive(), in a handler that still runs, detached or not: calls by *)
(* what a settled handler left behind are not modelled.                    *)
MayStart(r) ==
  /\ runs[r].state = "handler" \/ (runs[r].expired /\ runs[r].state \notin Gone)
  /\ ~runs[r].expired

Resolves(s, v) == resolved' = [resolved EXCEPT ![s] = @ \cup {v}]

(* step.run(): a cached result, the pending call's, or the function runs.  *)
CallStep(r, s) ==
  LET run == runs[r] IN
  /\ MayStart(r)
  /\ \/ run.cache[s] # 0 /\ Resolves(s, run.cache[s]) /\ UNCHANGED runs
     \/ /\ run.cache[s] = 0 /\ run.writing[s] = 0 /\ s \notin run.running
        /\ Become(r, [run EXCEPT !.running = @ \cup {s}])
        /\ UNCHANGED resolved
  /\ UNCHANGED <<uses, rows, outcomes, reader, results, sets, owed, pruned, faults>>

(* The function returns a result, to be written, or throws.                *)
StepEnds(r, s) ==
  /\ s \in runs[r].running
  /\ \/ /\ results[s] < MaxResults /\ results' = [results EXCEPT ![s] = @ + 1]
        /\ Become(r, [runs[r] EXCEPT !.running = @ \ {s}, !.writing[s] = results'[s]])
     \/ Become(r, [runs[r] EXCEPT !.running = @ \ {s}]) /\ UNCHANGED results
  /\ UNCHANGED <<uses, rows, outcomes, reader, sets, resolved, owed, pruned, faults>>

Checkpointed(row, s, v) == [row EXCEPT !.steps[s] = v]

(* writeCheckpoint(), one at a time: the result is cached and resolved     *)
(* only once it is in the row.                                             *)
Checkpoint(r, s) ==
  LET run == runs[r]
      v   == run.writing[s]
      row == Checkpointed(RowOf(r), s, v) IN
  /\ v # 0
  /\ \/ /\ Owned(r) /\ Writes(r, row) /\ Clean /\ Resolves(s, v)
        /\ Become(r, [run EXCEPT !.writing[s] = 0,
                        !.cache[s] = IF run.state = "handler" THEN v ELSE @])
     \/ /\ \/ ~Owned(r) /\ UNCHANGED rows /\ Clean
           \/ Faulty(r, row)
        /\ Become(r, [run EXCEPT !.writing[s] = 0])
        /\ UNCHANGED resolved
  /\ UNCHANGED <<uses, outcomes, reader, results, sets, owed, pruned>>

---------------------------------------------------------------------------
(* Progress *)

(* write(): a link is queued on the chain of writes, unless one waits.     *)
Wrote(p) == [p EXCEPT !.timer = FALSE, !.queued = @ \/ p.dirty]

Drained(p) == ~p.queued /\ p.writing = {}

(* rethrow(): the failure of an earlier write is thrown, once.             *)
Told(p)      == [p EXCEPT !.failure = FALSE,
                          !.lost = IF p.failure /\ @ = "silent" THEN "told" ELSE @]
Swallowed(p) == [p EXCEPT !.failure = FALSE]

(* set() refuses, throws the failure of an earlier write, or parses.       *)
CallSet(r) ==
  LET p == runs[r].prog IN
  /\ MayStart(r) /\ ~p.closed /\ ~p.parsing /\ sets < MaxSets
  /\ Prog(r, IF p.failure THEN Told(p) ELSE [p EXCEPT !.parsing = TRUE])
  /\ UNCHANGED <<rows, outcomes, reader, history, faults>>

(* The interval since the last write is over, or a timer waits for it.     *)
Parsed(r) ==
  LET p   == runs[r].prog
      set == [p EXCEPT !.parsing = FALSE, !.value = sets + 1, !.dirty = TRUE,
                       !.owes = sets + 1] IN
  /\ p.parsing
  /\ \/ p.closed /\ Prog(r, [p EXCEPT !.parsing = FALSE]) /\ UNCHANGED sets
     \/ /\ ~p.closed /\ sets < MaxSets /\ sets' = sets + 1
        /\ \/ Prog(r, [set EXCEPT !.timer = TRUE])
           \/ ~p.timer /\ Prog(r, Wrote(set))
  /\ UNCHANGED <<uses, rows, outcomes, reader, results, resolved, owed, pruned, faults>>

TimerFires(r) ==
  /\ runs[r].prog.timer /\ Prog(r, Wrote(runs[r].prog))
  /\ UNCHANGED <<rows, outcomes, reader, history, faults>>

(* flush() writes at once, waits for the last link, and rethrows.          *)
Flush(r) ==
  LET p == Wrote(runs[r].prog) IN
  /\ MayStart(r) /\ ~p.closed
  /\ Prog(r, IF Drained(p) THEN Told(p)
             ELSE [p EXCEPT !.flush = @ \cup {IF p.queued THEN "link" ELSE "write"}])
  /\ UNCHANGED <<rows, outcomes, reader, history, faults>>

(* The next link of the chain starts, and takes the latest value.          *)
LinkStarts(r) ==
  LET p    == runs[r].prog
      link == [p EXCEPT !.queued = FALSE, !.dirty = FALSE,
                        !.writing = IF p.dirty THEN {p.value} ELSE {},
                        !.flush = IF p.dirty /\ "link" \in @ THEN {"write"} ELSE {}] IN
  /\ p.queued /\ p.writing = {}
  /\ Prog(r, IF ~p.dirty /\ "link" \in p.flush THEN Told(link) ELSE link)
  /\ UNCHANGED <<rows, outcomes, reader, history, faults>>

(* Variant: a failed write is only repeated. *)
Failed_Silent(p) == [p EXCEPT !.dirty = TRUE]

(* A failed write is told to the next call, or by close(), and its value is *)
(* written again by the next write.                                        *)
Failed(p) == [p EXCEPT !.failure = TRUE, !.dirty = TRUE]

LinkEnds(r) ==
  LET run    == runs[r]
      over   == [run.prog EXCEPT !.writing = {}, !.flush = @ \ {"write"}]
      wrote  == [over EXCEPT !.lost = "no"]
      failed == IF run.state = "closing" THEN [Failed(over) EXCEPT !.lost = "silent"]
                ELSE Failed(over)
      Resume(p) == Prog(r, IF "write" \in run.prog.flush THEN Told(p) ELSE p) IN
  \E v \in run.prog.writing :
    LET row == [RowOf(r) EXCEPT !.progress = v] IN
    /\ \/ Owned(r) /\ Writes(r, row) /\ Clean /\ Resume(wrote)
       \/ ~Owned(r) /\ UNCHANGED rows /\ Clean /\ Resume(failed)
       \/ Faulty(r, row) /\ Resume(failed)
    /\ UNCHANGED <<outcomes, reader, history>>

(* Variant: close() leaves the timer running. *)
Closed_Ticking(p, persist) ==
  [p EXCEPT !.closed = TRUE, !.queued = @ \/ (persist /\ p.dirty)]

(* close(): no further value; the latest is written if it is to persist.   *)
Closed(p, persist) ==
  [(IF persist THEN Wrote(p) ELSE p) EXCEPT !.closed = TRUE, !.timer = FALSE]

---------------------------------------------------------------------------
(* Endings, one transaction at a time.  A wait here always suspends: how   *)
(* waits finish is the subject of Waits.                                   *)

InHandler(r) == runs[r].state = "handler" /\ MayStart(r) /\ runs[r].chain = "free"

CallWait(r) ==
  /\ InHandler(r) /\ runs[r].ending # "continued"
  /\ Become(r, [runs[r] EXCEPT !.chain = "wait"])
  /\ UNCHANGED <<rows, outcomes, reader, history, faults>>

(* enterWait(): the first wait to suspend gives the attempt back.          *)
WaitEnds(r) ==
  LET run == runs[r]
      row == IF run.ending = "none" THEN [RowOf(r) EXCEPT !.tries = @ - 1] ELSE RowOf(r) IN
  /\ run.chain = "wait"
  /\ \/ /\ ~run.expired /\ Owned(r) /\ Writes(r, row) /\ Clean
        /\ Become(r, [run EXCEPT !.chain = "free",
                        !.ending = IF @ = "none" THEN "waiting" ELSE @])
     \/ /\ \/ (run.expired \/ ~Owned(r)) /\ UNCHANGED rows /\ Clean
           \/ ~run.expired /\ Faulty(r, row)
        /\ Become(r, [run EXCEPT !.chain = "free"])
  /\ UNCHANGED <<outcomes, reader, history>>

(* ctx.continue(), once: it closes the progress and waits for its writes.  *)
CallContinue(r) ==
  LET run == [runs[r] EXCEPT !.called = TRUE] IN
  /\ InHandler(r) /\ ~runs[r].called /\ runs[r].row = Job
  /\ Become(r, IF run.ending # "none" THEN run
               ELSE [run EXCEPT !.chain = "continue", !.prog = Closed(@, FALSE)])
  /\ UNCHANGED <<rows, outcomes, reader, history, faults>>

(* The latest value in memory, or else the row's.                          *)
Carried(r) ==
  [Queued EXCEPT !.steps = RowOf(r).steps,
                 !.progress = IF runs[r].prog.value # 0 THEN runs[r].prog.value
                              ELSE RowOf(r).progress]

(* continueJob() moves the job to its continuation in one transaction.     *)
Continues(r) ==
  /\ Owned(r)
  /\ rows' = [rows EXCEPT ![Job].state = "gone", ![Continuation] = Carried(r)]
  /\ outcomes' = [outcomes EXCEPT ![Job] = "continued"]
  /\ owed' = [owed EXCEPT ![Continuation] = runs[r].prog.owes]

Refused == UNCHANGED <<rows, outcomes, owed>>

ContinueEnds(r) ==
  LET run == [runs[r] EXCEPT !.chain = "free", !.prog = Swallowed(@)] IN
  /\ runs[r].chain = "continue" /\ Drained(runs[r].prog)
  /\ \/ Continues(r) /\ Clean /\ Become(r, [run EXCEPT !.ending = "continued"])
     \/ ~Owned(r) /\ Refused /\ Clean /\ Become(r, run)
     \/ /\ faults < MaxFaults /\ faults' = faults + 1
        /\ Continues(r) \/ Refused
        /\ Become(r, run)
  /\ UNCHANGED <<uses, reader, results, sets, resolved, pruned>>

---------------------------------------------------------------------------
(* executeTask *)

(* The handler returns, throws, or throws a NonRetriableError.             *)
HandlerEnds(r) ==
  /\ runs[r].state = "handler"
  /\ \E how \in {"ok", "fail", "fatal"} :
       Become(r, [runs[r] EXCEPT !.state = "ended", !.how = how])
  /\ UNCHANGED <<rows, outcomes, reader, history, faults>>

(* The run fails without its handler, which goes on detached.              *)
TimesOut(r) ==
  /\ runs[r].state = "handler"
  /\ Become(r, [runs[r] EXCEPT !.state = "ended", !.how = "fail", !.expired = TRUE])
  /\ UNCHANGED <<rows, outcomes, reader, history, faults>>

(* Once endings settle: a committed one decides, whatever the handler did. *)
Decided(run) == CASE run.ending = "waiting"   -> "wait"
                  [] run.ending = "continued" -> "continue"
                  [] OTHER                    -> run.how

(* Variant: a run that fails drops the value that waits for its timer. *)
Persists_Waiting(how) == how = "wait"

Persists(how) == how \in {"wait", "fail", "fatal"}

(* What only calls and endings read is dropped.                            *)
Closing(run, how) ==
  [run EXCEPT !.state = "closing", !.how = how,
              !.prog = [Closed(@, Persists(how)) EXCEPT !.lost = "no"],
              !.called = FALSE, !.ending = "none", !.cache = NoSteps]

Decide(r) ==
  /\ runs[r].state = "ended" /\ runs[r].chain = "free"
  /\ Become(r, Closing(runs[r], Decided(runs[r])))
  /\ UNCHANGED <<rows, outcomes, reader, history, faults>>

(* Only the close() of a run that failed logs what it throws.              *)
CloseEnds(r) ==
  LET run == runs[r] IN
  /\ run.state = "closing" /\ Drained(run.prog)
  /\ Become(r, [run EXCEPT !.state = "settling",
                  !.prog = IF run.how \in {"fail", "fatal"} THEN Told(@) ELSE Swallowed(@)])
  /\ UNCHANGED <<rows, outcomes, reader, history, faults>>

(* settleJob(): the row and the outcome in one statement.                  *)
Settled(r, row, outcome) ==
  /\ rows' = [rows EXCEPT ![runs[r].row] = row]
  /\ outcomes' = [outcomes EXCEPT ![runs[r].row] = outcome]
Unsettled == UNCHANGED <<rows, outcomes>>

Settles(r, row, outcome, told, untold) ==
  \/ Owned(r) /\ Settled(r, row, outcome) /\ Clean /\ Become(r, told)
  \/ ~Owned(r) /\ Unsettled /\ Clean /\ Become(r, untold)
  \/ /\ faults < MaxFaults /\ faults' = faults + 1
     /\ (Owned(r) /\ Settled(r, row, outcome)) \/ Unsettled
     /\ Become(r, untold)

Settle(r) ==
  LET run  == runs[r]
      gone == [RowOf(r) EXCEPT !.state = "gone"]
      left == [run EXCEPT !.state = "leaving"] IN
  /\ run.state = "settling"
  /\ \/ run.how = "continue" /\ Unsettled /\ Clean /\ Become(r, Over(run))
     \/ /\ run.how = "ok"
        /\ Settles(r, gone, "completed", Over(run), Closing(run, "fail"))
     \/ /\ run.how = "wait" \/ (run.how = "fail" /\ ~run.last)
        /\ Unsettled /\ Clean /\ Become(r, left)
     \/ run.how = "fail" /\ run.last /\ Settles(r, RowOf(r), "failed", left, left)
     \/ /\ run.how = "fatal"
        /\ Settles(r, [RowOf(r) EXCEPT !.spent = TRUE], "failed", left, left)
  /\ UNCHANGED <<reader, history>>

---------------------------------------------------------------------------
(* job-outcomes.ts *)

Prune ==
  /\ outcomes[Job] # "none"
  /\ outcomes' = [outcomes EXCEPT ![Job] = "none"] /\ pruned' = TRUE
  /\ UNCHANGED <<uses, rows, runs, reader, results, sets, resolved, owed, faults>>

Live     == rows[Job].state # "gone"
Recorded == outcomes[Job] # "none"

(* Variant: the outcome is read first. *)
LiveFirst_Swapped == FALSE

(* Outcomes commit with the deletion of the row, which is read first.      *)
LiveFirst == TRUE

(* pending, retrying, running and waiting are one answer here.             *)
LiveState(row) ==
  IF row.state # "locked" /\ (row.spent \/ row.tries >= MaxAttempts) THEN "failed" ELSE "open"

Tells(answer) == reader' = [missed |-> FALSE, told |-> answer]

(* queryJob(): two statements.                                             *)
Query ==
  LET reads == IF LiveFirst = reader.missed THEN "outcome" ELSE "row" IN
  /\ \/ reads = "row" /\ Live /\ Tells(LiveState(rows[Job]))
     \/ reads = "outcome" /\ Recorded /\ Tells(outcomes[Job])
     \/ /\ IF reads = "row" THEN ~Live ELSE ~Recorded
        /\ IF reader.missed THEN Tells("not_found")
           ELSE reader' = [reader EXCEPT !.missed = TRUE]
  /\ UNCHANGED <<rows, outcomes, runs, history, faults>>

Next ==
  \/ "lookups" \in uses.features /\ (Prune \/ Query)
  \/ \E r \in Runs :
       \/ \E j \in Rows : Fetch(j, r)
       \/ /\ "steps" \in uses.features
          /\ \E s \in Steps : CallStep(r, s) \/ StepEnds(r, s) \/ Checkpoint(r, s)
       \/ /\ "progress" \in uses.features
          /\ CallSet(r) \/ Parsed(r) \/ TimerFires(r) \/ Flush(r)
             \/ LinkStarts(r) \/ LinkEnds(r)
       \/ "waits" \in uses.features /\ (CallWait(r) \/ WaitEnds(r))
       \/ "continue" \in uses.features /\ (CallContinue(r) \/ ContinueEnds(r))
       \/ HandlerEnds(r) \/ TimesOut(r) \/ Decide(r) \/ CloseEnds(r) \/ Settle(r)
       \/ GraphileFails(r) \/ Release(r)

Spec == Init /\ [][Next]_vars

---------------------------------------------------------------------------
(* Values stay in range, no timer of a run's progress outlives the run,    *)
(* and there is a continuation only of a job that is gone.                 *)
TypeOK ==
  /\ \A j \in Rows :
       /\ rows[j].state \in {"none", "queued", "locked", "gone"}
       /\ rows[j].lock \in 0..MaxRuns /\ rows[j].tries \in (-MaxFaults)..MaxAttempts
       /\ rows[j].steps \in [Steps -> Results] /\ rows[j].progress \in Values
  /\ \A r \in Runs :
       /\ runs[r].state \in States /\ runs[r].prog \in Progress
       /\ runs[r].running \subseteq Steps
       /\ runs[r].state \in {"settling", "leaving"} =>
            runs[r].prog.closed /\ ~runs[r].prog.timer /\ Drained(runs[r].prog)
  /\ rows[Continuation].state # "none" => rows[Job].state = "gone"
  /\ outcomes \in [Rows -> Outcomes]

(* What step.run() resolved to, it resolves to in every run of the job and *)
(* of its continuation, however runs overlap, time out, lose their lock or *)
(* a reply: no stale run's checkpoint replaces a later run's.              *)
ResolvedStepsStay == \A s \in Steps : Cardinality(resolved[s]) <= 1

(* The next run of a job, or its continuation, starts from the last value  *)
(* that set() accepted, although writes lag, are coalesced, fail and are   *)
(* repeated.  Only when the write that close() waited for failed, and this *)
(* was thrown or logged or the run suspended (worker.ts:492 drops it), or  *)
(* when the run lost its lock, does it start from the last value written;  *)
(* then no late write of the run before replaces what it reads.            *)
NextRunReadsLast ==
  \A j \in Rows : rows[j].state = "queued" => rows[j].progress = owed[j]

(* A reader who asks again and again is told of an end only once it is     *)
(* final, and not_found only after the outcome was pruned, although a      *)
(* query is two reads between which the job may end, a run on the last     *)
(* attempt may yet suspend, and a failure is recorded before its row is.   *)
Ends == {"completed", "failed", "continued"}

AnswersAreFinal ==
  [][/\ reader.told \in Ends /\ reader'.told # reader.told => reader'.told = "not_found"
     /\ reader'.told = "not_found" => pruned /\ ~Live']_vars
=============================================================================
