------------------------------- MODULE Waits -------------------------------
(***************************************************************************)
(* One parent job whose handler waits on child jobs (ctx.step.             *)
(* triggerAndWait): worker.ts runs the waits of a run one transaction at a *)
(* time, private-jobs.ts keeps a group row per wait and a wait row per     *)
(* child, suspends the parent through Graphile's failure update, and wakes *)
(* it when the last child reports.  Statements are atomic here; WaitLocks  *)
(* takes two of them apart.                                                *)
(***************************************************************************)
EXTENDS Naturals, Sequences, FiniteSets

CONSTANTS
  Pools,        \* Graphile worker pools
  None,         \* no pool
  Waits,        \* ids of the waits the handler may call
  Count,        \* the number of children of each wait
  Timed,        \* waits with a timeout
  Continue,     \* ctx.continue(), next to the waits on a run's chain
  MayContinue,  \* whether the handler calls ctx.continue()
  MaxAttempts,  \* max_attempts of the parent
  Faults,       \* what may befall a transaction: subset of {"lost", "error"}
  JobOutcomes,  \* the jobOutcomes option
  MaxLocks,     \* bound: how often the parent is fetched
  MaxGen,       \* bound: continuations of a child, or batches of a wait
  MaxCrashes,   \* bound: pools that crash
  MaxStalls     \* bound: live pools that are presumed dead

ASSUME WaitsAssumption ==
  /\ None \notin Pools /\ Continue \notin Waits /\ IsFiniteSet(Waits)
  /\ Count \in [Waits -> Nat \ {0}] /\ Timed \subseteq Waits
  /\ {MayContinue, JobOutcomes} \subseteq BOOLEAN
  /\ MaxAttempts \in Nat \ {0} /\ MaxLocks \in Nat /\ MaxGen \in Nat
  /\ MaxCrashes \in Nat /\ MaxStalls \in Nat
  /\ Faults \subseteq {"lost", "error"}

VARIABLES
  parent,   \* the parent's row of _private_jobs
  group,    \* bgw_wait_groups, the parent's
  wait,     \* bgw_waits, the parent's
  saved,    \* the waits checkpointed in the parent's envelope
  jobs,     \* the children's rows of _private_jobs
  passed,   \* waits whose deadline has passed
  runs,     \* the calls of executeTask for the parent, one per lock
  up,       \* pools whose process runs
  stalls    \* how many live pools were presumed dead

vars == <<parent, group, wait, saved, jobs, passed, runs, up, stalls>>

waiting == <<group, wait, saved, jobs>>
world   == <<passed, up, stalls>>

---------------------------------------------------------------------------
Kids     == UNION {{<<w, i>> : i \in 1..Count[w]} : w \in Waits}
KidsOf(w) == {c \in Kids : c[1] = w}
Gens     == 0..MaxGen
Locks    == 1..MaxLocks

(* run_at is the earliest of a set of instants: "now", a backoff ahead     *)
(* ("soon") or the deadline of a wait; the empty set is the year 9999.     *)
Instants == {"now", "soon"} \cup Waits

Parent == [live : BOOLEAN, lockedBy : Pools \cup {None}, lockNo : 0..MaxLocks,
           attempts : 0..MaxAttempts, max : 0..MaxAttempts, runAt : SUBSET Instants]

(* A child's row: "live" while it may run (queued or locked, retries and   *)
(* all), "spent" when it is locked by a run whose failure would be for     *)
(* good, "failed" when no attempt is left, "gone" when it is deleted.      *)
JobStates == {"none", "live", "spent", "failed", "gone"}

Phases == {"none", "handler", "ending", "completing", "failed", "done"}

Run == [pool : Pools \cup {None}, phase : Phases,
        chain : Seq(Waits \cup {Continue}),   \* endings not yet settled
        begun : BOOLEAN,                      \* the first of them has begun
        called : BOOLEAN,                     \* ctx.continue() was called
        knows : SUBSET Waits,                 \* the run's step cache
        ending : {"none", "waiting", "continued"},
        expired : BOOLEAN,                    \* the queue's timeout has fired
        result : {"none", "ok", "error", "fatal"},
        wrote : SUBSET {"suspended", "continued"}]  \* history: what it committed

NoRun == [pool |-> None, phase |-> "none", chain |-> <<>>, begun |-> FALSE,
          called |-> FALSE, knows |-> {}, ending |-> "none", expired |-> FALSE,
          result |-> "none", wrote |-> {}]

NoGroup == [open |-> FALSE, remaining |-> 0]
NoWait  == [job |-> 0, result |-> "none"]

Over(n) == [NoRun EXCEPT !.phase = "done", !.wrote = runs[n].wrote]

(* owned(): the parent's row as run n locked it. *)
Owned(n) ==
  parent.live /\ parent.lockedBy = runs[n].pool /\ parent.lockNo = n

(* A failure update: run_at = greatest(now(), run_at) + backoff.  While    *)
(* the row is locked a deadline in run_at has been moved back by as much;  *)
(* it may pass meanwhile.                                                  *)
Backoff(at) ==
  IF at \cap ({"now", "soon"} \cup passed) # {}
  THEN {{"soon"}}
  ELSE {at} \cup {soon \in {{"soon"}} : at # {}}

Unlocked(at) == [parent EXCEPT !.lockedBy = None, !.runAt = at]

Asleep == parent.live /\ parent.lockedBy = None /\ parent.attempts < parent.max

---------------------------------------------------------------------------
Init ==
  /\ parent = [live |-> TRUE, lockedBy |-> None, lockNo |-> 0, attempts |-> 0,
               max |-> MaxAttempts, runAt |-> {"now"}]
  /\ group = [w \in Waits |-> NoGroup]
  /\ wait = [c \in Kids |-> NoWait]
  /\ saved = [w \in Waits |-> "none"]
  /\ jobs = [k \in Kids \X Gens |-> "none"]
  /\ passed = {}
  /\ runs = [n \in Locks |-> NoRun]
  /\ up = Pools
  /\ stalls = 0

---------------------------------------------------------------------------
(* Graphile and the clock. *)

(* get_job; the run's step cache is the envelope it was fetched with. *)
Fetch(p) ==
  LET n == parent.lockNo + 1 IN
  /\ p \in up /\ n \in Locks
  /\ Asleep /\ "now" \in parent.runAt
  /\ parent' = [parent EXCEPT !.lockedBy = p, !.lockNo = n, !.attempts = @ + 1]
  /\ runs' = [runs EXCEPT ![n] = [NoRun EXCEPT
       !.pool = p, !.phase = "handler", !.knows = {w \in Waits : saved[w] # "none"}]]
  /\ UNCHANGED <<waiting, world>>

(* run_at passes. *)
BecomesDue ==
  /\ Asleep /\ "now" \notin parent.runAt
  /\ parent.runAt \cap ({"soon"} \cup passed) # {}
  /\ parent' = [parent EXCEPT !.runAt = {"now"}]
  /\ UNCHANGED <<waiting, runs, world>>

DeadlinePasses(w) ==
  /\ w \in Timed \ passed /\ group[w].open
  /\ passed' = passed \cup {w}
  /\ UNCHANGED <<parent, waiting, runs, up, stalls>>

(* complete_jobs deletes by id. *)
GraphileCompletes(n) ==
  /\ runs[n].phase = "completing"
  /\ parent' = [parent EXCEPT !.live = FALSE, !.lockedBy = None]
  /\ runs' = [runs EXCEPT ![n] = Over(n)]
  /\ UNCHANGED <<waiting, world>>

(* fail_jobs matches the id and the pool. *)
GraphileFails(n) ==
  /\ runs[n].phase = "failed"
  /\ IF parent.live /\ parent.lockedBy = runs[n].pool
     THEN \E at \in Backoff(parent.runAt) : parent' = Unlocked(at)
     ELSE UNCHANGED parent
  /\ runs' = [runs EXCEPT ![n] = Over(n)]
  /\ UNCHANGED <<waiting, world>>

(* The process dies, and with it every run of its pool. *)
Crash(p) ==
  /\ p \in up
  /\ Cardinality(Pools \ up) < MaxCrashes
  /\ up' = up \ {p}
  /\ runs' = [n \in Locks |-> IF runs[n].pool = p THEN Over(n) ELSE runs[n]]
  /\ UNCHANGED <<parent, waiting, passed, stalls>>

(* releaseJobsLockedBy, for a crashed pool or one that is presumed dead. *)
Release(p) ==
  /\ parent.live /\ parent.lockedBy = p
  /\ \/ p \notin up /\ UNCHANGED stalls
     \/ p \in up /\ stalls < MaxStalls /\ stalls' = stalls + 1
  /\ \E at \in Backoff(parent.runAt) : parent' = Unlocked(at)
  /\ UNCHANGED <<waiting, runs, passed, up>>

---------------------------------------------------------------------------
(* A run of the parent: the handler and the chain of its endings. *)

Calling(n) == runs[n].phase = "handler" /\ ~runs[n].expired

(* step.run and triggerAndWait: a cached wait starts nothing, one in       *)
(* flight is joined, and a rejected one may be called again.               *)
CallWait(n, w) ==
  /\ Calling(n)
  /\ w \notin runs[n].knows \cup {runs[n].chain[i] : i \in DOMAIN runs[n].chain}
  /\ runs' = [runs EXCEPT ![n].chain = Append(@, w)]
  /\ UNCHANGED <<parent, waiting, world>>

CallContinue(n) ==
  /\ MayContinue /\ Calling(n) /\ ~runs[n].called
  /\ runs' = [runs EXCEPT ![n].chain = Append(@, Continue), ![n].called = TRUE]
  /\ UNCHANGED <<parent, waiting, world>>

(* The handler returns or throws, with endings left on the chain or not. *)
HandlerEnds(n) ==
  /\ runs[n].phase = "handler"
  /\ \E result \in {"ok", "error", "fatal"} :
       runs' = [runs EXCEPT ![n].phase = "ending", ![n].result = result]
  /\ UNCHANGED <<parent, waiting, world>>

TimesOut(n) ==
  /\ runs[n].phase = "handler"
  /\ runs' = [runs EXCEPT ![n].phase = "ending", ![n].result = "error",
                          ![n].expired = TRUE]
  /\ UNCHANGED <<parent, waiting, world>>

Head1(n) == Head(runs[n].chain)
Next1(n) == runs[n].chain # <<>> /\ runs[n].begun

(* Run n with the first ending of its chain settled. *)
Popped(n) ==
  [runs[n] EXCEPT !.chain = Tail(@), !.begun = FALSE]

(* Variant: only a wait is refused, after the timeout. *)
Refuses_Waits(n) == Head1(n) \in Waits /\ runs[n].expired

(* A wait is refused after the timeout or a continuation, a continuation   *)
(* after a wait that suspended the run.                                    *)
Refuses(n) ==
  IF Head1(n) = Continue
  THEN runs[n].ending # "none"
  ELSE runs[n].expired \/ runs[n].ending = "continued"

BeginEnding(n) ==
  /\ runs[n].chain # <<>> /\ ~runs[n].begun
  /\ runs' = [runs EXCEPT ![n] = IF Refuses(n) THEN Popped(n)
                                 ELSE [@ EXCEPT !.begun = TRUE]]
  /\ UNCHANGED <<parent, waiting, world>>

(* The transaction finds the row locked anew, or rolls back. *)
EndingFails(n) ==
  /\ Next1(n)
  /\ ~Owned(n) \/ "error" \in Faults
  /\ runs' = [runs EXCEPT ![n] = Popped(n)]
  /\ UNCHANGED <<parent, waiting, world>>

(* What run n makes of an ending that committed, seen or not. *)
Committed(n, ending, knows, wrote) ==
  {[Popped(n) EXCEPT !.ending = IF @ = "none" THEN ending ELSE @,
                     !.knows = @ \cup knows, !.wrote = @ \cup wrote]}
  \cup {[Popped(n) EXCEPT !.wrote = @ \cup wrote] : lost \in {"lost"} \cap Faults}

---------------------------------------------------------------------------
(* Children. *)

(* The id of a child's next row, none when the bound is reached. *)
Fresh(c) ==
  {g \in Gens : jobs[<<c, g>>] = "none" /\ \A h \in 0..(g - 1) : jobs[<<c, h>>] # "none"}

(* The children in tell report a result: their wait rows take it, their    *)
(* groups count it, and a group without children left wakes the parent.    *)
(* Variant: a result may be reported over another.                         *)
Told_Again(tell) == {c \in tell : group[c[1]].open}

Told(tell) == {c \in tell : group[c[1]].open /\ wait[c].result = "none"}

(* Variant: the parent is woken only while nobody locks it. *)
Woken_Unlocked(empty) ==
  IF empty /\ parent.lockedBy = None THEN [parent EXCEPT !.runAt = {"now"}] ELSE parent

Woken(empty) ==
  IF empty /\ parent.live THEN [parent EXCEPT !.runAt = {"now"}] ELSE parent

Left(w, told) == group[w].remaining - Cardinality(told \cap KidsOf(w))

Report(tell, result) ==
  LET told == Told(tell) IN
  /\ wait' = [c \in Kids |-> IF c \in told THEN [wait[c] EXCEPT !.result = result] ELSE wait[c]]
  /\ group' = [w \in Waits |-> [group[w] EXCEPT !.remaining = Left(w, told)]]
  /\ parent' = Woken(\E c \in told : Left(c[1], told) = 0)

(* settleJob with a report, in the statement that ends the child: its row  *)
(* is deleted, or has no attempt left.                                     *)
ChildReports(k) ==
  /\ jobs[k] = "live"
  /\ Report({c \in {k[1]} : wait[c].job = k[2]}, "told")
  /\ \E left \in {"spent", "gone"} : jobs' = [jobs EXCEPT ![k] = left]
  /\ UNCHANGED <<saved, runs, world>>

(* Graphile's own failure or completion of a row that was settled. *)
SpentEnds(k) ==
  /\ jobs[k] = "spent"
  /\ \E left \in {"failed", "gone"} : jobs' = [jobs EXCEPT ![k] = left]
  /\ UNCHANGED <<parent, group, wait, saved, runs, world>>

(* It ends without a report: released on its last attempt, its report      *)
(* lost, failJobs, deleted, or completed by a worker without wait support. *)
ChildEndsUnheard(k) ==
  /\ jobs[k] = "live"
  /\ \E left \in {"failed", "gone"} : jobs' = [jobs EXCEPT ![k] = left]
  /\ UNCHANGED <<parent, group, wait, saved, runs, world>>

(* client.retryJobs on a failed child. *)
ChildRevived(k) ==
  /\ jobs[k] = "failed"
  /\ jobs' = [jobs EXCEPT ![k] = "live"]
  /\ UNCHANGED <<parent, group, wait, saved, runs, world>>

(* Variant: waiting parents do not follow the child. *)
Repointed_Not(k, g) == wait

(* Waiting parents follow a child to its continuation g. *)
Repointed(k, g) ==
  [c \in Kids |-> IF c = k[1] /\ group[c[1]].open /\ wait[c] = [job |-> k[2], result |-> "none"]
                  THEN [wait[c] EXCEPT !.job = g] ELSE wait[c]]

(* continueJob of a waited child. *)
ChildContinues(k) ==
  /\ jobs[k] = "live"
  /\ \E g \in Fresh(k[1]) :
       /\ jobs' = [jobs EXCEPT ![<<k[1], g>>] = "live",
                               ![k] = IF JobOutcomes THEN "gone" ELSE "spent"]
       /\ wait' = Repointed(k, g)
  /\ UNCHANGED <<parent, group, saved, runs, world>>

---------------------------------------------------------------------------
(* enterWait. *)

(* The group, created with its children unless a wait before created it. *)
Enqueued(w) == IF group[w].open THEN group[w] ELSE [open |-> TRUE, remaining |-> Count[w]]

(* Variant: a replay enqueues the children again. *)
EnqueuedJobs_Again(w) ==
  [k \in Kids \X Gens |->
     IF k[1][1] = w /\ k[2] \in Fresh(k[1]) THEN "live" ELSE jobs[k]]

EnqueuedJobs(w) ==
  [k \in Kids \X Gens |->
     IF k[1][1] = w /\ ~group[w].open /\ k[2] \in Fresh(k[1]) THEN "live" ELSE jobs[k]]

EnqueuedWait(w) ==
  [c \in Kids |-> IF c[1] = w /\ ~group[w].open
                  THEN [NoWait EXCEPT !.job = CHOOSE g \in Fresh(c) : TRUE] ELSE wait[c]]

CanEnqueue(w) == group[w].open \/ \A c \in KidsOf(w) : Fresh(c) # {}

Complete(w) == group[w].open /\ group[w].remaining = 0
Expired(w)  == group[w].open /\ w \in passed

(* Waits w and their rows, deleted. *)
GroupsWithout(ws) == [w \in Waits |-> IF w \in ws THEN NoGroup ELSE group[w]]
WaitsWithout(ws)  == [c \in Kids |-> IF c[1] \in ws THEN NoWait ELSE wait[c]]

(* finishWait: the results go into the envelope and the group goes. *)
FinishWait(n, w) ==
  /\ Next1(n) /\ Head1(n) = w
  /\ Owned(n)
  /\ Complete(w) \/ Expired(w)
  /\ saved' = [saved EXCEPT ![w] = IF Complete(w) THEN "complete" ELSE "timedOut"]
  /\ group' = GroupsWithout({w}) /\ wait' = WaitsWithout({w})
  /\ \E run \in Committed(n, "none", {w}, {}) : runs' = [runs EXCEPT ![n] = run]
  /\ UNCHANGED <<parent, jobs, world>>

(* Variant: every wait that suspends gives the attempt back. *)
GivenBack_Always(n) == 1

(* The attempt is given back once per run. *)
GivenBack(n) == IF runs[n].ending = "none" THEN 1 ELSE 0

(* Where run_at points: the first suspend of a run starts from infinity. *)
SuspendedUntil(n, w) ==
  (IF runs[n].ending = "none" THEN {} ELSE parent.runAt) \cup ({w} \cap Timed)

(* The suspend keeps the lock; the error that ends the run unlocks the row. *)
SuspendWait(n, w) ==
  /\ Next1(n) /\ Head1(n) = w
  /\ Owned(n) /\ CanEnqueue(w)
  /\ ~Complete(w) /\ ~Expired(w)
  /\ group' = [group EXCEPT ![w] = Enqueued(w)]
  /\ jobs' = EnqueuedJobs(w)
  /\ wait' = EnqueuedWait(w)
  /\ parent' = [parent EXCEPT !.attempts = @ - GivenBack(n), !.runAt = SuspendedUntil(n, w)]
  /\ passed' = IF group[w].open THEN passed ELSE passed \ {w}
  /\ \E run \in Committed(n, "waiting", {}, {"suspended"}) : runs' = [runs EXCEPT ![n] = run]
  /\ UNCHANGED <<saved, up, stalls>>

(* continueJob of the parent; the continuation is a job of its own. *)
ContinueParent(n) ==
  /\ Next1(n) /\ Head1(n) = Continue
  /\ Owned(n)
  /\ parent' = IF JobOutcomes THEN [parent EXCEPT !.live = FALSE, !.lockedBy = None]
                              ELSE [parent EXCEPT !.max = parent.attempts]
  /\ \E run \in Committed(n, "continued", {}, {"continued"}) : runs' = [runs EXCEPT ![n] = run]
  /\ UNCHANGED <<waiting, world>>

---------------------------------------------------------------------------
(* The end of a run, once its endings have settled. *)

Decided(n) == runs[n].phase = "ending" /\ runs[n].chain = <<>>

To(n, phase) ==
  runs' = [runs EXCEPT ![n] = [NoRun EXCEPT
             !.pool = runs[n].pool, !.phase = phase, !.wrote = runs[n].wrote]]

EndWaiting(n) ==
  /\ Decided(n) /\ runs[n].ending = "waiting"
  /\ To(n, "failed")
  /\ UNCHANGED <<parent, waiting, world>>

EndContinued(n) ==
  /\ Decided(n) /\ runs[n].ending = "continued"
  /\ To(n, "completing")
  /\ UNCHANGED <<parent, waiting, world>>

(* jobOutcomes: a completion is recorded only by the run that owns the row. *)
EndOk(n) ==
  /\ Decided(n) /\ runs[n].ending = "none" /\ runs[n].result = "ok"
  /\ IF ~JobOutcomes THEN To(n, "completing") /\ UNCHANGED parent
     ELSE IF Owned(n)
     THEN To(n, "completing") /\ parent' = [parent EXCEPT !.live = FALSE, !.lockedBy = None]
     ELSE To(n, "failed") /\ UNCHANGED parent
  /\ UNCHANGED <<waiting, world>>

(* A NonRetriableError, as a failed child or a timed-out wait throws, is   *)
(* retained: it exhausts the row's attempts first.                         *)
EndFailed(n) ==
  /\ Decided(n) /\ runs[n].ending = "none" /\ runs[n].result \in {"error", "fatal"}
  /\ To(n, "failed")
  /\ parent' = IF runs[n].result = "fatal" /\ Owned(n)
               THEN [parent EXCEPT !.max = parent.attempts] ELSE parent
  /\ UNCHANGED <<waiting, world>>

---------------------------------------------------------------------------
(* sweepWaits: three statements, which the sweeps of several workers may   *)
(* interleave in any order.                                                *)

(* Variant: only a child whose row is gone counts as lost. *)
Lost_Gone == {c \in Kids : group[c[1]].open /\ jobs[<<c, wait[c].job>>] = "gone"}

(* Children that ended without reporting. *)
Lost == {c \in Kids : group[c[1]].open /\ jobs[<<c, wait[c].job>>] \in {"failed", "gone"}}

SweepLost ==
  /\ Told(Lost) # {}
  /\ Report(Lost, "lost")
  /\ UNCHANGED <<saved, jobs, runs, passed, up, stalls>>

(* Variant: no second look at groups without children left. *)
Swallowed_Never == FALSE

(* A parent that sleeps although one of its groups has no children left. *)
Swallowed == Asleep /\ "now" \notin parent.runAt
             /\ \E w \in Waits : group[w].open /\ group[w].remaining = 0

SweepWake ==
  /\ Swallowed
  /\ parent' = [parent EXCEPT !.runAt = {"now"}]
  /\ UNCHANGED <<waiting, runs, passed, up, stalls>>

(* Variant: an orphan goes when its last child has reported. *)
Orphans_Done == {w \in Waits : ~parent.live /\ group[w].remaining = 0}

Orphans == {w \in Waits : ~parent.live}

SweepOrphans ==
  /\ \E w \in Orphans : group[w].open
  /\ group' = GroupsWithout(Orphans) /\ wait' = WaitsWithout(Orphans)
  /\ UNCHANGED <<parent, saved, jobs, runs, passed, up, stalls>>

---------------------------------------------------------------------------
RunProgress(n) ==
  \/ HandlerEnds(n) \/ TimesOut(n) \/ BeginEnding(n) \/ EndingFails(n)
  \/ ContinueParent(n) \/ \E w \in Waits : FinishWait(n, w) \/ SuspendWait(n, w)
  \/ EndWaiting(n) \/ EndContinued(n) \/ EndOk(n) \/ EndFailed(n)
  \/ GraphileCompletes(n) \/ GraphileFails(n)

ChildStep(k) ==
  \/ ChildReports(k) \/ SpentEnds(k) \/ ChildEndsUnheard(k)
  \/ ChildRevived(k) \/ ChildContinues(k)


Next ==
  \/ \E n \in Locks : RunProgress(n) \/ CallContinue(n) \/ \E w \in Waits : CallWait(n, w)
  \/ \E k \in Kids \X Gens : ChildStep(k)
  \/ \E p \in Pools : Fetch(p) \/ Crash(p) \/ Release(p)
  \/ \E w \in Waits : DeadlinePasses(w)
  \/ BecomesDue
  \/ SweepLost \/ SweepWake \/ SweepOrphans

Spec == Init /\ [][Next]_vars

(* Graphile polls and flushes, timers fire, handlers end or time out, and  *)
(* the maintenance loop sweeps.  Children need not make progress.          *)
Fairness ==
  /\ \A n \in Locks : WF_vars(RunProgress(n))
  /\ WF_vars(\E p \in Pools : Fetch(p))
  /\ WF_vars(\E p \in Pools \ up : Release(p))
  /\ WF_vars(BecomesDue)
  /\ WF_vars(SweepLost) /\ WF_vars(SweepWake) /\ WF_vars(SweepOrphans)
  /\ \A w \in Waits : WF_vars(DeadlinePasses(w))

FairSpec == Spec /\ Fairness

---------------------------------------------------------------------------
(* Properties. *)

(* Every variable has its type; in particular no group counts below zero   *)
(* and the attempts given back never exceed those taken.                   *)
TypeOK ==
  /\ parent \in Parent
  /\ group \in [Waits -> [open : BOOLEAN, remaining : 0..Cardinality(Kids)]]
  /\ wait \in [Kids -> [job : Gens, result : {"none", "told", "lost"}]]
  /\ saved \in [Waits -> {"none", "complete", "timedOut"}]
  /\ jobs \in [Kids \X Gens -> JobStates]
  /\ passed \subseteq Timed
  /\ runs \in [Locks -> Run]
  /\ up \subseteq Pools /\ stalls \in 0..MaxStalls

(* A group's counter is the number of its children without a result, after *)
(* any mix of reports, continuations, sweeps and revived children.         *)
RemainingCounts ==
  \A w \in Waits : group[w].open =>
    group[w].remaining = Cardinality({c \in KidsOf(w) : wait[c].result = "none"})

(* A parent sleeps until a deadline, or for good, only while some wait of  *)
(* it still has an unfinished child: no report falls between the suspend   *)
(* and the failure update that unlocks the parent.                         *)
SleepsOnlyWhileWaiting ==
  Asleep /\ parent.runAt \cap {"now", "soon"} = {} =>
    \E w \in Waits : group[w].open /\ group[w].remaining > 0

(* attempts counts the runs that did not end at a wait, however many waits *)
(* a run called at once and whatever ended it.                             *)
AttemptsConserved ==
  parent.attempts =
    Cardinality({n \in 1..parent.lockNo : "suspended" \notin runs[n].wrote})

(* The children of a wait are enqueued once: replays, crashes, retries and *)
(* runs presumed dead find the group or the checkpoint.  A child gets a    *)
(* second row only as its continuation, when its row before ends.          *)
ChildrenOnce ==
  [][\A c \in Kids, g \in Gens \ {0} :
       jobs[<<c, g>>] = "none" /\ jobs'[<<c, g>>] # "none" =>
         \E h \in Gens : jobs[<<c, h>>] = "live" /\ jobs'[<<c, h>>] # "live"]_vars

(* The sweep never reports a child as lost while a row of it, such as its  *)
(* continuation, can still run and report.                                 *)
LostCannotRun ==
  [][\A c \in Kids : wait'[c].result = "lost" /\ wait[c].result # "lost" =>
       \A g \in wait[c].job..MaxGen : jobs[<<c, g>>] # "live"]_vars

(* No run both suspends and continues, whatever order its calls settle in. *)
OneEnding == \A n \in Locks : runs[n].wrote # {"suspended", "continued"}

(* A sleeping parent with a wait that is over, or whose deadline passed,   *)
(* runs again, also when the wakeup was swallowed; after the last fetch    *)
(* the bound allows, it becomes due.                                       *)
Ready(w) == Complete(w) \/ (Expired(w) /\ w \in parent.runAt)

ParentResumes ==
  \A w \in Waits :
    (Asleep /\ Ready(w)) ~> (~Asleep \/ (parent.lockNo = MaxLocks /\ "now" \in parent.runAt))

(* A child that ended without reporting is found, unless it is revived, or *)
(* its wait ends without it.                                               *)
Unheard(c) ==
  /\ group[c[1]].open /\ wait[c].result = "none"
  /\ jobs[<<c, wait[c].job>>] \in {"failed", "gone"}

EveryChildHeard == \A c \in Kids : Unheard(c) ~> ~Unheard(c)

(* The wait rows of a parent that is gone are dropped. *)
OrphansDropped == \A w \in Waits : (~parent.live) ~> (~group[w].open)
=============================================================================
