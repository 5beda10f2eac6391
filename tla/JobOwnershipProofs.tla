------------------------- MODULE JobOwnershipProofs -------------------------
(***************************************************************************)
(* Who holds a row and a lane of JobRuns, for every value of its           *)
(* constants: theorems about locks, heartbeats and recorded outcomes.      *)
(***************************************************************************)
EXTENDS JobRunsProofs, FiniteSetTheorems

---------------------------------------------------------------------------
(* The steps of a run, in two kinds: those that write only the run, and    *)
(* those whose statement wrote the row that the run owns.                  *)

Working(r) == runs[r].phase \notin {"none", "done"}

(* jobOutcomes without 'discard': every completion is fenced.              *)
Fenced == JobOutcomes /\ ~Discard

(* The phases before a run's end is decided.                               *)
Early == {"locked", "handler", "ending"}

Moved(r, run) ==
  /\ run \in Run /\ runs' = [runs EXCEPT ![r] = run]
  /\ Working(r) /\ runs[r].phase # "failed" /\ run.phase \notin {"none", "done"}
  /\ run.pool = runs[r].pool
  /\ run.phase \in {"locked", "handler"} => Active(r)
  /\ run.phase = "handler" => runs[r].phase = "handler" \/ runs[r].pool \in ready
  /\ run.cont = "inflight" => run.phase \in {"handler", "ending"}
  /\ run # runs[r]
  /\ UNCHANGED workers

WroteOnlyRun(r, run) ==
  /\ UNCHANGED database
  /\ run.wrote = runs[r].wrote
  /\ run.cont = "committed" => runs[r].cont = "committed"
  /\ run.cont \in {"no", "inflight"} => runs[r].cont \in {"no", "inflight"}
  /\ run.phase \in Early => runs[r].phase \in Early
  /\ run.phase = "completing" => runs[r].cont = "committed" \/ ~Fenced

Deleted(r, run) ==
  /\ JobOutcomes
  /\ rows' = [rows EXCEPT ![r[1]] = NoRow]
  /\ lanes' = FreeLane(rows[r[1]].lane, runs[r].pool)
  /\ \E state \in {"completed", "failed"} :
       /\ run.wrote = state /\ outcome' = [outcome EXCEPT ![r[1]] = state]
       /\ Fenced => state = "completed"

Retained(r, run) ==
  /\ run.phase # "completing"
  /\ lanes' = lanes
  /\ \/ /\ rows' = rows /\ run.wrote = "failed" /\ JobOutcomes
        /\ outcome' = [outcome EXCEPT ![r[1]] = "failed"]
     \/ /\ rows' = [rows EXCEPT ![r[1]] = Exhausted(rows[r[1]])]
        /\ run.wrote = "retained" /\ run.phase = "failed"
        /\ outcome' \in {outcome, [outcome EXCEPT ![r[1]] = "failed"]}

WroteRow(r, run) ==
  /\ Owned(r) /\ ~Active(r)
  /\ run.phase \notin Early /\ run.cont = runs[r].cont
  /\ UNCHANGED <<nextId, origin>>
  /\ Deleted(r, run) \/ Retained(r, run)

(* The fields of a run at another phase. *)
LEMMA AsFields ==
  ASSUME TypeOK, NEW r \in Runs, NEW f \in Phases
  PROVE  /\ As(r, f) \in Run /\ As(r, f).phase = f
         /\ As(r, f).pool = runs[r].pool /\ As(r, f).cont = runs[r].cont
         /\ As(r, f).wrote = runs[r].wrote
BY DEF As, Run, TypeOK

(* The other fields of a run of which one is written. *)
LEMMA RunFields ==
  /\ \A run \in Run, e \in HandlerResults :
       LET x == [run EXCEPT !.result = e]
       IN  /\ x \in Run /\ x.phase = run.phase /\ x.pool = run.pool
           /\ x.wrote = run.wrote /\ x.cont = run.cont
  /\ \A run \in Run, w \in Writes :
       LET x == [run EXCEPT !.wrote = w]
       IN  /\ x \in Run /\ x.phase = run.phase /\ x.pool = run.pool
           /\ x.wrote = w /\ x.cont = run.cont
BY DEF Run

(* Settle writes only the run, or also the row. *)
LEMMA SettleSteps ==
  ASSUME TypeOK, NEW r \in Runs, NEW state \in {"completed", "failed"},
         NEW row \in {"delete", "exhaust", "keep"},
         NEW yes \in Run, NEW no \in Run,
         Settle(r, state, row, yes, no), UNCHANGED workers,
         Working(r), runs[r].phase # "failed", ~Active(r), runs[r].cont # "inflight",
         yes.phase # runs[r].phase, no.phase # runs[r].phase,
         \A run \in {yes, no} :
           /\ run.phase \notin {"none", "done", "locked", "handler", "ending"}
           /\ run.pool = runs[r].pool /\ run.cont = runs[r].cont
           /\ run.wrote = runs[r].wrote,
         row # "exhaust" => JobOutcomes,
         row = "keep" => state = "failed" /\ yes.phase # "completing" /\ no.phase # "completing",
         row = "exhaust" => state = "failed" /\ yes.phase = "failed" /\ no.phase = "failed",
         Fenced /\ row = "delete" => state = "completed",
         no.phase = "completing" => ~Fenced
  PROVE  \E run : Moved(r, run) /\ (WroteOnlyRun(r, run) \/ WroteRow(r, run))
<1>1. CASE UNCHANGED database /\ runs' = [runs EXCEPT ![r] = no]
  <2>1. Moved(r, no) /\ WroteOnlyRun(r, no)
    BY <1>1 DEF Moved, WroteOnlyRun, Early
  <2>2. QED BY <2>1
<1>2. CASE Owned(r) /\ UNCHANGED <<nextId, origin>>
           /\ rows' = (CASE row = "delete"  -> [rows EXCEPT ![r[1]] = NoRow]
                         [] row = "exhaust" -> [rows EXCEPT ![r[1]] = Exhausted(@)]
                         [] OTHER           -> rows)
           /\ lanes' = (IF row = "delete" THEN FreeLane(rows[r[1]].lane, runs[r].pool)
                                          ELSE lanes)
           /\ outcome' = (IF JobOutcomes THEN [outcome EXCEPT ![r[1]] = state]
                                         ELSE outcome)
           /\ \E next \in {yes} \cup {f \in {no} : "lost" \in Faults} :
                runs' = [runs EXCEPT ![r] =
                  [next EXCEPT !.wrote = IF row = "exhaust" THEN "retained" ELSE state]]
  <2> DEFINE w == IF row = "exhaust" THEN "retained" ELSE state
  <2>1. PICK next \in {yes, no} : runs' = [runs EXCEPT ![r] = [next EXCEPT !.wrote = w]]
    BY <1>2
  <2> DEFINE run == [next EXCEPT !.wrote = w]
  <2>2. w \in Writes
    BY DEF Writes
  <2>3. /\ run \in Run /\ run.phase = next.phase /\ run.pool = next.pool
        /\ run.wrote = w /\ run.cont = next.cont
    <3>1. next \in Run
      OBVIOUS
    <3>2. HIDE DEF w
    <3>3. QED BY ONLY <2>2, <3>1, RunFields
  <2>4. runs' = [runs EXCEPT ![r] = run]
    BY <2>1
  <2> HIDE DEF run
  <2>5. Moved(r, run)
    BY <2>3, <2>4 DEF Moved
  <2>6. rows' = (CASE row = "delete"  -> [rows EXCEPT ![r[1]] = NoRow]
                   [] row = "exhaust" -> [rows EXCEPT ![r[1]] = Exhausted(rows[r[1]])]
                   [] OTHER           -> rows)
    BY <1>2
  <2>7. CASE row = "delete"
    <3>1. Deleted(r, run)
      BY <1>2, <2>3, <2>6, <2>7 DEF Deleted
    <3>2. QED BY <1>2, <2>3, <2>5, <3>1 DEF WroteRow, Early
  <2>8. CASE row # "delete"
    <3>1. Retained(r, run)
      BY <1>2, <2>3, <2>6, <2>8 DEF Retained
    <3>2. QED BY <1>2, <2>3, <2>5, <3>1 DEF WroteRow, Early
  <2>9. QED BY <2>7, <2>8
<1>3. QED BY <1>1, <1>2 DEF Settle

(* Every step of a run but the commit of its continuation and Graphile's   *)
(* own updates is of one of the two kinds.                                 *)
LEMMA RunSteps ==
  ASSUME TypeOK, NEW r \in Runs, RunProgress(r) \/ CallContinue(r),
         ~ContinueJob(r), ~GraphileCompletes(r), ~GraphileFails(r),
         runs[r].cont = "inflight" => runs[r].phase \in {"handler", "ending"}
  PROVE  \E run : Moved(r, run) /\ (WroteOnlyRun(r, run) \/ WroteRow(r, run))
<1> USE DEF Phases
<1>1. runs[r] \in Run /\ runs \in [Runs -> Run]
  BY DEF TypeOK
<1>2. CASE \/ StartHandler(r) \/ EndContinued(r) \/ EndError(r) \/ FailRetried(r)
           \/ ~JobOutcomes /\ (EndOk(r) \/ FailLast(r) \/ FailDiscarded(r))
  <2>1. PICK f \in {"handler", "completing", "failing", "failed"} :
          /\ runs' = [runs EXCEPT ![r] = As(r, f)]
          /\ f = "handler" => runs[r].pool \in ready /\ runs[r].phase = "locked"
          /\ f = "completing" => runs[r].cont = "committed" \/ ~JobOutcomes
          /\ f # runs[r].phase
          /\ runs[r].cont = "inflight" => f = "handler"
    BY <1>2 DEF StartHandler, EndContinued, EndError, FailRetried, EndOk, FailLast,
                FailDiscarded, As, Decided
  <2>2. /\ UNCHANGED database /\ UNCHANGED workers
        /\ runs[r].phase \in {"locked", "ending", "failing"}
    BY <1>2 DEF StartHandler, EndContinued, EndError, FailRetried, EndOk, FailLast,
                FailDiscarded, Decided
  <2>3. /\ As(r, f) \in Run /\ As(r, f).phase = f
        /\ As(r, f).pool = runs[r].pool /\ As(r, f).cont = runs[r].cont
        /\ As(r, f).wrote = runs[r].wrote
    BY AsFields
  <2>4. Moved(r, As(r, f))
    BY <2>1, <2>2, <2>3 DEF Moved, Working, Active
  <2>5. WroteOnlyRun(r, As(r, f))
    BY <2>1, <2>2, <2>3 DEF WroteOnlyRun, Fenced, Early
  <2>6. QED BY <2>4, <2>5
<1>3. CASE HandlerEnds(r) \/ TimesOut(r)
  <2>1. PICK x \in HandlerResults :
          runs' = [runs EXCEPT ![r].phase = "ending", ![r].result = x]
    BY <1>3, JobRunsAssumption DEF HandlerEnds, TimesOut, HandlerResults, JobRunsAssumption
  <2>2. runs[r].phase = "handler" /\ UNCHANGED <<database, workers>>
    BY <1>3 DEF HandlerEnds, TimesOut
  <2> DEFINE once == [runs EXCEPT ![r].phase = "ending"]
  <2>3. /\ As(r, "ending") \in Run /\ As(r, "ending").phase = "ending"
        /\ As(r, "ending").pool = runs[r].pool /\ As(r, "ending").cont = runs[r].cont
        /\ As(r, "ending").wrote = runs[r].wrote
    BY AsFields
  <2>4. /\ once \in [Runs -> Run] /\ once[r] = As(r, "ending")
        /\ \A y \in Runs \ {r} : once[y] = runs[y]
    BY <1>1, <2>3 DEF As
  <2>5. runs' = [once EXCEPT ![r] = [once[r] EXCEPT !.result = x]]
    BY <2>1
  <2> HIDE DEF once
  <2> DEFINE run == [once[r] EXCEPT !.result = x]
  <2>6. /\ run \in Run /\ run.phase = once[r].phase /\ run.pool = once[r].pool
        /\ run.wrote = once[r].wrote /\ run.cont = once[r].cont
    <3>1. once[r] \in Run /\ x \in HandlerResults
      BY <2>4
    <3>2. QED BY ONLY <3>1, RunFields
  <2>7. runs' = [once EXCEPT ![r] = run]
    BY <2>5
  <2> HIDE DEF run
  <2>8. runs' = [runs EXCEPT ![r] = run]
    BY <1>1, <2>4, <2>7
  <2>9. Moved(r, run) /\ WroteOnlyRun(r, run)
    BY <2>2, <2>3, <2>4, <2>6, <2>8 DEF Moved, WroteOnlyRun, Working, Active, Early
  <2>10. QED BY <2>9
<1>4. CASE CallContinue(r)
  <2> DEFINE run == [runs[r] EXCEPT !.cont = "inflight"]
  <2>1. /\ runs[r].phase = "handler" /\ runs[r].cont = "no"
        /\ runs' = [runs EXCEPT ![r] = run] /\ UNCHANGED <<database, workers>>
    BY <1>1, <1>4 DEF CallContinue
  <2>2. /\ run \in Run /\ run.phase = runs[r].phase /\ run.pool = runs[r].pool
        /\ run.wrote = runs[r].wrote /\ run.cont = "inflight"
    BY <1>1 DEF Run
  <2> HIDE DEF run
  <2>3. Moved(r, run)
    BY <2>1, <2>2 DEF Moved, Working, Active
  <2>4. WroteOnlyRun(r, run)
    BY <2>1, <2>2 DEF WroteOnlyRun, Early
  <2>5. QED BY <2>3, <2>4
<1>5. CASE ContinueRefused(r)
  <2> DEFINE run == [runs[r] EXCEPT !.cont = "refused"]
  <2>1. /\ runs[r].phase \in {"handler", "ending"} /\ runs[r].cont # "refused"
        /\ runs' = [runs EXCEPT ![r] = run] /\ UNCHANGED <<database, workers>>
    BY <1>1, <1>5 DEF ContinueRefused
  <2>2. /\ run \in Run /\ run.phase = runs[r].phase /\ run.pool = runs[r].pool
        /\ run.wrote = runs[r].wrote /\ run.cont = "refused"
    BY <1>1 DEF Run
  <2> HIDE DEF run
  <2>3. Moved(r, run)
    BY <2>1, <2>2 DEF Moved, Working, Active
  <2>4. WroteOnlyRun(r, run)
    BY <2>1, <2>2 DEF WroteOnlyRun, Early
  <2>5. QED BY <2>3, <2>4
<1>6. CASE JobOutcomes /\ EndOk(r)
  <2> DEFINE yes == As(r, "completing")
             no  == [As(r, "failing") EXCEPT !.result = "error"]
  <2>1. /\ yes \in Run /\ yes.phase = "completing" /\ yes.pool = runs[r].pool
        /\ yes.cont = runs[r].cont /\ yes.wrote = runs[r].wrote
    BY AsFields
  <2>2. /\ no \in Run /\ no.phase = "failing" /\ no.pool = runs[r].pool
        /\ no.cont = runs[r].cont /\ no.wrote = runs[r].wrote
    <3>1. /\ As(r, "failing") \in Run /\ As(r, "failing").phase = "failing"
          /\ As(r, "failing").pool = runs[r].pool /\ As(r, "failing").cont = runs[r].cont
          /\ As(r, "failing").wrote = runs[r].wrote
      BY AsFields
    <3>2. "error" \in HandlerResults
      BY DEF HandlerResults
    <3>3. /\ no \in Run /\ no.phase = As(r, "failing").phase
          /\ no.pool = As(r, "failing").pool
          /\ no.cont = As(r, "failing").cont /\ no.wrote = As(r, "failing").wrote
      BY ONLY <3>1, <3>2, RunFields
    <3> HIDE DEF no
    <3>4. QED BY <3>1, <3>3
  <2>3. Settle(r, "completed", "delete", yes, no)
    BY <1>6 DEF EndOk
  <2>4. runs[r].phase = "ending" /\ UNCHANGED workers
    BY <1>6 DEF EndOk, Decided
  <2> HIDE DEF yes, no
  <2>5. Working(r) /\ ~Active(r) /\ runs[r].cont # "inflight"
    BY <1>6, <2>4 DEF EndOk, Decided, Working, Active
  <2>6. QED BY <1>6, <2>1, <2>2, <2>3, <2>4, <2>5, SettleSteps
<1>7. CASE JobOutcomes /\ FailLast(r)
  <2>1. Settle(r, "failed", "keep", As(r, "failed"), As(r, "failed"))
    BY <1>7 DEF FailLast
  <2>2. runs[r].phase = "failing" /\ UNCHANGED workers /\ Working(r) /\ ~Active(r)
        /\ runs[r].cont # "inflight"
    BY <1>7 DEF FailLast, Working, Active
  <2>3. /\ As(r, "failed") \in Run /\ As(r, "failed").phase = "failed"
        /\ As(r, "failed").pool = runs[r].pool /\ As(r, "failed").cont = runs[r].cont
        /\ As(r, "failed").wrote = runs[r].wrote
    BY AsFields
  <2>4. QED BY <1>7, <2>1, <2>2, <2>3, SettleSteps
<1>8. CASE FailRetained(r)
  <2>1. Settle(r, "failed", "exhaust", As(r, "failed"), As(r, "failed"))
    BY <1>8 DEF FailRetained
  <2>2. runs[r].phase = "failing" /\ UNCHANGED workers /\ Working(r) /\ ~Active(r)
        /\ runs[r].cont # "inflight"
    BY <1>8 DEF FailRetained, Working, Active
  <2>3. /\ As(r, "failed") \in Run /\ As(r, "failed").phase = "failed"
        /\ As(r, "failed").pool = runs[r].pool /\ As(r, "failed").cont = runs[r].cont
        /\ As(r, "failed").wrote = runs[r].wrote
    BY AsFields
  <2>4. QED BY <1>8, <2>1, <2>2, <2>3, SettleSteps
<1>9. CASE JobOutcomes /\ FailDiscarded(r)
  <2>1. Settle(r, "failed", "delete", As(r, "completing"), As(r, "completing")) /\ ~Fenced
    BY <1>9 DEF FailDiscarded, Fenced
  <2>2. runs[r].phase = "failing" /\ UNCHANGED workers /\ Working(r) /\ ~Active(r)
        /\ runs[r].cont # "inflight"
    BY <1>9 DEF FailDiscarded, Working, Active
  <2>3. /\ As(r, "completing") \in Run /\ As(r, "completing").phase = "completing"
        /\ As(r, "completing").pool = runs[r].pool /\ As(r, "completing").cont = runs[r].cont
        /\ As(r, "completing").wrote = runs[r].wrote
    BY AsFields
  <2>4. QED BY <1>9, <2>1, <2>2, <2>3, SettleSteps
<1>10. QED
  BY <1>2, <1>3, <1>4, <1>5, <1>6, <1>7, <1>8, <1>9
  DEF RunProgress

---------------------------------------------------------------------------
(* The inductive invariant: what relates a run that works, the row it was  *)
(* started for, the lane of that row and the heartbeat of its pool.        *)

(* Either no run completes a job without a fenced write of its own, or no  *)
(* live pool is ever taken for dead.                                       *)
Guarded == Fenced \/ MaxStalls = 0

DeadRows == \A j \in JobIds : ~rows[j].live => rows[j] = NoRow

OutcomeFresh == \A j \in JobIds : j >= nextId => outcome[j] = "none"

WorkingUp == \A r \in Runs : Working(r) => runs[r].pool \in up /\ r[1] < nextId

InflightWorks ==
  \A r \in Runs : runs[r].cont = "inflight" => runs[r].phase \in {"handler", "ending"}

StaleIsStalled == \A p \in up : beat[p] = "stale" => p \in stalled

NoStalls == MaxStalls = 0 => stalled = {}

ReadyBeat ==
  \A p \in ready : p \in up /\ (~BeatMayFail => beat[p] # "none" \/ p \in stalled)

HandlerReady == \A r \in Runs : runs[r].phase = "handler" => runs[r].pool \in ready

PoolInv == StaleIsStalled /\ NoStalls /\ ReadyBeat /\ HandlerReady /\ WorkingUp /\ InflightWorks

(* A run that works owns its row, unless its pool has been stale or the    *)
(* row is gone, by the run's own doing while its handler may be working.   *)
Holds(r) ==
  \/ Owned(r)
  \/ runs[r].pool \in stalled
  \/ ~rows[r[1]].live /\ (Active(r) => runs[r].wrote = "continued")

WorkingHolds == Guarded => \A r \in Runs : Working(r) => Holds(r)

ContinuedGone ==
  Fenced => \A r \in Runs : Working(r) /\ runs[r].cont = "committed" => ~rows[r[1]].live

CompletingGone == Fenced => \A r \in Runs : runs[r].phase = "completing" => ~rows[r[1]].live

LockLane ==
  \A j \in JobIds :
    Locked(j) /\ rows[j].lane \in Lanes => lanes[rows[j].lane] = rows[j].lockedBy

OnePerLane ==
  \A i, j \in JobIds :
    Locked(i) /\ Locked(j) /\ rows[i].lane = rows[j].lane /\ rows[i].lane \in Lanes => i = j

NoLostLane ==
  \A l \in Lanes : lanes[l] # None => \E j \in JobIds : Locked(j) /\ rows[j].lane = l

LaneRows == Guarded => LockLane /\ OnePerLane /\ NoLostLane

OwnInv ==
  /\ EndInv
  /\ DeadRows /\ OutcomeFresh
  /\ PoolInv
  /\ WorkingHolds
  /\ ContinuedGone /\ CompletingGone
  /\ LaneRows
  /\ Fenced => OutcomeMatchesRow

---------------------------------------------------------------------------
(* Rows and lanes. *)

(* The lock of a row as the operators on rows leave it. *)
LEMMA RowLocks ==
  /\ ~NoRow.live /\ NoRow.lane = None /\ NoRow.lockedBy = None
  /\ \A l, m, d : LET row == NewRow(l, m, d)
                  IN  row.live /\ row.lane = l /\ row.lockedBy = None
  /\ \A row \in Row :
       /\ Exhausted(row).live = row.live /\ Exhausted(row).lane = row.lane
       /\ Exhausted(row).lockedBy = row.lockedBy /\ Exhausted(row).lockedAt = row.lockedAt
       /\ Unlocked(row).live = row.live /\ Unlocked(row).lane = row.lane
       /\ Unlocked(row).lockedBy = None
  /\ \A row \in Row, p \in Pools, n \in 1..MaxAttempts :
       /\ Fetched(row, p, n).live = row.live /\ Fetched(row, p, n).lane = row.lane
       /\ Fetched(row, p, n).lockedBy = p /\ Fetched(row, p, n).lockedAt = n
<1>1. ~NoRow.live /\ NoRow.lane = None /\ NoRow.lockedBy = None
  BY DEF NoRow
<1>2. \A l, m, d : LET row == NewRow(l, m, d)
                   IN  row.live /\ row.lane = l /\ row.lockedBy = None
  BY DEF NewRow, NoRow
<1>3. \A row \in Row :
       /\ Exhausted(row).live = row.live /\ Exhausted(row).lane = row.lane
       /\ Exhausted(row).lockedBy = row.lockedBy /\ Exhausted(row).lockedAt = row.lockedAt
       /\ Unlocked(row).live = row.live /\ Unlocked(row).lane = row.lane
       /\ Unlocked(row).lockedBy = None
  BY DEF Row, Exhausted, Unlocked
<1>4. ASSUME NEW row \in Row, NEW p \in Pools, NEW n \in 1..MaxAttempts
      PROVE  /\ Fetched(row, p, n).live = row.live /\ Fetched(row, p, n).lane = row.lane
             /\ Fetched(row, p, n).lockedBy = p /\ Fetched(row, p, n).lockedAt = n
  BY DEF Row, Fetched
<1>5. QED BY <1>1, <1>2, <1>3, <1>4

(* A row whose lock a step leaves alone. *)
LockKept(j) ==
  /\ Locked(j)' <=> Locked(j)
  /\ Locked(j) => rows'[j].lane = rows[j].lane /\ rows'[j].lockedBy = rows[j].lockedBy

LEMMA LanesKept ==
  ASSUME LaneRows, \A j \in JobIds : LockKept(j), lanes' = lanes
  PROVE  LaneRows'
<1> SUFFICES ASSUME Guarded PROVE LockLane' /\ OnePerLane' /\ NoLostLane'
  BY DEF LaneRows, Guarded, Fenced
<1> USE DEF LaneRows, LockKept
<1>1. LockLane'
  BY DEF LockLane
<1>2. OnePerLane'
  BY DEF OnePerLane
<1>3. NoLostLane'
  BY DEF NoLostLane
<1>4. QED BY <1>1, <1>2, <1>3

(* The lock of one row is given up together with its lane. *)
LEMMA LaneFreed ==
  ASSUME TypeOK, LaneRows, NEW j \in JobIds, Locked(j), ~Locked(j)',
         \A i \in JobIds \ {j} : LockKept(i),
         lanes' = FreeLane(rows[j].lane, rows[j].lockedBy)
  PROVE  LaneRows'
<1> SUFFICES ASSUME Guarded PROVE LockLane' /\ OnePerLane' /\ NoLostLane'
  BY DEF LaneRows, Guarded, Fenced
<1>0. LockLane /\ OnePerLane /\ NoLostLane
  BY DEF LaneRows
<1>1. \A l \in Lanes : lanes'[l] = IF l = rows[j].lane THEN None ELSE lanes[l]
  BY <1>0 DEF FreeLane, LockLane
<1>2. \A i \in JobIds : Locked(i)' => /\ i # j /\ Locked(i)
                                      /\ rows'[i].lane = rows[i].lane
                                      /\ rows'[i].lockedBy = rows[i].lockedBy
  BY DEF LockKept
<1>3. LockLane'
  BY <1>0, <1>1, <1>2 DEF LockLane, OnePerLane
<1>4. OnePerLane'
  BY <1>0, <1>2 DEF OnePerLane
<1>5. NoLostLane'
  <2> SUFFICES ASSUME NEW l \in Lanes, lanes'[l] # None
               PROVE  \E i \in JobIds : Locked(i)' /\ rows'[i].lane = l
    BY DEF NoLostLane
  <2>1. l # rows[j].lane /\ lanes[l] # None
    BY <1>1
  <2>2. PICK i \in JobIds : Locked(i) /\ rows[i].lane = l
    BY <1>0, <2>1 DEF NoLostLane
  <2>3. QED BY <2>1, <2>2 DEF LockKept
<1>6. QED BY <1>3, <1>4, <1>5

---------------------------------------------------------------------------
(* What each kind of step keeps. *)

(* A step of a run at most lets it work on in the pool that it is in. *)
StaysInPool(x) ==
  /\ Working(x)' => Working(x) /\ runs'[x].pool = runs[x].pool
  /\ runs'[x].phase = "handler" => runs[x].phase = "handler" \/ runs[x].pool \in ready
  /\ runs'[x].cont = "inflight" => runs'[x].phase \in {"handler", "ending"}

LEMMA PoolKept ==
  ASSUME TypeOK, PoolInv, UNCHANGED workers, nextId' \in {nextId, nextId + 1},
         \A x \in Runs : StaysInPool(x)
  PROVE  PoolInv'
<1>1. StaleIsStalled' /\ NoStalls' /\ ReadyBeat'
  BY DEF PoolInv, StaleIsStalled, NoStalls, ReadyBeat, workers
<1>2. HandlerReady'
  BY DEF PoolInv, HandlerReady, workers, StaysInPool, Working
<1>3. WorkingUp'
  <2>1. \A x \in Runs : x[1] < nextId => x[1] < nextId'
    BY DEF TypeOK, Runs, JobIds
  <2>2. QED BY <2>1 DEF PoolInv, WorkingUp, workers, StaysInPool
<1>4. InflightWorks'
  BY DEF InflightWorks, StaysInPool
<1>5. QED BY <1>1, <1>2, <1>3, <1>4 DEF PoolInv

(* A run that goes on in its pool. *)
LEMMA MovedStays ==
  ASSUME TypeOK, PoolInv, NEW r \in Runs, NEW run, Moved(r, run)
  PROVE  /\ \A x \in Runs : StaysInPool(x)
         /\ runs'[r] = run /\ \A x \in Runs \ {r} : runs'[x] = runs[x]
<1>1. runs'[r] = run /\ \A x \in Runs \ {r} : runs'[x] = runs[x]
  BY DEF Moved, TypeOK
<1>2. \A x \in Runs \ {r} : StaysInPool(x)
  BY <1>1 DEF StaysInPool, Working, PoolInv, InflightWorks
<1>3. StaysInPool(r)
  BY <1>1 DEF StaysInPool, Moved, Working
<1>4. QED BY <1>1, <1>2, <1>3

LEMMA WroteOnlyRunKeeps ==
  ASSUME OwnInv, EndInv', NEW r \in Runs, NEW run, Moved(r, run), WroteOnlyRun(r, run)
  PROVE  OwnInv'
<1>1. /\ UNCHANGED <<rows, lanes, outcome, nextId, workers>> /\ TypeOK
  BY DEF OwnInv, EndInv, Moved, WroteOnlyRun, database
<1>2. runs'[r] = run /\ \A x \in Runs \ {r} : runs'[x] = runs[x]
  BY <1>1, MovedStays DEF OwnInv
<1>3. PoolInv'
  BY <1>1, MovedStays, PoolKept DEF OwnInv
<1>4. DeadRows' /\ OutcomeFresh' /\ (Fenced => OutcomeMatchesRow)'
  BY <1>1 DEF OwnInv, DeadRows, OutcomeFresh, OutcomeMatchesRow, Fenced
<1>5. LaneRows'
  BY <1>1, LanesKept DEF OwnInv, LockKept, Locked
<1>6. WorkingHolds'
  <2> SUFFICES ASSUME Guarded, NEW x \in Runs, Working(x)' PROVE Holds(x)'
    BY DEF WorkingHolds, Guarded, Fenced
  <2>1. CASE x # r
    BY <1>1, <1>2, <2>1 DEF OwnInv, WorkingHolds, Holds, Owned, Working, Active, workers
  <2>2. CASE x = r
    BY <1>1, <1>2, <2>2
    DEF OwnInv, WorkingHolds, Holds, Owned, Working, Active, workers, Moved, WroteOnlyRun
  <2>3. QED BY <2>1, <2>2
<1>7. ContinuedGone'
  BY <1>1, <1>2 DEF OwnInv, ContinuedGone, Working, Moved, WroteOnlyRun, Fenced
<1>8. CompletingGone'
  <2>1. Fenced /\ run.phase = "completing" => ~rows[r[1]].live
    BY DEF OwnInv, ContinuedGone, WroteOnlyRun, Moved
  <2>2. QED BY <1>1, <1>2, <2>1 DEF OwnInv, CompletingGone, Fenced
<1>9. QED BY <1>3, <1>4, <1>5, <1>6, <1>7, <1>8 DEF OwnInv

(* No two runs own one row. *)
LEMMA OneOwner ==
  \A r, x \in Runs : Owned(r) /\ Owned(x) /\ r[1] = x[1] => r = x
BY RunPair DEF Owned

(* An owner holds the lock of its row. *)
LEMMA OwnerLocks ==
  ASSUME TypeOK, PoolInv, NEW r \in Runs, Owned(r), Working(r)
  PROVE  /\ r[1] \in JobIds /\ Locked(r[1]) /\ rows[r[1]].lockedBy = runs[r].pool
         /\ runs[r].pool \in Pools /\ rows[r[1]] \in Row /\ r[1] < nextId
<1>1. r[1] \in JobIds /\ rows[r[1]] \in Row
  BY RunJob DEF TypeOK
<1>2. runs[r].pool \in Pools /\ runs[r].pool # None /\ r[1] < nextId
  BY JobRunsAssumption DEF PoolInv, WorkingUp, TypeOK, JobRunsAssumption
<1>3. QED BY <1>1, <1>2 DEF Owned, Locked

LEMMA WroteRowKeeps ==
  ASSUME OwnInv, EndInv', NEW r \in Runs, NEW run, Moved(r, run), WroteRow(r, run)
  PROVE  OwnInv'
<1> DEFINE j == r[1]
<1>1. /\ TypeOK /\ PoolInv /\ rows \in [JobIds -> Row] /\ UNCHANGED nextId
      /\ Owned(r) /\ Working(r) /\ ~Active(r)
  BY DEF OwnInv, EndInv, TypeOK, Moved, WroteRow
<1>2. /\ j \in JobIds /\ Locked(j) /\ rows[j].lockedBy = runs[r].pool /\ rows[j].live
      /\ runs[r].pool \in Pools /\ rows[j] \in Row /\ j < nextId
  BY <1>1, OwnerLocks DEF Locked
<1>3. runs'[r] = run /\ \A x \in Runs \ {r} : runs'[x] = runs[x]
  BY <1>1, MovedStays
<1>4. PoolInv'
  BY <1>1, MovedStays, PoolKept DEF Moved
<1>5. \A i \in JobIds \ {j} : rows'[i] = rows[i] /\ outcome'[i] = outcome[i]
  BY <1>1, <1>2 DEF WroteRow, Deleted, Retained, TypeOK
<1>6. /\ Deleted(r, run) => rows'[j] = NoRow /\ lanes' = FreeLane(rows[j].lane, rows[j].lockedBy)
      /\ Retained(r, run) => /\ rows'[j] \in {rows[j], Exhausted(rows[j])}
                             /\ lanes' = lanes
  BY <1>1, <1>2 DEF Deleted, Retained
<1>7. Retained(r, run) => /\ rows'[j].live /\ rows'[j].lane = rows[j].lane
                          /\ rows'[j].lockedBy = rows[j].lockedBy
                          /\ rows'[j].lockedAt = rows[j].lockedAt
  BY <1>2, <1>6, RowLocks
<1>8. DeadRows'
  BY <1>5, <1>6, <1>7 DEF OwnInv, DeadRows, WroteRow
<1>9. OutcomeFresh'
  BY <1>1, <1>2, <1>5 DEF OwnInv, OutcomeFresh, TypeOK, JobIds
<1>10. WorkingHolds'
  <2> SUFFICES ASSUME Guarded, NEW x \in Runs, Working(x)' PROVE Holds(x)'
    BY DEF WorkingHolds, Guarded, Fenced
  <2>1. UNCHANGED stalled
    BY DEF Moved, workers
  <2>2. CASE x = r
    <3>1. CASE Deleted(r, run)
      <4>1. ~rows'[j].live /\ ~Active(r)'
        BY <1>1, <1>3, <1>6, <3>1, RowLocks DEF Moved, Active
      <4>2. QED BY <2>2, <4>1 DEF Holds
    <3>2. CASE Retained(r, run)
      BY <1>1, <1>2, <1>3, <1>7, <2>2, <3>2 DEF Holds, Owned, Moved
    <3>3. QED BY <3>1, <3>2 DEF WroteRow
  <2>3. CASE x # r
    <3>1. runs'[x] = runs[x] /\ x[1] \in JobIds /\ Holds(x)
      BY <1>3, <2>3, RunJob DEF OwnInv, WorkingHolds, Working
    <3>2. CASE x[1] # j
      BY <1>5, <2>1, <3>1, <3>2 DEF Holds, Owned, Active
    <3>3. CASE x[1] = j
      <4>1. runs[x].pool \in stalled
        BY <1>1, <1>2, <2>3, <3>1, <3>3, OneOwner DEF Holds
      <4>2. QED BY <2>1, <3>1, <4>1 DEF Holds
    <3>4. QED BY <3>2, <3>3
  <2>4. QED BY <2>2, <2>3
<1>11. \A i \in JobIds : ~rows[i].live => ~rows'[i].live
  BY <1>2, <1>5
<1>12. ContinuedGone'
  BY <1>1, <1>3, <1>11, RunJob DEF OwnInv, ContinuedGone, Working, Moved, WroteRow, Fenced
<1>13. CompletingGone'
  <2>1. run.phase = "completing" => ~rows'[j].live
    BY <1>6, RowLocks DEF WroteRow, Retained
  <2>2. QED BY <1>3, <1>11, <2>1, RunJob DEF OwnInv, CompletingGone, Fenced
<1>14. LaneRows'
  <2>1. \A i \in JobIds \ {j} : LockKept(i)
    BY <1>5 DEF LockKept, Locked
  <2>2. CASE Deleted(r, run)
    <3>1. ~Locked(j)'
      BY <1>6, <2>2, RowLocks DEF Locked
    <3>2. QED BY <1>1, <1>2, <1>6, <2>1, <2>2, <3>1, LaneFreed DEF OwnInv
  <2>3. CASE Retained(r, run)
    <3>1. LockKept(j)
      BY <1>2, <1>7, <2>3 DEF LockKept, Locked
    <3>2. QED BY <1>6, <2>1, <2>3, <3>1, LanesKept DEF OwnInv
  <2>4. QED BY <2>2, <2>3 DEF WroteRow
<1>15. (Fenced => OutcomeMatchesRow)'
  <2> SUFFICES ASSUME Fenced, NEW i \in 1..(nextId - 1)
               PROVE  ~rows'[i].live <=> outcome'[i] \in {"completed", "continued"}
    BY <1>1 DEF OutcomeMatchesRow, Fenced
  <2>1. i \in JobIds /\ (~rows[i].live <=> outcome[i] \in {"completed", "continued"})
    <3>1. i \in JobIds
      BY <1>1, JobRunsAssumption DEF TypeOK, JobIds, JobRunsAssumption
    <3>2. QED BY <3>1 DEF OwnInv, OutcomeMatchesRow
  <2>2. CASE i # j
    BY <1>5, <2>1, <2>2
  <2>3. CASE i = j /\ Deleted(r, run)
    <3>1. outcome'[j] = "completed"
      BY <1>1, <1>2, <2>3 DEF Deleted, TypeOK
    <3>2. QED BY <1>6, <2>3, <3>1, RowLocks
  <2>4. CASE i = j /\ Retained(r, run)
    <3>1. outcome'[j] \in {outcome[j], "failed"}
      BY <1>1, <1>2, <2>4 DEF Retained, TypeOK
    <3>2. QED BY <1>2, <1>7, <2>1, <2>4, <3>1
  <2>5. QED BY <2>2, <2>3, <2>4 DEF WroteRow
<1>16. QED
  BY <1>4, <1>8, <1>9, <1>10, <1>12, <1>13, <1>14, <1>15 DEF OwnInv

(* The commit of a continuation, by the run that owns the row. *)
LEMMA ContinueKeepsOwn ==
  ASSUME OwnInv, EndInv', NEW r \in Runs, ContinueJob(r)
  PROVE  OwnInv'
<1> DEFINE j == r[1]
<1>1. /\ TypeOK /\ TypeOK' /\ PoolInv /\ rows \in [JobIds -> Row] /\ runs \in [Runs -> Run]
      /\ Owned(r) /\ UNCHANGED workers /\ nextId \in JobIds /\ nextId' = nextId + 1
      /\ nextId \in Nat
  BY DEF OwnInv, EndInv, TypeOK, ContinueJob, JobIds
<1>2. runs[r].cont = "inflight" /\ runs[r].phase \in {"handler", "ending"} /\ Working(r)
  BY <1>1 DEF PoolInv, InflightWorks, ContinueJob, Working
<1>3. /\ j \in JobIds /\ Locked(j) /\ rows[j].lockedBy = runs[r].pool /\ rows[j].live
      /\ runs[r].pool \in Pools /\ rows[j] \in Row /\ j < nextId /\ j # nextId /\ j \in Nat
  <2>1. j < nextId /\ j \in Nat
    BY <1>1, <1>2, OwnerLocks DEF JobIds
  <2>2. QED BY <1>1, <1>2, <2>1, OwnerLocks DEF Locked
<1>4. /\ \A x \in Runs \ {r} : runs'[x] = runs[x]
      /\ runs'[r].phase = runs[r].phase /\ runs'[r].pool = runs[r].pool
      /\ runs'[r].cont \in {"committed", "refused"} /\ runs'[r].wrote = "continued"
  BY <1>1 DEF ContinueJob, Run
<1>5. /\ \A i \in JobIds \ {j, nextId} : rows'[i] = rows[i]
      /\ rows'[j] = IF JobOutcomes THEN NoRow ELSE Exhausted(rows[j])
      /\ \E due \in BOOLEAN : rows'[nextId] = NewRow(rows[j].lane, rows[j].max, due)
  BY <1>1, <1>3 DEF ContinueJob
<1>6. ~rows[nextId].live
  BY <1>1 DEF OwnInv, EndInv, FreshIds
<1>7. rows'[nextId].live /\ rows'[nextId].lockedBy = None
  BY <1>5, RowLocks
<1>8. /\ JobOutcomes => ~rows'[j].live
      /\ ~JobOutcomes => /\ rows'[j].live /\ rows'[j].lane = rows[j].lane
                         /\ rows'[j].lockedBy = rows[j].lockedBy
                         /\ rows'[j].lockedAt = rows[j].lockedAt
  BY <1>3, <1>5, RowLocks
<1>9. PoolInv'
  <2>1. StaysInPool(r)
    BY <1>2, <1>4 DEF StaysInPool, Working
  <2>2. \A x \in Runs \ {r} : StaysInPool(x)
    BY <1>1, <1>4 DEF StaysInPool, Working, PoolInv, InflightWorks
  <2>3. QED BY <1>1, <2>1, <2>2, PoolKept
<1>10. DeadRows'
  BY <1>5, <1>7, <1>8 DEF OwnInv, DeadRows
<1>11. OutcomeFresh'
  <2> SUFFICES ASSUME NEW i \in JobIds, i >= nextId' PROVE outcome'[i] = "none"
    BY DEF OutcomeFresh
  <2>1. i >= nextId /\ i # j
    BY <1>1, <1>3 DEF JobIds
  <2>2. QED BY <1>1, <2>1 DEF OwnInv, OutcomeFresh, ContinueJob, TypeOK
<1>12. WorkingHolds'
  <2> SUFFICES ASSUME Guarded, NEW x \in Runs, Working(x)' PROVE Holds(x)'
    BY DEF WorkingHolds, Guarded, Fenced
  <2>1. CASE x = r
    BY <1>1, <1>4, <1>8, <2>1 DEF Holds, Owned, Active
  <2>2. CASE x # r
    <3>1. runs'[x] = runs[x] /\ x[1] \in JobIds /\ Holds(x) /\ x[1] # nextId
      <4>1. Working(x) /\ runs'[x] = runs[x]
        BY <1>4, <2>2 DEF Working
      <4>2. x[1] < nextId
        BY <1>1, <4>1 DEF PoolInv, WorkingUp
      <4>3. QED BY <1>1, <4>1, <4>2, RunJob DEF OwnInv, WorkingHolds
    <3>2. CASE x[1] # j
      BY <1>1, <1>5, <3>1, <3>2 DEF Holds, Owned, Active, workers
    <3>3. CASE x[1] = j
      <4>1. runs[x].pool \in stalled
        BY <1>1, <1>3, <2>2, <3>1, <3>3, OneOwner DEF Holds
      <4>2. QED BY <1>1, <3>1, <4>1 DEF Holds, workers
    <3>4. QED BY <3>2, <3>3
  <2>3. QED BY <2>1, <2>2
<1>13. ContinuedGone'
  <2> SUFFICES ASSUME Fenced, NEW x \in Runs, Working(x)', runs'[x].cont = "committed"
               PROVE  ~rows'[x[1]].live
    BY DEF ContinuedGone, Fenced
  <2>1. CASE x[1] = j
    BY <1>8, <2>1 DEF Fenced
  <2>2. CASE x[1] # j
    <3>1. runs'[x] = runs[x] /\ Working(x)
      BY <1>4, <2>2 DEF Working
    <3>2. x[1] < nextId /\ x[1] \in JobIds /\ ~rows[x[1]].live
      BY <1>1, <3>1, RunJob DEF OwnInv, PoolInv, WorkingUp, ContinuedGone
    <3>3. x[1] # nextId
      BY <1>1, <3>2 DEF JobIds
    <3>4. QED BY <1>5, <2>2, <3>2, <3>3
  <2>3. QED BY <2>1, <2>2
<1>14. CompletingGone'
  <2> SUFFICES ASSUME Fenced, NEW x \in Runs, runs'[x].phase = "completing"
               PROVE  ~rows'[x[1]].live
    BY DEF CompletingGone, Fenced
  <2>1. runs'[x] = runs[x] /\ Working(x)
    BY <1>2, <1>4 DEF Working
  <2>2. x[1] < nextId /\ x[1] \in JobIds /\ ~rows[x[1]].live
    BY <1>1, <2>1, RunJob DEF OwnInv, PoolInv, WorkingUp, CompletingGone
  <2>3. x[1] # nextId /\ x[1] # j
    BY <1>1, <1>3, <2>2 DEF JobIds
  <2>4. QED BY <1>5, <2>2, <2>3
<1>15. LaneRows'
  <2>1. \A i \in JobIds \ {j, nextId} : LockKept(i)
    BY <1>5 DEF LockKept, Locked
  <2>2. \A i \in JobIds : i = nextId => LockKept(i)
    BY <1>6, <1>7 DEF LockKept, Locked
  <2>3. CASE JobOutcomes
    <3>1. lanes' = FreeLane(rows[j].lane, rows[j].lockedBy) /\ ~Locked(j)'
      BY <1>3, <1>8, <2>3 DEF ContinueJob, Locked
    <3>2. QED BY <1>1, <1>3, <2>1, <2>2, <3>1, LaneFreed DEF OwnInv
  <2>4. CASE ~JobOutcomes
    <3>1. lanes' = lanes /\ LockKept(j)
      BY <1>3, <1>8, <2>4 DEF ContinueJob, Locked, LockKept
    <3>2. QED BY <2>1, <2>2, <3>1, LanesKept DEF OwnInv
  <2>5. QED BY <2>3, <2>4
<1>16. (Fenced => OutcomeMatchesRow)'
  <2> SUFFICES ASSUME Fenced, NEW i \in 1..(nextId' - 1)
               PROVE  ~rows'[i].live <=> outcome'[i] \in {"completed", "continued"}
    BY DEF OutcomeMatchesRow, Fenced
  <2>1. i \in JobIds /\ i \in 1..nextId
    BY <1>1, JobRunsAssumption DEF JobIds, JobRunsAssumption
  <2>2. outcome' = [outcome EXCEPT ![j] = "continued"]
    BY DEF ContinueJob, Fenced
  <2>3. CASE i = j
    BY <1>1, <1>3, <1>8, <2>2, <2>3 DEF TypeOK, Fenced
  <2>4. CASE i = nextId
    <3>1. outcome'[i] = outcome[i] /\ outcome[i] = "none"
      BY <1>1, <1>3, <2>1, <2>2, <2>4 DEF TypeOK, OwnInv, OutcomeFresh
    <3>2. QED BY <1>7, <2>4, <3>1
  <2>5. CASE i \notin {j, nextId}
    <3>1. i \in 1..(nextId - 1)
      BY <1>1, <2>1, <2>5
    <3>2. rows'[i] = rows[i] /\ outcome'[i] = outcome[i]
      BY <1>1, <1>5, <2>1, <2>2, <2>5 DEF TypeOK
    <3>3. QED BY <3>1, <3>2 DEF OwnInv, OutcomeMatchesRow
  <2>6. QED BY <2>3, <2>4, <2>5
<1>17. QED
  BY <1>9, <1>10, <1>11, <1>12, <1>13, <1>14, <1>15, <1>16 DEF OwnInv

(* A run that ends. *)
LEMMA OverStays ==
  ASSUME TypeOK, PoolInv, NEW r \in Runs, runs' = [runs EXCEPT ![r] = Over(r)]
  PROVE  /\ runs'[r].phase = "done" /\ ~Working(r)'
         /\ \A x \in Runs \ {r} : runs'[x] = runs[x]
         /\ \A x \in Runs : StaysInPool(x)
<1>1. runs'[r] = Over(r) /\ \A x \in Runs \ {r} : runs'[x] = runs[x]
  BY DEF TypeOK
<1>2. Over(r).phase = "done" /\ Over(r).cont = "no"
  BY DEF Over, NoRun
<1>3. StaysInPool(r) /\ ~Working(r)'
  BY <1>1, <1>2 DEF StaysInPool, Working
<1>4. \A x \in Runs \ {r} : StaysInPool(x)
  BY <1>1 DEF StaysInPool, Working, PoolInv, InflightWorks
<1>5. QED BY <1>1, <1>2, <1>3, <1>4

(* Graphile deletes the row by its id: with fenced completions it is gone  *)
(* already, and without a stale pool no other run works on it.             *)
LEMMA CompleteKeepsOwn ==
  ASSUME OwnInv, EndInv', NEW r \in Runs, GraphileCompletes(r)
  PROVE  OwnInv'
<1> DEFINE j == r[1]
<1>1. /\ TypeOK /\ PoolInv /\ rows \in [JobIds -> Row] /\ j \in JobIds /\ rows[j] \in Row
      /\ runs[r].phase = "completing" /\ rows' = [rows EXCEPT ![j] = NoRow]
      /\ lanes' = FreeLane(rows[j].lane, runs[r].pool)
      /\ UNCHANGED <<outcome, nextId, workers>>
  BY RunJob DEF OwnInv, EndInv, TypeOK, GraphileCompletes
<1>2. /\ ~Working(r)' /\ \A x \in Runs \ {r} : runs'[x] = runs[x]
      /\ \A x \in Runs : StaysInPool(x)
  BY <1>1, OverStays DEF GraphileCompletes
<1>3. Working(r) /\ ~Active(r)
  BY <1>1 DEF Working, Active
<1>4. ~rows'[j].live /\ \A i \in JobIds \ {j} : rows'[i] = rows[i]
  BY <1>1, RowLocks
<1>5. Fenced => ~rows[j].live
  BY <1>1 DEF OwnInv, CompletingGone
<1>6. Guarded /\ rows[j].live => MaxStalls = 0 /\ Owned(r)
  BY <1>3, <1>5 DEF OwnInv, WorkingHolds, Holds, Guarded, PoolInv, NoStalls
<1>7. PoolInv'
  BY <1>1, <1>2, PoolKept
<1>8. DeadRows' /\ OutcomeFresh'
  BY <1>1, <1>4 DEF OwnInv, DeadRows, OutcomeFresh
<1>9. ~rows[j].live => rows' = rows
  BY <1>1 DEF OwnInv, DeadRows
<1>10. WorkingHolds'
  <2> SUFFICES ASSUME Guarded, NEW x \in Runs, Working(x)' PROVE Holds(x)'
    BY DEF WorkingHolds, Guarded, Fenced
  <2>1. x # r /\ runs'[x] = runs[x] /\ Holds(x) /\ Working(x) /\ x[1] \in JobIds
    BY <1>2, RunJob DEF OwnInv, WorkingHolds, Working
  <2>2. CASE x[1] # j \/ ~rows[j].live
    <3>1. rows'[x[1]] = rows[x[1]]
      BY <1>4, <1>9, <2>1, <2>2
    <3>2. QED BY <1>1, <2>1, <3>1 DEF Holds, Owned, Active, workers
  <2>3. CASE x[1] = j /\ rows[j].live
    <3>1. Owned(r) /\ ~Owned(x) /\ stalled = {}
      BY <1>6, <2>1, <2>3, OneOwner DEF OwnInv, PoolInv, NoStalls
    <3>2. QED BY <2>1, <2>3, <3>1 DEF Holds
  <2>4. QED BY <2>2, <2>3
<1>11. ContinuedGone' /\ CompletingGone'
  <2>1. \A x \in Runs : ~rows[x[1]].live => ~rows'[x[1]].live
    BY <1>4, RunJob
  <2>2. ContinuedGone'
    BY <1>2, <2>1 DEF OwnInv, ContinuedGone, Working, Fenced
  <2>3. CompletingGone'
    BY <1>2, <2>1 DEF OwnInv, CompletingGone, Fenced, Working
  <2>4. QED BY <2>2, <2>3
<1>12. LaneRows'
  <2>1. \A i \in JobIds \ {j} : LockKept(i)
    BY <1>4 DEF LockKept, Locked
  <2>2. CASE ~Guarded
    BY <2>2 DEF LaneRows, Guarded, Fenced
  <2>3. CASE ~rows[j].live
    <3>1. rows[j].lane = None
      BY <1>1, <2>3, RowLocks DEF OwnInv, DeadRows
    <3>2. lanes' = lanes
      BY <1>1, <3>1, JobRunsAssumption DEF FreeLane, TypeOK, JobRunsAssumption
    <3>3. LockKept(j)
      BY <1>9, <2>3 DEF LockKept, Locked
    <3>4. QED BY <2>1, <3>2, <3>3, LanesKept DEF OwnInv
  <2>4. CASE Guarded /\ rows[j].live
    <3>1. Locked(j) /\ rows[j].lockedBy = runs[r].pool
      BY <1>1, <1>3, <1>6, <2>4, OwnerLocks
    <3>2. ~Locked(j)'
      BY <1>4 DEF Locked
    <3>3. QED BY <1>1, <2>1, <3>1, <3>2, LaneFreed DEF OwnInv
  <2>5. QED BY <2>2, <2>3, <2>4
<1>13. (Fenced => OutcomeMatchesRow)'
  BY <1>1, <1>5, <1>9 DEF OwnInv, OutcomeMatchesRow, Fenced
<1>14. QED BY <1>7, <1>8, <1>10, <1>11, <1>12, <1>13 DEF OwnInv

(* Graphile fails by the pool, not by the lock: a run that lost its row    *)
(* may release it from another run of its pool, which has been stale.      *)
LEMMA FailKeepsOwn ==
  ASSUME OwnInv, EndInv', NEW r \in Runs, GraphileFails(r)
  PROVE  OwnInv'
<1> DEFINE j == r[1]
           held == rows[j].lockedBy = runs[r].pool
<1>1. /\ TypeOK /\ PoolInv /\ rows \in [JobIds -> Row] /\ j \in JobIds /\ rows[j] \in Row
      /\ runs[r].phase = "failed"
      /\ rows' = (IF held THEN [rows EXCEPT ![j] = Unlocked(rows[j])] ELSE rows)
      /\ lanes' = (IF held THEN FreeLane(rows[j].lane, runs[r].pool) ELSE lanes)
      /\ UNCHANGED <<outcome, nextId, workers>>
  BY RunJob DEF OwnInv, EndInv, TypeOK, GraphileFails
<1>2. /\ ~Working(r)' /\ \A x \in Runs \ {r} : runs'[x] = runs[x]
      /\ \A x \in Runs : StaysInPool(x)
  BY <1>1, OverStays DEF GraphileFails
<1>3. Working(r) /\ ~Active(r) /\ runs[r].pool \in Pools /\ runs[r].pool # None
  BY <1>1, JobRunsAssumption DEF Working, Active, PoolInv, WorkingUp, TypeOK, JobRunsAssumption
<1>4. /\ \A i \in JobIds \ {j} : rows'[i] = rows[i]
      /\ rows'[j].live = rows[j].live
      /\ ~held => rows' = rows
      /\ held => rows[j].live /\ ~Locked(j)' /\ Locked(j)
  <2>1. held => rows[j].live
    BY <1>1, <1>3, RowLocks DEF OwnInv, DeadRows
  <2>2. held => rows'[j] = Unlocked(rows[j])
    BY <1>1
  <2>3. QED BY <1>1, <1>3, <2>1, <2>2, RowLocks DEF Locked
<1>5. PoolInv'
  BY <1>1, <1>2, PoolKept
<1>6. \A i \in JobIds : rows'[i].live = rows[i].live
  BY <1>4
<1>7. DeadRows' /\ OutcomeFresh' /\ (Fenced => OutcomeMatchesRow)'
  <2>1. DeadRows'
    BY <1>1, <1>4 DEF OwnInv, DeadRows
  <2>2. OutcomeFresh'
    BY <1>1 DEF OwnInv, OutcomeFresh
  <2>3. \A i \in 1..(nextId - 1) : i \in JobIds
    BY <1>1, JobRunsAssumption DEF TypeOK, JobIds, JobRunsAssumption
  <2>4. QED BY <1>1, <1>6, <2>1, <2>2, <2>3 DEF OwnInv, OutcomeMatchesRow, Fenced
<1>8. WorkingHolds'
  <2> SUFFICES ASSUME Guarded, NEW x \in Runs, Working(x)' PROVE Holds(x)'
    BY DEF WorkingHolds, Guarded, Fenced
  <2>1. x # r /\ runs'[x] = runs[x] /\ Holds(x) /\ Working(x) /\ x[1] \in JobIds
    BY <1>2, RunJob DEF OwnInv, WorkingHolds, Working
  <2>2. CASE x[1] # j \/ ~held
    <3>1. rows'[x[1]] = rows[x[1]]
      BY <1>4, <2>1, <2>2
    <3>2. QED BY <1>1, <2>1, <3>1 DEF Holds, Owned, Active, workers
  <2>3. CASE x[1] = j /\ held
    <3>1. CASE Owned(x)
      <4>1. ~Owned(r) /\ runs[x].pool = runs[r].pool
        BY <2>1, <2>3, <3>1, OneOwner DEF Owned
      <4>2. runs[r].pool \in stalled
        BY <1>3, <1>4, <2>3, <4>1 DEF OwnInv, WorkingHolds, Holds
      <4>3. QED BY <1>1, <2>1, <4>1, <4>2 DEF Holds, workers
    <3>2. CASE ~Owned(x)
      BY <1>1, <1>4, <2>1, <2>3, <3>2 DEF Holds, workers
    <3>3. QED BY <3>1, <3>2
  <2>4. QED BY <2>2, <2>3
<1>9. ContinuedGone' /\ CompletingGone'
  <2>1. \A x \in Runs : rows[x[1]].live = rows'[x[1]].live
    BY <1>6, RunJob
  <2>2. ContinuedGone'
    BY <1>2, <2>1 DEF OwnInv, ContinuedGone, Working, Fenced
  <2>3. CompletingGone'
    BY <1>2, <2>1 DEF OwnInv, CompletingGone, Fenced, Working
  <2>4. QED BY <2>2, <2>3
<1>10. LaneRows'
  <2>1. \A i \in JobIds \ {j} : LockKept(i)
    BY <1>4 DEF LockKept, Locked
  <2>2. CASE held
    BY <1>1, <1>4, <2>1, <2>2, LaneFreed DEF OwnInv
  <2>3. CASE ~held
    <3>1. LockKept(j) /\ lanes' = lanes
      BY <1>1, <1>4, <2>3 DEF LockKept, Locked
    <3>2. QED BY <2>1, <3>1, LanesKept DEF OwnInv
  <2>4. QED BY <2>2, <2>3
<1>11. QED BY <1>5, <1>7, <1>8, <1>9, <1>10 DEF OwnInv

(* A row that is fetched has an attempt left. *)
LEMMA NextAttempt ==
  ASSUME TypeOK, NEW j \in JobIds, rows[j].attempts < rows[j].max
  PROVE  rows[j].attempts + 1 \in 1..MaxAttempts
<1> DEFINE a == rows[j].attempts
           m == rows[j].max
<1>1. a \in 0..MaxAttempts /\ m \in 0..MaxAttempts
  BY DEF TypeOK, Row
<1>2. a < m /\ MaxAttempts \in Nat
  BY JobRunsAssumption DEF JobRunsAssumption
<1> HIDE DEF a, m
<1>3. a + 1 \in 1..MaxAttempts
  BY ONLY <1>1, <1>2
<1>4. QED BY <1>3 DEF a

(* A fetch takes a row that nobody locks, in a lane that nobody locks.     *)
LEMMA FetchKeepsOwn ==
  ASSUME OwnInv, EndInv', NEW p \in Pools, NEW j \in JobIds, Fetch(p, j)
  PROVE  OwnInv'
<1> DEFINE n == rows[j].attempts + 1
           s == <<j, n>>
<1>1. /\ TypeOK /\ PoolInv /\ rows \in [JobIds -> Row] /\ rows[j] \in Row
      /\ runs \in [Runs -> Run] /\ n \in 1..MaxAttempts
      /\ rows[j].live /\ rows[j].lockedBy = None /\ p \in up /\ p # None
      /\ UNCHANGED <<outcome, nextId, workers>>
  <2>1. TypeOK /\ PoolInv /\ rows \in [JobIds -> Row] /\ rows[j] \in Row
        /\ runs \in [Runs -> Run] /\ p # None
    BY JobRunsAssumption DEF OwnInv, EndInv, TypeOK, JobRunsAssumption
  <2>2. n \in 1..MaxAttempts
    BY <2>1, NextAttempt DEF Fetch
  <2>3. QED BY <2>1, <2>2 DEF Fetch
<1>2. s \in Runs /\ s[1] = j /\ s[2] = n
  BY <1>1, RunOf
<1>3. /\ \A i \in JobIds \ {j} : rows'[i] = rows[i]
      /\ rows'[j].live = rows[j].live /\ rows'[j].lane = rows[j].lane
      /\ rows'[j].lockedBy = p /\ rows'[j].lockedAt = n
  <2>1. rows' = [rows EXCEPT ![j] = Fetched(rows[j], p, n)]
    BY DEF Fetch
  <2>2. rows'[j] = Fetched(rows[j], p, n) /\ \A i \in JobIds \ {j} : rows'[i] = rows[i]
    BY <1>1, <2>1
  <2> HIDE DEF n
  <2>3. /\ Fetched(rows[j], p, n).live = rows[j].live
        /\ Fetched(rows[j], p, n).lane = rows[j].lane
        /\ Fetched(rows[j], p, n).lockedBy = p /\ Fetched(rows[j], p, n).lockedAt = n
    <3>1. rows[j] \in Row /\ p \in Pools /\ n \in 1..MaxAttempts
      BY <1>1
    <3>2. QED BY ONLY <3>1, RowLocks
  <2>4. QED BY <2>2, <2>3
<1>4. /\ \A x \in Runs \ {s} : runs'[x] = runs[x]
      /\ runs'[s].pool = p /\ runs'[s].phase = "locked" /\ runs'[s].cont = "no"
  BY <1>1, <1>2 DEF Fetch, NoRun
<1>5. \A i \in JobIds : rows'[i].live = rows[i].live
  BY <1>1, <1>3
<1>6. PoolInv'
  <2>1. j < nextId
    BY <1>1 DEF OwnInv, EndInv, FreshIds, TypeOK, JobIds
  <2>2. StaleIsStalled' /\ NoStalls' /\ ReadyBeat'
    BY <1>1 DEF PoolInv, StaleIsStalled, NoStalls, ReadyBeat, workers
  <2>3. HandlerReady' /\ InflightWorks'
    BY <1>1, <1>4 DEF PoolInv, HandlerReady, InflightWorks, workers
  <2>4. WorkingUp'
    <3> SUFFICES ASSUME NEW x \in Runs, Working(x)'
                 PROVE  runs'[x].pool \in up' /\ x[1] < nextId'
      BY DEF WorkingUp
    <3>1. CASE x = s
      BY <1>1, <1>2, <1>4, <2>1, <3>1 DEF workers
    <3>2. CASE x # s
      BY <1>1, <1>4, <3>2 DEF PoolInv, WorkingUp, Working, workers
    <3>3. QED BY <3>1, <3>2
  <2>5. QED BY <2>2, <2>3, <2>4 DEF PoolInv
<1>7. DeadRows' /\ OutcomeFresh' /\ (Fenced => OutcomeMatchesRow)'
  <2>1. DeadRows'
    BY <1>1, <1>3 DEF OwnInv, DeadRows
  <2>2. OutcomeFresh'
    BY <1>1 DEF OwnInv, OutcomeFresh
  <2>3. \A i \in 1..(nextId - 1) : i \in JobIds
    BY <1>1, JobRunsAssumption DEF TypeOK, JobIds, JobRunsAssumption
  <2>4. QED BY <1>1, <1>5, <2>1, <2>2, <2>3 DEF OwnInv, OutcomeMatchesRow, Fenced
<1>8. WorkingHolds'
  <2> SUFFICES ASSUME Guarded, NEW x \in Runs, Working(x)' PROVE Holds(x)'
    BY DEF WorkingHolds, Guarded, Fenced
  <2>1. CASE x = s
    BY <1>1, <1>2, <1>3, <1>4, <2>1 DEF Holds, Owned
  <2>2. CASE x # s
    <3>1. runs'[x] = runs[x] /\ Holds(x) /\ Working(x) /\ x[1] \in JobIds
      BY <1>4, <2>2, RunJob DEF OwnInv, WorkingHolds, Working
    <3>2. CASE x[1] # j
      BY <1>1, <1>3, <3>1, <3>2 DEF Holds, Owned, Active, workers
    <3>3. CASE x[1] = j
      <4>1. runs[x].pool # None
        BY <1>1, <3>1, JobRunsAssumption DEF PoolInv, WorkingUp, TypeOK, JobRunsAssumption
      <4>2. runs[x].pool \in stalled
        BY <1>1, <3>1, <3>3, <4>1 DEF Holds, Owned
      <4>3. QED BY <1>1, <3>1, <4>2 DEF Holds, workers
    <3>4. QED BY <3>2, <3>3
  <2>3. QED BY <2>1, <2>2
<1>9. ContinuedGone' /\ CompletingGone'
  <2>1. \A x \in Runs : rows[x[1]].live = rows'[x[1]].live
    BY <1>5, RunJob
  <2>2. ContinuedGone'
    BY <1>4, <2>1 DEF OwnInv, ContinuedGone, Working, Fenced
  <2>3. CompletingGone'
    BY <1>4, <2>1 DEF OwnInv, CompletingGone, Fenced
  <2>4. QED BY <2>2, <2>3
<1>10. LaneRows'
  <2> SUFFICES ASSUME Guarded PROVE LockLane' /\ OnePerLane' /\ NoLostLane'
    BY DEF LaneRows, Guarded, Fenced
  <2> DEFINE lane == rows[j].lane
  <2>1. LockLane /\ OnePerLane /\ NoLostLane
    BY DEF OwnInv, LaneRows
  <2>2. lanes' = [l \in Lanes |-> IF l = lane THEN p ELSE lanes[l]]
    BY DEF Fetch
  <2>3. lane \in Lanes => lanes[lane] = None
    BY DEF Fetch
  <2>4. \A i \in JobIds : Locked(i) => i # j /\ (rows[i].lane \in Lanes => rows[i].lane # lane)
    BY <1>1, <2>1, <2>3 DEF LockLane, Locked
  <2>5. \A i \in JobIds \ {j} : LockKept(i)
    BY <1>3 DEF LockKept, Locked
  <2>6. Locked(j)'
    BY <1>1, <1>3 DEF Locked
  <2>7. LockLane'
    <3> SUFFICES ASSUME NEW i \in JobIds, Locked(i)', rows'[i].lane \in Lanes
                 PROVE  lanes'[rows'[i].lane] = rows'[i].lockedBy
      BY DEF LockLane
    <3>1. CASE i = j
      BY <1>3, <2>2, <3>1
    <3>2. CASE i # j
      <4>1. Locked(i) /\ rows'[i] = rows[i] /\ rows[i].lane # lane
        BY <1>3, <2>4, <2>5, <3>2 DEF LockKept
      <4>2. QED BY <2>1, <2>2, <4>1 DEF LockLane
    <3>3. QED BY <3>1, <3>2
  <2>8. OnePerLane'
    BY <1>3, <2>1, <2>4, <2>5 DEF OnePerLane, LockKept
  <2>9. NoLostLane'
    <3> SUFFICES ASSUME NEW l \in Lanes, lanes'[l] # None
                 PROVE  \E i \in JobIds : Locked(i)' /\ rows'[i].lane = l
      BY DEF NoLostLane
    <3>1. CASE l = lane
      BY <1>3, <2>6, <3>1
    <3>2. CASE l # lane
      <4>1. PICK i \in JobIds : Locked(i) /\ rows[i].lane = l
        BY <2>1, <2>2, <3>2 DEF NoLostLane
      <4>2. QED BY <2>4, <2>5, <4>1 DEF LockKept
    <3>3. QED BY <3>1, <3>2
  <2>10. QED BY <2>7, <2>8, <2>9
<1>11. QED BY <1>6, <1>7, <1>8, <1>9, <1>10 DEF OwnInv

(* A heartbeat, its failure, or its absence. *)
LEMMA HeartbeatKeepsOwn ==
  ASSUME OwnInv, EndInv', NEW p \in Pools,
         Beat(p) \/ FirstBeatFails(p) \/ GoesStale(p)
  PROVE  OwnInv'
<1>1. /\ UNCHANGED <<rows, lanes, outcome, nextId, runs, up>> /\ TypeOK /\ PoolInv
      /\ stalled \subseteq stalled' /\ ready \subseteq ready'
  BY DEF OwnInv, EndInv, Beat, FirstBeatFails, GoesStale, database
<1>2. PoolInv'
  <2>1. WorkingUp' /\ InflightWorks' /\ HandlerReady'
    BY <1>1 DEF PoolInv, WorkingUp, InflightWorks, HandlerReady, Working
  <2>2. StaleIsStalled'
    BY <1>1 DEF PoolInv, StaleIsStalled, Beat, FirstBeatFails, GoesStale, TypeOK
  <2>3. NoStalls'
    <3>1. stalled = {} /\ p \in up => ~(Cardinality(stalled) < 0)
      BY FS_EmptySet
    <3>2. QED BY <1>1, <3>1 DEF PoolInv, NoStalls, Beat, FirstBeatFails, GoesStale
  <2>4. ReadyBeat'
    BY <1>1 DEF PoolInv, ReadyBeat, Beat, FirstBeatFails, GoesStale, TypeOK
  <2>5. QED BY <2>1, <2>2, <2>3, <2>4 DEF PoolInv
<1>3. DeadRows' /\ OutcomeFresh' /\ (Fenced => OutcomeMatchesRow)'
  BY <1>1 DEF OwnInv, DeadRows, OutcomeFresh, OutcomeMatchesRow, Fenced
<1>4. WorkingHolds'
  BY <1>1 DEF OwnInv, WorkingHolds, Holds, Owned, Active, Working, Guarded, Fenced
<1>5. ContinuedGone' /\ CompletingGone'
  BY <1>1 DEF OwnInv, ContinuedGone, CompletingGone, Working, Fenced
<1>6. LaneRows'
  BY <1>1, LanesKept DEF OwnInv, LockKept, Locked
<1>7. QED BY <1>2, <1>3, <1>4, <1>5, <1>6 DEF OwnInv

(* A sweep releases the rows and the lanes of the same pools, which have   *)
(* been stale.                                                             *)
LEMMA SweepKeepsOwn ==
  ASSUME OwnInv, EndInv', NEW q \in Pools, Sweep(q)
  PROVE  OwnInv'
<1>1. /\ UNCHANGED <<outcome, nextId, runs, ready, registered, up, stalled>>
      /\ TypeOK /\ PoolInv /\ rows \in [JobIds -> Row] /\ None \notin Dead(q)
      /\ rows' = ReleasedRows(Dead(q)) /\ lanes' = ReleasedLanes(Dead(q))
      /\ beat' = [p \in Pools |-> IF p \in Dead(q) THEN "none" ELSE beat[p]]
      /\ Dead(q) \subseteq Pools /\ \A p \in Dead(q) : beat[p] = "stale"
  BY JobRunsAssumption DEF OwnInv, EndInv, TypeOK, Sweep, Dead, JobRunsAssumption
<1>2. \A i \in JobIds :
        /\ rows'[i].live = rows[i].live /\ rows'[i].lane = rows[i].lane
        /\ rows[i].lockedBy \in Dead(q) => rows[i].live /\ rows'[i].lockedBy = None
        /\ rows[i].lockedBy \notin Dead(q) => rows'[i] = rows[i]
  <2> TAKE i \in JobIds
  <2>1. rows[i] \in Row
    BY <1>1
  <2>2. rows[i].lockedBy \in Dead(q) => rows[i].live
    BY <1>1, RowLocks DEF OwnInv, DeadRows
  <2>3. rows'[i] = IF rows[i].lockedBy \in Dead(q) THEN Unlocked(rows[i]) ELSE rows[i]
    BY <1>1 DEF ReleasedRows
  <2>4. QED BY <2>1, <2>2, <2>3, RowLocks
<1>3. PoolInv'
  <2>1. WorkingUp' /\ InflightWorks' /\ HandlerReady' /\ NoStalls'
    BY <1>1 DEF PoolInv, WorkingUp, InflightWorks, HandlerReady, Working, NoStalls
  <2>2. StaleIsStalled'
    BY <1>1 DEF PoolInv, StaleIsStalled, TypeOK
  <2>3. ReadyBeat'
    BY <1>1 DEF PoolInv, ReadyBeat, StaleIsStalled, TypeOK
  <2>4. QED BY <2>1, <2>2, <2>3 DEF PoolInv
<1>4. DeadRows' /\ OutcomeFresh' /\ (Fenced => OutcomeMatchesRow)'
  <2>1. DeadRows'
    BY <1>2 DEF OwnInv, DeadRows
  <2>2. OutcomeFresh'
    BY <1>1 DEF OwnInv, OutcomeFresh
  <2>3. \A i \in 1..(nextId - 1) : i \in JobIds
    BY <1>1, JobRunsAssumption DEF TypeOK, JobIds, JobRunsAssumption
  <2>4. QED BY <1>1, <1>2, <2>1, <2>2, <2>3 DEF OwnInv, OutcomeMatchesRow, Fenced
<1>5. WorkingHolds'
  <2> SUFFICES ASSUME Guarded, NEW x \in Runs, Working(x)' PROVE Holds(x)'
    BY DEF WorkingHolds, Guarded, Fenced
  <2>1. Holds(x) /\ Working(x) /\ x[1] \in JobIds
    BY <1>1, RunJob DEF OwnInv, WorkingHolds, Working
  <2>2. CASE rows[x[1]].lockedBy \in Dead(q) /\ Owned(x)
    <3>1. runs[x].pool \in stalled
      BY <1>1, <2>1, <2>2 DEF PoolInv, WorkingUp, StaleIsStalled, Owned
    <3>2. QED BY <1>1, <3>1 DEF Holds
  <2>3. CASE rows[x[1]].lockedBy \notin Dead(q) \/ ~Owned(x)
    BY <1>1, <1>2, <2>1, <2>3 DEF Holds, Owned, Active
  <2>4. QED BY <2>2, <2>3
<1>6. ContinuedGone' /\ CompletingGone'
  BY <1>1, <1>2, RunJob DEF OwnInv, ContinuedGone, CompletingGone, Working, Fenced
<1>7. LaneRows'
  <2> SUFFICES ASSUME Guarded PROVE LockLane' /\ OnePerLane' /\ NoLostLane'
    BY DEF LaneRows, Guarded, Fenced
  <2>1. LockLane /\ OnePerLane /\ NoLostLane
    BY DEF OwnInv, LaneRows
  <2>2. lanes' = [l \in Lanes |-> IF lanes[l] \in Dead(q) THEN None ELSE lanes[l]]
    BY <1>1 DEF ReleasedLanes
  <2>3. \A i \in JobIds :
          Locked(i)' => /\ Locked(i) /\ rows[i].lockedBy \notin Dead(q)
                        /\ rows'[i] = rows[i]
    BY <1>1, <1>2 DEF Locked
  <2>4. LockLane'
    BY <2>1, <2>2, <2>3 DEF LockLane
  <2>5. OnePerLane'
    BY <2>1, <2>3 DEF OnePerLane
  <2>6. NoLostLane'
    <3> SUFFICES ASSUME NEW l \in Lanes, lanes'[l] # None
                 PROVE  \E i \in JobIds : Locked(i)' /\ rows'[i].lane = l
      BY DEF NoLostLane
    <3>1. lanes[l] # None /\ lanes[l] \notin Dead(q)
      BY <2>2
    <3>2. PICK i \in JobIds : Locked(i) /\ rows[i].lane = l
      BY <2>1, <3>1 DEF NoLostLane
    <3>3. rows[i].lockedBy \notin Dead(q)
      BY <2>1, <3>1, <3>2 DEF LockLane
    <3>4. QED BY <1>2, <3>2, <3>3 DEF Locked
  <2>7. QED BY <2>4, <2>5, <2>6
<1>8. QED BY <1>3, <1>4, <1>5, <1>6, <1>7 DEF OwnInv

(* A crash ends the runs of the pool and leaves its locks. *)
LEMMA CrashKeepsOwn ==
  ASSUME OwnInv, EndInv', NEW p \in Pools, Crash(p)
  PROVE  OwnInv'
<1>1. /\ UNCHANGED <<rows, lanes, outcome, nextId, beat, registered, stalled>>
      /\ TypeOK /\ PoolInv /\ up' = up \ {p} /\ ready' = ready \ {p}
  BY DEF OwnInv, EndInv, Crash, database
<1>2. \A x \in Runs : /\ runs[x].pool = p => runs'[x].phase = "done" /\ runs'[x].cont = "no"
                      /\ runs[x].pool # p => runs'[x] = runs[x]
  BY DEF Crash, Over, NoRun
<1>3. \A x \in Runs : Working(x)' => /\ runs'[x] = runs[x] /\ Working(x)
                                     /\ runs[x].pool # p
  BY <1>2 DEF Working
<1>4. PoolInv'
  <2>1. WorkingUp' /\ InflightWorks' /\ HandlerReady' /\ NoStalls'
    BY <1>1, <1>2, <1>3 DEF PoolInv, WorkingUp, InflightWorks, HandlerReady, Working, NoStalls
  <2>2. StaleIsStalled' /\ ReadyBeat'
    BY <1>1 DEF PoolInv, StaleIsStalled, ReadyBeat
  <2>3. QED BY <2>1, <2>2 DEF PoolInv
<1>5. DeadRows' /\ OutcomeFresh' /\ (Fenced => OutcomeMatchesRow)'
  BY <1>1 DEF OwnInv, DeadRows, OutcomeFresh, OutcomeMatchesRow, Fenced
<1>6. WorkingHolds'
  BY <1>1, <1>3 DEF OwnInv, WorkingHolds, Holds, Owned, Active, Guarded, Fenced
<1>7. ContinuedGone' /\ CompletingGone'
  BY <1>1, <1>2, <1>3 DEF OwnInv, ContinuedGone, CompletingGone, Working, Fenced
<1>8. LaneRows'
  BY <1>1, LanesKept DEF OwnInv, LockKept, Locked
<1>9. QED BY <1>4, <1>5, <1>6, <1>7, <1>8 DEF OwnInv

LEMMA DueKeepsOwn ==
  ASSUME OwnInv, EndInv', NEW j \in JobIds, BecomesDue(j)
  PROVE  OwnInv'
<1>1. /\ UNCHANGED <<lanes, outcome, nextId, runs, workers>> /\ TypeOK /\ PoolInv
      /\ rows' = [rows EXCEPT ![j].due = TRUE] /\ rows \in [JobIds -> Row] /\ rows[j].live
  BY DEF OwnInv, EndInv, TypeOK, BecomesDue
<1>2. \A row \in Row : LET due == [row EXCEPT !.due = TRUE]
                       IN  /\ due.live = row.live /\ due.lane = row.lane
                           /\ due.lockedBy = row.lockedBy /\ due.lockedAt = row.lockedAt
  BY DEF Row
<1>3. \A i \in JobIds :
        /\ rows'[i].live = rows[i].live /\ rows'[i].lane = rows[i].lane
        /\ rows'[i].lockedBy = rows[i].lockedBy /\ rows'[i].lockedAt = rows[i].lockedAt
        /\ ~rows[i].live => rows'[i] = rows[i]
  BY <1>1, <1>2
<1>4. PoolInv'
  BY <1>1 DEF PoolInv, StaleIsStalled, NoStalls, ReadyBeat, HandlerReady, WorkingUp,
              InflightWorks, Working, workers
<1>5. DeadRows' /\ OutcomeFresh' /\ (Fenced => OutcomeMatchesRow)'
  <2>1. DeadRows' /\ OutcomeFresh'
    BY <1>1, <1>3 DEF OwnInv, DeadRows, OutcomeFresh
  <2>2. \A i \in 1..(nextId - 1) : i \in JobIds
    BY <1>1, JobRunsAssumption DEF TypeOK, JobIds, JobRunsAssumption
  <2>3. QED BY <1>1, <1>3, <2>1, <2>2 DEF OwnInv, OutcomeMatchesRow, Fenced
<1>6. WorkingHolds'
  BY <1>1, <1>3, RunJob
  DEF OwnInv, WorkingHolds, Holds, Owned, Active, Working, Guarded, Fenced, workers
<1>7. ContinuedGone' /\ CompletingGone'
  BY <1>1, <1>3, RunJob DEF OwnInv, ContinuedGone, CompletingGone, Working, Fenced
<1>8. LaneRows'
  BY <1>1, <1>3, LanesKept DEF OwnInv, LockKept, Locked
<1>9. QED BY <1>4, <1>5, <1>6, <1>7, <1>8 DEF OwnInv

LEMMA InitOwn == Init => OwnInv
<1> SUFFICES ASSUME Init PROVE OwnInv
  OBVIOUS
<1>1. EndInv /\ TypeOK
  BY InitEnd DEF EndInv
<1>2. \A r \in Runs : /\ ~Working(r) /\ runs[r].cont = "no"
                      /\ runs[r].phase \notin {"handler", "completing"}
  BY DEF Init, NoRun, Working
<1>3. \A j \in JobIds : /\ rows[j].lockedBy = None
                        /\ ~rows[j].live => rows[j] = NoRow
                        /\ j < nextId => rows[j].live
  <2> TAKE j \in JobIds
  <2>1. /\ nextId = Len(JobLane) + 1 /\ Len(JobLane) \in Nat /\ j \in Nat
        /\ rows[j] = IF j <= Len(JobLane) THEN NewRow(JobLane[j], MaxAttempts, TRUE) ELSE NoRow
    BY JobRunsAssumption DEF Init, JobIds, JobRunsAssumption
  <2>2. CASE j <= Len(JobLane)
    <3>1. rows[j] = NewRow(JobLane[j], MaxAttempts, TRUE)
      BY <2>1, <2>2
    <3>2. rows[j].live /\ rows[j].lockedBy = None
      BY <3>1 DEF NewRow, NoRow
    <3>3. QED BY <3>2
  <2>3. CASE ~(j <= Len(JobLane))
    <3>1. rows[j] = NoRow /\ ~(j < nextId)
      BY <2>1, <2>3
    <3>2. QED BY <3>1, RowLocks
  <2>4. QED BY <2>2, <2>3
<1>4. PoolInv
  BY <1>2 DEF Init, PoolInv, StaleIsStalled, NoStalls, ReadyBeat, HandlerReady, WorkingUp,
              InflightWorks
<1>5. DeadRows /\ OutcomeFresh
  BY <1>3 DEF Init, DeadRows, OutcomeFresh
<1>6. WorkingHolds /\ ContinuedGone /\ CompletingGone
  BY <1>2 DEF WorkingHolds, ContinuedGone, CompletingGone
<1>7. LaneRows
  BY <1>3 DEF Init, LaneRows, LockLane, OnePerLane, NoLostLane, Locked
<1>8. OutcomeMatchesRow
  <2>1. \A i \in 1..(nextId - 1) : i \in JobIds /\ i < nextId
    BY <1>1, JobRunsAssumption DEF TypeOK, JobIds, JobRunsAssumption
  <2>2. QED BY <1>3, <2>1 DEF Init, OutcomeMatchesRow
<1>9. QED BY <1>1, <1>4, <1>5, <1>6, <1>7, <1>8 DEF OwnInv

LEMMA NextOwn == OwnInv /\ [Next]_vars => OwnInv'
<1> SUFFICES ASSUME OwnInv, [Next]_vars PROVE OwnInv'
  OBVIOUS
<1>1. EndInv' /\ EndInv /\ TypeOK
  BY NextEnd DEF OwnInv, EndInv
<1>2. CASE \E r \in Runs : RunProgress(r) \/ CallContinue(r)
  <2>1. PICK r \in Runs : RunProgress(r) \/ CallContinue(r)
    BY <1>2
  <2>2. CASE ContinueJob(r) \/ GraphileCompletes(r) \/ GraphileFails(r)
    BY <1>1, <2>2, ContinueKeepsOwn, CompleteKeepsOwn, FailKeepsOwn
  <2>3. CASE ~ContinueJob(r) /\ ~GraphileCompletes(r) /\ ~GraphileFails(r)
    <3>1. PICK run : Moved(r, run) /\ (WroteOnlyRun(r, run) \/ WroteRow(r, run))
      BY <1>1, <2>1, <2>3, RunSteps DEF OwnInv, PoolInv, InflightWorks
    <3>2. QED BY <1>1, <3>1, WroteOnlyRunKeeps, WroteRowKeeps
  <2>4. QED BY <2>2, <2>3
<1>3. CASE \E p \in Pools : PoolStep(p)
  BY <1>1, <1>3, HeartbeatKeepsOwn, SweepKeepsOwn, CrashKeepsOwn DEF PoolStep
<1>4. CASE \E p \in Pools, j \in JobIds : Fetch(p, j)
  BY <1>1, <1>4, FetchKeepsOwn
<1>5. CASE \E j \in JobIds : BecomesDue(j)
  BY <1>1, <1>5, DueKeepsOwn
<1>6. CASE UNCHANGED vars
  <2>1. UNCHANGED <<rows, lanes, outcome, nextId, runs, workers>>
    BY <1>6 DEF vars, workers
  <2>2. PoolInv' /\ DeadRows' /\ OutcomeFresh'
    BY <2>1 DEF OwnInv, PoolInv, StaleIsStalled, NoStalls, ReadyBeat, HandlerReady,
                WorkingUp, InflightWorks, Working, workers, DeadRows, OutcomeFresh
  <2>3. WorkingHolds' /\ ContinuedGone' /\ CompletingGone'
    BY <2>1 DEF OwnInv, WorkingHolds, Holds, Owned, Active, Working, Guarded, Fenced,
                ContinuedGone, CompletingGone, workers
  <2>4. LaneRows' /\ (Fenced => OutcomeMatchesRow)'
    BY <2>1, LanesKept DEF OwnInv, LockKept, Locked, OutcomeMatchesRow, Fenced
  <2>5. QED BY <1>1, <2>2, <2>3, <2>4 DEF OwnInv
<1>7. QED BY <1>2, <1>3, <1>4, <1>5, <1>6 DEF Next

LEMMA OwnAlways == Spec => []OwnInv
<1>1. Init => OwnInv
  BY InitOwn
<1>2. OwnInv /\ [Next]_vars => OwnInv'
  BY NextOwn
<1>3. QED BY <1>1, <1>2, PTL DEF Spec

---------------------------------------------------------------------------
(* The theorems. *)

(* A handler runs only in a pool that has a heartbeat row or has been      *)
(* stale, provided that no first heartbeat fails silently: executeTask     *)
(* awaits maintenance.ready, which settles after beatSafely().             *)
THEOREM HandlersAreRegistered ==
  ASSUME ~BeatMayFail
  PROVE  Spec => []RunningIsRegistered
<1>1. OwnInv => RunningIsRegistered
  BY DEF OwnInv, PoolInv, HandlerReady, ReadyBeat, RunningIsRegistered
<1>2. QED BY <1>1, OwnAlways, PTL

(* No second run of a job starts beside a live one: owned() holds for      *)
(* every run whose handler may be working, its pool has been stale, or the *)
(* run has committed its continuation; for any number of pools, crashes,   *)
(* retries and lost replies, when every completion is fenced or no live    *)
(* pool goes stale.                                                        *)
THEOREM ActiveRunsOwn ==
  ASSUME Guarded
  PROVE  Spec => []ActiveRunOwnsRow
<1>1. OwnInv => ActiveRunOwnsRow
  <2> SUFFICES ASSUME OwnInv, NEW r \in Runs, Active(r)
               PROVE  \/ /\ Locked(r[1]) /\ LockOf(r[1]) = r
                         /\ rows[r[1]].lockedBy = runs[r].pool
                      \/ runs[r].pool \in stalled
                      \/ runs[r].wrote = "continued"
    BY DEF ActiveRunOwnsRow
  <2>1. Working(r)
    BY DEF Active, Working
  <2>2. Holds(r)
    BY <2>1 DEF OwnInv, WorkingHolds
  <2>3. CASE Owned(r)
    <3>1. Locked(r[1]) /\ rows[r[1]].lockedBy = runs[r].pool
      BY <2>1, <2>3, OwnerLocks DEF OwnInv, EndInv
    <3>2. LockOf(r[1]) = r
      BY <2>3, RunPair DEF Owned, LockOf
    <3>3. QED BY <3>1, <3>2
  <2>4. CASE ~Owned(r)
    BY <2>2, <2>4 DEF Holds
  <2>5. QED BY <2>3, <2>4
<1>2. QED BY <1>1, OwnAlways, PTL

(* A lane is locked exactly while one of its rows is, by the same pool:    *)
(* get_job, complete_jobs, fail_jobs, continueJob, settleLockedJob and     *)
(* releaseJobsLockedBy keep _private_job_queues in step with the rows.     *)
THEOREM LanesAreExact ==
  ASSUME Guarded
  PROVE  Spec => []LaneMatchesRows
<1>1. OwnInv => LaneMatchesRows
  <2> SUFFICES ASSUME OwnInv, NEW l \in Lanes
               PROVE  LET held == {j \in JobIds : Locked(j) /\ rows[j].lane = l}
                      IN /\ Cardinality(held) <= 1
                         /\ lanes[l] = None <=> held = {}
                         /\ \A j \in held : lanes[l] = rows[j].lockedBy
    BY DEF LaneMatchesRows
  <2> DEFINE held == {j \in JobIds : Locked(j) /\ rows[j].lane = l}
  <2>1. LockLane /\ OnePerLane /\ NoLostLane
    BY DEF OwnInv, LaneRows
  <2>2. \A j \in held : lanes[l] = rows[j].lockedBy /\ lanes[l] # None
    BY <2>1 DEF LockLane, Locked
  <2>3. lanes[l] = None <=> held = {}
    BY <2>1, <2>2 DEF NoLostLane
  <2>4. \A i, j \in held : i = j
    BY <2>1 DEF OnePerLane
  <2>5. Cardinality(held) <= 1
    <3> HIDE DEF held
    <3>1. CASE held = {}
      BY <3>1, FS_EmptySet
    <3>2. CASE held # {}
      <4>1. PICK j : j \in held
        BY <3>2
      <4>2. held = {j}
        BY <2>4, <4>1
      <4>3. Cardinality({j}) = 1
        BY FS_Singleton
      <4>4. QED BY <4>2, <4>3
    <3>3. QED BY <3>1, <3>2
  <2>6. QED BY <2>2, <2>3, <2>5
<1>2. QED BY <1>1, OwnAlways, PTL

(* jobOutcomes without 'discard': a job has no row exactly when it has a   *)
(* recorded completion or continuation, whoever finishes late.             *)
THEOREM OutcomesAreExact ==
  ASSUME Fenced
  PROVE  Spec => []OutcomeMatchesRow
<1>1. OwnInv => OutcomeMatchesRow
  BY DEF OwnInv
<1>2. QED BY <1>1, OwnAlways, PTL

---------------------------------------------------------------------------
(* What no step may do. *)

(* Every step of a run changes the run. *)
LEMMA RunStepMoves ==
  ASSUME OwnInv, NEW r \in Runs, RunProgress(r) \/ CallContinue(r)
  PROVE  runs'[r] # runs[r]
<1>0. TypeOK /\ runs \in [Runs -> Run]
  BY DEF OwnInv, EndInv, TypeOK
<1>1. CASE ContinueJob(r)
  <2>1. runs[r].cont = "inflight" /\ runs'[r].cont \in {"committed", "refused"}
    BY <1>0, <1>1 DEF ContinueJob, Run
  <2>2. QED BY <2>1
<1>2. CASE GraphileCompletes(r) \/ GraphileFails(r)
  <2>1. runs' = [runs EXCEPT ![r] = Over(r)] /\ runs[r].phase # "done"
    BY <1>2 DEF GraphileCompletes, GraphileFails
  <2>2. runs'[r].phase = "done"
    BY <1>0, <2>1, OverStays DEF OwnInv
  <2>3. QED BY <2>1, <2>2
<1>3. CASE ~ContinueJob(r) /\ ~GraphileCompletes(r) /\ ~GraphileFails(r)
  <2>1. PICK run : Moved(r, run)
    BY <1>0, <1>3, RunSteps DEF OwnInv, PoolInv, InflightWorks
  <2>2. QED BY <1>0, <2>1 DEF Moved
<1>4. QED BY <1>1, <1>2, <1>3

(* A locked row is deleted only in a step of the run that locks it: a run  *)
(* that lost its row can neither complete it nor continue it, and neither  *)
(* can Graphile's complete_jobs, which matches nothing but the id.         *)
THEOREM OwnersDelete ==
  ASSUME Guarded
  PROVE  Spec => OnlyOwnerDeletes
<1>1. ASSUME OwnInv, [Next]_vars
      PROVE  [\A j \in JobIds :
                Locked(j) /\ ~rows'[j].live => runs'[LockOf(j)] # runs[LockOf(j)]]_vars
  <2> SUFFICES ASSUME NEW j \in JobIds, Locked(j), ~rows'[j].live
               PROVE  runs'[LockOf(j)] # runs[LockOf(j)]
    OBVIOUS
  <2>1. rows \in [JobIds -> Row] /\ rows[j] \in Row /\ rows[j].live /\ TypeOK
    BY <1>1 DEF OwnInv, EndInv, TypeOK, Locked
  <2>2. \A x \in Runs : Owned(x) /\ x[1] = j => LockOf(j) = x
    BY RunPair DEF Owned, LockOf
  <2>3. SUFFICES \E x \in Runs : /\ Owned(x) /\ x[1] = j
                                 /\ RunProgress(x) \/ CallContinue(x)
    BY <1>1, <2>2, RunStepMoves
  <2>4. ASSUME NEW i \in JobIds, BecomesDue(i) PROVE FALSE
    <3>1. \A row \in Row : [row EXCEPT !.due = TRUE].live = row.live
      BY DEF Row
    <3>2. QED BY <2>1, <2>4, <3>1 DEF BecomesDue
  <2>5. ASSUME NEW p \in Pools, NEW i \in JobIds, Fetch(p, i) PROVE FALSE
    BY <2>1, <2>5 DEF Fetch, Locked
  <2>6. ASSUME NEW q \in Pools, Sweep(q) PROVE FALSE
    <3>1. rows'[j] \in {rows[j], Unlocked(rows[j])}
      BY <2>6 DEF Sweep, ReleasedRows
    <3>2. QED BY <2>1, <3>1, RowLocks
  <2>7. rows' # rows
    BY <2>1
  <2>8. PICK r \in Runs : RunProgress(r) \/ CallContinue(r)
    BY <1>1, <2>4, <2>5, <2>6, <2>7
    DEF Next, PoolStep, Beat, FirstBeatFails, GoesStale, Crash, database, vars
  <2>9. r[1] \in JobIds /\ rows[r[1]] \in Row
    BY <2>1, RunJob
  <2>10. CASE ContinueJob(r)
    <3>1. nextId \in JobIds /\ Owned(r)
      BY <2>10 DEF ContinueJob
    <3>2. r[1] = j
      <4>1. ~rows[nextId].live
        BY <1>1, <3>1 DEF OwnInv, EndInv, FreshIds, TypeOK, JobIds
      <4>2. j # nextId
        BY <2>1, <4>1
      <4>3. QED BY <2>1, <2>9, <2>10, <3>1, <4>2 DEF ContinueJob
    <3>3. QED BY <2>8, <3>1, <3>2
  <2>11. CASE GraphileCompletes(r)
    <3>1. r[1] = j
      BY <2>1, <2>9, <2>11 DEF GraphileCompletes
    <3>2. Working(r) /\ ~Active(r) /\ runs[r].phase = "completing"
      BY <2>11 DEF GraphileCompletes, Working, Active
    <3>3. Owned(r)
      BY <1>1, <2>1, <3>1, <3>2
      DEF OwnInv, CompletingGone, WorkingHolds, Holds, Guarded, PoolInv, NoStalls
    <3>4. QED BY <2>8, <3>1, <3>3
  <2>12. CASE GraphileFails(r)
    <3>1. rows'[j] \in {rows[j], Unlocked(rows[j])}
      BY <2>1, <2>9, <2>12 DEF GraphileFails
    <3>2. QED BY <2>1, <3>1, RowLocks
  <2>13. CASE ~ContinueJob(r) /\ ~GraphileCompletes(r) /\ ~GraphileFails(r)
    <3>1. PICK run : WroteOnlyRun(r, run) \/ WroteRow(r, run)
      BY <1>1, <2>1, <2>8, <2>13, RunSteps DEF OwnInv, PoolInv, InflightWorks
    <3>2. WroteRow(r, run)
      BY <2>7, <3>1 DEF WroteOnlyRun, database
    <3>3. rows'[j] # rows[j]
      BY <2>1
    <3>4. Owned(r) /\ r[1] = j
      BY <2>1, <2>9, <3>2, <3>3 DEF WroteRow, Deleted, Retained
    <3>5. QED BY <2>8, <3>4
  <2>14. QED BY <2>10, <2>11, <2>12, <2>13
<1>2. QED BY <1>1, OwnAlways, PTL DEF Spec, OnlyOwnerDeletes
=============================================================================
