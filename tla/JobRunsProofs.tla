--------------------------- MODULE JobRunsProofs ---------------------------
(***************************************************************************)
(* Theorems of JobRuns, for every value of its constants.                  *)
(***************************************************************************)
EXTENDS JobRuns, TLAPS

---------------------------------------------------------------------------
(* What the operators on rows and runs return. *)

LEMMA RowTypes ==
  ASSUME JobRunsAssumption
  PROVE  /\ NoRow \in Row
         /\ \A l \in Lanes \cup {None}, m \in 0..MaxAttempts, d \in BOOLEAN :
              NewRow(l, m, d) \in Row
         /\ \A row \in Row : Exhausted(row) \in Row /\ Unlocked(row) \in Row
<1>1. NoRow \in Row
  BY DEF JobRunsAssumption, NoRow, Row
<1>2. \A l \in Lanes \cup {None}, m \in 0..MaxAttempts, d \in BOOLEAN :
        NewRow(l, m, d) \in Row
  BY <1>1 DEF NewRow, NoRow, Row
<1>3. \A row \in Row : Exhausted(row) \in Row /\ Unlocked(row) \in Row
  BY <1>1 DEF Exhausted, Unlocked, Row, NoRow
<1>4. QED BY <1>1, <1>2, <1>3

LEMMA RunJob == \A r \in Runs : r[1] \in JobIds /\ r[2] \in 1..MaxAttempts
BY DEF Runs

LEMMA RunTypes ==
  ASSUME TypeOK
  PROVE  /\ NoRun \in Run
         /\ \A r \in Runs : Over(r) \in Run
         /\ \A r \in Runs, f \in Phases : As(r, f) \in Run
<1>1. NoRun \in Run
  BY DEF NoRun, Run, Phases, Writes
<1>2. \A r \in Runs : Over(r) \in Run
  BY <1>1 DEF TypeOK, NoRun, Run, Phases, Over
<1>3. \A r \in Runs, f \in Phases : As(r, f) \in Run
  BY DEF TypeOK, Run, As
<1>4. QED BY <1>1, <1>2, <1>3

LEMMA LaneTypes ==
  ASSUME TypeOK
  PROVE  \A l, p : FreeLane(l, p) \in [Lanes -> Pools \cup {None}]
BY DEF TypeOK, FreeLane

LEMMA SettleTypes ==
  ASSUME JobRunsAssumption, TypeOK,
         NEW r \in Runs, NEW state \in {"completed", "failed"},
         NEW row \in {"delete", "exhaust", "keep"},
         NEW yes \in Run, NEW no \in Run,
         Settle(r, state, row, yes, no), UNCHANGED workers
  PROVE  TypeOK'
<1> r[1] \in JobIds
  BY RunJob
<1>1. CASE UNCHANGED database /\ runs' = [runs EXCEPT ![r] = no]
  BY <1>1 DEF TypeOK, database, workers
<1>2. CASE Owned(r) /\ UNCHANGED <<nextId, origin>>
           /\ rows' = (CASE row = "delete"  -> [rows EXCEPT ![r[1]] = NoRow]
                         [] row = "exhaust" -> [rows EXCEPT ![r[1]] = Exhausted(@)]
                         [] OTHER           -> rows)
           /\ lanes' = (IF row = "delete" THEN FreeLane(rows[r[1]].lane, runs[r].pool)
                                          ELSE lanes)
           /\ outcome' = (IF JobOutcomes THEN [outcome EXCEPT ![r[1]] = state]
                                         ELSE outcome)
           /\ \E next \in {yes} \cup {f \in {no} : "lost" \in Faults} :
                runs' = [runs EXCEPT ![r] =
                  [next EXCEPT !.wrote = IF row = "exhaust" THEN "retained" ELSE state]]
  <2>1. rows' \in [JobIds -> Row]
    BY <1>2, RowTypes DEF TypeOK
  <2>2. lanes' \in [Lanes -> Pools \cup {None}]
    BY <1>2, LaneTypes DEF TypeOK
  <2>3. \A next \in Run : [next EXCEPT !.wrote = IF row = "exhaust" THEN "retained"
                                                                   ELSE state] \in Run
    BY DEF Run, Writes
  <2>4. runs' \in [Runs -> Run]
    BY <1>2, <2>3 DEF TypeOK
  <2>5. outcome' \in [JobIds -> {"none", "completed", "failed", "continued"}]
    BY <1>2 DEF TypeOK
  <2>6. QED
    BY <1>2, <2>1, <2>2, <2>4, <2>5 DEF TypeOK, workers
<1>3. QED BY <1>1, <1>2 DEF Settle
---------------------------------------------------------------------------
(* Type correctness: one step per action. *)

LEMMA InitTypes == JobRunsAssumption /\ Init => TypeOK
<1> SUFFICES ASSUME JobRunsAssumption, Init PROVE TypeOK
  OBVIOUS
<1>1. rows \in [JobIds -> Row]
  <2>1. \A j \in JobIds : j <= Len(JobLane) => JobLane[j] \in Lanes \cup {None}
    BY DEF JobRunsAssumption, JobIds
  <2>2. MaxAttempts \in 0..MaxAttempts
    BY DEF JobRunsAssumption
  <2>3. QED BY <2>1, <2>2, RowTypes DEF Init
<1>2. nextId \in 1..(MaxJobs + 1)
  BY DEF Init, JobRunsAssumption
<1>3. runs \in [Runs -> Run]
  BY DEF Init, NoRun, Run, Phases, Writes
<1>4. origin \in [JobIds -> 0..MaxJobs]
  BY DEF Init, JobRunsAssumption
<1>5. QED BY <1>1, <1>2, <1>3, <1>4 DEF Init, TypeOK

(* The steps of a run that write nothing but the run itself. *)
LEMMA RunOnlyTypes ==
  ASSUME TypeOK, runs' \in [Runs -> Run], UNCHANGED <<database, workers>>
  PROVE  TypeOK'
BY DEF TypeOK, database, workers

LEMMA ContinueTypes ==
  ASSUME JobRunsAssumption, TypeOK, NEW r \in Runs, ContinueJob(r)
  PROVE  TypeOK'
<1> DEFINE j == r[1]
<1>1. j \in JobIds /\ rows[j] \in Row /\ rows[j].lane \in Lanes \cup {None}
      /\ rows[j].max \in 0..MaxAttempts
  BY RunJob DEF TypeOK, Row
<1>2. rows' \in [JobIds -> Row]
  <2>1. PICK due \in BOOLEAN :
          rows' = [rows EXCEPT
            ![nextId] = NewRow(rows[j].lane, rows[j].max, due),
            ![j] = IF JobOutcomes THEN NoRow ELSE Exhausted(rows[j])]
    BY DEF ContinueJob
  <2>2. NewRow(rows[j].lane, rows[j].max, due) \in Row
    BY <1>1, RowTypes
  <2>3. (IF JobOutcomes THEN NoRow ELSE Exhausted(rows[j])) \in Row
    BY <1>1, RowTypes
  <2>4. QED BY <2>1, <2>2, <2>3 DEF TypeOK
<1>3. lanes' \in [Lanes -> Pools \cup {None}]
  BY LaneTypes DEF ContinueJob, TypeOK
<1>4. outcome' \in [JobIds -> {"none", "completed", "failed", "continued"}]
  BY DEF ContinueJob, TypeOK
<1>5. nextId' \in 1..(MaxJobs + 1)
  BY DEF ContinueJob, TypeOK, JobIds, JobRunsAssumption
<1>6. runs' \in [Runs -> Run]
  <2>1. PICK seen \in {"committed", "refused"} :
          runs' = [runs EXCEPT ![r].cont = seen, ![r].wrote = "continued"]
    BY DEF ContinueJob
  <2>2. [runs[r] EXCEPT !.cont = seen] \in Run
    <3>1. \A run \in Run, c \in {"committed", "refused"} : [run EXCEPT !.cont = c] \in Run
      BY DEF Run
    <3>2. runs[r] \in Run
      BY DEF TypeOK
    <3>3. QED BY <3>1, <3>2
  <2>3. \A run \in Run : [run EXCEPT !.wrote = "continued"] \in Run
    BY DEF Run, Writes
  <2>4. DEFINE once == [runs EXCEPT ![r].cont = seen]
  <2>5. once \in [Runs -> Run] /\ once[r] = [runs[r] EXCEPT !.cont = seen]
    BY <2>2 DEF TypeOK
  <2>6. runs' = [once EXCEPT ![r] = [once[r] EXCEPT !.wrote = "continued"]]
    BY <2>1
  <2>7. HIDE DEF once
  <2>8. QED BY <2>3, <2>5, <2>6
<1>7. origin' \in [JobIds -> 0..MaxJobs]
  BY <1>1 DEF ContinueJob, TypeOK, JobIds, JobRunsAssumption
<1>8. QED
  BY <1>2, <1>3, <1>4, <1>5, <1>6, <1>7 DEF TypeOK, ContinueJob, workers

(* One field of a run written. *)
LEMMA FieldTypes ==
  /\ \A run \in Run, f \in Phases : [run EXCEPT !.phase = f] \in Run
  /\ \A run \in Run, c \in {"inflight", "refused"} : [run EXCEPT !.cont = c] \in Run
  /\ \A run \in Run, x \in HandlerResults : [run EXCEPT !.result = x] \in Run
BY DEF Run

LEMMA EndingTypes ==
  ASSUME TypeOK, NEW r \in Runs, NEW x \in HandlerResults,
         runs' = [runs EXCEPT ![r].phase = "ending", ![r].result = x]
  PROVE  runs' \in [Runs -> Run]
<1>1. "ending" \in Phases
  BY DEF Phases
<1>2. runs[r] \in Run
  BY DEF TypeOK
<1>3. DEFINE once == [runs EXCEPT ![r].phase = "ending"]
<1>4. once \in [Runs -> Run]
  BY <1>1, <1>2, FieldTypes DEF TypeOK
<1>5. runs' = [once EXCEPT ![r] = [once[r] EXCEPT !.result = x]]
  OBVIOUS
<1>6. HIDE DEF once
<1>7. [once[r] EXCEPT !.result = x] \in Run
  BY <1>4, FieldTypes
<1>8. QED BY <1>4, <1>5, <1>7

(* Every step of executeTask and of Graphile's completion of its job. *)
LEMMA RunStepTypes ==
  ASSUME JobRunsAssumption, TypeOK, NEW r \in Runs, RunProgress(r) \/ CallContinue(r)
  PROVE  TypeOK'
<1> USE DEF Phases
<1>0. runs[r] \in Run /\ r[1] \in JobIds /\ rows[r[1]] \in Row
  BY RunJob DEF TypeOK
<1>1. CASE StartHandler(r)
  <2>1. runs' \in [Runs -> Run]
    BY <1>0, <1>1, FieldTypes DEF StartHandler, TypeOK
  <2>2. QED BY <1>1, <2>1, RunOnlyTypes DEF StartHandler
<1>2. CASE HandlerEnds(r)
  <2>1. runs' \in [Runs -> Run]
    BY <1>2, EndingTypes DEF HandlerEnds, JobRunsAssumption
  <2>2. QED BY <1>2, <2>1, RunOnlyTypes DEF HandlerEnds
<1>3. CASE TimesOut(r)
  <2>1. runs' \in [Runs -> Run]
    BY <1>3, EndingTypes DEF TimesOut, HandlerResults
  <2>2. QED BY <1>3, <2>1, RunOnlyTypes DEF TimesOut
<1>4. CASE CallContinue(r)
  <2>1. runs' \in [Runs -> Run]
    BY <1>0, <1>4, FieldTypes DEF CallContinue, TypeOK
  <2>2. QED BY <1>4, <2>1, RunOnlyTypes DEF CallContinue
<1>5. CASE ContinueJob(r)
  BY <1>5, ContinueTypes
<1>6. CASE ContinueRefused(r)
  <2>1. runs' \in [Runs -> Run]
    BY <1>0, <1>6, FieldTypes DEF ContinueRefused, TypeOK
  <2>2. QED BY <1>6, <2>1, RunOnlyTypes DEF ContinueRefused
<1>7. CASE EndContinued(r) \/ EndError(r) \/ FailRetried(r)
  <2>1. \E f \in Phases : runs' = [runs EXCEPT ![r] = As(r, f)]
    BY <1>7 DEF EndContinued, EndError, FailRetried
  <2>2. runs' \in [Runs -> Run]
    BY <2>1, RunTypes DEF TypeOK
  <2>3. QED BY <1>7, <2>2, RunOnlyTypes DEF EndContinued, EndError, FailRetried
<1>8. CASE EndOk(r)
  <2>1. As(r, "completing") \in Run /\ As(r, "failing") \in Run
    BY RunTypes
  <2>2. [As(r, "failing") EXCEPT !.result = "error"] \in Run
    <3>1. "error" \in HandlerResults
      BY DEF HandlerResults
    <3>2. QED BY ONLY <2>1, <3>1, FieldTypes
  <2>3. CASE JobOutcomes
    BY <1>8, <2>1, <2>2, <2>3, SettleTypes DEF EndOk
  <2>4. CASE ~JobOutcomes
    <3>1. runs' \in [Runs -> Run]
      BY <1>8, <2>1, <2>4 DEF EndOk, TypeOK
    <3>2. QED BY <1>8, <2>4, <3>1, RunOnlyTypes DEF EndOk
  <2>5. QED BY <2>3, <2>4
<1>9. CASE FailLast(r)
  <2>1. As(r, "failed") \in Run
    BY RunTypes
  <2>2. CASE JobOutcomes
    BY <1>9, <2>1, <2>2, SettleTypes DEF FailLast
  <2>3. CASE ~JobOutcomes
    <3>1. runs' \in [Runs -> Run]
      BY <1>9, <2>1, <2>3 DEF FailLast, TypeOK
    <3>2. QED BY <1>9, <2>3, <3>1, RunOnlyTypes DEF FailLast
  <2>4. QED BY <2>2, <2>3
<1>10. CASE FailRetained(r)
  BY <1>10, RunTypes, SettleTypes DEF FailRetained
<1>11. CASE FailDiscarded(r)
  <2>1. As(r, "completing") \in Run
    BY RunTypes
  <2>2. CASE JobOutcomes
    BY <1>11, <2>1, <2>2, SettleTypes DEF FailDiscarded
  <2>3. CASE ~JobOutcomes
    <3>1. runs' \in [Runs -> Run]
      BY <1>11, <2>1, <2>3 DEF FailDiscarded, TypeOK
    <3>2. QED BY <1>11, <2>3, <3>1, RunOnlyTypes DEF FailDiscarded
  <2>4. QED BY <2>2, <2>3
<1>12. CASE GraphileCompletes(r) \/ GraphileFails(r)
  <2>1. /\ runs' = [runs EXCEPT ![r] = Over(r)]
        /\ \/ rows' = [rows EXCEPT ![r[1]] = NoRow]
           \/ rows' = [rows EXCEPT ![r[1]] = Unlocked(rows[r[1]])]
           \/ rows' = rows
        /\ \/ lanes' = FreeLane(rows[r[1]].lane, runs[r].pool)
           \/ lanes' = lanes
        /\ UNCHANGED <<outcome, nextId, origin, workers>>
    BY <1>0, <1>12 DEF GraphileCompletes, GraphileFails, TypeOK
  <2>2. runs' \in [Runs -> Run]
    BY <2>1, RunTypes DEF TypeOK
  <2>3. NoRow \in Row /\ Unlocked(rows[r[1]]) \in Row
    BY <1>0, RowTypes
  <2>4. rows' \in [JobIds -> Row]
    BY <2>1, <2>3 DEF TypeOK
  <2>5. lanes' \in [Lanes -> Pools \cup {None}]
    BY <2>1, LaneTypes DEF TypeOK
  <2>6. QED
    BY <2>1, <2>2, <2>4, <2>5 DEF TypeOK, workers
<1>13. QED
  BY <1>1, <1>2, <1>3, <1>4, <1>5, <1>6, <1>7, <1>8, <1>9, <1>10, <1>11, <1>12
  DEF RunProgress

LEMMA FetchedTypes ==
  ASSUME NEW p \in Pools, NEW n \in 1..MaxAttempts, NEW row \in Row
  PROVE  Fetched(row, p, n) \in Row
<1> DEFINE x == [row EXCEPT !.lockedBy = p]
           y == [x EXCEPT !.lockedAt = n]
           z == [y EXCEPT !.attempts = n]
<1>1. x \in Row
  BY DEF Row
<1>2. y \in Row
  <2> HIDE DEF x
  <2> QED BY <1>1 DEF Row
<1>3. z \in Row
  <2> HIDE DEF y
  <2> QED BY <1>2 DEF Row
<1>4. Fetched(row, p, n) = z
  BY DEF Fetched
<1>5. QED BY <1>3, <1>4

LEMMA FetchTypes ==
  ASSUME JobRunsAssumption, TypeOK, NEW p \in Pools, NEW j \in JobIds, Fetch(p, j)
  PROVE  TypeOK'
<1> DEFINE n == rows[j].attempts + 1
<1>1. rows[j] \in Row
  BY DEF TypeOK
<1>2. n \in 1..MaxAttempts
  BY <1>1 DEF Fetch, Row, JobRunsAssumption
<1>3. Fetched(rows[j], p, n) \in Row
  BY <1>1, <1>2, FetchedTypes
<1>4. rows' \in [JobIds -> Row]
  BY <1>3 DEF Fetch, TypeOK
<1>5. lanes' \in [Lanes -> Pools \cup {None}]
  BY DEF Fetch, TypeOK
<1>6. runs' \in [Runs -> Run]
  <2>1. \A b \in BOOLEAN : [NoRun EXCEPT !.pool = p, !.phase = "locked", !.last = b] \in Run
    BY DEF NoRun, Run, Phases, Writes
  <2>2. <<j, n>> \in Runs
    BY <1>2 DEF Runs
  <2>3. (n >= rows[j].max) \in BOOLEAN
    OBVIOUS
  <2>4. PICK run \in Run : runs' = [runs EXCEPT ![<<j, n>>] = run]
    BY <2>1, <2>3 DEF Fetch
  <2>5. QED BY <2>2, <2>4 DEF TypeOK
<1>7. QED
  BY <1>4, <1>5, <1>6 DEF Fetch, TypeOK, workers

LEMMA PoolStepTypes ==
  ASSUME JobRunsAssumption, TypeOK, NEW p \in Pools, PoolStep(p)
  PROVE  TypeOK'
<1>1. CASE Beat(p) \/ FirstBeatFails(p) \/ GoesStale(p)
  BY <1>1 DEF Beat, FirstBeatFails, GoesStale, TypeOK, database
<1>2. CASE Sweep(p)
  <2>1. rows' \in [JobIds -> Row]
    BY <1>2, RowTypes DEF Sweep, ReleasedRows, TypeOK
  <2>2. lanes' \in [Lanes -> Pools \cup {None}]
    BY <1>2 DEF Sweep, ReleasedLanes, TypeOK
  <2>3. beat' \in [Pools -> {"none", "fresh", "stale"}]
    BY <1>2 DEF Sweep, TypeOK
  <2>4. QED BY <1>2, <2>1, <2>2, <2>3 DEF Sweep, TypeOK
<1>3. CASE Crash(p)
  <2>1. runs' \in [Runs -> Run]
    BY <1>3, RunTypes DEF Crash, TypeOK
  <2>2. QED BY <1>3, <2>1 DEF Crash, TypeOK, database
<1>4. QED BY <1>1, <1>2, <1>3 DEF PoolStep

LEMMA NextTypes == JobRunsAssumption /\ TypeOK /\ [Next]_vars => TypeOK'
<1> SUFFICES ASSUME JobRunsAssumption, TypeOK, [Next]_vars PROVE TypeOK'
  OBVIOUS
<1>1. CASE \E r \in Runs : RunProgress(r) \/ CallContinue(r)
  BY <1>1, RunStepTypes
<1>2. CASE \E p \in Pools : PoolStep(p)
  BY <1>2, PoolStepTypes
<1>3. CASE \E p \in Pools, j \in JobIds : Fetch(p, j)
  BY <1>3, FetchTypes
<1>4. CASE \E j \in JobIds : BecomesDue(j)
  <2>1. PICK j \in JobIds : BecomesDue(j)
    BY <1>4
  <2>2. \A row \in Row : [row EXCEPT !.due = TRUE] \in Row
    BY DEF Row
  <2>3. rows' \in [JobIds -> Row]
    BY <2>1, <2>2 DEF BecomesDue, TypeOK
  <2>4. QED BY <2>1, <2>3 DEF BecomesDue, TypeOK, workers
<1>5. CASE UNCHANGED vars
  BY <1>5 DEF vars, TypeOK
<1>6. QED BY <1>1, <1>2, <1>3, <1>4, <1>5 DEF Next

(* Every reachable state is well typed: no row is locked more often than   *)
(* max_attempts allows and every statement leaves a row of the table.      *)
THEOREM TypeCorrect == Spec => []TypeOK
<1>1. Init => TypeOK
  BY InitTypes, JobRunsAssumption
<1>2. TypeOK /\ [Next]_vars => TypeOK'
  BY NextTypes, JobRunsAssumption
<1>3. QED BY <1>1, <1>2, PTL DEF Spec

---------------------------------------------------------------------------
(* The inductive invariant behind OneContinuation and NoRunAfterEnd: what  *)
(* has been continued or ended can neither be fetched again, because its   *)
(* row is gone or its attempts are spent, nor be continued again, because  *)
(* the only run that still owns the row has continued already.             *)

Spent(j) == rows[j].live => rows[j].attempts >= rows[j].max

(* A run that can no longer commit a continuation. *)
Quiet(r) == runs[r].cont # "inflight" /\ (runs[r].cont = "no" => runs[r].phase = "done")

Continued(j) == \E k \in JobIds : origin[k] = j

(* Ids are handed out in order. *)
FreshIds ==
  \A j \in JobIds :
    /\ origin[j] < nextId
    /\ j >= nextId => rows[j].live = FALSE /\ origin[j] = 0 /\ ~Ended(j)

(* A locked row is locked by its latest attempt. *)
LatestLock == \A j \in JobIds : rows[j].lockedAt \in {0, rows[j].attempts}

EndedIsSpent == \A j \in JobIds : Ended(j) => Spent(j)

ContinuedIsSpent ==
  \A j \in JobIds : Continued(j) =>
    /\ Spent(j)
    /\ \A r \in Runs : rows[j].live /\ r = <<j, rows[j].attempts>> => Quiet(r)

IdleRuns == \A r \in Runs : runs[r].phase = "none" => runs[r] = NoRun

EndInv ==
  /\ TypeOK
  /\ IdleRuns
  /\ FreshIds
  /\ LatestLock
  /\ EndedIsSpent
  /\ ContinuedIsSpent
  /\ OneContinuation

LEMMA RunPair == \A r \in Runs : r = <<r[1], r[2]>>
BY DEF Runs

LEMMA RunOf == \A j \in JobIds, n \in 1..MaxAttempts : <<j, n>> \in Runs
BY DEF Runs

(* What every step but a fetch and a continuation does to a row and a run. *)
RowKept(j) ==
  /\ rows'[j].live => /\ rows[j].live
                      /\ rows'[j].attempts = rows[j].attempts
                      /\ rows'[j].max \in {rows[j].max, rows[j].attempts}
  /\ \/ rows'[j].lockedAt = 0
     \/ rows'[j].lockedAt = rows[j].lockedAt /\ rows'[j].attempts = rows[j].attempts

EndWrites == {"continued", "completed", "retained"}

RunKept(r) ==
  \/ runs'[r] = runs[r]
  \/ /\ runs[r].phase # "none" /\ runs'[r].phase # "none"
     /\ Quiet(r) => Quiet(r)'
     /\ \/ runs'[r].wrote = runs[r].wrote
        \/ runs'[r].wrote \notin EndWrites
        \/ rows[r[1]].live /\ Spent(r[1])'

LEMMA KeptStep ==
  ASSUME EndInv, TypeOK', UNCHANGED <<nextId, origin>>,
         \A j \in JobIds : RowKept(j), \A r \in Runs : RunKept(r)
  PROVE  EndInv'
<1>1. \A j \in JobIds : Spent(j) => Spent(j)'
  BY DEF EndInv, TypeOK, Row, RowKept, Spent, JobRunsAssumption
<1>2. \A j \in JobIds : Ended(j)' => Ended(j) \/ (rows[j].live /\ Spent(j)')
  <2> TAKE j \in JobIds
  <2> HAVE Ended(j)'
  <2>1. PICK n \in 1..MaxAttempts : runs'[<<j, n>>].wrote \in EndWrites
    BY DEF Ended, EndWrites
  <2>2. PICK r \in Runs : r = <<j, n>>
    BY RunOf
  <2>3. r[1] = j /\ runs'[r].wrote \in EndWrites /\ RunKept(r)
    BY <2>1, <2>2
  <2>4. runs[r].wrote \in EndWrites => Ended(j)
    BY <2>2 DEF Ended, EndWrites
  <2>5. CASE rows[r[1]].live /\ Spent(r[1])'
    BY <2>3, <2>5 DEF Spent
  <2>6. CASE runs'[r].wrote = runs[r].wrote
    BY <2>3, <2>4, <2>6
  <2>7. QED BY <2>3, <2>5, <2>6 DEF RunKept
<1>3. \A r \in Runs : Quiet(r) => Quiet(r)'
  BY DEF RunKept, Quiet
<1>4. IdleRuns'
  BY DEF EndInv, IdleRuns, RunKept
<1>5. FreshIds'
  BY <1>2 DEF EndInv, FreshIds, RowKept
<1>6. LatestLock'
  BY DEF EndInv, LatestLock, RowKept
<1>7. EndedIsSpent'
  BY <1>1, <1>2 DEF EndInv, EndedIsSpent
<1>8. ContinuedIsSpent'
  <2>1. \A j \in JobIds : Continued(j)' => Continued(j)
    BY DEF Continued
  <2>2. \A j \in JobIds : rows'[j].live => rows[j].live /\ rows'[j].attempts = rows[j].attempts
    BY DEF RowKept
  <2>3. SUFFICES ASSUME NEW j \in JobIds, Continued(j)'
                 PROVE  /\ Spent(j)'
                        /\ \A r \in Runs :
                             rows'[j].live /\ r = <<j, rows'[j].attempts>> => Quiet(r)'
    BY DEF ContinuedIsSpent
  <2>4. /\ Spent(j)
        /\ \A r \in Runs : rows[j].live /\ r = <<j, rows[j].attempts>> => Quiet(r)
    BY <2>1, <2>3 DEF EndInv, ContinuedIsSpent
  <2>5. Spent(j)'
    BY <1>1, <2>4
  <2>6. ASSUME NEW r \in Runs, rows'[j].live, r = <<j, rows'[j].attempts>>
        PROVE  Quiet(r)'
    <3>1. rows[j].live /\ r = <<j, rows[j].attempts>>
      BY <2>2, <2>6
    <3>2. Quiet(r)
      BY <2>4, <3>1
    <3>3. QED BY <1>3, <3>2
  <2>7. QED BY <2>5, <2>6
<1>9. OneContinuation'
  BY DEF EndInv, OneContinuation
<1>10. QED BY <1>4, <1>5, <1>6, <1>7, <1>8, <1>9 DEF EndInv

LEMMA RowFields ==
  /\ NoRow.live = FALSE /\ NoRow.lockedAt = 0
  /\ \A row \in Row :
       /\ Exhausted(row).live = row.live /\ Exhausted(row).lockedAt = row.lockedAt
       /\ Exhausted(row).attempts = row.attempts /\ Exhausted(row).max = row.attempts
       /\ Unlocked(row).live = row.live /\ Unlocked(row).lockedAt = 0
       /\ Unlocked(row).attempts = row.attempts /\ Unlocked(row).max = row.max
BY DEF NoRow, Row, Exhausted, Unlocked

(* Settle, whatever the two ways on are, keeps rows and runs in this sense. *)
LEMMA SettleKeeps ==
  ASSUME EndInv, NEW r \in Runs, NEW state \in {"completed", "failed"},
         NEW row \in {"delete", "exhaust", "keep"},
         state = "completed" => row = "delete",
         NEW yes \in Run, NEW no \in Run,
         Settle(r, state, row, yes, no),
         runs[r].phase # "none", yes.phase # "none", no.phase # "none",
         yes.cont = runs[r].cont, no.cont = runs[r].cont,
         runs[r].cont = "no" => runs[r].phase # "done",
         yes.wrote = runs[r].wrote, no.wrote = runs[r].wrote
  PROVE  /\ \A j \in JobIds : RowKept(j)
         /\ \A x \in Runs : RunKept(x)
<1> DEFINE i == r[1]
<1>0. i \in JobIds /\ rows[i] \in Row /\ rows \in [JobIds -> Row] /\ runs \in [Runs -> Run]
  BY RunJob DEF EndInv, TypeOK
<1>1. \A next \in {yes, no}, w \in Writes :
        LET run == [next EXCEPT !.wrote = w]
        IN  run.phase = next.phase /\ run.cont = next.cont /\ run.wrote = w
  BY DEF Run
<1>2. CASE UNCHANGED database /\ runs' = [runs EXCEPT ![r] = no]
  <2>1. \A j \in JobIds : RowKept(j)
    BY <1>0, <1>2 DEF RowKept, database
  <2>2. \A x \in Runs : RunKept(x)
    BY <1>0, <1>2 DEF RunKept, Quiet
  <2>3. QED BY <2>1, <2>2
<1>3. CASE /\ Owned(r)
           /\ rows' = (CASE row = "delete"  -> [rows EXCEPT ![i] = NoRow]
                         [] row = "exhaust" -> [rows EXCEPT ![i] = Exhausted(@)]
                         [] OTHER           -> rows)
           /\ \E next \in {yes} \cup {f \in {no} : "lost" \in Faults} :
                runs' = [runs EXCEPT ![r] =
                  [next EXCEPT !.wrote = IF row = "exhaust" THEN "retained" ELSE state]]
  <2>1. \A j \in JobIds : RowKept(j)
    <3>1. \A j \in JobIds : \/ rows'[j] = NoRow
                            \/ rows'[j] = Exhausted(rows[j])
                            \/ rows'[j] = rows[j]
      BY <1>0, <1>3
    <3>2. \A j \in JobIds : rows[j] \in Row
      BY <1>0
    <3>3. QED BY <3>1, <3>2, RowFields DEF RowKept
  <2>2. row # "keep" => Spent(i)'
    BY <1>0, <1>3 DEF Spent, NoRow, Exhausted, Row
  <2>3. PICK next \in {yes, no} :
          runs' = [runs EXCEPT ![r] =
            [next EXCEPT !.wrote = IF row = "exhaust" THEN "retained" ELSE state]]
    BY <1>3
  <2>4. /\ runs'[r].phase = next.phase /\ runs'[r].cont = next.cont
        /\ runs'[r].wrote = IF row = "exhaust" THEN "retained" ELSE state
    BY <1>0, <1>1, <2>3 DEF Writes
  <2>5. RunKept(r)
    BY <1>3, <2>2, <2>4 DEF RunKept, Quiet, Owned, EndWrites
  <2>6. \A x \in Runs \ {r} : runs'[x] = runs[x]
    BY <1>0, <2>3
  <2>7. \A x \in Runs : RunKept(x)
    <3> TAKE x \in Runs
    <3>1. CASE x = r
      BY <2>5, <3>1
    <3>2. CASE x # r
      BY <2>6, <3>2 DEF RunKept
    <3>3. QED BY <3>1, <3>2
  <2>8. QED BY <2>1, <2>7
<1>4. QED BY <1>2, <1>3 DEF Settle

(* A step that writes one run and no row. *)
LEMMA OneRunKeeps ==
  ASSUME EndInv, NEW r \in Runs, NEW run \in Run, UNCHANGED database,
         runs' = [runs EXCEPT ![r] = run],
         runs[r].phase # "none", run.phase # "none",
         Quiet(r) => run.cont # "inflight" /\ (run.cont = "no" => run.phase = "done"),
         run.wrote = runs[r].wrote
  PROVE  /\ \A j \in JobIds : RowKept(j)
         /\ \A x \in Runs : RunKept(x)
<1>1. \A j \in JobIds : RowKept(j)
  BY DEF RowKept, database
<1>2. \A x \in Runs : RunKept(x)
  BY DEF RunKept, Quiet, EndInv, TypeOK
<1>3. QED BY <1>1, <1>2

LEMMA NotIdle ==
  ASSUME EndInv, NEW r \in Runs
  PROVE  /\ runs[r] \in Run
         /\ runs[r].cont = "inflight" => runs[r].phase # "none"
         /\ \A f \in Phases : /\ As(r, f) \in Run /\ As(r, f).phase = f
                             /\ As(r, f).cont = runs[r].cont
                             /\ As(r, f).wrote = runs[r].wrote
         /\ Over(r) \in Run /\ Over(r).phase = "done" /\ Over(r).cont = "no"
         /\ Over(r).wrote = runs[r].wrote
<1>1. runs[r] \in Run
  BY DEF EndInv, TypeOK
<1>2. runs[r].cont = "inflight" => runs[r].phase # "none"
  BY DEF EndInv, IdleRuns, NoRun
<1>3. \A f \in Phases : /\ As(r, f) \in Run /\ As(r, f).phase = f
                        /\ As(r, f).cont = runs[r].cont
                        /\ As(r, f).wrote = runs[r].wrote
  BY <1>1 DEF As, Run
<1>4. Over(r) \in Run /\ Over(r).phase = "done" /\ Over(r).cont = "no"
      /\ Over(r).wrote = runs[r].wrote
  BY <1>1, RunTypes DEF Over, NoRun, EndInv
<1>5. QED BY <1>1, <1>2, <1>3, <1>4

(* The other fields of a run of which one is written. *)
LEMMA FieldsKept ==
  /\ \A run \in Run, c \in {"inflight", "refused"} :
       LET x == [run EXCEPT !.cont = c]
       IN  x \in Run /\ x.phase = run.phase /\ x.wrote = run.wrote /\ x.cont = c
  /\ \A run \in Run, e \in HandlerResults :
       LET x == [run EXCEPT !.result = e]
       IN  x \in Run /\ x.phase = run.phase /\ x.wrote = run.wrote /\ x.cont = run.cont
BY DEF Run

LEMMA EndingKeeps ==
  ASSUME EndInv, NEW r \in Runs, NEW x \in HandlerResults, UNCHANGED database,
         runs[r].phase = "handler",
         runs' = [runs EXCEPT ![r].phase = "ending", ![r].result = x]
  PROVE  /\ \A j \in JobIds : RowKept(j)
         /\ \A y \in Runs : RunKept(y)
<1> DEFINE once == [runs EXCEPT ![r].phase = "ending"]
<1>1. runs[r] \in Run /\ runs \in [Runs -> Run]
  BY DEF EndInv, TypeOK
<1>2. /\ As(r, "ending") \in Run /\ As(r, "ending").phase = "ending"
      /\ As(r, "ending").cont = runs[r].cont /\ As(r, "ending").wrote = runs[r].wrote
  BY NotIdle DEF Phases
<1>3. once \in [Runs -> Run] /\ once[r] = As(r, "ending")
  BY <1>1, <1>2 DEF As
<1>4. \A y \in Runs \ {r} : once[y] = runs[y]
  BY <1>1
<1>5. runs' = [once EXCEPT ![r] = [once[r] EXCEPT !.result = x]]
  OBVIOUS
<1>6. HIDE DEF once
<1>7. DEFINE ended == [once[r] EXCEPT !.result = x]
<1>8. /\ runs'[r] \in Run /\ runs'[r].phase = "ending"
      /\ runs'[r].cont = runs[r].cont /\ runs'[r].wrote = runs[r].wrote
  <2>1. once[r] \in Run
    BY <1>3
  <2>2. ended \in Run /\ ended.phase = once[r].phase /\ ended.wrote = once[r].wrote
        /\ ended.cont = once[r].cont
    BY ONLY <2>1, FieldsKept, x \in HandlerResults
  <2>3. runs'[r] = ended
    BY <1>3, <1>5
  <2>4. HIDE DEF ended
  <2>5. QED BY <1>2, <1>3, <2>2, <2>3
<1>9. runs' = [runs EXCEPT ![r] = runs'[r]]
  BY <1>1, <1>3, <1>4, <1>5
<1>10. QED BY <1>8, <1>9, OneRunKeeps DEF Quiet

(* Every step of a run but the commit of its continuation. *)
LEMMA RunStepKeeps ==
  ASSUME EndInv, NEW r \in Runs,
         RunProgress(r) \/ CallContinue(r), ~ContinueJob(r)
  PROVE  /\ \A j \in JobIds : RowKept(j)
         /\ \A x \in Runs : RunKept(x)
         /\ UNCHANGED <<nextId, origin>>
<1> USE DEF Phases
<1>0. TypeOK /\ runs[r] \in Run /\ r[1] \in JobIds /\ rows[r[1]] \in Row
  BY RunJob DEF EndInv, TypeOK
<1>1. CASE HandlerEnds(r)
  <2>1. PICK x \in HandlerResults :
          runs' = [runs EXCEPT ![r].phase = "ending", ![r].result = x]
    BY <1>1, JobRunsAssumption DEF HandlerEnds, JobRunsAssumption
  <2>2. runs[r].phase = "handler" /\ UNCHANGED database
    BY <1>1 DEF HandlerEnds
  <2>3. UNCHANGED <<nextId, origin>>
    BY <2>2 DEF database
  <2>4. QED BY <2>1, <2>2, <2>3, EndingKeeps
<1>2. CASE TimesOut(r)
  BY <1>2, EndingKeeps DEF TimesOut, database, HandlerResults
<1>3. CASE CallContinue(r)
  <2> DEFINE run == [runs[r] EXCEPT !.cont = "inflight"]
  <2>1. run \in Run /\ run.phase = "handler" /\ run.wrote = runs[r].wrote
    <3>1. run \in Run /\ run.phase = runs[r].phase /\ run.wrote = runs[r].wrote
      BY ONLY <1>0, FieldsKept
    <3>2. HIDE DEF run
    <3>3. QED BY <1>3, <3>1 DEF CallContinue
  <2>2. runs' = [runs EXCEPT ![r] = run] /\ ~Quiet(r)
    BY <1>3 DEF CallContinue, Quiet
  <2>3. HIDE DEF run
  <2>4. QED BY <1>3, <2>1, <2>2, OneRunKeeps DEF CallContinue, database
<1>4. CASE ContinueRefused(r)
  <2> DEFINE run == [runs[r] EXCEPT !.cont = "refused"]
  <2>1. run \in Run /\ run.phase = runs[r].phase /\ run.wrote = runs[r].wrote
        /\ run.cont = "refused"
    BY ONLY <1>0, FieldsKept
  <2>2. runs' = [runs EXCEPT ![r] = run] /\ runs[r].phase # "none"
    BY <1>4, NotIdle DEF ContinueRefused
  <2>3. HIDE DEF run
  <2>4. QED BY <1>4, <2>1, <2>2, OneRunKeeps DEF ContinueRefused, database
<1>5. CASE \/ StartHandler(r) \/ EndContinued(r) \/ EndError(r) \/ FailRetried(r)
           \/ ~JobOutcomes /\ (EndOk(r) \/ FailLast(r) \/ FailDiscarded(r))
  <2>1. PICK f \in {"handler", "completing", "failing", "failed"} :
          runs' = [runs EXCEPT ![r] = As(r, f)]
    BY <1>5 DEF StartHandler, EndContinued, EndError, FailRetried, EndOk, FailLast,
                FailDiscarded, As
  <2>2. UNCHANGED database /\ runs[r].phase \in {"locked", "ending", "failing"}
    BY <1>5 DEF StartHandler, EndContinued, EndError, FailRetried, EndOk, FailLast,
                FailDiscarded, Decided
  <2>3. /\ As(r, f) \in Run /\ As(r, f).phase = f
        /\ As(r, f).cont = runs[r].cont /\ As(r, f).wrote = runs[r].wrote
    BY NotIdle
  <2>4. f # "none" /\ runs[r].phase \notin {"none", "done"}
    BY <2>1, <2>2
  <2>5. UNCHANGED <<nextId, origin>>
    BY <2>2 DEF database
  <2>6. Quiet(r) => runs[r].cont \notin {"inflight", "no"}
    BY <2>4 DEF Quiet
  <2>7. QED BY <2>1, <2>2, <2>3, <2>4, <2>5, <2>6, OneRunKeeps
<1>6. CASE JobOutcomes /\ EndOk(r)
  <2> DEFINE no == [As(r, "failing") EXCEPT !.result = "error"]
  <2>1. /\ no \in Run /\ no.phase = "failing" /\ no.cont = runs[r].cont
        /\ no.wrote = runs[r].wrote
    <3>1. /\ As(r, "failing") \in Run /\ As(r, "failing").phase = "failing"
          /\ As(r, "failing").cont = runs[r].cont /\ As(r, "failing").wrote = runs[r].wrote
      BY NotIdle
    <3>2. "error" \in HandlerResults
      BY DEF HandlerResults
    <3>3. /\ no \in Run /\ no.phase = As(r, "failing").phase
          /\ no.cont = As(r, "failing").cont /\ no.wrote = As(r, "failing").wrote
      BY ONLY <3>1, <3>2, FieldsKept
    <3>4. HIDE DEF no
    <3>5. QED BY <3>1, <3>3
  <2>2. Settle(r, "completed", "delete", As(r, "completing"), no)
    BY <1>6 DEF EndOk
  <2>3. runs[r].phase = "ending" /\ UNCHANGED <<nextId, origin>>
    BY <1>6 DEF EndOk, Decided, Settle, database
  <2>4. HIDE DEF no
  <2>5. QED BY <2>1, <2>2, <2>3, NotIdle, SettleKeeps
<1>7. CASE \/ JobOutcomes /\ (FailLast(r) \/ FailDiscarded(r))
           \/ FailRetained(r)
  <2>1. PICK f \in {"failed", "completing"}, row \in {"keep", "exhaust", "delete"} :
          Settle(r, "failed", row, As(r, f), As(r, f))
    BY <1>7 DEF FailLast, FailDiscarded, FailRetained
  <2>2. runs[r].phase = "failing" /\ UNCHANGED <<nextId, origin>>
    BY <1>7 DEF FailLast, FailDiscarded, FailRetained, Settle, database
  <2>3. QED BY <2>1, <2>2, NotIdle, SettleKeeps
<1>8. CASE GraphileCompletes(r) \/ GraphileFails(r)
  <2>1. /\ runs' = [runs EXCEPT ![r] = Over(r)]
        /\ \/ rows' = [rows EXCEPT ![r[1]] = NoRow]
           \/ rows' = [rows EXCEPT ![r[1]] = Unlocked(rows[r[1]])]
           \/ rows' = rows
        /\ UNCHANGED <<nextId, origin>>
        /\ runs[r].phase # "none"
    BY <1>0, <1>8 DEF GraphileCompletes, GraphileFails, TypeOK
  <2>2. \A j \in JobIds : RowKept(j)
    <3>1. \A j \in JobIds : rows'[j] = NoRow \/ rows'[j] = Unlocked(rows[j])
                            \/ rows'[j] = rows[j]
      BY <1>0, <2>1 DEF TypeOK
    <3>2. \A j \in JobIds : rows[j] \in Row
      BY <1>0 DEF TypeOK
    <3>3. QED BY <3>1, <3>2, RowFields DEF RowKept
  <2>3. \A x \in Runs : RunKept(x)
    BY <1>0, <2>1, NotIdle DEF RunKept, Quiet, TypeOK
  <2>4. QED BY <2>1, <2>2, <2>3
<1>9. QED
  BY <1>1, <1>2, <1>3, <1>4, <1>5, <1>6, <1>7, <1>8
  DEF RunProgress

LEMMA PoolStepKeeps ==
  ASSUME EndInv, NEW p \in Pools, PoolStep(p)
  PROVE  /\ \A j \in JobIds : RowKept(j)
         /\ \A x \in Runs : RunKept(x)
         /\ UNCHANGED <<nextId, origin>>
<1>1. CASE Beat(p) \/ FirstBeatFails(p) \/ GoesStale(p)
  BY <1>1 DEF Beat, FirstBeatFails, GoesStale, RowKept, RunKept, database
<1>2. CASE Sweep(p)
  <2>1. \A j \in JobIds : rows'[j] = Unlocked(rows[j]) \/ rows'[j] = rows[j]
    BY <1>2 DEF Sweep, ReleasedRows
  <2>2. \A j \in JobIds : rows[j] \in Row
    BY DEF EndInv, TypeOK
  <2>3. \A j \in JobIds : RowKept(j)
    BY <2>1, <2>2, RowFields DEF RowKept
  <2>4. QED BY <1>2, <2>3 DEF Sweep, RunKept
<1>3. CASE Crash(p)
  <2>1. \A x \in Runs : runs'[x] = runs[x] \/ (runs'[x] = Over(x) /\ runs[x].pool = p)
    BY <1>3 DEF Crash
  <2>2. \A x \in Runs : runs[x].pool = p => runs[x].phase # "none"
    BY JobRunsAssumption DEF EndInv, IdleRuns, NoRun, JobRunsAssumption
  <2>3. \A x \in Runs : RunKept(x)
    <3> TAKE x \in Runs
    <3>1. CASE runs'[x] = runs[x]
      BY <3>1 DEF RunKept
    <3>2. CASE runs'[x] = Over(x) /\ runs[x].phase # "none"
      BY <3>2, NotIdle DEF RunKept, Quiet
    <3>3. QED BY <2>1, <2>2, <3>1, <3>2
  <2>4. QED BY <1>3, <2>3 DEF Crash, RowKept, database
<1>4. QED BY <1>1, <1>2, <1>3 DEF PoolStep

LEMMA FetchKeepsEnd ==
  ASSUME EndInv, TypeOK', NEW p \in Pools, NEW j \in JobIds, Fetch(p, j)
  PROVE  /\ EndInv'
         /\ \A r \in Runs : Ended(r[1]) /\ runs[r].phase = "none" => runs'[r].phase = "none"
<1> DEFINE n == rows[j].attempts + 1
           s == <<j, n>>
<1>1. /\ rows \in [JobIds -> Row] /\ runs \in [Runs -> Run] /\ rows[j] \in Row
      /\ rows[j].live /\ ~Spent(j) /\ n \in 1..MaxAttempts
  <2>1. /\ rows \in [JobIds -> Row] /\ runs \in [Runs -> Run] /\ rows[j] \in Row
    BY DEF EndInv, TypeOK
  <2>2. rows[j].live /\ rows[j].attempts < rows[j].max
    BY DEF Fetch
  <2>3. rows[j].attempts \in 0..MaxAttempts /\ rows[j].max \in 0..MaxAttempts
    BY <2>1 DEF Row
  <2>4. QED BY <2>1, <2>2, <2>3, JobRunsAssumption DEF Spent, JobRunsAssumption
<1>2. s \in Runs /\ \A r \in Runs : r[1] # j => r # s
  BY <1>1, RunOf
<1>3. ~Ended(j) /\ ~Continued(j)
  BY <1>1 DEF EndInv, EndedIsSpent, ContinuedIsSpent
<1>4. \A i \in JobIds \ {j} : rows'[i] = rows[i]
  BY <1>1 DEF Fetch
<1>5. /\ rows'[j].live /\ rows'[j].attempts = n /\ rows'[j].lockedAt = n
  BY <1>1 DEF Fetch, Fetched, Row
<1>6. \A r \in Runs \ {s} : runs'[r] = runs[r]
  BY <1>1 DEF Fetch
<1>7. runs'[s].phase = "locked" /\ runs'[s].wrote = "nothing"
  BY <1>1, <1>2 DEF Fetch, NoRun
<1>8. \A i \in JobIds : Ended(i)' => Ended(i) /\ i # j
  <2> TAKE i \in JobIds
  <2> HAVE Ended(i)'
  <2>1. PICK m \in 1..MaxAttempts : runs'[<<i, m>>].wrote \in EndWrites
    BY DEF Ended, EndWrites
  <2>2. <<i, m>> # s
    BY <1>7, <2>1 DEF EndWrites
  <2>3. runs'[<<i, m>>] = runs[<<i, m>>]
    BY <1>6, <2>2, RunOf
  <2>4. Ended(i)
    BY <2>1, <2>3 DEF Ended, EndWrites
  <2>5. QED BY <1>3, <2>4
<1>9. UNCHANGED <<nextId, origin>>
  BY DEF Fetch
<1>10. IdleRuns'
  BY <1>6, <1>7 DEF EndInv, IdleRuns
<1>11. FreshIds'
  BY <1>1, <1>4, <1>8, <1>9 DEF EndInv, FreshIds
<1>12. LatestLock'
  BY <1>4, <1>5 DEF EndInv, LatestLock
<1>13. EndedIsSpent'
  BY <1>4, <1>8 DEF EndInv, EndedIsSpent, Spent
<1>14. ContinuedIsSpent'
  <2> SUFFICES ASSUME NEW i \in JobIds, Continued(i)'
               PROVE  /\ Spent(i)'
                      /\ \A r \in Runs :
                           rows'[i].live /\ r = <<i, rows'[i].attempts>> => Quiet(r)'
    BY DEF ContinuedIsSpent
  <2>1. Continued(i) /\ i # j
    BY <1>3, <1>9 DEF Continued
  <2>2. rows'[i] = rows[i]
    BY <1>4, <2>1
  <2>3. Spent(i) /\ \A r \in Runs : rows[i].live /\ r = <<i, rows[i].attempts>> => Quiet(r)
    BY <2>1 DEF EndInv, ContinuedIsSpent
  <2>4. ASSUME NEW r \in Runs, rows'[i].live, r = <<i, rows'[i].attempts>>
        PROVE  Quiet(r)'
    <3>1. Quiet(r)
      BY <2>2, <2>3, <2>4
    <3>2. runs'[r] = runs[r]
      BY <1>6, <2>1, <2>4
    <3>3. QED BY <3>1, <3>2 DEF Quiet
  <2>5. Spent(i)'
    BY <2>2, <2>3 DEF Spent
  <2>6. QED BY <2>4, <2>5
<1>15. OneContinuation'
  BY <1>9 DEF EndInv, OneContinuation
<1>16. ASSUME NEW r \in Runs, Ended(r[1]), runs[r].phase = "none"
       PROVE  runs'[r].phase = "none"
  BY <1>3, <1>6, <1>16
<1>17. QED
  BY <1>10, <1>11, <1>12, <1>13, <1>14, <1>15, <1>16 DEF EndInv

(* The commit of a continuation: the only run that owns the row gives up   *)
(* the row, or exhausts it and is quiet.                                   *)
LEMMA ContinueKeepsEnd ==
  ASSUME EndInv, TypeOK', NEW r \in Runs, ContinueJob(r)
  PROVE  /\ EndInv'
         /\ \A x \in Runs : runs[x].phase = "none" => runs'[x].phase = "none"
<1> DEFINE j == r[1]
<1>1. /\ rows \in [JobIds -> Row] /\ runs \in [Runs -> Run] /\ runs[r] \in Run
      /\ j \in JobIds /\ r[2] \in 1..MaxAttempts /\ rows[j] \in Row
      /\ nextId \in JobIds /\ nextId' = nextId + 1 /\ nextId \in Nat
  BY RunJob DEF EndInv, TypeOK, ContinueJob, JobIds
<1>2. /\ rows[j].live /\ rows[j].attempts = r[2] /\ rows[j].lockedAt = r[2]
      /\ r = <<j, rows[j].attempts>>
  <2>1. rows[j].live /\ rows[j].lockedAt = r[2] /\ r[2] # 0
    BY <1>1 DEF ContinueJob, Owned
  <2>2. rows[j].lockedAt \in {0, rows[j].attempts}
    BY <1>1 DEF EndInv, LatestLock
  <2>3. QED BY <2>1, <2>2, RunPair
<1>3. runs[r].cont = "inflight" /\ runs[r].phase # "none"
  BY NotIdle DEF ContinueJob
<1>4. ~Continued(j)
  BY <1>1, <1>2, <1>3 DEF EndInv, ContinuedIsSpent, Quiet
<1>5. j < nextId /\ j # nextId
  BY <1>1, <1>2 DEF EndInv, FreshIds, JobIds
<1>6. /\ \A i \in JobIds \ {j, nextId} : rows'[i] = rows[i]
      /\ rows'[j] = IF JobOutcomes THEN NoRow ELSE Exhausted(rows[j])
      /\ \E due \in BOOLEAN : rows'[nextId] = NewRow(rows[j].lane, rows[j].max, due)
  BY <1>1, <1>5 DEF ContinueJob
<1>7. /\ rows'[nextId].lockedAt = 0 /\ Spent(j)' /\ (rows'[j].live =>
            rows'[j].attempts = rows[j].attempts)
      /\ rows'[j].lockedAt \in {0, rows'[j].attempts}
  <2>1. rows'[nextId].lockedAt = 0
    BY <1>6 DEF NewRow, NoRow
  <2>2. /\ rows'[j].live => /\ rows'[j].attempts = rows[j].attempts
                            /\ rows'[j].max = rows[j].attempts
        /\ rows'[j].lockedAt = 0 \/ (rows'[j].lockedAt = rows[j].lockedAt
                                     /\ rows'[j].attempts = rows[j].attempts)
    BY <1>1, <1>6, RowFields
  <2>3. rows[j].attempts >= rows[j].attempts
    BY <1>1, <1>2
  <2>4. QED BY <1>2, <2>1, <2>2, <2>3 DEF Spent
<1>8. /\ \A x \in Runs \ {r} : runs'[x] = runs[x]
      /\ runs'[r].phase = runs[r].phase /\ runs'[r].cont \in {"committed", "refused"}
  BY <1>1 DEF ContinueJob, Run
<1>9. origin' = [origin EXCEPT ![nextId] = j] /\ origin \in [JobIds -> 0..MaxJobs]
  BY DEF ContinueJob, EndInv, TypeOK
<1>10. \A i \in JobIds : Ended(i)' => Ended(i) \/ i = j
  <2> TAKE i \in JobIds
  <2> HAVE Ended(i)'
  <2>1. PICK m \in 1..MaxAttempts : runs'[<<i, m>>].wrote \in EndWrites
    BY DEF Ended, EndWrites
  <2>2. CASE <<i, m>> = r
    BY <2>2
  <2>3. CASE <<i, m>> # r
    BY <1>8, <2>1, <2>3, RunOf DEF Ended, EndWrites
  <2>4. QED BY <2>2, <2>3
<1>11. \A i \in JobIds : Continued(i)' => Continued(i) \/ i = j
  BY <1>1, <1>9 DEF Continued
<1>12. IdleRuns'
  BY <1>3, <1>8 DEF EndInv, IdleRuns
<1>13. FreshIds'
  <2> SUFFICES ASSUME NEW i \in JobIds
               PROVE  /\ origin'[i] < nextId'
                      /\ i >= nextId' => rows'[i].live = FALSE /\ origin'[i] = 0 /\ ~Ended(i)'
    BY DEF FreshIds
  <2>1. origin[i] < nextId /\ origin[i] \in Nat /\ i \in Nat /\ j \in Nat
    BY <1>1, <1>9 DEF EndInv, FreshIds, JobIds
  <2>2. origin'[i] = IF i = nextId THEN j ELSE origin[i]
    BY <1>9
  <2>3. origin'[i] < nextId'
    BY <1>1, <1>5, <2>1, <2>2
  <2>4. ASSUME i >= nextId'
        PROVE  rows'[i].live = FALSE /\ origin'[i] = 0 /\ ~Ended(i)'
    <3>1. i >= nextId /\ i # nextId /\ i # j
      BY <1>1, <1>5, <2>1, <2>4
    <3>2. rows[i].live = FALSE /\ origin[i] = 0 /\ ~Ended(i)
      BY <3>1 DEF EndInv, FreshIds
    <3>3. QED BY <1>6, <1>10, <2>2, <3>1, <3>2
  <2>5. QED BY <2>3, <2>4
<1>14. LatestLock'
  <2> SUFFICES ASSUME NEW i \in JobIds PROVE rows'[i].lockedAt \in {0, rows'[i].attempts}
    BY DEF LatestLock
  <2>1. CASE i \in {j, nextId}
    BY <1>7, <2>1
  <2>2. CASE i \notin {j, nextId}
    BY <1>6, <2>2 DEF EndInv, LatestLock
  <2>3. QED BY <2>1, <2>2
<1>15. ~Ended(nextId) /\ ~Continued(nextId)
  <2>1. \A k \in JobIds : origin[k] # nextId
    BY <1>1, <1>9 DEF EndInv, FreshIds
  <2>2. ~Ended(nextId)
    BY <1>1 DEF EndInv, FreshIds
  <2>3. QED BY <2>1, <2>2 DEF Continued
<1>16. \A i \in JobIds : i # nextId /\ (Spent(i) \/ i = j) => Spent(i)'
  BY <1>6, <1>7 DEF Spent
<1>17. EndedIsSpent'
  BY <1>5, <1>10, <1>15, <1>16 DEF EndInv, EndedIsSpent
<1>18. ContinuedIsSpent'
  <2> SUFFICES ASSUME NEW i \in JobIds, Continued(i)'
               PROVE  /\ Spent(i)'
                      /\ \A x \in Runs :
                           rows'[i].live /\ x = <<i, rows'[i].attempts>> => Quiet(x)'
    BY DEF ContinuedIsSpent
  <2>1. i # nextId /\ (Continued(i) \/ i = j)
    BY <1>5, <1>11, <1>15
  <2>2. Spent(i)'
    BY <1>16, <2>1 DEF EndInv, ContinuedIsSpent
  <2>3. ASSUME NEW x \in Runs, rows'[i].live, x = <<i, rows'[i].attempts>>
        PROVE  Quiet(x)'
    <3>1. CASE i = j
      <4>1. x = r
        BY <1>2, <1>7, <2>3, <3>1
      <4>2. QED BY <1>8, <4>1 DEF Quiet
    <3>2. CASE i # j
      <4>1. rows'[i] = rows[i] /\ runs'[x] = runs[x]
        BY <1>6, <1>8, <2>1, <2>3, <3>2
      <4>2. Quiet(x)
        BY <2>1, <2>3, <3>2, <4>1 DEF EndInv, ContinuedIsSpent
      <4>3. QED BY <4>1, <4>2 DEF Quiet
    <3>3. QED BY <3>1, <3>2
  <2>4. QED BY <2>2, <2>3
<1>19. OneContinuation'
  BY <1>1, <1>4, <1>9 DEF EndInv, OneContinuation, Continued
<1>20. \A x \in Runs : runs[x].phase = "none" => runs'[x].phase = "none"
  BY <1>8
<1>21. QED
  BY <1>12, <1>13, <1>14, <1>17, <1>18, <1>19, <1>20 DEF EndInv

LEMMA InitEnd == Init => EndInv
<1> SUFFICES ASSUME Init PROVE EndInv
  OBVIOUS
<1>1. TypeOK
  BY InitTypes, JobRunsAssumption
<1>2. \A j \in JobIds : ~Ended(j) /\ ~Continued(j)
  <2>1. \A j \in JobIds, n \in 1..MaxAttempts : runs[<<j, n>>].wrote = "nothing"
    BY RunOf DEF Init, NoRun
  <2>2. \A j \in JobIds : 0 # j
    BY DEF JobIds
  <2>3. QED BY <2>1, <2>2 DEF Init, Ended, Continued
<1>3. IdleRuns /\ OneContinuation
  BY DEF Init, IdleRuns, OneContinuation
<1>4. FreshIds
  <2>1. Len(JobLane) \in Nat /\ nextId = Len(JobLane) + 1
    BY JobRunsAssumption DEF Init, JobRunsAssumption
  <2>2. \A j \in JobIds : origin[j] = 0 /\ j \in Nat
    BY DEF Init, JobIds
  <2>3. \A j \in JobIds : j > Len(JobLane) => rows[j] = NoRow
    <3>1. \A j \in JobIds : j > Len(JobLane) => ~(j <= Len(JobLane))
      BY <2>1 DEF JobIds
    <3>2. QED BY <3>1, Zenon DEF Init
  <2>4. QED BY <1>2, <2>1, <2>2, <2>3 DEF FreshIds, NoRow
<1>5. LatestLock
  BY DEF Init, LatestLock, NewRow, NoRow, JobIds
<1>6. QED
  BY <1>1, <1>2, <1>3, <1>4, <1>5 DEF EndInv, EndedIsSpent, ContinuedIsSpent

LEMMA NextEnd ==
  ASSUME EndInv, [Next]_vars
  PROVE  /\ EndInv'
         /\ \A r \in Runs : Ended(r[1]) /\ runs[r].phase = "none" => runs'[r].phase = "none"
<1> USE JobRunsAssumption
<1>1. TypeOK'
  BY NextTypes DEF EndInv
<1>2. ASSUME \A j \in JobIds : RowKept(j), \A r \in Runs : RunKept(r),
             UNCHANGED <<nextId, origin>>
      PROVE  /\ EndInv'
             /\ \A r \in Runs : runs[r].phase = "none" => runs'[r].phase = "none"
  <2>1. EndInv'
    BY <1>1, <1>2, KeptStep
  <2>2. QED BY <1>2, <2>1 DEF RunKept
<1>3. CASE \E r \in Runs : RunProgress(r) \/ CallContinue(r)
  <2>1. PICK r \in Runs : RunProgress(r) \/ CallContinue(r)
    BY <1>3
  <2>2. CASE ContinueJob(r)
    BY <1>1, <2>2, ContinueKeepsEnd
  <2>3. CASE ~ContinueJob(r)
    BY <1>2, <2>1, <2>3, RunStepKeeps
  <2>4. QED BY <2>2, <2>3
<1>4. CASE \E p \in Pools : PoolStep(p)
  BY <1>2, <1>4, PoolStepKeeps
<1>5. CASE \E p \in Pools, j \in JobIds : Fetch(p, j)
  BY <1>1, <1>5, FetchKeepsEnd
<1>6. CASE \E j \in JobIds : BecomesDue(j)
  <2>1. PICK i \in JobIds : BecomesDue(i)
    BY <1>6
  <2>2. \A row \in Row : LET due == [row EXCEPT !.due = TRUE]
                        IN  /\ due.live = row.live /\ due.attempts = row.attempts
                            /\ due.max = row.max /\ due.lockedAt = row.lockedAt
    BY DEF Row
  <2>3. rows \in [JobIds -> Row]
    BY DEF EndInv, TypeOK
  <2>4. \A j \in JobIds : /\ rows'[j].live = rows[j].live
                          /\ rows'[j].attempts = rows[j].attempts
                          /\ rows'[j].max = rows[j].max
                          /\ rows'[j].lockedAt = rows[j].lockedAt
    BY <2>1, <2>2, <2>3 DEF BecomesDue
  <2>5. \A j \in JobIds : RowKept(j)
    BY <2>4 DEF RowKept
  <2>6. (\A r \in Runs : RunKept(r)) /\ UNCHANGED <<nextId, origin>>
    BY <2>1 DEF BecomesDue, RunKept
  <2>7. QED BY <1>2, <2>5, <2>6
<1>7. CASE UNCHANGED vars
  BY <1>2, <1>7 DEF vars, RowKept, RunKept
<1>8. QED BY <1>3, <1>4, <1>5, <1>6, <1>7 DEF Next

(* Whatever crashes, goes stale or loses a reply, and however many runs a  *)
(* job has had, at most one of them commits a continuation: continueJob's  *)
(* fence and the exhausted attempts hold for any number of pools and jobs. *)
THEOREM ContinuedOnce == Spec => []OneContinuation
<1>1. Init => EndInv
  BY InitEnd
<1>2. EndInv /\ [Next]_vars => EndInv'
  BY NextEnd
<1>3. EndInv => OneContinuation
  BY DEF EndInv
<1>4. QED BY <1>1, <1>2, <1>3, PTL DEF Spec

(* A job whose end was committed - continued, completed with a record, or  *)
(* retained after a NonRetriableError - is never run again.                *)
THEOREM EndedIsFinal == Spec => NoRunAfterEnd
<1>1. Init => EndInv
  BY InitEnd
<1>2. EndInv /\ [Next]_vars => EndInv'
  BY NextEnd
<1>3. EndInv /\ [Next]_vars
        => [\A r \in Runs : Ended(r[1]) /\ runs[r].phase = "none"
                              => runs'[r].phase = "none"]_vars
  BY NextEnd
<1>4. QED BY <1>1, <1>2, <1>3, PTL DEF Spec, NoRunAfterEnd

---------------------------------------------------------------------------
=============================================================================
