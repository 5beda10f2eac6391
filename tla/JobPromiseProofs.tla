-------------------------- MODULE JobPromiseProofs --------------------------
(***************************************************************************)
(* JobRuns implements Jobs, for every value of its constants: each step of *)
(* pools, runs and sweeps starts an attempt of an open job, continues one, *)
(* ends some that were begun, or changes nothing that Jobs speaks of.      *)
(***************************************************************************)
EXTENDS JobPromise, JobOwnershipProofs

---------------------------------------------------------------------------
(* What relates the attempts of a job to its row and to what they wrote.   *)

(* A run writes no end before it has ended, but that of its continuation.  *)
Shape(run) ==
  /\ run.phase \in Early /\ run.cont \in {"no", "inflight"} => run.wrote = "nothing"
  /\ run.wrote = "retained" => run.phase \in {"failed", "done"}
  /\ run.wrote = "completed" => JobOutcomes

Shapes == \A r \in Runs : Shape(runs[r])

RunsBelow == \A r \in Runs : runs[r].phase # "none" => r[1] < nextId

(* The attempts that a row counts are the runs that there have been.       *)
Tried ==
  \A j \in JobIds : rows[j].live =>
    /\ rows[j].max >= 1
    /\ \A n \in 1..MaxAttempts : runs[<<j, n>>].phase # "none" <=> n <= rows[j].attempts

(* With recorded outcomes the row goes with the end; otherwise the run     *)
(* that wrote the end was the last.                                        *)
WroteLast ==
  \A r \in Runs : runs[r].wrote \in EndWrites /\ rows[r[1]].live =>
    /\ r[2] = rows[r[1]].attempts
    /\ JobOutcomes => runs[r].wrote = "retained"

PromiseInv == OwnInv /\ Shapes /\ RunsBelow /\ Tried /\ WroteLast

---------------------------------------------------------------------------
(* What a step that neither starts nor continues does to a row and a run.  *)
RowEnds(j) ==
  /\ rows'[j].live => /\ rows[j].live /\ rows'[j].max >= 1
                      /\ rows'[j].attempts = rows[j].attempts
  /\ rows[j].live /\ ~rows'[j].live => StartedOf(j) # {}
  /\ rows[j].lockedBy = None /\ rows[j].attempts >= rows[j].max /\ rows'[j].live
       => rows'[j].lockedBy = None /\ rows'[j].max = rows[j].max

RunEnds(x) ==
  /\ runs'[x].phase = "none" <=> runs[x].phase = "none"
  /\ Shape(runs'[x])
  /\ runs[x].wrote \in EndWrites => runs'[x].wrote \in EndWrites
  /\ runs'[x].wrote \in EndWrites =>
       \/ runs'[x].wrote = runs[x].wrote
       \/ /\ x[2] = rows[x[1]].attempts
          /\ JobOutcomes /\ runs'[x].wrote # "retained" => ~rows'[x[1]].live

(* The jobs that a step ends. *)
NewlyEnded == {j \in JobIds : StateOf(j) # StateOf(j)'}

LEMMA EndsKeep ==
  ASSUME PromiseInv, OwnInv', UNCHANGED nextId,
         \A j \in JobIds : RowEnds(j), \A x \in Runs : RunEnds(x)
  PROVE  PromiseInv'
<1>1. Shapes'
  BY DEF Shapes, RunEnds
<1>2. RunsBelow'
  BY DEF PromiseInv, RunsBelow, RunEnds
<1>3. Tried'
  <2> SUFFICES ASSUME NEW j \in JobIds, rows'[j].live
               PROVE  /\ rows'[j].max >= 1
                      /\ \A n \in 1..MaxAttempts :
                           runs'[<<j, n>>].phase # "none" <=> n <= rows'[j].attempts
    BY DEF Tried
  <2>1. rows[j].live /\ rows'[j].max >= 1 /\ rows'[j].attempts = rows[j].attempts
    BY DEF RowEnds
  <2>2. \A n \in 1..MaxAttempts : runs'[<<j, n>>].phase = "none" <=> runs[<<j, n>>].phase = "none"
    BY RunOf DEF RunEnds
  <2>3. QED BY <2>1, <2>2 DEF PromiseInv, Tried
<1>4. WroteLast'
  BY RunJob DEF PromiseInv, WroteLast, RowEnds, RunEnds
<1>5. QED BY <1>1, <1>2, <1>3, <1>4 DEF PromiseInv

LEMMA EndsKeepPromise ==
  ASSUME PromiseInv, PromiseInv', UNCHANGED nextId,
         \A j \in JobIds : RowEnds(j), \A x \in Runs : RunEnds(x)
  PROVE  Promise!End(NewlyEnded)
<1>0. nextId \in Nat
  BY DEF PromiseInv, OwnInv, EndInv, TypeOK
<1>1. \A j \in JobIds : StartedOf(j)' = StartedOf(j)
  BY RunOf DEF StartedOf, RunEnds
<1>2. \A j \in JobIds : HasEnded(j) => HasEnded(j)'
  <2> SUFFICES ASSUME NEW j \in JobIds, HasEnded(j), rows'[j].live PROVE HasEnded(j)'
    BY DEF HasEnded
  <2>1. CASE Ended(j)
    <3>1. PICK n \in 1..MaxAttempts : runs[<<j, n>>].wrote \in EndWrites
      BY <2>1 DEF Ended, EndWrites
    <3>2. runs'[<<j, n>>].wrote \in EndWrites
      BY <3>1, RunOf DEF RunEnds
    <3>3. QED BY <3>2 DEF HasEnded, Ended, EndWrites
  <2>2. CASE ~Ended(j)
    BY <2>2 DEF HasEnded, RowEnds
  <2>3. QED BY <2>1, <2>2
<1>3. ASSUME NEW j \in JobIds, HasEnded(j)', ~HasEnded(j)
      PROVE  StartedOf(j) # {}
  <2>1. rows[j].live
    BY <1>3 DEF HasEnded
  <2>2. CASE Ended(j)'
    <3>1. PICK n \in 1..MaxAttempts : runs'[<<j, n>>].wrote \in EndWrites
      BY <2>2 DEF Ended, EndWrites
    <3>2. <<j, n>> \in Runs
      BY RunOf
    <3>3. runs'[<<j, n>>].phase # "none"
      BY <3>1, <3>2 DEF PromiseInv, OwnInv, EndInv, IdleRuns, NoRun, EndWrites
    <3>4. n \in StartedOf(j)'
      BY <3>3 DEF StartedOf
    <3>5. QED BY <1>1, <3>4
  <2>3. CASE ~rows'[j].live
    BY <2>1, <2>3 DEF RowEnds
  <2>4. CASE rows'[j].live /\ rows'[j].lockedBy = None /\ rows'[j].attempts >= rows'[j].max
    <3>1. rows'[j] \in Row /\ rows'[j].max >= 1
      BY <2>4 DEF PromiseInv, OwnInv, EndInv, TypeOK, Tried
    <3>2. rows'[j].attempts >= 1 /\ 1 \in 1..MaxAttempts
      BY <2>4, <3>1, JobRunsAssumption DEF Row, JobRunsAssumption
    <3>3. runs'[<<j, 1>>].phase # "none"
      BY <2>4, <3>2 DEF PromiseInv, Tried
    <3>4. 1 \in StartedOf(j)'
      BY <3>2, <3>3 DEF StartedOf
    <3>5. QED BY <1>1, <3>4
  <2>5. QED BY <1>3, <2>2, <2>3, <2>4 DEF HasEnded
<1>4. \A j \in JobIds : StateOf(j)' = IF j \in NewlyEnded THEN "ended" ELSE StateOf(j)
  BY <1>2 DEF NewlyEnded, StateOf
<1>5. \A j \in NewlyEnded : StateOf(j) = "open" /\ StartedOf(j) # {}
  BY <1>2, <1>3 DEF NewlyEnded, StateOf
<1>6. QED
  BY <1>1, <1>4, <1>5 DEF Promise!End, Promise!Begun, NewlyEnded

---------------------------------------------------------------------------
(* The kinds of steps that end jobs, or nothing. *)

(* What a run is that a step leaves alone. *)
LEMMA SameRun ==
  ASSUME PromiseInv
  PROVE  \A x \in Runs : runs'[x] = runs[x] => RunEnds(x)
BY DEF PromiseInv, Shapes, RunEnds

LEMMA SameRow ==
  ASSUME PromiseInv
  PROVE  \A j \in JobIds : rows'[j] = rows[j] => RowEnds(j)
BY DEF PromiseInv, Tried, RowEnds

LEMMA StartedRun ==
  \A r \in Runs : runs[r].phase # "none" => StartedOf(r[1]) # {}
<1> TAKE r \in Runs
<1> HAVE runs[r].phase # "none"
<1>1. r = <<r[1], r[2]>> /\ r[2] \in 1..MaxAttempts
  BY RunPair, RunJob
<1>2. runs[<<r[1], r[2]>>].phase # "none"
  BY <1>1
<1>3. r[2] \in StartedOf(r[1])
  BY <1>1, <1>2 DEF StartedOf
<1>4. QED BY <1>3

LEMMA WroteOnlyRunEnds ==
  ASSUME PromiseInv, NEW r \in Runs, NEW run, Moved(r, run), WroteOnlyRun(r, run)
  PROVE  (\A j \in JobIds : RowEnds(j)) /\ (\A x \in Runs : RunEnds(x)) /\ UNCHANGED nextId
<1>1. TypeOK /\ UNCHANGED <<rows, nextId>>
  BY DEF PromiseInv, OwnInv, EndInv, WroteOnlyRun, database
<1>2. runs'[r] = run /\ \A x \in Runs \ {r} : runs'[x] = runs[x]
  BY <1>1, MovedStays DEF PromiseInv, OwnInv
<1>3. RunEnds(r)
  <2>1. Shape(run)
    BY DEF PromiseInv, Shapes, Shape, Moved, WroteOnlyRun, Working
  <2>2. QED BY <1>2, <2>1 DEF RunEnds, Moved, WroteOnlyRun, Working
<1>4. QED BY <1>1, <1>2, <1>3, SameRow, SameRun

LEMMA WroteRowEnds ==
  ASSUME PromiseInv, NEW r \in Runs, NEW run, Moved(r, run), WroteRow(r, run)
  PROVE  (\A j \in JobIds : RowEnds(j)) /\ (\A x \in Runs : RunEnds(x)) /\ UNCHANGED nextId
<1> DEFINE j == r[1]
<1>1. /\ TypeOK /\ PoolInv /\ rows \in [JobIds -> Row] /\ UNCHANGED nextId
      /\ Owned(r) /\ Working(r)
  BY DEF PromiseInv, OwnInv, EndInv, TypeOK, Moved, WroteRow
<1>2. /\ j \in JobIds /\ rows[j].live /\ rows[j].lockedBy # None /\ rows[j] \in Row
      /\ r[2] \in 1..MaxAttempts
  BY <1>1, OwnerLocks, RunJob DEF Locked
<1>3. rows[j].attempts = r[2] /\ rows[j].attempts >= 1
  <2>1. rows[j].lockedAt = r[2] /\ rows[j].lockedAt \in {0, rows[j].attempts}
    BY <1>1, <1>2 DEF Owned, PromiseInv, OwnInv, EndInv, LatestLock
  <2>2. QED BY <1>2, <2>1, JobRunsAssumption DEF JobRunsAssumption
<1>4. runs'[r] = run /\ \A x \in Runs \ {r} : runs'[x] = runs[x]
  BY <1>1, MovedStays
<1>5. /\ \A i \in JobIds \ {j} : rows'[i] = rows[i]
      /\ Deleted(r, run) => ~rows'[j].live
      /\ Retained(r, run) => rows'[j] \in {rows[j], Exhausted(rows[j])}
  BY <1>1, <1>2, RowLocks DEF WroteRow, Deleted, Retained
<1>6. runs[r].phase # "none" /\ run.phase # "none"
  BY DEF Moved, Working
<1>7. RowEnds(j)
  <2>1. CASE Deleted(r, run)
    BY <1>5, <1>6, <2>1, StartedRun DEF RowEnds
  <2>2. CASE Retained(r, run)
    <3>1. /\ rows'[j].live = rows[j].live /\ rows'[j].attempts = rows[j].attempts
          /\ rows'[j].max \in {rows[j].max, rows[j].attempts}
      <4>1. rows[j] \in Row /\ rows'[j] \in {rows[j], Exhausted(rows[j])}
        BY <1>2, <1>5, <2>2
      <4>2. /\ Exhausted(rows[j]).live = rows[j].live
            /\ Exhausted(rows[j]).attempts = rows[j].attempts
            /\ Exhausted(rows[j]).max = rows[j].attempts
        BY ONLY <4>1, RowFields
      <4>3. CASE rows'[j] = rows[j]
        BY <4>3
      <4>4. CASE rows'[j] = Exhausted(rows[j])
        BY <4>2, <4>4
      <4>5. QED BY <4>1, <4>3, <4>4
    <3>2. rows[j].max >= 1
      BY <1>2 DEF PromiseInv, Tried
    <3>3. QED BY <1>2, <1>3, <3>1, <3>2 DEF RowEnds
  <2>3. QED BY <2>1, <2>2 DEF WroteRow
<1>8. RunEnds(r)
  <2>1. run.wrote = "completed" => JobOutcomes
    BY DEF WroteRow, Deleted, Retained
  <2>2. run.wrote = "retained" => run.phase = "failed"
    BY DEF WroteRow, Deleted, Retained
  <2>3. Shape(run)
    BY <2>1, <2>2 DEF Shape, WroteRow
  <2>4. runs[r].wrote \in EndWrites => runs[r].wrote = "continued" /\ ~JobOutcomes
    BY <1>2 DEF PromiseInv, WroteLast, Shapes, Shape, Moved, Working, EndWrites
  <2>5. ~JobOutcomes => run.wrote = "retained"
    BY DEF WroteRow, Deleted, Retained
  <2>6. run.wrote \in EndWrites => run.wrote = "retained" \/ ~rows'[j].live
    BY <1>5 DEF WroteRow, Retained, EndWrites
  <2>7. QED
    BY <1>3, <1>4, <1>6, <2>3, <2>4, <2>5, <2>6 DEF RunEnds, EndWrites
<1>9. QED BY <1>1, <1>4, <1>5, <1>7, <1>8, SameRow, SameRun

LEMMA GraphileEnds ==
  ASSUME PromiseInv, NEW r \in Runs, GraphileCompletes(r) \/ GraphileFails(r)
  PROVE  (\A j \in JobIds : RowEnds(j)) /\ (\A x \in Runs : RunEnds(x)) /\ UNCHANGED nextId
<1> DEFINE j == r[1]
<1>1. /\ TypeOK /\ PoolInv /\ j \in JobIds /\ rows \in [JobIds -> Row] /\ rows[j] \in Row
      /\ UNCHANGED nextId /\ runs' = [runs EXCEPT ![r] = Over(r)] /\ Working(r)
      /\ runs[r].phase # "none"
  BY RunJob DEF PromiseInv, OwnInv, EndInv, TypeOK, GraphileCompletes, GraphileFails, Working
<1>2. /\ runs'[r] = Over(r) /\ \A x \in Runs \ {r} : runs'[x] = runs[x]
  BY <1>1 DEF TypeOK
<1>3. Over(r).phase = "done" /\ Over(r).wrote = runs[r].wrote
  BY DEF Over, NoRun
<1>4. RunEnds(r)
  <2>1. Shape(Over(r))
    BY <1>3 DEF PromiseInv, Shapes, Shape, Early
  <2>2. QED BY <1>1, <1>2, <1>3, <2>1 DEF RunEnds
<1>5. \A i \in JobIds \ {j} : rows'[i] = rows[i]
  BY <1>1 DEF GraphileCompletes, GraphileFails
<1>6. RowEnds(j)
  <2>1. CASE GraphileCompletes(r)
    <3>1. ~rows'[j].live
      BY <1>1, <2>1, RowLocks DEF GraphileCompletes
    <3>2. QED BY <1>1, <3>1, StartedRun DEF RowEnds
  <2>2. CASE GraphileFails(r) /\ rows[j].lockedBy = runs[r].pool
    <3>1. rows'[j] = Unlocked(rows[j])
      BY <1>1, <2>2 DEF GraphileFails
    <3>2. /\ rows'[j].live = rows[j].live /\ rows'[j].attempts = rows[j].attempts
          /\ rows'[j].max = rows[j].max /\ rows'[j].lockedBy = None
      BY <1>1, <3>1, RowFields, RowLocks
    <3>3. QED BY <1>1, <3>2 DEF RowEnds, PromiseInv, Tried
  <2>3. CASE GraphileFails(r) /\ rows[j].lockedBy # runs[r].pool
    BY <1>1, <2>3, SameRow DEF GraphileFails
  <2>4. QED BY <2>1, <2>2, <2>3
<1>7. QED BY <1>1, <1>2, <1>4, <1>5, <1>6, SameRow, SameRun

LEMMA PoolEnds ==
  ASSUME PromiseInv, NEW p \in Pools, PoolStep(p)
  PROVE  (\A j \in JobIds : RowEnds(j)) /\ (\A x \in Runs : RunEnds(x)) /\ UNCHANGED nextId
<1>1. CASE Beat(p) \/ FirstBeatFails(p) \/ GoesStale(p)
  BY <1>1, SameRow, SameRun DEF Beat, FirstBeatFails, GoesStale, database
<1>2. CASE Sweep(p)
  <2>1. \A j \in JobIds : RowEnds(j)
    <3> TAKE j \in JobIds
    <3>1. rows[j] \in Row
      BY DEF PromiseInv, OwnInv, EndInv, TypeOK
    <3>2. rows'[j] = rows[j] \/ rows'[j] = Unlocked(rows[j])
      BY <1>2 DEF Sweep, ReleasedRows
    <3>3. CASE rows'[j] = Unlocked(rows[j])
      <4>1. /\ rows'[j].live = rows[j].live /\ rows'[j].attempts = rows[j].attempts
            /\ rows'[j].max = rows[j].max /\ rows'[j].lockedBy = None
        BY <3>1, <3>3, RowFields, RowLocks
      <4>2. QED BY <3>1, <4>1 DEF RowEnds, PromiseInv, Tried
    <3>4. QED BY <3>2, <3>3, SameRow
  <2>2. QED BY <1>2, <2>1, SameRun DEF Sweep
<1>3. CASE Crash(p)
  <2>1. \A x \in Runs : RunEnds(x)
    <3> TAKE x \in Runs
    <3>1. CASE runs[x].pool = p
      <4>1. runs'[x] = Over(x) /\ Over(x).phase = "done" /\ Over(x).wrote = runs[x].wrote
        BY <1>3, <3>1 DEF Crash, Over, NoRun
      <4>2. runs[x].phase # "none"
        BY <3>1, JobRunsAssumption
        DEF PromiseInv, OwnInv, EndInv, IdleRuns, NoRun, JobRunsAssumption
      <4>3. Shape(Over(x))
        BY <4>1 DEF PromiseInv, Shapes, Shape, Early
      <4>4. QED BY <4>1, <4>2, <4>3 DEF RunEnds
    <3>2. CASE runs[x].pool # p
      BY <1>3, <3>2, SameRun DEF Crash
    <3>3. QED BY <3>1, <3>2
  <2>2. QED BY <1>3, <2>1, SameRow DEF Crash, database
<1>4. QED BY <1>1, <1>2, <1>3 DEF PoolStep

LEMMA DueEnds ==
  ASSUME PromiseInv, NEW i \in JobIds, BecomesDue(i)
  PROVE  (\A j \in JobIds : RowEnds(j)) /\ (\A x \in Runs : RunEnds(x)) /\ UNCHANGED nextId
<1>1. \A row \in Row : LET due == [row EXCEPT !.due = TRUE]
                       IN  /\ due.live = row.live /\ due.attempts = row.attempts
                           /\ due.max = row.max /\ due.lockedBy = row.lockedBy
  BY DEF Row
<1>2. rows \in [JobIds -> Row] /\ rows' = [rows EXCEPT ![i].due = TRUE] /\ UNCHANGED runs
  BY DEF PromiseInv, OwnInv, EndInv, TypeOK, BecomesDue
<1>3. \A j \in JobIds : /\ rows'[j].live = rows[j].live
                        /\ rows'[j].attempts = rows[j].attempts
                        /\ rows'[j].max = rows[j].max /\ rows'[j].lockedBy = rows[j].lockedBy
  BY <1>1, <1>2
<1>4. \A j \in JobIds : RowEnds(j)
  BY <1>3 DEF RowEnds, PromiseInv, Tried
<1>5. QED BY <1>2, <1>4, SameRun DEF BecomesDue

---------------------------------------------------------------------------
(* A fetch starts the next attempt of an open job. *)
LEMMA FetchStarts ==
  ASSUME PromiseInv, OwnInv', NEW p \in Pools, NEW j \in JobIds, Fetch(p, j)
  PROVE  PromiseInv' /\ Promise!Start(j, rows[j].attempts + 1)
<1> DEFINE n == rows[j].attempts + 1
           s == <<j, n>>
<1>1. /\ TypeOK /\ EndInv /\ rows \in [JobIds -> Row] /\ rows[j] \in Row
      /\ runs \in [Runs -> Run] /\ n \in 1..MaxAttempts
      /\ rows[j].live /\ rows[j].lockedBy = None /\ p # None
      /\ rows[j].attempts < rows[j].max /\ UNCHANGED nextId
  <2>1. TypeOK /\ EndInv /\ rows \in [JobIds -> Row] /\ rows[j] \in Row
        /\ runs \in [Runs -> Run] /\ p # None
    BY JobRunsAssumption DEF PromiseInv, OwnInv, EndInv, TypeOK, JobRunsAssumption
  <2>2. n \in 1..MaxAttempts
    BY <2>1, NextAttempt DEF Fetch
  <2>3. QED BY <2>1, <2>2 DEF Fetch
<1>2. s \in Runs /\ s[1] = j /\ s[2] = n /\ \A m \in 1..MaxAttempts : m # n => <<j, m>> # s
  BY <1>1, RunOf
<1>3. /\ \A i \in JobIds \ {j} : rows'[i] = rows[i]
      /\ rows'[j].live = rows[j].live /\ rows'[j].max = rows[j].max
      /\ rows'[j].lockedBy = p /\ rows'[j].attempts = n
  <2>1. rows'[j] = Fetched(rows[j], p, n) /\ \A i \in JobIds \ {j} : rows'[i] = rows[i]
    BY <1>1 DEF Fetch
  <2>2. /\ Fetched(rows[j], p, n).live = rows[j].live
        /\ Fetched(rows[j], p, n).max = rows[j].max
        /\ Fetched(rows[j], p, n).lockedBy = p /\ Fetched(rows[j], p, n).attempts = n
    BY <1>1 DEF Row, Fetched
  <2>3. QED BY <2>1, <2>2
<1>4. /\ \A x \in Runs \ {s} : runs'[x] = runs[x]
      /\ runs'[s].phase = "locked" /\ runs'[s].wrote = "nothing"
  BY <1>1, <1>2 DEF Fetch, NoRun
<1>5. ~Spent(j) /\ ~Ended(j) /\ j < nextId /\ j \in Nat /\ nextId \in Nat
  <2>1. rows[j].attempts \in Nat /\ rows[j].max \in Nat
    BY <1>1 DEF Row
  <2>2. ~Spent(j)
    BY <1>1, <2>1 DEF Spent
  <2>3. j < nextId /\ j \in Nat /\ nextId \in Nat
    BY <1>1 DEF EndInv, FreshIds, TypeOK, JobIds
  <2>4. QED BY <1>1, <2>2, <2>3 DEF EndInv, EndedIsSpent
<1>6. \A m \in 1..MaxAttempts : runs[<<j, m>>].phase # "none" <=> m <= rows[j].attempts
  BY <1>1 DEF PromiseInv, Tried
<1>7. Shapes'
  BY <1>4 DEF PromiseInv, Shapes, Shape
<1>8. RunsBelow'
  BY <1>1, <1>2, <1>4, <1>5 DEF PromiseInv, RunsBelow
<1>9. Tried'
  <2> SUFFICES ASSUME NEW i \in JobIds, rows'[i].live
               PROVE  /\ rows'[i].max >= 1
                      /\ \A m \in 1..MaxAttempts :
                           runs'[<<i, m>>].phase # "none" <=> m <= rows'[i].attempts
    BY DEF Tried
  <2>1. CASE i = j
    <3>1. rows'[j].max >= 1
      BY <1>1, <1>3 DEF PromiseInv, Tried
    <3>2. \A m \in 1..MaxAttempts : m = n \/ runs'[<<j, m>>] = runs[<<j, m>>]
      BY <1>2, <1>4, RunOf
    <3>3. \A m \in 1..MaxAttempts : m <= n <=> m = n \/ m <= rows[j].attempts
      <4>1. rows[j].attempts \in Nat
        BY <1>1 DEF Row
      <4>2. QED BY <4>1
    <3>4. QED BY <1>3, <1>4, <1>6, <2>1, <3>1, <3>2, <3>3
  <2>2. CASE i # j
    <3>1. \A m \in 1..MaxAttempts : runs'[<<i, m>>] = runs[<<i, m>>]
      BY <1>4, <2>2, RunOf
    <3>2. QED BY <1>3, <2>2, <3>1 DEF PromiseInv, Tried
  <2>3. QED BY <2>1, <2>2
<1>10. WroteLast'
  <2> SUFFICES ASSUME NEW x \in Runs, runs'[x].wrote \in EndWrites, rows'[x[1]].live
               PROVE  /\ x[2] = rows'[x[1]].attempts
                      /\ JobOutcomes => runs'[x].wrote = "retained"
    BY DEF WroteLast
  <2>1. runs'[x] = runs[x] /\ x \in Runs /\ x = <<x[1], x[2]>> /\ x[1] \in JobIds
        /\ x[2] \in 1..MaxAttempts
    BY <1>4, RunPair, RunJob DEF EndWrites
  <2>2. Ended(x[1])
    BY <2>1 DEF Ended, EndWrites
  <2>3. x[1] # j
    BY <1>5, <2>2
  <2>4. QED BY <1>3, <2>1, <2>3 DEF PromiseInv, WroteLast
<1>11. n \notin StartedOf(j)
  BY <1>1, <1>6 DEF StartedOf, Row
<1>12. \A i \in JobIds : StartedOf(i)' = IF i = j THEN StartedOf(j) \cup {n} ELSE StartedOf(i)
  <2> TAKE i \in JobIds
  <2>1. CASE i = j
    <3>1. \A m \in 1..MaxAttempts :
            runs'[<<j, m>>].phase # "none" <=> m = n \/ runs[<<j, m>>].phase # "none"
      BY <1>2, <1>4, RunOf
    <3>2. QED BY <1>1, <2>1, <3>1 DEF StartedOf
  <2>2. CASE i # j
    <3>1. \A m \in 1..MaxAttempts : runs'[<<i, m>>] = runs[<<i, m>>]
      BY <1>4, <2>2, RunOf
    <3>2. QED BY <2>2, <3>1 DEF StartedOf
  <2>3. QED BY <2>1, <2>2
<1>13. \A i \in JobIds : Ended(i)' <=> Ended(i)
  <2>1. \A i \in JobIds, m \in 1..MaxAttempts : <<i, m>> # s => runs'[<<i, m>>] = runs[<<i, m>>]
    BY <1>4, RunOf
  <2>2. \A i \in JobIds : i # j => (Ended(i)' <=> Ended(i))
    BY <2>1 DEF Ended
  <2>3. ~Ended(j)'
    BY <1>2, <1>4, <1>5, <2>1 DEF Ended
  <2>4. QED BY <1>5, <2>2, <2>3
<1>14. ~HasEnded(j) /\ ~HasEnded(j)'
  <2>1. ~(rows[j].attempts >= rows[j].max)
    BY <1>1 DEF Row
  <2>2. QED BY <1>1, <1>3, <1>5, <1>13, <2>1 DEF HasEnded
<1>15. \A i \in JobIds : HasEnded(i)' <=> HasEnded(i)
  BY <1>3, <1>13, <1>14 DEF HasEnded
<1>16. \A i \in JobIds : StateOf(i)' = StateOf(i)
  BY <1>1, <1>15 DEF StateOf
<1>17. StateOf(j) = "open"
  BY <1>5, <1>14 DEF StateOf
<1>18. Promise!Start(j, n)
  BY <1>11, <1>12, <1>16, <1>17 DEF Promise!Start
<1>19. QED BY <1>7, <1>8, <1>9, <1>10, <1>18 DEF PromiseInv

(* The commit of a continuation ends its job and opens the continuation.   *)
LEMMA ContinueContinues ==
  ASSUME PromiseInv, OwnInv', NEW r \in Runs, ContinueJob(r)
  PROVE  PromiseInv' /\ \E j, k \in JobIds : Promise!Continue(j, k)
<1> DEFINE j == r[1]
<1>0. PICK k \in JobIds : k = nextId
  BY DEF ContinueJob
<1>1. /\ TypeOK /\ EndInv /\ PoolInv /\ rows \in [JobIds -> Row] /\ runs \in [Runs -> Run]
      /\ Owned(r) /\ nextId' = k + 1 /\ nextId = k /\ k \in Nat
  BY <1>0 DEF PromiseInv, OwnInv, EndInv, TypeOK, ContinueJob, JobIds
<1>2. /\ runs[r].cont = "inflight" /\ runs[r].phase \in {"handler", "ending"} /\ Working(r)
      /\ runs[r].wrote = "nothing"
  BY <1>1 DEF PromiseInv, PoolInv, InflightWorks, ContinueJob, Working, Shapes, Shape, Early
<1>3. /\ j \in JobIds /\ Locked(j) /\ rows[j].live /\ rows[j].lockedBy # None
      /\ rows[j] \in Row /\ j < k /\ j # k /\ j \in Nat /\ r = <<j, r[2]>>
      /\ r[2] \in 1..MaxAttempts
  <2>1. j < k /\ j \in Nat
    BY <1>1, <1>2, OwnerLocks DEF JobIds
  <2>2. QED BY <1>1, <1>2, <2>1, OwnerLocks, RunPair, RunJob DEF Locked
<1>4. rows[j].attempts = r[2] /\ rows[j].attempts >= 1 /\ rows[j].max >= 1
  <2>1. rows[j].lockedAt = r[2] /\ rows[j].lockedAt \in {0, rows[j].attempts}
    BY <1>1, <1>3 DEF Owned, EndInv, LatestLock
  <2>2. QED BY <1>3, <2>1 DEF PromiseInv, Tried
<1>5. /\ \A x \in Runs \ {r} : runs'[x] = runs[x]
      /\ runs'[r].phase = runs[r].phase /\ runs'[r].wrote = "continued"
      /\ runs'[r].cont \in {"committed", "refused"}
  BY <1>1 DEF ContinueJob, Run
<1>6. PICK due \in BOOLEAN :
        /\ \A i \in JobIds \ {j, k} : rows'[i] = rows[i]
        /\ rows'[j] = IF JobOutcomes THEN NoRow ELSE Exhausted(rows[j])
        /\ rows'[k] = NewRow(rows[j].lane, rows[j].max, due)
  BY <1>1, <1>3 DEF ContinueJob
<1>7. /\ JobOutcomes => ~rows'[j].live
      /\ rows'[j].live => rows'[j].attempts = r[2] /\ rows'[j].max = r[2]
  BY <1>3, <1>4, <1>6, RowLocks, RowFields
<1>8. /\ rows'[k].live /\ rows'[k].attempts = 0 /\ rows'[k].max = rows[j].max
  BY <1>6 DEF NewRow, NoRow
<1>9. \A n \in 1..MaxAttempts :
        LET x == <<k, n>>
        IN  /\ x \in Runs /\ x # r /\ runs'[x] = runs[x]
            /\ runs[x].phase = "none" /\ runs[x].wrote = "nothing"
  <2> TAKE n \in 1..MaxAttempts
  <2>1. PICK x \in Runs : x = <<k, n>>
    BY RunOf
  <2>2. x[1] = k /\ x # r
    BY <1>3, <2>1
  <2>3. runs[x].phase = "none"
    <3>1. ~(x[1] < nextId)
      BY <1>1, <2>2
    <3>2. QED BY <3>1 DEF PromiseInv, RunsBelow
  <2>4. runs[x].wrote = "nothing"
    BY <1>1, <2>3 DEF EndInv, IdleRuns, NoRun
  <2>5. QED BY <1>5, <2>1, <2>2, <2>3, <2>4
<1>10. \A i \in JobIds, n \in 1..MaxAttempts :
         runs'[<<i, n>>].phase = "none" <=> runs[<<i, n>>].phase = "none"
  BY <1>5, RunOf
<1>11. Shapes'
  BY <1>2, <1>5 DEF PromiseInv, Shapes, Shape
<1>12. RunsBelow'
  <2> SUFFICES ASSUME NEW x \in Runs, runs'[x].phase # "none" PROVE x[1] < nextId'
    BY DEF RunsBelow
  <2>1. runs[x].phase # "none" /\ x[1] \in Nat
    BY <1>5, RunJob DEF JobIds
  <2>2. x[1] < k
    BY <1>1, <2>1 DEF PromiseInv, RunsBelow
  <2>3. QED BY <1>1, <2>1, <2>2
<1>13. Tried'
  <2> SUFFICES ASSUME NEW i \in JobIds, rows'[i].live
               PROVE  /\ rows'[i].max >= 1
                      /\ \A n \in 1..MaxAttempts :
                           runs'[<<i, n>>].phase # "none" <=> n <= rows'[i].attempts
    BY DEF Tried
  <2>1. CASE i = k
    BY <1>4, <1>8, <1>9, <2>1
  <2>2. CASE i = j
    BY <1>3, <1>4, <1>7, <1>10, <2>2 DEF PromiseInv, Tried
  <2>3. CASE i \notin {j, k}
    BY <1>6, <1>10, <2>3 DEF PromiseInv, Tried
  <2>4. QED BY <2>1, <2>2, <2>3
<1>14. WroteLast'
  <2> SUFFICES ASSUME NEW x \in Runs, runs'[x].wrote \in EndWrites, rows'[x[1]].live
               PROVE  /\ x[2] = rows'[x[1]].attempts
                      /\ JobOutcomes => runs'[x].wrote = "retained"
    BY DEF WroteLast
  <2>1. x[1] \in JobIds /\ x = <<x[1], x[2]>> /\ x[2] \in 1..MaxAttempts
    BY RunPair, RunJob
  <2>2. CASE x = r
    BY <1>7, <2>2
  <2>3. CASE x # r
    <3>1. runs'[x] = runs[x]
      BY <1>5, <2>3
    <3>2. x[1] # k
      BY <1>9, <2>1, <3>1 DEF EndWrites
    <3>3. CASE x[1] = j
      <4>1. x[2] = r[2]
        BY <1>3, <1>4, <3>1, <3>3 DEF PromiseInv, WroteLast
      <4>2. QED BY <1>3, <2>1, <2>3, <3>3, <4>1
    <3>4. CASE x[1] # j
      BY <1>6, <2>1, <3>1, <3>2, <3>4 DEF PromiseInv, WroteLast
    <3>5. QED BY <3>3, <3>4
  <2>4. QED BY <2>2, <2>3
<1>15. ~Ended(j)
  <2> SUFFICES ASSUME NEW n \in 1..MaxAttempts, runs[<<j, n>>].wrote \in EndWrites
               PROVE  FALSE
    BY DEF Ended, EndWrites
  <2>1. PICK x \in Runs : x = <<j, n>>
    BY <1>3, RunOf
  <2>2. x[1] = j /\ x[2] = n
    BY <2>1
  <2>3. x[2] = r[2]
    BY <1>3, <1>4, <2>1, <2>2 DEF PromiseInv, WroteLast
  <2>4. x = r
    BY <1>3, <2>1, <2>2, <2>3
  <2>5. QED BY <1>2, <2>1, <2>4 DEF EndWrites
<1>16. Ended(j)' /\ ~Ended(k)' /\ \A i \in JobIds \ {j} : Ended(i)' <=> Ended(i)
  <2>1. Ended(j)'
    <3>1. runs'[<<j, r[2]>>].wrote = "continued"
      BY <1>3, <1>5
    <3>2. QED BY <1>3, <3>1 DEF Ended
  <2>2. ~Ended(k)'
    BY <1>9 DEF Ended
  <2>3. \A i \in JobIds \ {j}, n \in 1..MaxAttempts : runs'[<<i, n>>] = runs[<<i, n>>]
    <3>1. \A i \in JobIds \ {j}, n \in 1..MaxAttempts : <<i, n>> # r
      BY <1>3
    <3>2. QED BY <1>5, <3>1, RunOf
  <2>4. QED BY <2>1, <2>2, <2>3 DEF Ended
<1>17. ~HasEnded(j)
  <2>1. CASE rows[j].lockedBy = None
    BY <1>3, <2>1
  <2>2. QED BY <1>3, <1>15, <2>1 DEF HasEnded
<1>18. ~HasEnded(k)'
  <2>1. ~(rows'[k].attempts >= rows'[k].max)
    BY <1>3, <1>4, <1>8 DEF Row
  <2>2. QED BY <1>8, <1>16, <2>1 DEF HasEnded
<1>19. \A i \in JobIds \ {j, k} : (HasEnded(i)' <=> HasEnded(i)) /\ (i >= k + 1 <=> i >= k)
  <2>1. \A i \in JobIds \ {j, k} : HasEnded(i)' <=> HasEnded(i)
    BY <1>6, <1>16 DEF HasEnded
  <2>2. \A i \in JobIds \ {j, k} : i >= k + 1 <=> i >= k
    BY <1>1 DEF JobIds
  <2>3. QED BY <2>1, <2>2
<1>20. /\ StateOf(j) = "open" /\ StateOf(k) = "absent"
       /\ \A i \in JobIds : StateOf(i)' = IF i = k THEN "open"
                                          ELSE IF i = j THEN "ended" ELSE StateOf(i)
  <2>1. StateOf(j) = "open" /\ StateOf(k) = "absent"
    BY <1>1, <1>3, <1>17 DEF StateOf
  <2>2. HasEnded(j)' /\ ~(j >= k + 1) /\ ~(k >= k + 1)
    BY <1>1, <1>3, <1>16 DEF HasEnded
  <2>3. QED BY <1>1, <1>18, <1>19, <2>1, <2>2 DEF StateOf
<1>21. \A i \in JobIds : StartedOf(i)' = StartedOf(i)
  BY <1>10 DEF StartedOf
<1>22. StartedOf(j) # {}
  BY <1>2, StartedRun
<1>23. Promise!Continue(j, k)
  BY <1>3, <1>20, <1>21, <1>22 DEF Promise!Continue, Promise!Begun
<1>24. PromiseInv'
  BY <1>11, <1>12, <1>13, <1>14 DEF PromiseInv
<1>25. QED BY <1>3, <1>23, <1>24

---------------------------------------------------------------------------
(* The implementation. *)

LEMMA InitPromise == Init => PromiseInv /\ Promise!Init
<1> SUFFICES ASSUME Init PROVE PromiseInv /\ Promise!Init
  OBVIOUS
<1>1. OwnInv /\ TypeOK /\ nextId = Len(JobLane) + 1 /\ Len(JobLane) \in Nat
  BY InitOwn, JobRunsAssumption DEF OwnInv, EndInv, Init, JobRunsAssumption
<1>2. \A r \in Runs : runs[r].phase = "none" /\ runs[r].wrote = "nothing"
  BY DEF Init, NoRun
<1>3. \A j \in JobIds : /\ rows[j].live <=> j <= Len(JobLane)
                        /\ rows[j].attempts = 0 /\ j \in Nat
                        /\ rows[j].live => rows[j].max = MaxAttempts
  <2> TAKE j \in JobIds
  <2>1. /\ rows[j] = IF j <= Len(JobLane) THEN NewRow(JobLane[j], MaxAttempts, TRUE) ELSE NoRow
        /\ j \in Nat
    BY DEF Init, JobIds
  <2>2. CASE j <= Len(JobLane)
    BY <2>1, <2>2 DEF NewRow, NoRow
  <2>3. CASE ~(j <= Len(JobLane))
    BY <2>1, <2>3 DEF NoRow
  <2>4. QED BY <2>2, <2>3
<1>4. PromiseInv
  <2>1. Shapes /\ RunsBelow /\ WroteLast
    BY <1>2 DEF Shapes, Shape, RunsBelow, WroteLast, EndWrites
  <2>2. Tried
    BY <1>2, <1>3, RunOf, JobRunsAssumption DEF Tried, JobRunsAssumption
  <2>3. QED BY <1>1, <2>1, <2>2 DEF PromiseInv
<1>5. \A j \in JobIds : StartedOf(j) = {}
  BY <1>2, RunOf DEF StartedOf
<1>6. \A j \in JobIds : ~Ended(j)
  BY <1>2, RunOf DEF Ended
<1>7. \A j \in JobIds : StateOf(j) = IF j \in 1..Len(JobLane) THEN "open" ELSE "absent"
  <2> TAKE j \in JobIds
  <2>1. CASE j <= Len(JobLane)
    <3>1. rows[j].live /\ rows[j].max = MaxAttempts /\ ~(rows[j].attempts >= rows[j].max)
      BY <1>3, <2>1, JobRunsAssumption DEF JobRunsAssumption
    <3>2. ~HasEnded(j)
      BY <1>6, <3>1 DEF HasEnded
    <3>3. ~(j >= nextId) /\ j \in 1..Len(JobLane)
      BY <1>1, <1>3, <2>1 DEF JobIds
    <3>4. QED BY <3>2, <3>3 DEF StateOf
  <2>2. CASE ~(j <= Len(JobLane))
    <3>1. j >= nextId /\ j \notin 1..Len(JobLane)
      BY <1>1, <1>3, <2>2
    <3>2. QED BY <3>1 DEF StateOf
  <2>3. QED BY <2>1, <2>2
<1>8. Promise!Init
  BY <1>5, <1>7 DEF Promise!Init
<1>9. QED BY <1>4, <1>8

LEMMA NextPromise ==
  ASSUME PromiseInv, [Next]_vars
  PROVE  PromiseInv' /\ [Promise!Next]_(Promise!jobs)
<1>1. OwnInv' /\ OwnInv /\ EndInv /\ TypeOK
  BY NextOwn DEF PromiseInv, OwnInv, EndInv
<1>2. ASSUME \A j \in JobIds : RowEnds(j), \A x \in Runs : RunEnds(x), UNCHANGED nextId
      PROVE  PromiseInv' /\ [Promise!Next]_(Promise!jobs)
  <2>1. PromiseInv'
    BY <1>1, <1>2, EndsKeep
  <2>2. Promise!End(NewlyEnded)
    BY <1>2, <2>1, EndsKeepPromise
  <2>3. NewlyEnded \in SUBSET JobIds
    BY DEF NewlyEnded
  <2>4. QED BY <2>1, <2>2, <2>3 DEF Promise!Next
<1>3. CASE \E r \in Runs : RunProgress(r) \/ CallContinue(r)
  <2>1. PICK r \in Runs : RunProgress(r) \/ CallContinue(r)
    BY <1>3
  <2>2. CASE ContinueJob(r)
    BY <1>1, <2>2, ContinueContinues DEF Promise!Next
  <2>3. CASE GraphileCompletes(r) \/ GraphileFails(r)
    BY <1>2, <2>3, GraphileEnds
  <2>4. CASE ~ContinueJob(r) /\ ~GraphileCompletes(r) /\ ~GraphileFails(r)
    <3>1. PICK run : Moved(r, run) /\ (WroteOnlyRun(r, run) \/ WroteRow(r, run))
      BY <1>1, <2>1, <2>4, RunSteps DEF OwnInv, PoolInv, InflightWorks
    <3>2. QED BY <1>2, <3>1, WroteOnlyRunEnds, WroteRowEnds
  <2>5. QED BY <2>2, <2>3, <2>4
<1>4. CASE \E p \in Pools : PoolStep(p)
  BY <1>2, <1>4, PoolEnds
<1>5. CASE \E p \in Pools, j \in JobIds : Fetch(p, j)
  <2>1. PICK p \in Pools, j \in JobIds : Fetch(p, j)
    BY <1>5
  <2>2. PromiseInv' /\ Promise!Start(j, rows[j].attempts + 1)
    BY <1>1, <2>1, FetchStarts
  <2>3. rows[j].attempts + 1 \in 1..MaxAttempts
    BY <1>1, <2>1, NextAttempt DEF Fetch
  <2>4. QED BY <2>2, <2>3 DEF Promise!Next
<1>6. CASE \E j \in JobIds : BecomesDue(j)
  BY <1>2, <1>6, DueEnds
<1>7. CASE UNCHANGED vars
  BY <1>2, <1>7, SameRow, SameRun DEF vars
<1>8. QED BY <1>3, <1>4, <1>5, <1>6, <1>7 DEF Next

(* JobRuns implements Jobs: through any crashes, stalls, false deaths,     *)
(* lost replies and retries, executeTask, continueJob, settleLockedJob and *)
(* sweepDeadWorkers start each attempt once, start none of a job that has  *)
(* ended, end only jobs that were begun, and begin a continuation only in  *)
(* the step that ends its job.                                             *)
THEOREM PromiseKept == Spec => KeepsPromise
<1>1. Init => PromiseInv /\ Promise!Init
  BY InitPromise
<1>2. PromiseInv /\ [Next]_vars => PromiseInv' /\ [Promise!Next]_(Promise!jobs)
  BY NextPromise
<1>3. QED BY <1>1, <1>2, PTL DEF Spec, KeepsPromise, Promise!Spec
=============================================================================
