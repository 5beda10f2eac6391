---------------------------- MODULE AttemptProofs ----------------------------
(***************************************************************************)
(* Theorems of Attempt, for any number of runs, steps, values and faults.  *)
(***************************************************************************)
EXTENDS Attempt, FiniteSetTheorems, TLAPS

---------------------------------------------------------------------------
(* The inductive invariant: what the run that holds the lock knows of the  *)
(* row, and what every other run has left to do that no longer matters.    *)

RowRec == [state : {"none", "queued", "locked", "gone"}, lock : 0..MaxRuns, tries : Int,
           spent : BOOLEAN, steps : [Steps -> Results], progress : Values]

RunRec == [row : 0..2, state : States,
           how : {"none", "ok", "fail", "fatal", "wait", "continue"},
           last : BOOLEAN, expired : BOOLEAN, called : BOOLEAN,
           chain : {"free", "wait", "continue"}, ending : {"none", "waiting", "continued"},
           cache : [Steps -> Results], running : SUBSET Steps,
           writing : [Steps -> Results], prog : Progress]

Answers == {"nothing", "open", "not_found", "completed", "failed", "continued"}

Types ==
  /\ rows \in [Rows -> RowRec] /\ outcomes \in [Rows -> Outcomes]
  /\ runs \in [Runs -> RunRec]
  /\ results \in [Steps -> Results] /\ sets \in Values
  /\ resolved \in [Steps -> SUBSET Results] /\ owed \in [Rows -> Values]
  /\ reader \in [missed : BOOLEAN, told : Answers]
  /\ faults \in 0..MaxFaults

LocksWork ==
  \A j \in Rows : rows[j].state = "locked" =>
    rows[j].lock \in Runs /\ runs[rows[j].lock].row = j /\ runs[rows[j].lock].state \notin Gone

JobFirst ==
  /\ rows[Job].state # "none"
  /\ rows[Continuation].state # "none" => rows[Job].state = "gone"

Working(run) == run.state \in {"handler", "ended"}

RunFits(run) ==
  /\ run.row \in Rows \/ run = NoRun
  /\ run.chain # "free" \/ run.ending # "none" => Working(run)
  /\ run.chain = "continue" => run.row = Job
  /\ \A x \in Steps : run.writing[x] # 0 => x \notin run.running

(* What close() has yet to write is queued, or its last write failed: then *)
(* it throws this, or the run suspends.                                    *)
Accounted(state, how, p) ==
  /\ state = "leaving" => Persists(how)
  /\ state = "closing" =>
       /\ p.lost = "silent" => p.failure
       /\ Persists(how) /\ p.dirty => p.queued \/ (p.writing = {} /\ p.lost # "no")
  /\ state \in {"settling", "leaving"} /\ Persists(how) /\ p.dirty =>
       p.lost = "told" \/ (p.lost = "silent" /\ how = "wait")

(* A value that is neither dirty nor being written is in the row, and      *)
(* nothing is left to write once close() has returned.                     *)
Clear(p) == ~p.dirty /\ p.writing = {}

ProgFits(run) ==
  LET p == run.prog IN
  /\ ~Clear(p) => p.value # 0
  /\ ~p.dirty => p.writing \subseteq {p.value}
  /\ run.state \in {"closing", "settling", "leaving"} => p.closed /\ ~p.timer
  /\ run.state \in {"settling", "leaving"} => Drained(p)
  /\ p.owes = p.value
  /\ Accounted(run.state, run.how, p)

RunsFit == \A r \in Runs : RunFits(runs[r]) /\ ProgFits(runs[r])

Moving(run) == run.ending = "continued" \/ run.how = "continue"

Continued == \A r \in Runs : Moving(runs[r]) => runs[r].row = Job /\ rows[Job].state = "gone"

(* The row that has the steps of the job, or had them when it ended.       *)
Cur == IF rows[Continuation].state = "none" THEN Job ELSE Continuation

(* What was resolved or is cached is the checkpoint in the row.            *)
Kept ==
  \A x \in Steps :
    /\ \A v \in resolved[x] : v # 0 /\ v = rows[Cur].steps[x]
    /\ \A r \in Runs : runs[r].cache[x] \in {0, rows[Cur].steps[x]}

Holds(r) == runs[r].row \in Rows /\ Owned(r)

Pending(run, x) ==
  x \in run.running \/ run.writing[x] # 0 \/ (run.state = "handler" /\ run.cache[x] = 0)

Unknown(x) == resolved[x] = {} /\ \A r \in Runs : runs[r].cache[x] = 0

(* The holder may write a step only if nobody knows a result of it.        *)
OnlyUnknown == \A r \in Runs, x \in Steps : Holds(r) /\ Pending(runs[r], x) => Unknown(x)

WrittenBy(r) == Holds(r) /\ Clear(runs[r].prog) => RowOf(r).progress = runs[r].prog.value
Written      == \A r \in Runs : WrittenBy(r)

(* An attempt is given back once, or once more for each lost reply.        *)
Taking(run)     == Working(run) /\ run.ending = "none"
TriesLeftBy(r)  == Holds(r) /\ Taking(runs[r]) => RowOf(r).tries >= 1 - faults
TriesOf(j)      == /\ rows[j].tries >= -faults /\ rows[j].tries <= MaxAttempts
                   /\ rows[j].state = "queued" /\ rows[j].tries >= MaxAttempts => rows[j].spent
Tries == (\A j \in Rows : TriesOf(j)) /\ (\A r \in Runs : TriesLeftBy(r))

Readers ==
  /\ ~Live => outcomes[Job] \in {"completed", "continued"} \/ (outcomes[Job] = "none" /\ pruned)
  /\ reader.missed => ~Live
  /\ reader.told = "failed" => rows[Job].state = "queued" /\ rows[Job].spent
  /\ reader.told \in {"completed", "continued"} => ~Live /\ outcomes[Job] \in {reader.told, "none"}
  /\ reader.told = "not_found" => ~Live /\ pruned

AttemptInv ==
  /\ Types /\ LocksWork /\ JobFirst /\ RunsFit /\ Continued
  /\ Kept /\ OnlyUnknown
  /\ Written /\ NextRunReadsLast
  /\ Tries /\ Readers

---------------------------------------------------------------------------
(* A step of one run: it becomes s, and touches only its own lock. *)

BecomesIn(run, s) ==
  /\ s \in RunRec /\ RunFits(s) /\ ProgFits(s)
  /\ s.row = run.row
  /\ Moving(s) => Moving(run)

KnowsNoMore(run, s) ==
  \A x \in Steps : s.cache[x] \in {0, run.cache[x]} /\ (Pending(s, x) => Pending(run, x))

OwesNoLess(run, s)  == Clear(s.prog) => Clear(run.prog) /\ s.prog.value = run.prog.value
TakesNoMore(run, s) == Taking(s) => Taking(run)

Follows(run, s) ==
  /\ BecomesIn(run, s) /\ KnowsNoMore(run, s)
  /\ OwesNoLess(run, s) /\ TakesNoMore(run, s) /\ (s.state \in Gone => run.state \in Gone)

Goes(r, s) ==
  /\ runs' = [runs EXCEPT ![r] = s]
  /\ \A j \in Rows : \/ rows'[j] = rows[j]
                     \/ rows'[j].state # "locked"
                     \/ rows'[j].lock = r

(* A run that is not there does nothing. *)
LEMMA RunIsThere ==
  ASSUME Types, RunsFit, NEW r \in Runs, runs[r] # NoRun
  PROVE  runs[r] \in RunRec /\ runs[r].row \in Rows /\ RowOf(r) \in RowRec
BY DEF Types, RunsFit, RunFits, RowOf

LEMMA NoRunTypes == NoRun \in RunRec /\ RunFits(NoRun) /\ ProgFits(NoRun)
<1>1. NoSteps \in [Steps -> Results] /\ \A x \in Steps : NoSteps[x] = 0
  BY AttemptAssumption DEF AttemptAssumption, NoSteps, Results
<1>2. NewProgress(0) \in Progress
  BY AttemptAssumption DEF AttemptAssumption, NewProgress, Progress, Values
<1>3. NoRun \in RunRec
  BY <1>1, <1>2 DEF NoRun, RunRec, States
<1>4. QED
  BY <1>1, <1>3 DEF RunFits, ProgFits, Accounted, NoRun, NewProgress, Clear, Working, Drained

(* One row at most is locked, the one that has the steps of the job. *)
LEMMA LockedIsCur ==
  ASSUME JobFirst, NEW j \in Rows, rows[j].state \in {"queued", "locked"}
  PROVE  Cur = j
BY DEF JobFirst, Cur, Rows, Job, Continuation

LEMMA OneHolds ==
  ASSUME JobFirst, NEW r \in Runs, NEW q \in Runs, Holds(r), Holds(q)
  PROVE  r = q /\ runs[r].row = Cur
BY DEF Holds, Owned, RowOf, JobFirst, Cur, Rows, Job, Continuation

LEMMA OthersHold ==
  ASSUME Types, NEW r \in Runs, NEW s, Goes(r, s), NEW q \in Runs, q # r, Holds(q)'
  PROVE  Holds(q) /\ runs'[q] = runs[q] /\ rows'[runs[q].row] = rows[runs[q].row]
BY DEF Types, Goes, Holds, Owned, RowOf

LEMMA LocksStayWorking ==
  ASSUME Types, LocksWork, NEW r \in Runs, NEW s, Goes(r, s),
         \A j \in Rows : rows'[j].state = "locked" /\ rows'[j].lock = r =>
                           s.row = j /\ s.state \notin Gone
  PROVE  LocksWork'
<1> SUFFICES ASSUME NEW j \in Rows, rows'[j].state = "locked"
             PROVE  /\ rows'[j].lock \in Runs
                    /\ runs'[rows'[j].lock].row = j /\ runs'[rows'[j].lock].state \notin Gone
  BY DEF LocksWork
<1>1. runs'[r] = s /\ \A q \in Runs : q # r => runs'[q] = runs[q]
  BY DEF Goes, Types
<1>2. CASE rows'[j].lock = r
  BY <1>1, <1>2
<1>3. CASE rows'[j].lock # r
  BY <1>1, <1>3 DEF Goes, LocksWork
<1>4. QED BY <1>2, <1>3

LEMMA RunsStayFit ==
  ASSUME Types, RunsFit, NEW r \in Runs, NEW s, s \in RunRec, RunFits(s), ProgFits(s),
         runs' = [runs EXCEPT ![r] = s]
  PROVE  RunsFit' /\ runs' \in [Runs -> RunRec]
BY DEF Types, RunsFit

LEMMA StaysContinued ==
  ASSUME Types, Continued, NEW r \in Runs, NEW s, runs' = [runs EXCEPT ![r] = s],
         Moving(s) => s.row = Job /\ rows'[Job].state = "gone",
         rows[Job].state = "gone" => rows'[Job].state = "gone"
  PROVE  Continued'
BY DEF Types, Continued

LEMMA StaysWritten ==
  ASSUME Types, Written, NEW r \in Runs, NEW s, Goes(r, s), WrittenBy(r)'
  PROVE  Written'
<1> SUFFICES ASSUME NEW q \in Runs PROVE WrittenBy(q)'
  BY DEF Written
<1>1. CASE q = r
  BY <1>1
<1>2. CASE q # r /\ Holds(q)'
  <2>1. Holds(q) /\ runs'[q] = runs[q] /\ rows'[runs[q].row] = rows[runs[q].row]
    BY <1>2, OthersHold
  <2>2. QED BY <2>1 DEF Written, WrittenBy, RowOf
<1>3. QED BY <1>1, <1>2 DEF WrittenBy

LEMMA TriesStay ==
  ASSUME Types, Tries, NEW r \in Runs, NEW s, Goes(r, s), faults' >= faults,
         \A j \in Rows : TriesOf(j)', TriesLeftBy(r)', faults' \in Int
  PROVE  Tries'
<1> SUFFICES ASSUME NEW q \in Runs PROVE TriesLeftBy(q)'
  BY DEF Tries
<1>1. CASE q = r
  BY <1>1
<1>2. CASE q # r /\ Holds(q)'
  <2>1. Holds(q) /\ runs'[q] = runs[q] /\ rows'[runs[q].row] = rows[runs[q].row]
    BY <1>2, OthersHold
  <2>2. runs[q].row \in Rows /\ rows[runs[q].row].tries \in Int /\ faults \in Int
    BY <2>1 DEF Holds, Types, RowRec
  <2>3. QED BY <2>1, <2>2 DEF Tries, TriesLeftBy, RowOf
<1>3. QED BY <1>1, <1>2 DEF TriesLeftBy

(* What is cached, resolved and pending only becomes less, and no row's    *)
(* checkpoints change.                                                     *)
LEMMA QuietForSteps ==
  ASSUME Types, JobFirst, Kept, OnlyUnknown, NEW r \in Runs, NEW s, Goes(r, s),
         KnowsNoMore(runs[r], s), resolved' = resolved,
         Holds(r)' => Holds(r),
         \A j \in Rows : rows'[j].steps = rows[j].steps, Cur' = Cur
  PROVE  Kept' /\ OnlyUnknown'
<1>1. runs'[r] = s /\ \A q \in Runs : q # r => runs'[q] = runs[q]
  BY DEF Goes, Types
<1>2. Cur \in Rows
  BY DEF Cur, Rows
<1>3. \A q \in Runs, x \in Steps : runs'[q].cache[x] \in {0, runs[q].cache[x]}
  BY <1>1 DEF KnowsNoMore
<1>4. Kept'
  BY <1>2, <1>3 DEF Kept
<1>5. \A x \in Steps : Unknown(x) => Unknown(x)'
  BY <1>3 DEF Unknown
<1>6. ASSUME NEW q \in Runs, NEW x \in Steps, Holds(q)', Pending(runs[q], x)'
      PROVE  Unknown(x)'
  <2>1. Holds(q) /\ Pending(runs[q], x)
    <3>1. CASE q = r
      BY <1>1, <1>6, <3>1 DEF KnowsNoMore, Pending
    <3>2. CASE q # r
      BY <1>1, <1>6, <3>2, OthersHold DEF Pending
    <3>3. QED BY <3>1, <3>2
  <2>2. QED BY <1>5, <2>1 DEF OnlyUnknown
<1>7. QED BY <1>4, <1>6 DEF OnlyUnknown

(* Readers learn nothing while the job's row stays, and no end is told of  *)
(* a row that still has one to come.                                       *)
LEMMA ReadersStay ==
  ASSUME Readers, rows'[Job].state = rows[Job].state, rows'[Job].spent = rows[Job].spent,
         outcomes'[Job] = outcomes[Job], reader' = reader, pruned' = pruned
  PROVE  Readers'
BY DEF Readers, Live

LEMMA ReadersOpen ==
  ASSUME Readers, reader' = reader, pruned' = pruned,
         rows[Job].state # "gone", ~(rows[Job].state = "queued" /\ rows[Job].spent),
         rows'[Job].state = "gone" => outcomes'[Job] \in {"completed", "continued"}
  PROVE  Readers'
BY DEF Readers, Live

---------------------------------------------------------------------------
(* The kinds of steps. *)

(* Nothing but the run changes. *)
LEMMA SteadyStep ==
  ASSUME AttemptInv, NEW r \in Runs, NEW s, runs' = [runs EXCEPT ![r] = s],
         BecomesIn(runs[r], s), KnowsNoMore(runs[r], s),
         Holds(r) => OwesNoLess(runs[r], s) /\ TakesNoMore(runs[r], s) /\ s.state \notin Gone,
         rows' = rows, outcomes' = outcomes, owed' = owed, reader' = reader,
         pruned' = pruned, resolved' = resolved,
         results' \in [Steps -> Results], sets' \in Values,
         faults' \in 0..MaxFaults, faults' >= faults
  PROVE  AttemptInv'
<1>1. s \in RunRec /\ RunFits(s) /\ ProgFits(s) /\ s.row = runs[r].row
  BY DEF BecomesIn
<1>2. runs'[r] = s /\ Goes(r, s)
  BY DEF AttemptInv, Types, Goes
<1>3. RunsFit' /\ Types'
  BY <1>1, RunsStayFit DEF AttemptInv, Types
<1>4. LocksWork'
  <2>1. \A j \in Rows : rows'[j].state = "locked" /\ rows'[j].lock = r =>
                          s.row = j /\ s.state \notin Gone
    BY <1>1 DEF AttemptInv, LocksWork, Holds, Owned, RowOf
  <2>2. QED BY <1>2, <2>1, LocksStayWorking DEF AttemptInv
<1>5. JobFirst' /\ NextRunReadsLast'
  BY DEF AttemptInv, JobFirst, NextRunReadsLast
<1>6. Continued'
  <2>1. Moving(s) => s.row = Job /\ rows'[Job].state = "gone"
    BY <1>1 DEF AttemptInv, Continued, BecomesIn
  <2>2. QED BY <2>1, StaysContinued DEF AttemptInv
<1>7. Kept' /\ OnlyUnknown'
  <2>1. Holds(r)' => Holds(r)
    BY <1>1, <1>2 DEF Holds, Owned, RowOf
  <2>2. Cur' = Cur
    BY DEF Cur
  <2>3. QED BY <1>2, <2>1, <2>2, QuietForSteps DEF AttemptInv
<1>8. Written'
  <2>1. WrittenBy(r)'
    BY <1>1, <1>2 DEF AttemptInv, Written, WrittenBy, Holds, Owned, RowOf, OwesNoLess
  <2>2. QED BY <1>2, <2>1, StaysWritten DEF AttemptInv
<1>9. Tries'
  <2>1. faults \in Int /\ faults' \in Int /\ \A j \in Rows : rows[j].tries \in Int
    BY DEF AttemptInv, Types, RowRec
  <2>2. \A j \in Rows : TriesOf(j)'
    BY <2>1 DEF AttemptInv, Tries, TriesOf
  <2>3. TriesLeftBy(r)'
    BY <1>1, <1>2, <2>1
    DEF AttemptInv, Tries, TriesLeftBy, Holds, Owned, RowOf, TakesNoMore
  <2>4. QED BY <1>2, <2>1, <2>2, <2>3, TriesStay DEF AttemptInv
<1>10. Readers'
  BY ReadersStay DEF AttemptInv
<1>11. QED BY <1>3, <1>4, <1>5, <1>6, <1>7, <1>8, <1>9, <1>10 DEF AttemptInv

(* The holder of the lock writes its row. *)
LEMMA WriteStep ==
  ASSUME AttemptInv, NEW r \in Runs, NEW s, runs' = [runs EXCEPT ![r] = s], Holds(r),
         BecomesIn(runs[r], s), s.state \notin Gone,
         NEW row \in RowRec, rows' = [rows EXCEPT ![runs[r].row] = row],
         row.state = "locked", row.lock = r,
         outcomes' \in [Rows -> Outcomes],
         runs[r].row # Job => outcomes'[Job] = outcomes[Job],
         owed' = owed, reader' = reader, pruned' = pruned,
         resolved' \in [Steps -> SUBSET Results], Kept', OnlyUnknown',
         results' = results, sets' = sets, faults' \in 0..MaxFaults, faults' >= faults,
         Clear(s.prog) => row.progress = s.prog.value,
         Taking(s) => row.tries >= 1 - faults',
         row.tries >= -faults', row.tries <= MaxAttempts
  PROVE  AttemptInv'
<1>1. s \in RunRec /\ RunFits(s) /\ ProgFits(s) /\ s.row = runs[r].row
  BY DEF BecomesIn
<1> DEFINE k == runs[r].row
<1>2. runs'[r] = s /\ Goes(r, s)
  BY DEF AttemptInv, Types, Goes
<1>3. /\ k \in Rows /\ rows[k].state = "locked" /\ rows[k].lock = r
      /\ rows'[k] = row /\ \A j \in Rows : j # k => rows'[j] = rows[j]
  BY DEF AttemptInv, Types, Holds, Owned, RowOf
<1>4. RunsFit' /\ Types'
  BY <1>1, RunsStayFit DEF AttemptInv, Types
<1>5. LocksWork'
  <2>1. \A j \in Rows : rows'[j].state = "locked" /\ rows'[j].lock = r =>
                          s.row = j /\ s.state \notin Gone
    BY <1>1, <1>3 DEF AttemptInv, LocksWork
  <2>2. QED BY <1>2, <2>1, LocksStayWorking DEF AttemptInv
<1>6. JobFirst' /\ NextRunReadsLast'
  BY <1>3 DEF AttemptInv, JobFirst, NextRunReadsLast, Rows, Job, Continuation
<1>7. rows[Job].state = "gone" <=> rows'[Job].state = "gone"
  BY <1>3 DEF Rows, Job, Continuation
<1>8. Continued'
  <2>1. Moving(s) => s.row = Job /\ rows'[Job].state = "gone"
    BY <1>1, <1>7 DEF AttemptInv, Continued, BecomesIn
  <2>2. QED BY <1>7, <2>1, StaysContinued DEF AttemptInv
<1>9. Written'
  <2>1. WrittenBy(r)'
    BY <1>1, <1>2, <1>3 DEF WrittenBy, RowOf
  <2>2. QED BY <1>2, <2>1, StaysWritten DEF AttemptInv
<1>10. Tries'
  <2>1. faults \in Int /\ faults' \in Int /\ \A j \in Rows : rows[j].tries \in Int
    BY DEF AttemptInv, Types, RowRec
  <2>2. \A j \in Rows : TriesOf(j)'
    BY <1>3, <2>1 DEF AttemptInv, Tries, TriesOf
  <2>3. TriesLeftBy(r)'
    BY <1>1, <1>2, <1>3 DEF TriesLeftBy, RowOf
  <2>4. QED BY <1>2, <2>1, <2>2, <2>3, TriesStay DEF AttemptInv
<1>11. Readers'
  <2>1. CASE k = Job
    BY <1>3, <2>1, ReadersOpen DEF AttemptInv
  <2>2. CASE k # Job
    BY <1>3, <2>2, ReadersStay DEF AttemptInv, Rows, Job
  <2>3. QED BY <2>1, <2>2
<1>12. QED BY <1>4, <1>5, <1>6, <1>8, <1>9, <1>10, <1>11 DEF AttemptInv

(* The holder of the lock writes its row, but no checkpoint. *)
LEMMA WriterStep ==
  ASSUME AttemptInv, NEW r \in Runs, NEW s, runs' = [runs EXCEPT ![r] = s], Holds(r),
         BecomesIn(runs[r], s), KnowsNoMore(runs[r], s), s.state \notin Gone,
         NEW row \in RowRec, rows' = [rows EXCEPT ![runs[r].row] = row],
         row.state = "locked", row.lock = r, row.steps = RowOf(r).steps,
         outcomes' \in [Rows -> Outcomes],
         runs[r].row # Job => outcomes'[Job] = outcomes[Job],
         owed' = owed, reader' = reader, pruned' = pruned, resolved' = resolved,
         results' = results, sets' = sets, faults' \in 0..MaxFaults, faults' >= faults,
         Clear(s.prog) => row.progress = s.prog.value,
         Taking(s) => row.tries >= 1 - faults',
         row.tries >= -faults', row.tries <= MaxAttempts
  PROVE  AttemptInv'
<1>1. s.row = runs[r].row /\ Goes(r, s)
  BY DEF AttemptInv, Types, Goes, BecomesIn
<1>2. runs[r].row \in Rows /\ rows[runs[r].row].state = "locked"
  BY DEF Holds, Owned, RowOf
<1>3. \A j \in Rows : rows'[j] = IF j = runs[r].row THEN row ELSE rows[j]
  BY <1>2 DEF AttemptInv, Types
<1>4. Cur' = Cur /\ \A j \in Rows : rows'[j].steps = rows[j].steps
  BY <1>2, <1>3 DEF Cur, RowOf, Rows, Job, Continuation
<1>5. Kept' /\ OnlyUnknown'
  BY <1>1, <1>4, QuietForSteps DEF AttemptInv
<1>6. QED BY <1>5, WriteStep DEF AttemptInv, Types

(* The holder writes a checkpoint, and may not be told. *)
Learns(r, x, v, s) ==
  \/ resolved' = resolved /\ s.cache = runs[r].cache
  \/ /\ resolved' = [resolved EXCEPT ![x] = @ \cup {v}] /\ ~Pending(s, x)
     /\ s.cache[x] \in {0, v}

OnlyLearns(r, x, s) ==
  \A y \in Steps : y # x => s.cache[y] = runs[r].cache[y]
                            /\ (Pending(s, y) => Pending(runs[r], y))

LEMMA CheckpointStep ==
  ASSUME AttemptInv, NEW r \in Runs, NEW s, runs' = [runs EXCEPT ![r] = s], Holds(r),
         BecomesIn(runs[r], s), OwesNoLess(runs[r], s), TakesNoMore(runs[r], s),
         s.state \notin Gone,
         NEW x \in Steps, NEW v \in Results, v # 0, runs[r].writing[x] = v,
         rows' = [rows EXCEPT ![runs[r].row] = Checkpointed(RowOf(r), x, v)],
         OnlyLearns(r, x, s), Learns(r, x, v, s),
         outcomes' = outcomes, owed' = owed, reader' = reader, pruned' = pruned,
         results' = results, sets' = sets, faults' \in 0..MaxFaults, faults' >= faults
  PROVE  AttemptInv'
<1> DEFINE k == runs[r].row
           old == rows[k]
<1>1. k \in Rows /\ old \in RowRec /\ old.state = "locked" /\ old.lock = r /\ RowOf(r) = old
  BY DEF AttemptInv, Types, Holds, Owned, RowOf
<1>2. old.steps \in [Steps -> Results] /\ old.tries \in Int
  BY <1>1 DEF RowRec
<1>3. PICK row : /\ row = [old EXCEPT !.steps = [old.steps EXCEPT ![x] = v]]
                 /\ rows' = [rows EXCEPT ![k] = row]
  BY <1>1 DEF Checkpointed
<1>4. /\ row \in RowRec /\ row.state = "locked" /\ row.lock = r /\ row.tries = old.tries
      /\ row.progress = old.progress /\ row.steps = [old.steps EXCEPT ![x] = v]
  BY <1>1, <1>2, <1>3 DEF RowRec
<1>5. rows'[k] = row /\ (\A j \in Rows : j # k => rows'[j] = rows[j])
      /\ runs'[r] = s /\ \A q \in Runs : q # r => runs'[q] = runs[q]
  BY <1>1, <1>3 DEF AttemptInv, Types
<1>6. Cur = k /\ Cur' = Cur
  BY <1>1, <1>4, <1>5, LockedIsCur DEF AttemptInv, Cur, Rows, Job, Continuation
<1>7. Pending(runs[r], x) /\ Unknown(x)
  BY DEF Pending, AttemptInv, OnlyUnknown
<1>8. /\ rows'[Cur'].steps[x] = v /\ rows[Cur].steps = old.steps
      /\ \A y \in Steps : y # x => rows'[Cur'].steps[y] = old.steps[y]
  BY <1>2, <1>4, <1>5, <1>6
<1>9. /\ resolved'[x] \subseteq {v}
      /\ \A y \in Steps : y # x => resolved'[y] = resolved[y]
      /\ resolved' \in [Steps -> SUBSET Results]
  BY <1>7 DEF AttemptInv, Types, Unknown, Learns
<1>10. \A q \in Runs : /\ runs'[q].cache[x] \in {0, v}
                       /\ \A y \in Steps : y # x => runs'[q].cache[y] = runs[q].cache[y]
  BY <1>5, <1>7 DEF Unknown, Learns, OnlyLearns
<1>11. Kept'
  <2>1. ASSUME NEW y \in Steps, y # x
        PROVE  /\ \A u \in resolved'[y] : u # 0 /\ u = rows'[Cur'].steps[y]
               /\ \A q \in Runs : runs'[q].cache[y] \in {0, rows'[Cur'].steps[y]}
    BY <1>8, <1>9, <1>10, <2>1 DEF AttemptInv, Kept
  <2>2. /\ \A u \in resolved'[x] : u # 0 /\ u = rows'[Cur'].steps[x]
        /\ \A q \in Runs : runs'[q].cache[x] \in {0, rows'[Cur'].steps[x]}
    BY <1>8, <1>9, <1>10
  <2>3. QED BY <2>1, <2>2 DEF Kept
<1>12. OnlyUnknown'
  <2> SUFFICES ASSUME NEW q \in Runs, NEW y \in Steps, Holds(q)', Pending(runs[q], y)'
               PROVE  Unknown(y)'
    BY DEF OnlyUnknown
  <2>1. q = r
    <3>1. Goes(r, s)
      BY <1>4, <1>5 DEF Goes
    <3>2. q # r => Holds(q)
      BY <3>1, OthersHold DEF AttemptInv
    <3>3. QED BY <3>2, OneHolds DEF AttemptInv
  <2>2. Pending(s, y)
    BY <1>5, <2>1
  <2>3. CASE y = x
    <3>1. resolved' = resolved /\ s.cache = runs[r].cache
      BY <2>2, <2>3 DEF Learns
    <3>2. QED BY <1>5, <1>7, <2>3, <3>1 DEF Unknown
  <2>4. CASE y # x
    <3>1. Unknown(y)
      BY <2>2, <2>4 DEF AttemptInv, OnlyUnknown, OnlyLearns
    <3>2. QED BY <1>9, <1>10, <2>4, <3>1 DEF Unknown
  <2>5. QED BY <2>3, <2>4
<1>13. Clear(s.prog) => row.progress = s.prog.value
  BY <1>1, <1>4 DEF AttemptInv, Written, WrittenBy, OwesNoLess
<1>14. Taking(s) => row.tries >= 1 - faults'
  <2>1. faults \in Int /\ faults' \in Int
    BY DEF AttemptInv, Types
  <2>2. QED BY <1>1, <1>2, <1>4, <2>1 DEF AttemptInv, Tries, TriesLeftBy, TakesNoMore
<1>15. row.tries >= -faults' /\ row.tries <= MaxAttempts
  <2>1. faults \in Int /\ faults' \in Int
    BY DEF AttemptInv, Types
  <2>2. QED BY <1>1, <1>2, <1>4, <2>1 DEF AttemptInv, Tries, TriesOf
<1>16. outcomes' \in [Rows -> Outcomes]
  BY DEF AttemptInv, Types
<1>17. rows' = [rows EXCEPT ![runs[r].row] = row] /\ outcomes'[Job] = outcomes[Job]
  BY <1>3
<1>18. row \in RowRec /\ row.state = "locked" /\ row.lock = r
  BY <1>4
<1>19. resolved' \in [Steps -> SUBSET Results]
  BY <1>9
<1> HIDE DEF k, old
<1>20. QED BY <1>11, <1>12, <1>13, <1>14, <1>15, <1>16, <1>17, <1>18, <1>19, WriteStep

(* The lock of a row goes, for the next run or with the row. *)
LEMMA UnlockStep ==
  ASSUME AttemptInv, NEW r \in Runs, NEW s, runs' = [runs EXCEPT ![r] = s], Holds(r),
         s \in RunRec, RunFits(s), ProgFits(s), ~Moving(s) \/ s = runs[r],
         KnowsNoMore(runs[r], s),
         NEW row \in RowRec, rows' = [rows EXCEPT ![runs[r].row] = row],
         \/ row = Unlocked(RowOf(r)) /\ outcomes' = outcomes
         \/ /\ row = [RowOf(r) EXCEPT !.state = "gone"] /\ owed' = owed
            /\ outcomes' = [outcomes EXCEPT ![runs[r].row] = "completed"],
         owed' \in [Rows -> Values],
         \A j \in Rows : j # runs[r].row => owed'[j] = owed[j],
         row.state = "queued" => owed'[runs[r].row] = RowOf(r).progress,
         reader' = reader, pruned' = pruned, resolved' = resolved,
         results' = results, sets' = sets, faults' \in 0..MaxFaults, faults' >= faults
  PROVE  AttemptInv'
<1> DEFINE k == runs[r].row
<1>1. /\ k \in Rows /\ rows[k].state = "locked" /\ rows[k].lock = r /\ RowOf(r) = rows[k]
      /\ rows[k] \in RowRec /\ rows'[k] = row /\ \A j \in Rows : j # k => rows'[j] = rows[j]
  BY DEF AttemptInv, Types, Holds, Owned, RowOf
<1>2. /\ row.state \in {"queued", "gone"} /\ row.steps = rows[k].steps
      /\ row.tries = rows[k].tries /\ row.progress = rows[k].progress
      /\ row.state = "queued" /\ row.tries >= MaxAttempts => row.spent
      /\ row.state = "gone" => outcomes' = [outcomes EXCEPT ![k] = "completed"]
      /\ row.state = "queued" => outcomes' = outcomes
  <2>1. CASE row = Unlocked(rows[k]) /\ outcomes' = outcomes
    <3>1. /\ row.state = "queued" /\ row.steps = rows[k].steps
          /\ row.tries = rows[k].tries /\ row.progress = rows[k].progress
          /\ row.spent = (rows[k].spent \/ rows[k].tries >= MaxAttempts)
      BY <1>1, <2>1 DEF RowRec, Unlocked
    <3>2. QED BY <2>1, <3>1
  <2>2. CASE row = [rows[k] EXCEPT !.state = "gone"]
             /\ outcomes' = [outcomes EXCEPT ![k] = "completed"]
    BY <1>1, <2>2 DEF RowRec
  <2>3. QED BY <1>1, <2>1, <2>2
<1>3. runs'[r] = s /\ Goes(r, s)
  BY <1>1, <1>2 DEF AttemptInv, Types, Goes
<1>4. outcomes' \in [Rows -> Outcomes] /\ (k # Job => outcomes'[Job] = outcomes[Job])
      /\ (k = Job /\ row.state = "gone" => outcomes'[Job] = "completed")
  BY <1>1, <1>2 DEF AttemptInv, Types, Outcomes, Rows, Job
<1>5. RunsFit' /\ Types'
  BY <1>4, RunsStayFit DEF AttemptInv, Types
<1>6. ~Holds(r)' /\ \A j \in Rows : rows'[j].state = "locked" => rows'[j].lock # r
  <2>1. \A j \in Rows : j # k => rows[j].state # "locked"
    BY <1>1 DEF AttemptInv, JobFirst, Rows, Job, Continuation
  <2>2. \A j \in Rows : rows'[j].state # "locked"
    BY <1>1, <1>2, <2>1
  <2>3. QED BY <2>2 DEF Holds, Owned, RowOf
<1>7. LocksWork'
  BY <1>3, <1>6, LocksStayWorking DEF AttemptInv
<1>8. JobFirst' /\ NextRunReadsLast'
  <2>1. JobFirst'
    BY <1>1, <1>2 DEF AttemptInv, JobFirst, Rows, Job, Continuation
  <2>2. NextRunReadsLast'
    BY <1>1, <1>2 DEF AttemptInv, NextRunReadsLast
  <2>3. QED BY <2>1, <2>2
<1>9. rows[Job].state = "gone" => rows'[Job].state = "gone"
  BY <1>1 DEF Rows, Job
<1>10. Continued'
  <2>1. Moving(s) => s.row = Job /\ rows'[Job].state = "gone"
    BY <1>9 DEF AttemptInv, Continued
  <2>2. QED BY <1>9, <2>1, StaysContinued DEF AttemptInv
<1>11. Kept' /\ OnlyUnknown'
  <2>1. \A j \in Rows : rows'[j].steps = rows[j].steps
    BY <1>1, <1>2
  <2>2. Cur' = Cur
    BY <1>1, <1>2 DEF Cur, Rows, Job, Continuation
  <2>3. QED BY <1>3, <1>6, <2>1, <2>2, QuietForSteps DEF AttemptInv
<1>12. Written'
  BY <1>3, <1>6, StaysWritten DEF AttemptInv, WrittenBy
<1>13. Tries'
  <2>1. faults \in Int /\ faults' \in Int /\ \A j \in Rows : rows[j].tries \in Int
    BY DEF AttemptInv, Types, RowRec
  <2>2. \A j \in Rows : TriesOf(j)'
    BY <1>1, <1>2, <2>1 DEF AttemptInv, Tries, TriesOf
  <2>3. TriesLeftBy(r)'
    BY <1>6 DEF TriesLeftBy
  <2>4. QED BY <1>3, <2>1, <2>2, <2>3, TriesStay DEF AttemptInv
<1>14. Readers'
  <2>1. CASE k = Job
    BY <1>1, <1>4, <2>1, ReadersOpen DEF AttemptInv
  <2>2. CASE k # Job
    BY <1>1, <1>4, <2>2, ReadersStay DEF AttemptInv, Rows, Job
  <2>3. QED BY <2>1, <2>2
<1>15. QED BY <1>5, <1>7, <1>8, <1>10, <1>11, <1>12, <1>13, <1>14 DEF AttemptInv

LEMMA QueuedTypes == Queued \in RowRec
<1>1. 0 \in 0..MaxRuns /\ 0 \in Int /\ 0 \in Values /\ NoSteps \in [Steps -> Results]
  BY AttemptAssumption DEF AttemptAssumption, Values, Results, NoSteps
<1>2. NoRow \in RowRec
  BY <1>1 DEF NoRow, RowRec
<1>3. QED BY <1>2 DEF Queued, RowRec

(* The job moves to its continuation, with its steps and its progress. *)
LEMMA MoveStep ==
  ASSUME AttemptInv, NEW r \in Runs, NEW s, runs' = [runs EXCEPT ![r] = s],
         runs[r] # NoRun, runs[r].row = Job, Drained(runs[r].prog), Continues(r),
         s \in RunRec, RunFits(s), ProgFits(s), s.row = Job, s.cache = runs[r].cache,
         reader' = reader, pruned' = pruned, resolved' = resolved,
         results' = results, sets' = sets, faults' \in 0..MaxFaults, faults' >= faults
  PROVE  AttemptInv'
<1> DEFINE run == runs[r]
           row == rows[Job]
           new == Carried(r)
<1>1. /\ row \in RowRec /\ RowOf(r) = row /\ row.state = "locked" /\ row.lock = r
      /\ rows[Continuation].state = "none" /\ run \in RunRec
  BY DEF AttemptInv, Types, JobFirst, Continues, Owned, RowOf, Rows, Job, Continuation
<1>2. /\ run.prog.value \in Values /\ run.prog.owes = run.prog.value /\ row.progress \in Values /\ row.steps \in [Steps -> Results]
      /\ row.tries \in Int
  BY <1>1 DEF RunRec, Progress, RowRec, AttemptInv, RunsFit, ProgFits
<1>3. /\ new.state = "queued" /\ new.lock = 0 /\ new.tries = 0 /\ new.steps = row.steps
      /\ new.progress = IF run.prog.value # 0 THEN run.prog.value ELSE row.progress
      /\ new.spent = FALSE
  BY <1>1, <1>2 DEF Carried, Queued, NoRow
<1>4. new \in RowRec
  <2>1. PICK p \in Values : p = IF run.prog.value # 0 THEN run.prog.value ELSE row.progress
    BY <1>2
  <2>2. new = [Queued EXCEPT !.steps = row.steps, !.progress = p]
    BY <1>1, <2>1 DEF Carried
  <2>3. QED BY <1>2, <2>2, QueuedTypes DEF RowRec
<1>5. new.progress = run.prog.value
  <2>1. CASE run.prog.value # 0
    BY <1>3, <2>1
  <2>2. CASE run.prog.value = 0
    <3>1. Clear(run.prog)
      BY <2>2 DEF AttemptInv, RunsFit, ProgFits
    <3>2. Holds(r)
      BY <1>1 DEF Holds, Owned, RowOf, Rows
    <3>3. QED BY <1>1, <1>3, <2>2, <3>1, <3>2 DEF AttemptInv, Written, WrittenBy
  <2>3. QED BY <2>1, <2>2
<1> HIDE DEF new
<1>6. /\ rows' = [rows EXCEPT ![Job].state = "gone", ![Continuation] = new]
      /\ outcomes' = [outcomes EXCEPT ![Job] = "continued"]
      /\ owed' = [owed EXCEPT ![Continuation] = run.prog.value]
  BY <1>2 DEF Continues, new
<1>7. /\ rows'[Job] = [row EXCEPT !.state = "gone"] /\ rows'[Continuation] = new
      /\ rows' \in [Rows -> RowRec] /\ Rows = {Job, Continuation} /\ Job # Continuation
  <2>1. Job \in Rows /\ Continuation \in Rows /\ Job # Continuation /\ rows \in [Rows -> RowRec]
    BY DEF Rows, Job, Continuation, AttemptInv, Types
  <2>2. [row EXCEPT !.state = "gone"] \in RowRec
    BY <1>1 DEF RowRec
  <2>3. rows' = [[rows EXCEPT ![Job] = [row EXCEPT !.state = "gone"]] EXCEPT ![Continuation] = new]
    BY <1>6, <2>1
  <2>4. QED BY <1>4, <2>1, <2>2, <2>3 DEF Rows
<1>8. /\ rows'[Job].state = "gone" /\ rows'[Job].tries = row.tries
      /\ rows'[Continuation].state = "queued"
  BY <1>1, <1>3, <1>7 DEF RowRec
<1>9. outcomes'[Job] = "continued" /\ outcomes' \in [Rows -> Outcomes]
      /\ owed'[Continuation] = run.prog.value /\ owed'[Job] = owed[Job]
      /\ owed' \in [Rows -> Values]
  BY <1>2, <1>6, <1>7 DEF AttemptInv, Types, Outcomes
<1>10. \A j \in Rows : rows'[j].state # "locked"
  BY <1>7, <1>8
<1>11. \A q \in Runs : ~Holds(q)'
  BY <1>10 DEF Holds, Owned, RowOf
<1>12. runs'[r] = s /\ Goes(r, s)
  BY <1>10 DEF AttemptInv, Types, Goes
<1>13. RunsFit' /\ Types'
  BY <1>7, <1>9, RunsStayFit DEF AttemptInv, Types
<1>14. LocksWork' /\ Written' /\ OnlyUnknown' /\ \A q \in Runs : TriesLeftBy(q)'
  BY <1>10, <1>11 DEF LocksWork, Written, WrittenBy, OnlyUnknown, TriesLeftBy
<1>15. JobFirst' /\ NextRunReadsLast'
  <2>1. JobFirst'
    BY <1>7, <1>8 DEF JobFirst
  <2>2. rows'[Continuation].progress = run.prog.value
    BY <1>5, <1>7
  <2>3. NextRunReadsLast'
    BY <1>7, <1>8, <1>9, <2>2 DEF NextRunReadsLast
  <2>4. QED BY <2>1, <2>3
<1>16. Continued'
  BY <1>8, StaysContinued DEF AttemptInv
<1>17. Kept'
  <2>1. Cur = Job /\ Cur' = Continuation
    BY <1>1, <1>8 DEF Cur
  <2>2. rows'[Cur'].steps = rows[Cur].steps
    BY <1>1, <1>3, <1>7, <2>1
  <2>3. \A q \in Runs : runs'[q].cache = runs[q].cache
    BY <1>12 DEF AttemptInv, Types
  <2>4. QED BY <2>2, <2>3 DEF AttemptInv, Kept
<1>18. \A j \in Rows : TriesOf(j)'
  <2>1. faults \in Int /\ faults' \in Int /\ faults' >= 0 /\ MaxAttempts \in Int /\ MaxAttempts > 0
    BY AttemptAssumption DEF AttemptInv, Types, AttemptAssumption
  <2>2. TriesOf(Job)'
    BY <1>2, <1>7, <1>8, <2>1 DEF AttemptInv, Tries, TriesOf
  <2>3. TriesOf(Continuation)'
    BY <1>3, <1>7, <2>1 DEF TriesOf
  <2>4. QED BY <1>7, <2>2, <2>3
<1>19. Readers'
  BY <1>1, <1>9, ReadersOpen DEF AttemptInv
<1>20. QED BY <1>13, <1>14, <1>15, <1>16, <1>17, <1>18, <1>19 DEF AttemptInv, Tries

(* A run starts from the row it has locked. *)
LEMMA FetchStep ==
  ASSUME AttemptInv, NEW r \in Runs, NEW j \in Rows, Fetch(j, r)
  PROVE  AttemptInv'
<1> DEFINE old == rows[j]
<1>1. /\ old \in RowRec /\ old.state = "queued" /\ ~old.spent /\ runs[r].state = "none"
      /\ old.tries \in Int /\ old.steps \in [Steps -> Results] /\ old.progress \in Values
      /\ runs[r] \in RunRec /\ faults \in Int
  BY DEF AttemptInv, Types, Fetch, RowRec
<1>2. PICK s : /\ s = [NoRun EXCEPT !.row = j, !.state = "handler", !.cache = rows[j].steps,
                         !.last = rows[j].tries + 1 >= MaxAttempts,
                         !.prog = [NewProgress(rows[j].progress) EXCEPT !.owes = owed[j]]]
               /\ runs' = [runs EXCEPT ![r] = s]
  BY DEF Fetch, Become
<1>3. PICK row : /\ row = [old EXCEPT !.state = "locked", !.lock = r, !.tries = @ + 1]
                 /\ rows' = [rows EXCEPT ![j] = row]
  BY DEF Fetch
<1>4. /\ row \in RowRec /\ row.state = "locked" /\ row.lock = r /\ row.tries = old.tries + 1
      /\ row.steps = old.steps /\ row.progress = old.progress
  <2>1. r \in 0..MaxRuns
    BY AttemptAssumption DEF Runs, AttemptAssumption
  <2>2. PICK n \in Int : n = old.tries + 1
    BY <1>1
  <2>3. row = [old EXCEPT !.state = "locked", !.lock = r, !.tries = n]
    BY <1>1, <1>3, <2>2
  <2>4. QED BY <1>1, <2>1, <2>2, <2>3 DEF RowRec
<1>5. PICK prog \in Progress :
        /\ prog = [NewProgress(old.progress) EXCEPT !.owes = owed[j]]
        /\ prog.value = old.progress /\ prog.owes = old.progress
        /\ ~prog.dirty /\ prog.writing = {}
  <2>1. PICK prog : prog = [NewProgress(old.progress) EXCEPT !.owes = owed[j]]
    OBVIOUS
  <2>2. owed[j] = old.progress
    BY <1>1 DEF AttemptInv, NextRunReadsLast
  <2>3. prog = [value |-> old.progress, dirty |-> FALSE, queued |-> FALSE, closed |-> FALSE,
                timer |-> FALSE, writing |-> {}, parsing |-> FALSE, flush |-> {},
                failure |-> FALSE, owes |-> old.progress, lost |-> "no"]
    BY <2>1, <2>2 DEF NewProgress
  <2>4. prog \in Progress
    BY <1>1, <2>3 DEF Progress
  <2>5. prog.value = old.progress /\ prog.owes = old.progress /\ ~prog.dirty /\ prog.writing = {}
    BY ONLY <2>3
  <2>6. QED BY <2>1, <2>4, <2>5
<1>6. s \in RunRec
  <2>1. PICK last \in BOOLEAN, p \in Progress :
          s = [NoRun EXCEPT !.row = j, !.state = "handler", !.cache = old.steps,
                            !.last = last, !.prog = p]
    <3>1. PICK last : last = (old.tries + 1 >= MaxAttempts)
      OBVIOUS
    <3>2. last \in BOOLEAN
      BY <3>1
    <3>3. s = [NoRun EXCEPT !.row = j, !.state = "handler", !.cache = old.steps,
                            !.last = last, !.prog = prog]
      BY ONLY <1>2, <1>5, <3>1
    <3>4. QED BY <1>5, <3>2, <3>3
  <2>2. j \in 0..2
    BY DEF Rows, Job, Continuation
  <2>3. QED BY <1>1, <2>1, <2>2, NoRunTypes DEF RunRec, States
<1>7. /\ s.row = j /\ s.state = "handler" /\ s.cache = old.steps /\ s.how = "none"
      /\ s.chain = "free" /\ s.ending = "none" /\ s.running = {} /\ s.writing = NoSteps
      /\ s.prog = prog
  BY <1>2, <1>5 DEF NoRun
<1>8. RunFits(s) /\ ProgFits(s) /\ ~Moving(s) /\ s.prog.value = old.progress
  BY <1>5, <1>7 DEF RunFits, ProgFits, Accounted, Moving, Clear, NoSteps
<1>9. /\ runs'[r] = s /\ rows'[j] = row
      /\ \A i \in Rows : i # j => rows'[i] = rows[i] /\ rows[i].state # "locked"
      /\ \A q \in Runs : q # r => runs'[q] = runs[q]
  <2>1. rows \in [Rows -> RowRec] /\ runs \in [Runs -> RunRec]
    BY DEF AttemptInv, Types
  <2>2. \A i \in Rows : i # j => rows[i].state # "locked"
    BY <1>1 DEF AttemptInv, JobFirst, Rows, Job, Continuation
  <2>3. QED BY <1>2, <1>3, <2>1, <2>2
<1>10. Goes(r, s)
  BY <1>2, <1>4, <1>9 DEF Goes
<1>11. RunsFit' /\ Types'
  <2>1. rows' \in [Rows -> RowRec]
    BY <1>3, <1>4 DEF AttemptInv, Types
  <2>2. QED BY <1>2, <1>6, <1>8, <2>1, RunsStayFit DEF AttemptInv, Types, Fetch, history
<1>12. LocksWork'
  <2>1. \A i \in Rows : rows'[i].state = "locked" /\ rows'[i].lock = r =>
                          s.row = i /\ s.state \notin Gone
    BY <1>7, <1>9 DEF Gone
  <2>2. QED BY <1>10, <2>1, LocksStayWorking DEF AttemptInv
<1>13. owed' = owed /\ resolved' = resolved /\ reader' = reader /\ pruned' = pruned
       /\ outcomes' = outcomes /\ faults' = faults
  BY DEF Fetch, history
<1>14. JobFirst' /\ NextRunReadsLast'
  BY <1>1, <1>4, <1>9, <1>13 DEF AttemptInv, JobFirst, NextRunReadsLast, Rows, Job, Continuation
<1>15. Continued'
  <2>1. rows[Job].state = "gone" => rows'[Job].state = "gone"
    BY <1>1, <1>9 DEF Rows, Job
  <2>2. QED BY <1>2, <1>8, <2>1, StaysContinued DEF AttemptInv
<1>16. Cur = j /\ Cur' = Cur
  BY <1>1, <1>4, <1>9, LockedIsCur DEF AttemptInv, Cur, Rows, Job, Continuation
<1>17. Kept'
  <2>1. rows'[Cur'].steps = old.steps /\ rows[Cur].steps = old.steps
    BY <1>4, <1>9, <1>16
  <2>2. \A q \in Runs, x \in Steps : runs'[q].cache[x] \in {0, old.steps[x]}
    BY <1>7, <1>9, <2>1 DEF AttemptInv, Kept
  <2>3. QED BY <1>13, <2>1, <2>2 DEF AttemptInv, Kept
<1>18. OnlyUnknown'
  <2> SUFFICES ASSUME NEW q \in Runs, NEW x \in Steps, Holds(q)', Pending(runs[q], x)'
               PROVE  Unknown(x)'
    BY DEF OnlyUnknown
  <2>1. q = r
    BY <1>4, <1>9 DEF Holds, Owned, RowOf
  <2>2. old.steps[x] = 0
    BY <1>7, <1>9, <2>1 DEF Pending, NoSteps
  <2>3. rows'[Cur'].steps = old.steps
    BY <1>4, <1>9, <1>16
  <2>4. QED BY <1>17, <2>2, <2>3 DEF Kept, Unknown
<1>19. Written'
  <2>1. WrittenBy(r)'
    BY <1>4, <1>7, <1>8, <1>9 DEF WrittenBy, RowOf
  <2>2. QED BY <1>10, <2>1, StaysWritten DEF AttemptInv
<1>20. Tries'
  <2>1. MaxAttempts \in Int /\ \A i \in Rows : rows[i].tries \in Int
    BY AttemptAssumption DEF AttemptAssumption, AttemptInv, Types, RowRec
  <2>2. old.tries >= -faults /\ old.tries < MaxAttempts
    BY <1>1, <2>1 DEF AttemptInv, Tries, TriesOf
  <2>3. \A i \in Rows : TriesOf(i)'
    BY <1>1, <1>4, <1>9, <1>13, <2>1, <2>2 DEF AttemptInv, Tries, TriesOf
  <2>4. TriesLeftBy(r)'
    BY <1>1, <1>4, <1>7, <1>9, <1>13, <2>2 DEF TriesLeftBy, RowOf
  <2>5. QED BY <1>1, <1>10, <1>13, <2>3, <2>4, TriesStay DEF AttemptInv
<1>21. Readers'
  <2>1. CASE j = Job
    BY <1>1, <1>4, <1>9, <1>13, <2>1, ReadersOpen DEF AttemptInv
  <2>2. CASE j # Job
    BY <1>9, <1>13, <2>2, ReadersStay DEF AttemptInv, Rows, Job
  <2>3. QED BY <2>1, <2>2
<1>22. QED BY <1>11, <1>12, <1>14, <1>15, <1>17, <1>18, <1>19, <1>20, <1>21 DEF AttemptInv

(* A cached result is the one that every call resolved to. *)
LEMMA ResolveStep ==
  ASSUME AttemptInv, NEW r \in Runs, NEW x \in Steps, runs[r].cache[x] # 0,
         resolved' = [resolved EXCEPT ![x] = @ \cup {runs[r].cache[x]}],
         runs' = runs, rows' = rows, outcomes' = outcomes, owed' = owed, reader' = reader,
         pruned' = pruned, results' = results, sets' = sets, faults' = faults
  PROVE  AttemptInv'
<1> DEFINE v == runs[r].cache[x]
<1>1. v \in Results /\ v # 0 /\ v = rows[Cur].steps[x] /\ ~Unknown(x)
  BY DEF AttemptInv, Types, RunRec, Kept, Unknown
<1>2. resolved' \in [Steps -> SUBSET Results] /\ resolved'[x] = resolved[x] \cup {v}
      /\ \A y \in Steps : y # x => resolved'[y] = resolved[y]
  BY <1>1 DEF AttemptInv, Types
<1> HIDE DEF v
<1>3. Types'
  BY <1>2 DEF AttemptInv, Types
<1>4. /\ LocksWork' /\ JobFirst' /\ RunsFit' /\ Continued' /\ Written' /\ NextRunReadsLast'
      /\ Tries' /\ Readers' /\ Cur' = Cur
  BY DEF AttemptInv, LocksWork, JobFirst, RunsFit, Continued, Written, WrittenBy, Holds, Owned,
     RowOf, NextRunReadsLast, Tries, TriesOf, TriesLeftBy, Readers, Live, Cur
<1>5. Kept'
  BY <1>1, <1>2, <1>4 DEF AttemptInv, Kept
<1>6. OnlyUnknown'
  <2> SUFFICES ASSUME NEW q \in Runs, NEW y \in Steps, Holds(q), Pending(runs[q], y)
               PROVE  Unknown(y)'
    BY DEF OnlyUnknown, Holds, Owned, RowOf
  <2>1. Unknown(y) /\ y # x
    BY <1>1 DEF AttemptInv, OnlyUnknown
  <2>2. QED BY <1>2, <2>1 DEF Unknown
<1>7. QED BY <1>3, <1>4, <1>5, <1>6 DEF AttemptInv

(* Only the reader or what it reads changes. *)
LEMMA ReadStep ==
  ASSUME AttemptInv, runs' = runs, rows' = rows, owed' = owed, resolved' = resolved,
         results' = results, sets' = sets, faults' = faults,
         reader' \in [missed : BOOLEAN, told : Answers],
         outcomes' \in [Rows -> Outcomes], Readers'
  PROVE  AttemptInv'
<1>1. Types'
  BY DEF AttemptInv, Types
<1>2. /\ LocksWork' /\ JobFirst' /\ RunsFit' /\ Continued' /\ Written' /\ NextRunReadsLast'
      /\ Tries' /\ Cur' = Cur
  BY DEF AttemptInv, LocksWork, JobFirst, RunsFit, Continued, Written, WrittenBy, Holds, Owned,
     RowOf, NextRunReadsLast, Tries, TriesOf, TriesLeftBy, Cur
<1>3. Kept' /\ OnlyUnknown'
  BY <1>2 DEF AttemptInv, Kept, OnlyUnknown, Unknown, Holds, Owned, RowOf
<1>4. QED BY <1>1, <1>2, <1>3 DEF AttemptInv

LEMMA PruneStep ==
  ASSUME AttemptInv, Prune PROVE AttemptInv'
<1>1. outcomes' \in [Rows -> Outcomes] /\ outcomes'[Job] = "none"
  BY DEF AttemptInv, Types, Prune, Outcomes, Rows, Job
<1>2. Readers'
  BY <1>1 DEF AttemptInv, Readers, Prune, Live
<1>3. reader' \in [missed : BOOLEAN, told : Answers]
  BY DEF AttemptInv, Types, Prune
<1>4. QED BY <1>1, <1>2, <1>3, ReadStep DEF Prune

(* What a reader has been told stays true, and once it is an end it is     *)
(* what the reader is told again.                                          *)
TellsTruth ==
  /\ reader.told \in Ends /\ reader'.told # reader.told => reader'.told = "not_found"
  /\ reader'.told = "not_found" => pruned /\ ~Live'

LEMMA QueryStep ==
  ASSUME AttemptInv, Query PROVE AttemptInv' /\ TellsTruth
<1>1. /\ rows[Job] \in RowRec /\ outcomes[Job] \in Outcomes
      /\ reader.missed \in BOOLEAN /\ reader.told \in Answers
  BY DEF AttemptInv, Types, Rows, Job
<1>2. UNCHANGED <<rows, outcomes, runs, history, faults>>
  BY DEF Query
<1>3. CASE ~reader.missed /\ Live /\ Tells(LiveState(rows[Job]))
  <2>1. rows[Job].state \in {"queued", "locked"}
    BY <1>1, <1>3 DEF AttemptInv, JobFirst, Live, RowRec
  <2>2. LiveState(rows[Job]) \in {"failed", "open"}
    BY DEF LiveState
  <2>3. reader.told = "failed" => LiveState(rows[Job]) = "failed"
    BY <1>1 DEF AttemptInv, Readers, LiveState
  <2>4. LiveState(rows[Job]) = "failed" => rows[Job].state = "queued" /\ rows[Job].spent
    BY <2>1 DEF AttemptInv, Tries, TriesOf, LiveState, Rows
  <2>5. reader' = [missed |-> FALSE, told |-> LiveState(rows[Job])]
    BY <1>3 DEF Tells
  <2>6. Readers' /\ TellsTruth
    BY <1>2, <1>3, <2>2, <2>3, <2>4, <2>5
    DEF AttemptInv, Readers, Live, TellsTruth, Ends, history
  <2>7. reader' \in [missed : BOOLEAN, told : Answers]
    BY <2>2, <2>5 DEF Answers
  <2>8. QED BY <1>2, <2>6, <2>7, ReadStep DEF history, AttemptInv, Types
<1>4. CASE reader.missed /\ Recorded /\ Tells(outcomes[Job])
  <2>1. ~Live /\ outcomes[Job] \in {"completed", "continued"}
    BY <1>4 DEF AttemptInv, Readers, Recorded
  <2>2. reader' = [missed |-> FALSE, told |-> outcomes[Job]]
    BY <1>4 DEF Tells
  <2>3. Readers' /\ TellsTruth
    BY <1>2, <2>1, <2>2 DEF AttemptInv, Readers, Live, TellsTruth, Ends, history
  <2>4. reader' \in [missed : BOOLEAN, told : Answers]
    BY <2>1, <2>2 DEF Answers
  <2>5. QED BY <1>2, <2>3, <2>4, ReadStep DEF history, AttemptInv, Types
<1>5. CASE reader.missed /\ ~Recorded /\ Tells("not_found")
  <2>1. ~Live /\ pruned
    BY <1>5 DEF AttemptInv, Readers, Recorded
  <2>2. reader' = [missed |-> FALSE, told |-> "not_found"]
    BY <1>5 DEF Tells
  <2>3. Readers' /\ TellsTruth
    BY <1>2, <2>1, <2>2 DEF AttemptInv, Readers, Live, TellsTruth, Ends, history
  <2>4. reader' \in [missed : BOOLEAN, told : Answers]
    BY <2>2 DEF Answers
  <2>5. QED BY <1>2, <2>3, <2>4, ReadStep DEF history, AttemptInv, Types
<1>6. CASE ~reader.missed /\ ~Live /\ reader' = [reader EXCEPT !.missed = TRUE]
  <2>1. reader' \in [missed : BOOLEAN, told : Answers] /\ reader'.told = reader.told
    BY <1>6 DEF AttemptInv, Types
  <2>2. Readers' /\ TellsTruth
    BY <1>2, <1>6, <2>1 DEF AttemptInv, Readers, Live, TellsTruth, Ends, history
  <2>3. QED BY <1>2, <2>1, <2>2, ReadStep DEF history, AttemptInv, Types
<1>7. QED BY <1>1, <1>3, <1>4, <1>5, <1>6 DEF Query, LiveFirst

---------------------------------------------------------------------------
(* The actions: the calls, the chain of writes, the ends of a run. *)

LEMMA FollowStep ==
  ASSUME AttemptInv, NEW r \in Runs, NEW s, runs' = [runs EXCEPT ![r] = s],
         Follows(runs[r], s), rows' = rows, outcomes' = outcomes, owed' = owed,
         reader' = reader, pruned' = pruned, resolved' = resolved,
         results' \in [Steps -> Results], sets' \in Values,
         faults' \in 0..MaxFaults, faults' >= faults
  PROVE  AttemptInv'
<1>1. Holds(r) => runs[r].state \notin Gone
  BY DEF AttemptInv, LocksWork, Holds, Owned, RowOf
<1>2. QED BY <1>1, SteadyStep DEF Follows

(* Nothing but the run changes, not even the history. *)
LEMMA PlainStep ==
  ASSUME AttemptInv, NEW r \in Runs, NEW s, runs' = [runs EXCEPT ![r] = s],
         Follows(runs[r], s), UNCHANGED <<rows, outcomes, reader, history, faults>>
  PROVE  AttemptInv'
<1>1. /\ results' \in [Steps -> Results] /\ sets' \in Values
      /\ faults' \in 0..MaxFaults /\ faults' >= faults
  BY DEF AttemptInv, Types, history
<1>2. /\ rows' = rows /\ outcomes' = outcomes /\ owed' = owed /\ reader' = reader
      /\ pruned' = pruned /\ resolved' = resolved
  BY DEF history
<1>3. QED BY <1>1, <1>2, FollowStep

LEMMA RunTypes ==
  ASSUME AttemptInv, NEW r \in Runs, runs[r] # NoRun
  PROVE  /\ runs[r] \in RunRec /\ runs[r].row \in Rows /\ runs[r].prog \in Progress
         /\ RowOf(r) \in RowRec /\ RunFits(runs[r]) /\ ProgFits(runs[r])
         /\ runs[r].writing \in [Steps -> Results] /\ runs[r].running \subseteq Steps
BY RunIsThere DEF AttemptInv, RunRec, RunsFit

LEMMA ProgFollows ==
  ASSUME NEW run \in RunRec, run.row \in Rows, RunFits(run), ProgFits(run),
         NEW p \in Progress, NEW s, s = [run EXCEPT !.prog = p],
         ~Clear(p) => p.value # 0, ~p.dirty => p.writing \subseteq {p.value},
         run.state \in {"closing", "settling", "leaving"} => p.closed /\ ~p.timer,
         run.state \in {"settling", "leaving"} => Drained(p),
         p.owes = p.value, Accounted(run.state, run.how, p),
         Clear(p) => Clear(run.prog) /\ p.value = run.prog.value
  PROVE  Follows(run, s)
<1>1. s \in RunRec /\ s.prog = p
  BY DEF RunRec
<1>2. /\ s.row = run.row /\ s.state = run.state /\ s.how = run.how /\ s.chain = run.chain
      /\ s.ending = run.ending /\ s.cache = run.cache /\ s.running = run.running
      /\ s.writing = run.writing
  BY DEF RunRec
<1>3. RunFits(s) /\ ProgFits(s)
  BY <1>1, <1>2 DEF RunFits, ProgFits, Working
<1>4. run.cache \in [Steps -> Results]
  BY DEF RunRec
<1>5. QED
  BY <1>1, <1>2, <1>3, <1>4
  DEF Follows, BecomesIn, Moving, KnowsNoMore, Pending, OwesNoLess, TakesNoMore, Taking, Working

(* rethrow() touches nothing but the failure. *)
LEMMA ToldTypes ==
  ASSUME NEW p \in Progress, NEW t, t = Told(p) \/ t = Swallowed(p)
  PROVE  /\ t \in Progress /\ t.value = p.value /\ t.dirty = p.dirty /\ t.timer = p.timer
         /\ t.writing = p.writing /\ t.closed = p.closed /\ t.queued = p.queued
         /\ t.owes = p.owes /\ (t = Swallowed(p) => t.lost = p.lost)
         /\ t = Told(p) => t.lost = IF p.failure /\ p.lost = "silent" THEN "told" ELSE p.lost
<1>1. CASE t = Swallowed(p)
  <2>1. /\ t \in Progress /\ t.value = p.value /\ t.dirty = p.dirty /\ t.timer = p.timer
        /\ t.writing = p.writing /\ t.closed = p.closed /\ t.queued = p.queued
        /\ t.owes = p.owes /\ t.lost = p.lost
    BY <1>1 DEF Swallowed, Progress
  <2>2. t = Told(p) => p.lost = IF p.failure /\ p.lost = "silent" THEN "told" ELSE p.lost
    BY <2>1 DEF Told, Progress
  <2>3. QED BY <2>1, <2>2
<1>2. CASE t = Told(p)
  <2>1. PICK l \in {"no", "silent", "told"} :
          l = IF p.failure /\ p.lost = "silent" THEN "told" ELSE p.lost
    BY DEF Progress
  <2>2. t = [p EXCEPT !.failure = FALSE, !.lost = l]
    BY <1>2, <2>1 DEF Told, Progress
  <2>3. /\ t \in Progress /\ t.value = p.value /\ t.dirty = p.dirty /\ t.timer = p.timer
        /\ t.writing = p.writing /\ t.closed = p.closed /\ t.queued = p.queued
        /\ t.owes = p.owes /\ t.lost = l
    BY <2>2 DEF Progress
  <2>4. t = Swallowed(p) => t.lost = p.lost
    BY DEF Swallowed, Progress
  <2>5. QED BY <2>1, <2>3, <2>4
<1>3. QED BY <1>1, <1>2

LEMMA CallSetStep ==
  ASSUME AttemptInv, NEW r \in Runs, CallSet(r) PROVE AttemptInv'
<1>1. runs[r] # NoRun
  BY DEF CallSet, MayStart, NoRun, Gone
<1> DEFINE old == runs[r].prog
<1>2. PICK p : /\ p = Told(old) \/ p = [old EXCEPT !.parsing = TRUE]
               /\ runs' = [runs EXCEPT ![r] = [runs[r] EXCEPT !.prog = p]]
  BY DEF CallSet, Prog, Become
<1>3. /\ p \in Progress /\ p.value = old.value /\ p.dirty = old.dirty /\ p.timer = old.timer
      /\ p.writing = old.writing /\ p.closed = old.closed /\ p.queued = old.queued
      /\ p.owes = old.owes /\ runs[r].state \notin {"closing", "settling", "leaving"}
  <2>1. old \in Progress /\ runs[r].state \notin {"closing", "settling", "leaving"}
    BY <1>1, RunTypes DEF CallSet, ProgFits
  <2>2. CASE p = Told(old)
    BY <2>1, <2>2, ToldTypes
  <2>3. CASE p = [old EXCEPT !.parsing = TRUE]
    BY <2>1, <2>3 DEF Progress
  <2>4. QED BY <1>2, <2>1, <2>2, <2>3
<1>4. PICK s : s = [runs[r] EXCEPT !.prog = p]
  OBVIOUS
<1>5. Follows(runs[r], s)
  BY <1>1, <1>3, <1>4, RunTypes, ProgFollows DEF ProgFits, Accounted, Clear, Drained
<1>6. runs' = [runs EXCEPT ![r] = s] /\ UNCHANGED <<rows, outcomes, reader, history, faults>>
  BY <1>2, <1>4, <1>5 DEF CallSet
<1>7. QED BY <1>5, <1>6, PlainStep

LEMMA ParsedStep ==
  ASSUME AttemptInv, NEW r \in Runs, Parsed(r) PROVE AttemptInv'
<1>1. runs[r] # NoRun
  BY DEF Parsed, NoRun, NewProgress
<1> DEFINE old == runs[r].prog
<1>2. old \in Progress /\ sets \in Nat /\ sets' \in Values /\ MaxSets \in Nat
  BY <1>1, RunTypes, AttemptAssumption
  DEF AttemptInv, Types, Values, Parsed, Prog, AttemptAssumption
<1>3. PICK p : /\ \/ old.closed /\ p = [old EXCEPT !.parsing = FALSE]
                  \/ /\ ~old.closed /\ sets < MaxSets
                     /\ \/ p = [[old EXCEPT !.parsing = FALSE, !.value = sets + 1, !.dirty = TRUE,
                                      !.owes = sets + 1]
                                  EXCEPT !.timer = TRUE]
                        \/ p = Wrote([old EXCEPT !.parsing = FALSE, !.value = sets + 1,
                                                 !.dirty = TRUE, !.owes = sets + 1])
               /\ runs' = [runs EXCEPT ![r] = [runs[r] EXCEPT !.prog = p]]
  BY DEF Parsed, Prog, Become
<1>4. PICK s : s = [runs[r] EXCEPT !.prog = p]
  OBVIOUS
<1>5. ASSUME old.closed /\ p = [old EXCEPT !.parsing = FALSE] PROVE Follows(runs[r], s)
  <2>1. /\ p \in Progress /\ p.value = old.value /\ p.dirty = old.dirty /\ p.timer = old.timer
        /\ p.writing = old.writing /\ p.closed = old.closed /\ p.queued = old.queued
        /\ p.owes = old.owes /\ p.lost = old.lost /\ p.failure = old.failure
    BY <1>2, <1>5 DEF Progress
  <2>2. Accounted(runs[r].state, runs[r].how, p)
    BY <1>1, <2>1, RunTypes DEF ProgFits, Accounted
  <2>3. QED BY <1>1, <1>4, <2>1, <2>2, RunTypes, ProgFollows DEF ProgFits, Clear, Drained
<1>6. ASSUME ~old.closed, sets < MaxSets,
             \/ p = [[old EXCEPT !.parsing = FALSE, !.value = sets + 1, !.dirty = TRUE,
                                      !.owes = sets + 1]
                       EXCEPT !.timer = TRUE]
             \/ p = Wrote([old EXCEPT !.parsing = FALSE, !.value = sets + 1, !.dirty = TRUE,
                                      !.owes = sets + 1])
      PROVE  Follows(runs[r], s)
  <2>1. PICK v \in Values : v = sets + 1 /\ v # 0
    BY <1>2, <1>6 DEF Values
  <2>2. PICK set : set = [old EXCEPT !.parsing = FALSE, !.value = v, !.dirty = TRUE, !.owes = v]
    OBVIOUS
  <2>3. set \in Progress /\ set.value = v /\ set.dirty /\ set.owes = v
    BY <1>2, <2>1, <2>2 DEF Progress
  <2>4. p = [set EXCEPT !.timer = TRUE] \/ p = Wrote(set)
    BY <1>6, <2>1, <2>2
  <2>5. p \in Progress /\ p.value = v /\ p.dirty /\ p.owes = v
    BY <2>3, <2>4 DEF Wrote, Progress
  <2>6. runs[r].state \notin {"closing", "settling", "leaving"}
    BY <1>1, <1>6, RunTypes DEF ProgFits
  <2>7. Accounted(runs[r].state, runs[r].how, p)
    BY <2>6 DEF Accounted
  <2>8. QED BY <1>1, <1>4, <2>1, <2>5, <2>6, <2>7, RunTypes, ProgFollows DEF Clear
<1>7. Follows(runs[r], s)
  BY <1>3, <1>5, <1>6
<1>8. /\ results' \in [Steps -> Results] /\ faults' \in 0..MaxFaults /\ faults' >= faults
      /\ rows' = rows /\ outcomes' = outcomes /\ owed' = owed /\ reader' = reader
      /\ pruned' = pruned /\ resolved' = resolved
  BY DEF Parsed, AttemptInv, Types
<1>9. runs' = [runs EXCEPT ![r] = s]
  BY <1>3, <1>4
<1>10. QED BY <1>2, <1>7, <1>8, <1>9, FollowStep

(* A write is asked for before close(). *)
LEMMA AskStep ==
  ASSUME AttemptInv, NEW r \in Runs, runs[r] # NoRun,
         runs[r].state \notin {"closing", "settling", "leaving"},
         NEW p \in Progress, p.value = runs[r].prog.value, p.dirty = runs[r].prog.dirty,
         p.writing = runs[r].prog.writing, p.owes = runs[r].prog.owes,
         Prog(r, p), UNCHANGED <<rows, outcomes, reader, history, faults>>
  PROVE  AttemptInv'
<1>1. PICK s : s = [runs[r] EXCEPT !.prog = p]
  OBVIOUS
<1>2. Follows(runs[r], s)
  BY <1>1, RunTypes, ProgFollows DEF ProgFits, Accounted, Clear
<1>3. runs' = [runs EXCEPT ![r] = s]
  BY <1>1 DEF Prog, Become
<1>4. QED BY <1>2, <1>3, PlainStep

LEMMA WroteTypes ==
  ASSUME NEW p \in Progress, NEW w, w = Wrote(p)
  PROVE  /\ w \in Progress /\ w.value = p.value /\ w.dirty = p.dirty /\ ~w.timer
         /\ w.writing = p.writing /\ w.closed = p.closed /\ w.owes = p.owes
         /\ w.dirty => w.queued
BY DEF Wrote, Progress

LEMMA TimerFiresStep ==
  ASSUME AttemptInv, NEW r \in Runs, TimerFires(r) PROVE AttemptInv'
<1>1. runs[r] # NoRun
  BY DEF TimerFires, NoRun, NewProgress
<1>2. runs[r].state \notin {"closing", "settling", "leaving"} /\ runs[r].prog \in Progress
  BY <1>1, RunTypes DEF ProgFits, TimerFires
<1>3. PICK p : p = Wrote(runs[r].prog)
  OBVIOUS
<1>4. QED BY <1>1, <1>2, <1>3, WroteTypes, AskStep DEF TimerFires

LEMMA FlushStep ==
  ASSUME AttemptInv, NEW r \in Runs, Flush(r) PROVE AttemptInv'
<1>1. runs[r] # NoRun
  BY DEF Flush, MayStart, NoRun, Gone
<1> DEFINE old == runs[r].prog
<1>2. PICK w : w = Wrote(old)
  OBVIOUS
<1>3. old \in Progress /\ w \in Progress /\ w.value = old.value /\ w.dirty = old.dirty
      /\ w.writing = old.writing /\ w.owes = old.owes /\ w.closed = old.closed
  BY <1>1, <1>2, RunTypes, WroteTypes
<1>4. runs[r].state \notin {"closing", "settling", "leaving"}
  BY <1>1, <1>2, <1>3, RunTypes DEF ProgFits, Flush
<1>5. PICK f : f = w.flush \cup {IF w.queued THEN "link" ELSE "write"}
  OBVIOUS
<1>6. f \in SUBSET {"link", "write"}
  BY <1>3, <1>5 DEF Progress
<1>7. PICK p : Prog(r, p) /\ (p = Told(w) \/ p = [w EXCEPT !.flush = f])
  BY <1>2, <1>5 DEF Flush
<1>8. p \in Progress /\ p.value = old.value /\ p.dirty = old.dirty
      /\ p.writing = old.writing /\ p.owes = old.owes
  <2>1. CASE p = Told(w)
    BY <1>3, <2>1, ToldTypes
  <2>2. CASE p = [w EXCEPT !.flush = f]
    BY <1>3, <1>6, <2>2 DEF Progress
  <2>3. QED BY <1>7, <2>1, <2>2
<1>9. UNCHANGED <<rows, outcomes, reader, history, faults>>
  BY DEF Flush
<1>10. QED BY <1>1, <1>4, <1>7, <1>8, <1>9, AskStep

LEMMA LinkStartsStep ==
  ASSUME AttemptInv, NEW r \in Runs, LinkStarts(r) PROVE AttemptInv'
<1>1. runs[r] # NoRun
  BY DEF LinkStarts, NoRun, NewProgress
<1> DEFINE old == runs[r].prog
<1>2. old \in Progress /\ old.value \in Values /\ old.flush \in SUBSET {"link", "write"}
  BY <1>1, RunTypes DEF Progress
<1>3. PICK w \in SUBSET Values : w = IF old.dirty THEN {old.value} ELSE {}
  BY <1>2
<1>4. PICK f \in SUBSET {"link", "write"} :
        f = IF old.dirty /\ "link" \in old.flush THEN {"write"} ELSE {}
  BY <1>2
<1>5. PICK link : link = [old EXCEPT !.queued = FALSE, !.dirty = FALSE, !.writing = w, !.flush = f]
  OBVIOUS
<1>6. /\ link \in Progress /\ link.value = old.value /\ ~link.dirty /\ link.timer = old.timer
      /\ link.writing = w /\ link.closed = old.closed /\ link.owes = old.owes
      /\ link.lost = old.lost /\ link.failure = old.failure
  BY <1>2, <1>5 DEF Progress
<1>7. PICK p : /\ p = link \/ p = Told(link)
               /\ runs' = [runs EXCEPT ![r] = [runs[r] EXCEPT !.prog = p]]
  <2>1. link = [old EXCEPT !.queued = FALSE, !.dirty = FALSE,
                           !.writing = IF old.dirty THEN {old.value} ELSE {},
                           !.flush = IF old.dirty /\ "link" \in @ THEN {"write"} ELSE {}]
    BY <1>2, <1>3, <1>4, <1>5 DEF Progress
  <2>2. QED BY <2>1 DEF LinkStarts, Prog, Become
<1>8. runs[r].state \notin {"settling", "leaving"}
  BY <1>1, RunTypes DEF ProgFits, LinkStarts, Drained
<1>9. /\ p \in Progress /\ p.value = old.value /\ ~p.dirty /\ p.timer = old.timer
      /\ p.writing = w /\ p.closed = old.closed /\ p.owes = old.owes
      /\ Accounted(runs[r].state, runs[r].how, p)
  <2>1. runs[r].state = "closing" /\ old.lost = "silent" => old.failure
    BY <1>1, RunTypes DEF ProgFits, Accounted
  <2>2. CASE p = link
    BY <1>6, <1>8, <2>1, <2>2 DEF Accounted
  <2>3. CASE p = Told(link)
    <3>1. /\ p \in Progress /\ p.value = old.value /\ ~p.dirty /\ p.timer = old.timer
          /\ p.writing = w /\ p.closed = old.closed /\ p.owes = old.owes
          /\ p.lost = IF link.failure /\ link.lost = "silent" THEN "told" ELSE link.lost
      BY <1>6, <2>3, ToldTypes
    <3>2. Accounted(runs[r].state, runs[r].how, p)
      BY <1>6, <1>8, <2>1, <3>1 DEF Accounted
    <3>3. QED BY <3>1, <3>2
  <2>4. QED BY <1>7, <2>2, <2>3
<1>10. PICK s : s = [runs[r] EXCEPT !.prog = p]
  OBVIOUS
<1>11. Follows(runs[r], s)
  BY <1>1, <1>3, <1>8, <1>9, <1>10, RunTypes, ProgFollows DEF ProgFits, Clear, LinkStarts
<1>12. runs' = [runs EXCEPT ![r] = s] /\ UNCHANGED <<rows, outcomes, reader, history, faults>>
  BY <1>7, <1>10 DEF LinkStarts
<1>13. QED BY <1>11, <1>12, PlainStep

LEMMA FaultsCount ==
  ASSUME AttemptInv, Clean \/ (faults < MaxFaults /\ faults' = faults + 1)
  PROVE  faults' \in 0..MaxFaults /\ faults' >= faults /\ faults \in Int /\ faults' \in Int
BY AttemptAssumption DEF AttemptInv, Types, Clean, AttemptAssumption

(* The holder writes progress or that the attempts are spent. *)
LEMMA RowStep ==
  ASSUME AttemptInv, NEW r \in Runs, NEW s, runs' = [runs EXCEPT ![r] = s], Holds(r),
         BecomesIn(runs[r], s), KnowsNoMore(runs[r], s), TakesNoMore(runs[r], s),
         s.state \notin Gone,
         NEW row \in RowRec, rows' = [rows EXCEPT ![runs[r].row] = row],
         row.state = "locked", row.lock = r, row.steps = RowOf(r).steps,
         row.tries = RowOf(r).tries,
         outcomes' \in [Rows -> Outcomes],
         runs[r].row # Job => outcomes'[Job] = outcomes[Job],
         owed' = owed, reader' = reader, pruned' = pruned, resolved' = resolved,
         results' = results, sets' = sets, faults' \in 0..MaxFaults, faults' >= faults,
         Clear(s.prog) => row.progress = s.prog.value
  PROVE  AttemptInv'
<1>1. runs[r].row \in Rows /\ faults \in Int /\ faults' \in Int /\ RowOf(r).tries \in Int
  BY DEF Holds, AttemptInv, Types, RowRec, RowOf
<1>2. RowOf(r).tries >= -faults /\ RowOf(r).tries <= MaxAttempts
  BY <1>1 DEF AttemptInv, Tries, TriesOf, RowOf
<1>3. Taking(s) => RowOf(r).tries >= 1 - faults
  BY DEF AttemptInv, Tries, TriesLeftBy, TakesNoMore
<1>4. row.tries >= -faults' /\ row.tries <= MaxAttempts /\ (Taking(s) => row.tries >= 1 - faults')
  BY <1>1, <1>2, <1>3
<1>5. QED BY <1>4, WriterStep

LEMMA LinkEndsStep ==
  ASSUME AttemptInv, NEW r \in Runs, LinkEnds(r) PROVE AttemptInv'
<1> DEFINE old == runs[r].prog
<1>1. PICK v, p, f :
        LET over == [old EXCEPT !.writing = {}, !.flush = @ \ {"write"}]
            bad  == IF runs[r].state = "closing" THEN [Failed(over) EXCEPT !.lost = "silent"]
                    ELSE Failed(over)
            good == [over EXCEPT !.lost = "no"]
            row  == [RowOf(r) EXCEPT !.progress = v] IN
        /\ v \in old.writing
        /\ p = IF "write" \in old.flush THEN Told(good) ELSE good
        /\ f = IF "write" \in old.flush THEN Told(bad) ELSE bad
        /\ \/ Owned(r) /\ Writes(r, row) /\ Clean /\ Prog(r, p)
           \/ ~Owned(r) /\ UNCHANGED rows /\ Clean /\ Prog(r, f)
           \/ Faulty(r, row) /\ Prog(r, f)
  BY DEF LinkEnds
<1>2. runs[r] # NoRun
  BY <1>1 DEF NoRun, NewProgress
<1>3. old \in Progress /\ old.value # 0 /\ v \in Values /\ old.owes = old.value
      /\ runs[r].state \notin {"settling", "leaving"}
  BY <1>1, <1>2, RunTypes DEF ProgFits, Clear, Progress, Drained
<1>4. /\ outcomes' = outcomes /\ reader' = reader /\ owed' = owed /\ pruned' = pruned
      /\ resolved' = resolved /\ results' = results /\ sets' = sets
  BY DEF LinkEnds, history
<1>5. PICK over : over = [old EXCEPT !.writing = {}, !.flush = @ \ {"write"}]
  OBVIOUS
<1>6. PICK row : row = [RowOf(r) EXCEPT !.progress = v]
  OBVIOUS
<1>7. /\ p \in Progress /\ p.value = old.value /\ p.dirty = old.dirty /\ p.timer = old.timer
      /\ p.writing = {} /\ p.closed = old.closed /\ p.owes = old.owes
      /\ Accounted(runs[r].state, runs[r].how, p)
  <2>1. PICK good : good = [over EXCEPT !.lost = "no"]
    OBVIOUS
  <2>2. /\ good \in Progress /\ good.value = old.value /\ good.dirty = old.dirty
        /\ good.timer = old.timer /\ good.writing = {} /\ good.closed = old.closed
        /\ good.owes = old.owes /\ good.queued = old.queued /\ good.lost = "no"
    <3>1. PICK w \in SUBSET {"link", "write"} : w = old.flush \ {"write"}
      BY <1>3 DEF Progress
    <3>2. good = [old EXCEPT !.writing = {}, !.flush = w, !.lost = "no"]
      BY <1>3, <1>5, <2>1, <3>1 DEF Progress
    <3>3. QED BY <1>3, <3>2 DEF Progress
  <2>3. p = good \/ p = Told(good)
    BY <1>1, <1>5, <2>1
  <2>4. /\ p \in Progress /\ p.value = old.value /\ p.dirty = old.dirty /\ p.timer = old.timer
        /\ p.writing = {} /\ p.closed = old.closed /\ p.owes = old.owes
        /\ p.queued = old.queued /\ p.lost = "no"
    BY <2>2, <2>3, ToldTypes
  <2>5. Accounted(runs[r].state, runs[r].how, old)
    BY <1>2, RunTypes DEF ProgFits
  <2>6. QED BY <1>1, <1>3, <2>4, <2>5 DEF Accounted
<1>8. /\ f \in Progress /\ f.value = old.value /\ f.dirty /\ f.timer = old.timer
      /\ f.writing = {} /\ f.closed = old.closed /\ f.owes = old.owes
      /\ Accounted(runs[r].state, runs[r].how, f)
  <2>1. PICK l \in {"no", "silent", "told"} :
          l = IF runs[r].state = "closing" THEN "silent" ELSE old.lost
    BY <1>3 DEF Progress
  <2>2. PICK w \in SUBSET {"link", "write"} : w = old.flush \ {"write"}
    BY <1>3 DEF Progress
  <2>3. PICK bad : bad = [old EXCEPT !.writing = {}, !.flush = w, !.failure = TRUE,
                                     !.dirty = TRUE, !.lost = l]
    OBVIOUS
  <2>4. bad = IF runs[r].state = "closing" THEN [Failed(over) EXCEPT !.lost = "silent"]
              ELSE Failed(over)
    <3>0. PICK mid : mid = [old EXCEPT !.writing = {}, !.flush = w, !.failure = TRUE,
                                       !.dirty = TRUE]
      OBVIOUS
    <3>1. Failed(over) = mid
      BY <1>3, <1>5, <2>2, <3>0 DEF Failed, Progress
    <3>2. CASE runs[r].state = "closing"
      <4>1. bad = [mid EXCEPT !.lost = "silent"]
        BY ONLY <1>3, <2>1, <2>3, <3>0, <3>2 DEF Progress
      <4>2. QED BY ONLY <3>1, <3>2, <4>1
    <3>3. CASE runs[r].state # "closing"
      <4>1. bad = mid
        BY ONLY <1>3, <2>1, <2>3, <3>0, <3>3 DEF Progress
      <4>2. QED BY ONLY <3>1, <3>3, <4>1
    <3>4. QED BY <3>2, <3>3
  <2>5. /\ bad \in Progress /\ bad.value = old.value /\ bad.dirty /\ bad.timer = old.timer
        /\ bad.writing = {} /\ bad.closed = old.closed /\ bad.owes = old.owes
        /\ bad.lost = l /\ bad.failure
    BY <1>3, <2>3 DEF Progress
  <2>6. f = bad \/ f = Told(bad)
    BY <1>1, <1>5, <2>4
  <2>7. CASE f = bad
    BY <1>3, <2>1, <2>5, <2>7 DEF Accounted
  <2>8. CASE f = Told(bad)
    <3>1. /\ f \in Progress /\ f.value = old.value /\ f.dirty /\ f.timer = old.timer
          /\ f.writing = {} /\ f.closed = old.closed /\ f.owes = old.owes
          /\ f.lost = IF bad.failure /\ bad.lost = "silent" THEN "told" ELSE bad.lost
      BY <2>5, <2>8, ToldTypes
    <3>2. f.lost # "silent" /\ (runs[r].state = "closing" => f.lost = "told")
      BY <2>1, <2>5, <3>1
    <3>3. QED BY <1>3, <3>1, <3>2 DEF Accounted
  <2>9. QED BY <2>6, <2>7, <2>8
<1>10. PICK s : s = [runs[r] EXCEPT !.prog = p]
  OBVIOUS
<1>11. PICK g : g = [runs[r] EXCEPT !.prog = f]
  OBVIOUS
<1>12. Follows(runs[r], g)
  BY <1>2, <1>3, <1>8, <1>11, RunTypes, ProgFollows DEF ProgFits, Clear
<1>13. s \in RunRec /\ s.prog = p /\ g.prog = f
  BY <1>2, <1>7, <1>10, <1>11, RunTypes DEF RunRec
<1>14. BecomesIn(runs[r], s) /\ KnowsNoMore(runs[r], s) /\ TakesNoMore(runs[r], s)
       /\ s.state = runs[r].state
  <2>1. /\ s.row = runs[r].row /\ s.state = runs[r].state /\ s.how = runs[r].how
        /\ s.chain = runs[r].chain /\ s.ending = runs[r].ending /\ s.cache = runs[r].cache
        /\ s.running = runs[r].running /\ s.writing = runs[r].writing
    BY <1>2, <1>10, RunTypes DEF RunRec
  <2>2. RunFits(s)
    BY <1>2, <2>1, RunTypes DEF RunFits, Working
  <2>3. ProgFits(s)
    BY <1>2, <1>3, <1>7, <1>13, <2>1, RunTypes DEF ProgFits, Clear
  <2>4. QED
    BY <1>2, <1>13, <2>1, <2>2, <2>3, RunTypes
    DEF BecomesIn, Moving, KnowsNoMore, Pending, TakesNoMore, Taking, Working
<1>15. faults' \in 0..MaxFaults /\ faults' >= faults
  BY <1>1, FaultsCount DEF Faulty
<1>16. CASE rows' = rows /\ runs' = [runs EXCEPT ![r] = g]
  BY <1>4, <1>12, <1>15, <1>16, FollowStep DEF AttemptInv, Types
<1>17. ASSUME Owned(r) PROVE
        /\ Holds(r) /\ runs[r].state \notin Gone /\ runs[r].row \in Rows
        /\ row \in RowRec /\ row.state = "locked" /\ row.lock = r /\ row.progress = v
        /\ row.steps = RowOf(r).steps /\ row.tries = RowOf(r).tries
  <2>1. RowOf(r) \in RowRec /\ runs[r].row \in Rows
    BY <1>2, RunTypes
  <2>2. Holds(r) /\ runs[r].state \notin Gone
    BY <1>17, <2>1 DEF Holds, AttemptInv, LocksWork, Owned, RowOf
  <2>3. QED BY <1>3, <1>6, <1>17, <2>1, <2>2 DEF RowRec, Owned
<1>18. CASE Owned(r) /\ rows' = [rows EXCEPT ![runs[r].row] = row] /\ runs' = [runs EXCEPT ![r] = s]
  <2>1. Clear(s.prog) => row.progress = s.prog.value
    <3>1. v \in old.writing
      BY <1>1
    <3>2. ~old.dirty => old.writing \subseteq {old.value}
      BY <1>2, RunTypes DEF ProgFits
    <3>3. QED BY <1>7, <1>13, <1>17, <1>18, <3>1, <3>2 DEF Clear
  <2>2. outcomes' \in [Rows -> Outcomes]
    BY <1>4 DEF AttemptInv, Types
  <2>3. s.state \notin Gone
    BY <1>14, <1>17, <1>18
  <2>4. QED BY <1>4, <1>14, <1>15, <1>17, <1>18, <2>1, <2>2, <2>3, RowStep
<1>19. CASE Owned(r) /\ rows' = [rows EXCEPT ![runs[r].row] = row] /\ runs' = [runs EXCEPT ![r] = g]
  <2>1. Clear(g.prog) => row.progress = g.prog.value
    BY <1>8, <1>13 DEF Clear
  <2>2. outcomes' \in [Rows -> Outcomes]
    BY <1>4 DEF AttemptInv, Types
  <2>3. g.state \notin Gone /\ BecomesIn(runs[r], g) /\ KnowsNoMore(runs[r], g)
        /\ TakesNoMore(runs[r], g)
    BY <1>12, <1>17, <1>19 DEF Follows
  <2>4. QED BY <1>4, <1>15, <1>17, <1>19, <2>1, <2>2, <2>3, RowStep
<1>20. QED
  <2>1. CASE Owned(r) /\ Writes(r, row) /\ Clean /\ Prog(r, p)
    BY <1>10, <1>18, <2>1 DEF Writes, Prog, Become
  <2>2. CASE ~Owned(r) /\ UNCHANGED rows /\ Clean /\ Prog(r, f)
    BY <1>11, <1>16, <2>2 DEF Prog, Become
  <2>3. CASE Faulty(r, row) /\ Prog(r, f)
    BY <1>11, <1>16, <1>19, <2>3 DEF Faulty, Writes, Prog, Become
  <2>4. QED BY <1>1, <1>6, <2>1, <2>2, <2>3

---------------------------------------------------------------------------
(* The actions: steps. *)

(* A step of the run starts or ends. *)
LEMMA StepFollows ==
  ASSUME NEW run \in RunRec, run.row \in Rows, RunFits(run), ProgFits(run),
         NEW u \in SUBSET Steps, NEW w \in [Steps -> Results],
         \A y \in Steps : w[y] # 0 => y \notin u,
         \A y \in Steps : y \in u \/ w[y] # 0 => Pending(run, y),
         NEW s, s = [run EXCEPT !.running = u, !.writing = w]
  PROVE  Follows(run, s)
<1>1. /\ s \in RunRec /\ s.row = run.row /\ s.state = run.state /\ s.how = run.how
      /\ s.chain = run.chain /\ s.ending = run.ending /\ s.cache = run.cache
      /\ s.running = u /\ s.writing = w /\ s.prog = run.prog
  BY DEF RunRec
<1>2. RunFits(s)
  BY <1>1 DEF RunFits, Working
<1>3. ProgFits(s)
  BY <1>1 DEF ProgFits
<1>4. KnowsNoMore(run, s)
  BY <1>1 DEF KnowsNoMore, Pending
<1>5. QED
  BY <1>1, <1>2, <1>3, <1>4 DEF Follows, BecomesIn, Moving, OwesNoLess, TakesNoMore, Taking, Working

LEMMA CallStepStep ==
  ASSUME AttemptInv, NEW r \in Runs, NEW x \in Steps, CallStep(r, x) PROVE AttemptInv'
<1> DEFINE run == runs[r]
<1>1. run # NoRun /\ run.state = "handler"
  BY DEF CallStep, MayStart, NoRun
<1>2. /\ rows' = rows /\ outcomes' = outcomes /\ reader' = reader /\ owed' = owed
      /\ pruned' = pruned /\ results' = results /\ sets' = sets /\ faults' = faults
  BY DEF CallStep
<1>3. CASE run.cache[x] # 0 /\ Resolves(x, run.cache[x]) /\ UNCHANGED runs
  BY <1>2, <1>3, ResolveStep DEF Resolves
<1>4. CASE /\ run.cache[x] = 0 /\ run.writing[x] = 0
           /\ Become(r, [run EXCEPT !.running = @ \cup {x}]) /\ UNCHANGED resolved
  <2>1. PICK u : u = run.running \cup {x}
    OBVIOUS
  <2>2. PICK s : s = [run EXCEPT !.running = u]
    OBVIOUS
  <2>3. s = [run EXCEPT !.running = u, !.writing = run.writing] /\ u \in SUBSET Steps
    BY <1>1, <2>1, <2>2, RunTypes DEF RunRec
  <2>4. \A y \in Steps : /\ run.writing[y] # 0 => y \notin u
                         /\ y \in u \/ run.writing[y] # 0 => Pending(run, y)
    BY <1>1, <1>4, <2>1, RunTypes DEF RunFits, Pending
  <2>5. Follows(run, s)
    BY <1>1, <2>3, <2>4, RunTypes, StepFollows
  <2>6. runs' = [runs EXCEPT ![r] = s]
    BY <1>4, <2>1, <2>2 DEF Become
  <2>7. QED BY <1>2, <1>4, <2>5, <2>6, PlainStep DEF CallStep, history
<1>5. QED BY <1>3, <1>4 DEF CallStep

LEMMA StepEndsStep ==
  ASSUME AttemptInv, NEW r \in Runs, NEW x \in Steps, StepEnds(r, x) PROVE AttemptInv'
<1> DEFINE run == runs[r]
<1>1. run # NoRun
  BY DEF StepEnds, NoRun
<1>2. PICK u : u = run.running \ {x}
  OBVIOUS
<1>3. PICK v : v = results[x] + 1
  OBVIOUS
<1>4. results[x] < MaxResults => v \in Results /\ v # 0
  BY <1>3, AttemptAssumption DEF AttemptAssumption, AttemptInv, Types, Results
<1>5. PICK w : /\ \/ /\ results[x] < MaxResults /\ results' = [results EXCEPT ![x] = v]
                     /\ w = [run.writing EXCEPT ![x] = v]
                  \/ w = run.writing /\ UNCHANGED results
               /\ runs' = [runs EXCEPT ![r] = [run EXCEPT !.running = u, !.writing = w]]
  <2>1. CASE /\ results[x] < MaxResults /\ results' = [results EXCEPT ![x] = @ + 1]
             /\ Become(r, [run EXCEPT !.running = @ \ {x}, !.writing[x] = results'[x]])
    <3>1. results' = [results EXCEPT ![x] = v] /\ results'[x] = v
      BY <1>3, <2>1 DEF AttemptInv, Types
    <3>2. PICK w : w = [run.writing EXCEPT ![x] = v]
      OBVIOUS
    <3>3. [run EXCEPT !.running = @ \ {x}, !.writing[x] = results'[x]]
            = [run EXCEPT !.running = u, !.writing = w]
      BY <1>1, <1>2, <3>1, <3>2, RunTypes DEF RunRec
    <3>4. QED BY <2>1, <3>1, <3>2, <3>3 DEF Become
  <2>2. CASE Become(r, [run EXCEPT !.running = @ \ {x}]) /\ UNCHANGED results
    <3>1. [run EXCEPT !.running = @ \ {x}] = [run EXCEPT !.running = u, !.writing = run.writing]
      BY <1>1, <1>2, RunTypes DEF RunRec
    <3>2. QED BY <2>2, <3>1 DEF Become
  <2>3. QED BY <2>1, <2>2 DEF StepEnds
<1>6. PICK s : s = [run EXCEPT !.running = u, !.writing = w]
  OBVIOUS
<1>7. w \in [Steps -> Results] /\ u \in SUBSET Steps /\ results' \in [Steps -> Results]
  BY <1>1, <1>2, <1>4, <1>5, RunTypes DEF AttemptInv, Types
<1>8. \A y \in Steps : /\ w[y] # 0 => y \notin u
                       /\ y \in u \/ w[y] # 0 => Pending(run, y)
  <2>1. x \in run.running /\ \A y \in Steps : run.writing[y] # 0 => y \notin run.running
    BY <1>1, RunTypes DEF StepEnds, RunFits
  <2>2. \A y \in Steps : y # x => w[y] = run.writing[y]
    BY <1>1, <1>5, RunTypes
  <2>3. QED BY <1>2, <2>1, <2>2 DEF Pending
<1>9. Follows(run, s)
  BY <1>1, <1>6, <1>7, <1>8, RunTypes, StepFollows
<1>10. /\ rows' = rows /\ outcomes' = outcomes /\ owed' = owed /\ reader' = reader
       /\ pruned' = pruned /\ resolved' = resolved /\ sets' \in Values
       /\ faults' \in 0..MaxFaults /\ faults' >= faults
  BY DEF StepEnds, AttemptInv, Types
<1>11. QED BY <1>5, <1>6, <1>7, <1>9, <1>10, FollowStep

LEMMA CheckpointActionStep ==
  ASSUME AttemptInv, NEW r \in Runs, NEW x \in Steps, Checkpoint(r, x) PROVE AttemptInv'
<1> DEFINE run == runs[r]
           v   == run.writing[x]
<1>1. run # NoRun /\ v # 0
  BY DEF Checkpoint, NoRun, NoSteps
<1>2. v \in Results /\ x \notin run.running
  BY <1>1, RunTypes DEF RunFits
<1>3. /\ outcomes' = outcomes /\ reader' = reader /\ owed' = owed /\ pruned' = pruned
      /\ results' = results /\ sets' = sets
  BY DEF Checkpoint
<1>4. PICK row : row = Checkpointed(RowOf(r), x, v)
  OBVIOUS
<1>5. faults' \in 0..MaxFaults /\ faults' >= faults
  BY FaultsCount DEF Checkpoint, Faulty
<1>6. PICK w : w = [run.writing EXCEPT ![x] = 0]
  OBVIOUS
<1>7. w \in [Steps -> Results] /\ w[x] = 0 /\ \A y \in Steps : y # x => w[y] = run.writing[y]
  BY <1>1, <1>6, RunTypes, AttemptAssumption DEF Results, AttemptAssumption
<1>8. PICK s : s = [run EXCEPT !.running = run.running, !.writing = w]
  OBVIOUS
<1>9. Follows(run, s)
  BY <1>1, <1>7, <1>8, RunTypes, StepFollows DEF RunFits, Pending
<1>10. s = [run EXCEPT !.writing[x] = 0]
  BY <1>1, <1>6, <1>8, RunTypes DEF RunRec
<1>11. Owned(r) => Holds(r) /\ run.state \notin Gone
  BY <1>1, RunTypes DEF Holds, AttemptInv, LocksWork, Owned, RowOf
<1>12. CASE rows' = rows /\ runs' = [runs EXCEPT ![r] = s] /\ resolved' = resolved
  <2>1. results' \in [Steps -> Results] /\ sets' \in Values
    BY <1>3 DEF AttemptInv, Types
  <2>2. QED BY <1>3, <1>5, <1>9, <1>12, <2>1, FollowStep
<1>13. CASE /\ Owned(r) /\ rows' = [rows EXCEPT ![run.row] = row]
            /\ runs' = [runs EXCEPT ![r] = s] /\ resolved' = resolved
  <2>1. s.cache = run.cache /\ s.state = run.state
    BY <1>1, <1>8, RunTypes DEF RunRec
  <2>2. OnlyLearns(r, x, s) /\ Learns(r, x, v, s)
    BY <1>9, <1>13, <2>1 DEF Follows, KnowsNoMore, OnlyLearns, Learns
  <2>3. QED
    BY <1>1, <1>2, <1>3, <1>4, <1>5, <1>9, <1>11, <1>13, <2>1, <2>2, CheckpointStep DEF Follows
<1>14. CASE /\ Owned(r) /\ rows' = [rows EXCEPT ![run.row] = row] /\ Resolves(x, v)
            /\ Become(r, [run EXCEPT !.writing[x] = 0,
                            !.cache[x] = IF run.state = "handler" THEN v ELSE @])
  <2>1. PICK c : c = [run.cache EXCEPT ![x] = IF run.state = "handler" THEN v ELSE run.cache[x]]
    OBVIOUS
  <2>2. run.cache \in [Steps -> Results]
    BY <1>1, RunTypes DEF RunRec
  <2>3. /\ c \in [Steps -> Results] /\ \A y \in Steps : y # x => c[y] = run.cache[y]
        /\ c[x] = IF run.state = "handler" THEN v ELSE run.cache[x]
    BY <1>2, <2>1, <2>2
  <2>4. PICK t : t = [run EXCEPT !.writing = w, !.cache = c]
    OBVIOUS
  <2>5. runs' = [runs EXCEPT ![r] = t]
    <3>1. [run EXCEPT !.writing[x] = 0, !.cache[x] = IF run.state = "handler" THEN v ELSE @] = t
      BY <1>1, <1>6, <2>1, <2>4, RunTypes DEF RunRec
    <3>2. QED BY <1>14, <3>1 DEF Become
  <2>6. /\ t \in RunRec /\ t.row = run.row /\ t.state = run.state /\ t.how = run.how
        /\ t.chain = run.chain /\ t.ending = run.ending /\ t.cache = c
        /\ t.running = run.running /\ t.writing = w /\ t.prog = run.prog
    <3>1. run \in RunRec
      BY <1>1, RunTypes
    <3>2. t \in RunRec
      BY <1>7, <2>3, <2>4, <3>1 DEF RunRec
    <3>3. QED BY <2>4, <3>1, <3>2 DEF RunRec
  <2>7. BecomesIn(run, t) /\ OwesNoLess(run, t) /\ TakesNoMore(run, t)
    BY <1>1, <1>7, <2>6, RunTypes
    DEF BecomesIn, RunFits, ProgFits, Moving, OwesNoLess, TakesNoMore, Taking, Working
  <2>8. ~Pending(t, x)
    BY <1>1, <1>2, <1>7, <2>3, <2>6 DEF Pending
  <2>9. \A y \in Steps : y # x => t.cache[y] = run.cache[y] /\ (Pending(t, y) => Pending(run, y))
    BY <1>7, <2>3, <2>6 DEF Pending
  <2>10. run.cache[x] = 0
    BY <1>1, <1>11, <1>14 DEF AttemptInv, OnlyUnknown, Pending, Unknown
  <2>11. t.cache[x] \in {0, v}
    BY <2>3, <2>6, <2>10
  <2>12. resolved' = [resolved EXCEPT ![x] = @ \cup {v}]
    BY <1>14 DEF Resolves
  <2>13. /\ Holds(r) /\ t.state \notin Gone
         /\ rows' = [rows EXCEPT ![run.row] = Checkpointed(RowOf(r), x, v)]
    BY <1>4, <1>11, <1>14, <2>6
  <2>14. v \in Results /\ v # 0 /\ runs[r].writing[x] = v
    BY <1>1, <1>2
  <2>15. BecomesIn(runs[r], t) /\ OwesNoLess(runs[r], t) /\ TakesNoMore(runs[r], t)
    BY <2>7
  <2>16. OnlyLearns(r, x, t)
    BY <2>9 DEF OnlyLearns
  <2>17. rows' = [rows EXCEPT ![runs[r].row] = Checkpointed(RowOf(r), x, v)]
    BY <2>13
  <2>18. Holds(r) /\ t.state \notin Gone
    BY <2>13
  <2>19. Learns(r, x, v, t)
    BY <2>8, <2>11, <2>12 DEF Learns
  <2> HIDE DEF run, v
  <2>20. AttemptInv /\ r \in Runs /\ x \in Steps
    OBVIOUS
  <2>21. QED
    BY ONLY <1>3, <1>5, <2>5, <2>14, <2>15, <2>16, <2>17, <2>18, <2>19, <2>20, CheckpointStep
<1>15. QED
  <2>1. CASE /\ Owned(r) /\ Writes(r, row) /\ Clean /\ Resolves(x, v)
             /\ Become(r, [run EXCEPT !.writing[x] = 0,
                             !.cache[x] = IF run.state = "handler" THEN v ELSE @])
    BY <1>14, <2>1 DEF Writes
  <2>2. CASE /\ (~Owned(r) /\ UNCHANGED rows) \/ Faulty(r, row)
             /\ Become(r, [run EXCEPT !.writing[x] = 0]) /\ UNCHANGED resolved
    BY <1>10, <1>12, <1>13, <2>2 DEF Faulty, Writes, Become
  <2>3. QED BY <1>4, <2>1, <2>2 DEF Checkpoint

---------------------------------------------------------------------------
(* The actions: waits and continuations. *)

(* Control passes on, while the run's steps and its progress stay. *)
LEMMA ControlFollows ==
  ASSUME NEW run \in RunRec, run.row \in Rows, RunFits(run), ProgFits(run),
         NEW s \in RunRec, s.row = run.row, s.running = run.running, s.writing = run.writing,
         ProgFits(s), OwesNoLess(run, s), Moving(s) => Moving(run),
         s.state = "handler" => run.state = "handler",
         s.state \in Gone => run.state \in Gone, TakesNoMore(run, s),
         s.chain # "free" \/ s.ending # "none" => Working(s),
         s.chain = "continue" => s.row = Job,
         s.cache = run.cache \/ (s.cache = NoSteps /\ s.state # "handler")
  PROVE  Follows(run, s)
<1>1. RunFits(s)
  BY DEF RunFits
<1>2. run.cache \in [Steps -> Results]
  BY DEF RunRec
<1>3. KnowsNoMore(run, s)
  BY <1>2 DEF KnowsNoMore, Pending, NoSteps
<1>4. QED BY <1>1, <1>3 DEF Follows, BecomesIn

LEMMA CallWaitStep ==
  ASSUME AttemptInv, NEW r \in Runs, CallWait(r) PROVE AttemptInv'
<1> DEFINE run == runs[r]
<1>1. run # NoRun /\ run.state = "handler"
  BY DEF CallWait, InHandler, NoRun
<1>2. PICK s : s = [run EXCEPT !.chain = "wait"]
  OBVIOUS
<1>3. run \in RunRec
  BY <1>1, RunTypes
<1>4. /\ s \in RunRec /\ s.row = run.row /\ s.state = run.state /\ s.how = run.how
      /\ s.ending = run.ending /\ s.cache = run.cache /\ s.running = run.running
      /\ s.writing = run.writing /\ s.prog = run.prog /\ s.chain = "wait"
  BY <1>2, <1>3 DEF RunRec
<1>5. Follows(run, s)
  <2>1. ProgFits(s) /\ OwesNoLess(run, s) /\ TakesNoMore(run, s) /\ (Moving(s) => Moving(run))
        /\ Working(s)
    BY <1>1, <1>4, RunTypes DEF ProgFits, OwesNoLess, TakesNoMore, Taking, Working, Moving
  <2>2. QED BY <1>1, <1>4, <2>1, RunTypes, ControlFollows
<1>6. runs' = [runs EXCEPT ![r] = s] /\ UNCHANGED <<rows, outcomes, reader, history, faults>>
  BY <1>2 DEF CallWait, Become
<1>7. QED BY <1>5, <1>6, PlainStep

LEMMA WaitEndsStep ==
  ASSUME AttemptInv, NEW r \in Runs, WaitEnds(r) PROVE AttemptInv'
<1> DEFINE run == runs[r]
<1>1. run # NoRun /\ run.chain = "wait"
  BY DEF WaitEnds, NoRun
<1>2. run \in RunRec /\ RowOf(r) \in RowRec /\ run.row \in Rows /\ Working(run)
  BY <1>1, RunTypes DEF RunFits
<1>3. /\ outcomes' = outcomes /\ reader' = reader /\ owed' = owed /\ pruned' = pruned
      /\ resolved' = resolved /\ results' = results /\ sets' = sets
  BY DEF WaitEnds, history
<1>4. PICK n \in Int : n = IF run.ending = "none" THEN RowOf(r).tries - 1 ELSE RowOf(r).tries
  BY <1>2 DEF RowRec
<1>5. PICK row : row = [RowOf(r) EXCEPT !.tries = n]
  OBVIOUS
<1>6. row = IF run.ending = "none" THEN [RowOf(r) EXCEPT !.tries = @ - 1] ELSE RowOf(r)
  BY <1>2, <1>4, <1>5 DEF RowRec
<1>7. PICK e : e = IF run.ending = "none" THEN "waiting" ELSE run.ending
  OBVIOUS
<1>8. PICK s : s = [run EXCEPT !.chain = "free", !.ending = e]
  OBVIOUS
<1>9. PICK f : f = [run EXCEPT !.chain = "free"]
  OBVIOUS
<1>10. /\ s \in RunRec /\ s.row = run.row /\ s.state = run.state /\ s.how = run.how
       /\ s.ending = e /\ s.cache = run.cache /\ s.running = run.running
       /\ s.writing = run.writing /\ s.prog = run.prog /\ s.chain = "free" /\ e # "none"
       /\ e = "continued" => run.ending = "continued"
  BY <1>2, <1>7, <1>8 DEF RunRec
<1>11. /\ f \in RunRec /\ f.row = run.row /\ f.state = run.state /\ f.how = run.how
       /\ f.ending = run.ending /\ f.cache = run.cache /\ f.running = run.running
       /\ f.writing = run.writing /\ f.prog = run.prog /\ f.chain = "free"
  BY <1>2, <1>9 DEF RunRec
<1>12. Follows(run, s)
  <2>1. ProgFits(s) /\ OwesNoLess(run, s) /\ TakesNoMore(run, s) /\ (Moving(s) => Moving(run))
        /\ Working(s)
    BY <1>1, <1>2, <1>10, RunTypes DEF ProgFits, OwesNoLess, TakesNoMore, Taking, Working, Moving
  <2>2. QED BY <1>1, <1>10, <2>1, RunTypes, ControlFollows
<1>13. Follows(run, f)
  <2>1. ProgFits(f) /\ OwesNoLess(run, f) /\ TakesNoMore(run, f) /\ (Moving(f) => Moving(run))
        /\ Working(f)
    BY <1>1, <1>2, <1>11, RunTypes DEF ProgFits, OwesNoLess, TakesNoMore, Taking, Working, Moving
  <2>2. QED BY <1>1, <1>11, <2>1, RunTypes, ControlFollows
<1>14. faults' \in 0..MaxFaults /\ faults' >= faults /\ faults \in Int /\ faults' \in Int
  BY FaultsCount DEF WaitEnds, Faulty
<1>15. outcomes' \in [Rows -> Outcomes] /\ results' \in [Steps -> Results] /\ sets' \in Values
  BY <1>3 DEF AttemptInv, Types
<1>16. CASE rows' = rows /\ runs' = [runs EXCEPT ![r] = f]
  BY <1>3, <1>13, <1>14, <1>15, <1>16, FollowStep
<1>17. ASSUME Owned(r) PROVE
        /\ Holds(r) /\ run.state \notin Gone
        /\ row \in RowRec /\ row.state = "locked" /\ row.lock = r /\ row.tries = n
        /\ row.steps = RowOf(r).steps /\ row.progress = RowOf(r).progress
        /\ n <= MaxAttempts /\ n >= -faults
        /\ run.ending = "none" => n >= -faults
        /\ Clear(run.prog) => row.progress = run.prog.value
  <2>1. Holds(r) /\ run.state \notin Gone
    BY <1>2, <1>17 DEF Holds, AttemptInv, LocksWork, Owned, RowOf
  <2>2. /\ RowOf(r).tries >= -faults /\ RowOf(r).tries <= MaxAttempts /\ RowOf(r).tries \in Int
        /\ run.ending = "none" => RowOf(r).tries >= 1 - faults
        /\ Clear(run.prog) => RowOf(r).progress = run.prog.value
    BY <1>2, <2>1
    DEF AttemptInv, Tries, TriesOf, TriesLeftBy, Taking, Written, WrittenBy, RowOf, RowRec
  <2>3. /\ row \in RowRec /\ row.state = "locked" /\ row.lock = r /\ row.tries = n
        /\ row.steps = RowOf(r).steps /\ row.progress = RowOf(r).progress
    BY <1>2, <1>4, <1>5, <1>17 DEF RowRec, Owned
  <2>4. MaxAttempts \in Int
    BY AttemptAssumption DEF AttemptAssumption
  <2>5. n <= MaxAttempts /\ n >= -faults
    BY <1>4, <1>14, <2>2, <2>4
  <2>6. QED BY <2>1, <2>2, <2>3, <2>5
<1>18. CASE Owned(r) /\ rows' = [rows EXCEPT ![run.row] = row] /\ runs' = [runs EXCEPT ![r] = s]
  <2>1. /\ Clear(s.prog) => row.progress = s.prog.value
        /\ Taking(s) => row.tries >= 1 - faults'
        /\ row.tries >= -faults' /\ row.tries <= MaxAttempts
    BY <1>10, <1>14, <1>17, <1>18 DEF Taking
  <2>2. s.state \notin Gone /\ BecomesIn(runs[r], s) /\ KnowsNoMore(runs[r], s)
    BY <1>10, <1>12, <1>17, <1>18 DEF Follows
  <2>3. QED BY <1>3, <1>14, <1>15, <1>17, <1>18, <2>1, <2>2, WriterStep
<1>19. CASE /\ Owned(r) /\ rows' = [rows EXCEPT ![run.row] = row] /\ faults' = faults + 1
            /\ runs' = [runs EXCEPT ![r] = f]
  <2>1. /\ Clear(f.prog) => row.progress = f.prog.value
        /\ Taking(f) => row.tries >= 1 - faults'
        /\ row.tries >= -faults' /\ row.tries <= MaxAttempts
    BY <1>11, <1>14, <1>17, <1>19 DEF Taking
  <2>2. f.state \notin Gone /\ BecomesIn(runs[r], f) /\ KnowsNoMore(runs[r], f)
    BY <1>11, <1>13, <1>17, <1>19 DEF Follows
  <2>3. QED BY <1>3, <1>14, <1>15, <1>17, <1>19, <2>1, <2>2, WriterStep
<1>20. QED
  <2>1. CASE /\ Owned(r) /\ Writes(r, row) /\ Clean
             /\ Become(r, [run EXCEPT !.chain = "free",
                             !.ending = IF @ = "none" THEN "waiting" ELSE @])
    <3>1. [run EXCEPT !.chain = "free", !.ending = IF @ = "none" THEN "waiting" ELSE @] = s
      BY <1>2, <1>7, <1>8 DEF RunRec
    <3>2. QED BY <1>18, <2>1, <3>1 DEF Writes, Become
  <2>2. CASE /\ UNCHANGED rows \/ Faulty(r, row)
             /\ Become(r, [run EXCEPT !.chain = "free"])
    BY <1>9, <1>16, <1>19, <2>2 DEF Faulty, Writes, Become
  <2>3. QED BY <1>6, <2>1, <2>2 DEF WaitEnds

LEMMA CallContinueStep ==
  ASSUME AttemptInv, NEW r \in Runs, CallContinue(r) PROVE AttemptInv'
<1> DEFINE run == runs[r]
<1>1. run # NoRun /\ run.state = "handler" /\ run.row = Job
  BY DEF CallContinue, InHandler, NoRun
<1>2. run \in RunRec /\ run.prog \in Progress
  BY <1>1, RunTypes
<1>3. PICK p : p = [run.prog EXCEPT !.closed = TRUE, !.timer = FALSE]
  OBVIOUS
<1>4. /\ p \in Progress /\ p.value = run.prog.value /\ p.dirty = run.prog.dirty
      /\ p.writing = run.prog.writing /\ p.owes = run.prog.owes /\ p = Closed(run.prog, FALSE)
  BY <1>2, <1>3 DEF Progress, Closed
<1>5. PICK s : /\ s \in {[run EXCEPT !.called = TRUE],
                        [run EXCEPT !.called = TRUE, !.chain = "continue", !.prog = p]}
               /\ runs' = [runs EXCEPT ![r] = s]
  <2>1. [[run EXCEPT !.called = TRUE] EXCEPT !.chain = "continue", !.prog = Closed(@, FALSE)]
          = [run EXCEPT !.called = TRUE, !.chain = "continue", !.prog = p]
    BY <1>2, <1>4 DEF RunRec
  <2>2. QED BY <2>1 DEF CallContinue, Become
<1>6. /\ s \in RunRec /\ s.row = run.row /\ s.state = run.state /\ s.how = run.how
      /\ s.ending = run.ending /\ s.cache = run.cache /\ s.running = run.running
      /\ s.writing = run.writing /\ s.prog \in {run.prog, p} /\ s.row = Job
  BY <1>1, <1>2, <1>4, <1>5 DEF RunRec
<1>7. Follows(run, s)
  <2>1. ProgFits(s)
    BY <1>1, <1>4, <1>6, RunTypes DEF ProgFits, Accounted, Clear
  <2>2. OwesNoLess(run, s) /\ TakesNoMore(run, s) /\ (Moving(s) => Moving(run)) /\ Working(s)
    BY <1>1, <1>4, <1>6 DEF OwesNoLess, Clear, TakesNoMore, Taking, Working, Moving
  <2>3. QED BY <1>1, <1>6, <2>1, <2>2, RunTypes, ControlFollows
<1>8. UNCHANGED <<rows, outcomes, reader, history, faults>>
  BY DEF CallContinue
<1>9. QED BY <1>5, <1>7, <1>8, PlainStep

LEMMA ContinueEndsStep ==
  ASSUME AttemptInv, NEW r \in Runs, ContinueEnds(r) PROVE AttemptInv'
<1> DEFINE run == runs[r]
<1>1. run # NoRun /\ run.chain = "continue" /\ Drained(run.prog)
  BY DEF ContinueEnds, NoRun
<1>2. run \in RunRec /\ run.prog \in Progress /\ run.row = Job /\ Working(run)
  BY <1>1, RunTypes DEF RunFits
<1>3. /\ reader' = reader /\ pruned' = pruned
      /\ resolved' = resolved /\ results' = results /\ sets' = sets
  BY DEF ContinueEnds
<1>4. PICK p : p = Swallowed(run.prog)
  OBVIOUS
<1>5. /\ p \in Progress /\ p.value = run.prog.value /\ p.dirty = run.prog.dirty
      /\ p.writing = run.prog.writing /\ p.owes = run.prog.owes
  BY <1>2, <1>4, ToldTypes
<1>6. PICK f : f = [run EXCEPT !.chain = "free", !.prog = p]
  OBVIOUS
<1>7. PICK s : s = [f EXCEPT !.ending = "continued"]
  OBVIOUS
<1>8. f = [run EXCEPT !.chain = "free", !.prog = Swallowed(@)]
  BY <1>2, <1>4, <1>6 DEF RunRec
<1>9. /\ f \in RunRec /\ f.row = Job /\ f.state = run.state /\ f.how = run.how
      /\ f.ending = run.ending /\ f.cache = run.cache /\ f.running = run.running
      /\ f.writing = run.writing /\ f.prog = p /\ f.chain = "free"
  BY <1>2, <1>5, <1>6 DEF RunRec
<1>10. /\ s \in RunRec /\ s.row = Job /\ s.state = run.state /\ s.cache = run.cache
       /\ s.running = run.running /\ s.writing = run.writing /\ s.prog = p /\ s.chain = "free"
  BY <1>7, <1>9 DEF RunRec
<1>11. ProgFits(f) /\ ProgFits(s)
  BY <1>1, <1>2, <1>5, <1>9, <1>10, RunTypes DEF ProgFits, Accounted, Clear, Working
<1>12. Follows(run, f)
  <2>1. OwesNoLess(run, f) /\ TakesNoMore(run, f) /\ (Moving(f) => Moving(run)) /\ Working(f)
    BY <1>2, <1>5, <1>9 DEF OwesNoLess, Clear, TakesNoMore, Taking, Working, Moving
  <2>2. QED BY <1>1, <1>2, <1>9, <1>11, <2>1, RunTypes, ControlFollows
<1>13. RunFits(s) /\ RunFits(f)
  BY <1>1, <1>2, <1>9, <1>10, RunTypes DEF RunFits, Working, Rows
<1>14. faults' \in 0..MaxFaults /\ faults' >= faults
  BY FaultsCount DEF ContinueEnds
<1>15. CASE Continues(r) /\ runs' = [runs EXCEPT ![r] = s]
  BY <1>1, <1>2, <1>3, <1>10, <1>11, <1>13, <1>14, <1>15, MoveStep
<1>16. CASE Continues(r) /\ runs' = [runs EXCEPT ![r] = f]
  BY <1>1, <1>2, <1>3, <1>9, <1>11, <1>13, <1>14, <1>16, MoveStep
<1>17. CASE Refused /\ runs' = [runs EXCEPT ![r] = f]
  <2>1. results' \in [Steps -> Results] /\ sets' \in Values
    BY <1>3 DEF AttemptInv, Types
  <2>2. rows' = rows /\ outcomes' = outcomes /\ owed' = owed
    BY <1>17 DEF Refused
  <2>3. QED BY <1>3, <1>12, <1>14, <1>17, <2>1, <2>2, FollowStep
<1>18. QED BY <1>7, <1>8, <1>15, <1>16, <1>17 DEF ContinueEnds, Become

---------------------------------------------------------------------------
(* The actions: executeTask, and Graphile. *)

LEMMA HandlerEndsStep ==
  ASSUME AttemptInv, NEW r \in Runs, HandlerEnds(r) \/ TimesOut(r) PROVE AttemptInv'
<1> DEFINE run == runs[r]
<1>1. run # NoRun /\ run.state = "handler"
  BY DEF HandlerEnds, TimesOut, NoRun
<1>2. run \in RunRec
  BY <1>1, RunTypes
<1>3. PICK how \in {"ok", "fail", "fatal"}, late \in BOOLEAN :
        runs' = [runs EXCEPT ![r] = [run EXCEPT !.state = "ended", !.how = how,
                                                !.expired = late]]
  <2>1. CASE HandlerEnds(r)
    <3>1. PICK how \in {"ok", "fail", "fatal"} :
            runs' = [runs EXCEPT ![r] = [run EXCEPT !.state = "ended", !.how = how]]
      BY <2>1 DEF HandlerEnds, Become
    <3>2. [run EXCEPT !.state = "ended", !.how = how]
            = [run EXCEPT !.state = "ended", !.how = how, !.expired = run.expired]
      BY <1>2 DEF RunRec
    <3>3. run.expired \in BOOLEAN
      BY <1>2 DEF RunRec
    <3>4. QED BY <3>1, <3>2, <3>3
  <2>2. CASE TimesOut(r)
    BY <2>2 DEF TimesOut, Become
  <2>3. QED BY <2>1, <2>2
<1>4. PICK s : s = [run EXCEPT !.state = "ended", !.how = how, !.expired = late]
  OBVIOUS
<1>5. s \in RunRec
  BY <1>2, <1>4 DEF RunRec, States
<1>6. /\ s.row = run.row /\ s.state = "ended" /\ s.how = how
      /\ s.ending = run.ending /\ s.cache = run.cache /\ s.running = run.running
      /\ s.writing = run.writing /\ s.prog = run.prog /\ s.chain = run.chain
  BY <1>2, <1>4 DEF RunRec
<1>7. Follows(run, s)
  <2>1. ProgFits(s)
    BY <1>1, <1>6, RunTypes DEF ProgFits, Accounted
  <2>2. OwesNoLess(run, s) /\ TakesNoMore(run, s) /\ (Moving(s) => Moving(run)) /\ Working(s)
    BY <1>1, <1>6 DEF OwesNoLess, TakesNoMore, Taking, Working, Moving
  <2>3. s.chain = "continue" => s.row = Job
    BY <1>1, <1>6, RunTypes DEF RunFits
  <2>4. s.state \notin Gone
    BY <1>6 DEF Gone
  <2>5. QED BY <1>1, <1>5, <1>6, <2>1, <2>2, <2>3, <2>4, RunTypes, ControlFollows
<1>8. UNCHANGED <<rows, outcomes, reader, history, faults>>
  BY DEF HandlerEnds, TimesOut
<1>9. QED BY <1>3, <1>4, <1>7, <1>8, PlainStep

(* close(): what is not written yet is queued, or was not to persist. *)
LEMMA ClosingFollows ==
  ASSUME NEW run \in RunRec, run.row \in Rows, RunFits(run), ProgFits(run),
         run.chain = "free", NEW how \in {"ok", "fail", "fatal", "wait", "continue", "none"},
         how = "continue" => Moving(run)
  PROVE  Follows(run, Closing(run, how)) /\ Closing(run, how).state = "closing"
<1>1. run.prog \in Progress
  BY DEF RunRec
<1>2. PICK w \in Progress : /\ w = IF Persists(how) THEN Wrote(run.prog) ELSE run.prog
                            /\ w.value = run.prog.value /\ w.dirty = run.prog.dirty
                            /\ w.writing = run.prog.writing /\ w.owes = run.prog.owes
                            /\ Persists(how) /\ w.dirty => w.queued
  <2>1. PICK w : w = Wrote(run.prog)
    OBVIOUS
  <2>2. /\ w \in Progress /\ w.value = run.prog.value /\ w.dirty = run.prog.dirty
        /\ w.writing = run.prog.writing /\ w.owes = run.prog.owes /\ (w.dirty => w.queued)
    BY <1>1, <2>1, WroteTypes
  <2>3. QED BY <1>1, <2>1, <2>2
<1>3. PICK p : p = [w EXCEPT !.closed = TRUE, !.timer = FALSE, !.lost = "no"]
  OBVIOUS
<1>4. /\ p \in Progress /\ p.value = run.prog.value /\ p.dirty = run.prog.dirty
      /\ p.writing = run.prog.writing /\ p.closed /\ ~p.timer /\ p.owes = run.prog.owes
      /\ p.lost = "no" /\ p.queued = w.queued
  BY <1>2, <1>3 DEF Progress
<1>5. p = [Closed(run.prog, Persists(how)) EXCEPT !.lost = "no"]
  BY <1>2, <1>3 DEF Closed, Progress
<1>6. PICK s : s = [run EXCEPT !.state = "closing", !.how = how, !.prog = p,
                               !.called = FALSE, !.ending = "none", !.cache = NoSteps]
  OBVIOUS
<1>7. s = Closing(run, how)
  BY <1>5, <1>6 DEF Closing, RunRec
<1>8. NoSteps \in [Steps -> Results]
  BY AttemptAssumption DEF NoSteps, Results, AttemptAssumption
<1>9. s \in RunRec
  BY <1>4, <1>6, <1>8 DEF RunRec, States
<1>10. /\ s.row = run.row /\ s.state = "closing" /\ s.how = how /\ s.chain = "free"
       /\ s.ending = "none" /\ s.cache = NoSteps /\ s.running = run.running
       /\ s.writing = run.writing /\ s.prog = p
  BY <1>6 DEF RunRec
<1>11. ProgFits(s)
  BY <1>2, <1>4, <1>10 DEF ProgFits, Accounted, Clear
<1>12. OwesNoLess(run, s) /\ TakesNoMore(run, s) /\ (Moving(s) => Moving(run))
  BY <1>4, <1>10 DEF OwesNoLess, Clear, TakesNoMore, Taking, Working, Moving
<1>13. s.state \notin Gone /\ s.state # "handler"
  BY <1>10 DEF Gone
<1>14. Follows(run, s)
  BY <1>9, <1>10, <1>11, <1>12, <1>13, ControlFollows
<1>15. QED BY <1>7, <1>10, <1>14

LEMMA DecideStep ==
  ASSUME AttemptInv, NEW r \in Runs, Decide(r) PROVE AttemptInv'
<1>1. runs[r] # NoRun /\ runs[r].chain = "free"
  BY DEF Decide, NoRun
<1>2. runs[r] \in RunRec
  BY <1>1, RunTypes
<1>3. PICK how : how = Decided(runs[r])
  OBVIOUS
<1>4. /\ how \in {"ok", "fail", "fatal", "wait", "continue", "none"}
      /\ how = "continue" => Moving(runs[r])
  BY <1>2, <1>3 DEF Decided, Moving, RunRec
<1>5. PICK s : s = Closing(runs[r], how)
  OBVIOUS
<1>6. Follows(runs[r], s)
  BY <1>1, <1>4, <1>5, RunTypes, ClosingFollows
<1>7. runs' = [runs EXCEPT ![r] = s] /\ UNCHANGED <<rows, outcomes, reader, history, faults>>
  BY <1>3, <1>5 DEF Decide, Become
<1>8. QED BY <1>6, <1>7, PlainStep

LEMMA CloseEndsStep ==
  ASSUME AttemptInv, NEW r \in Runs, CloseEnds(r) PROVE AttemptInv'
<1> DEFINE run == runs[r]
<1>1. run # NoRun /\ run.state = "closing" /\ Drained(run.prog)
  BY DEF CloseEnds, NoRun
<1>2. run \in RunRec /\ run.prog \in Progress
  BY <1>1, RunTypes
<1>3. PICK p : p = IF run.how \in {"fail", "fatal"} THEN Told(run.prog) ELSE Swallowed(run.prog)
  OBVIOUS
<1>4. /\ p \in Progress /\ p.value = run.prog.value /\ p.dirty = run.prog.dirty
      /\ p.writing = run.prog.writing /\ p.queued = run.prog.queued
      /\ p.closed = run.prog.closed /\ p.timer = run.prog.timer /\ p.owes = run.prog.owes
  BY <1>2, <1>3, ToldTypes
<1>5. PICK s : s = [run EXCEPT !.state = "settling", !.prog = p]
  OBVIOUS
<1>6. s = [run EXCEPT !.state = "settling",
              !.prog = IF run.how \in {"fail", "fatal"} THEN Told(@) ELSE Swallowed(@)]
  BY <1>2, <1>3, <1>5 DEF RunRec
<1>7. s \in RunRec
  BY <1>2, <1>4, <1>5 DEF RunRec, States
<1>8. /\ s.row = run.row /\ s.state = "settling" /\ s.how = run.how /\ s.chain = run.chain
      /\ s.ending = run.ending /\ s.cache = run.cache /\ s.running = run.running
      /\ s.writing = run.writing /\ s.prog = p
  BY <1>2, <1>5 DEF RunRec
<1>9. Follows(run, s)
  <2>0. Accounted("settling", run.how, p)
    <3>1. Accounted("closing", run.how, run.prog) /\ ~run.prog.queued
      BY <1>1, RunTypes DEF ProgFits, Drained
    <3>2. p.lost = IF run.how \in {"fail", "fatal"} /\ run.prog.failure /\ run.prog.lost = "silent"
                   THEN "told" ELSE run.prog.lost
      BY <1>2, <1>3, ToldTypes
    <3>3. run.prog.lost \in {"no", "silent", "told"}
      BY <1>2 DEF Progress
    <3>4. QED BY <1>4, <3>1, <3>2, <3>3 DEF Accounted, Persists
  <2>1. ProgFits(s)
    BY <1>1, <1>4, <1>8, <2>0, RunTypes DEF ProgFits, Clear, Drained
  <2>2. OwesNoLess(run, s) /\ TakesNoMore(run, s) /\ (Moving(s) => Moving(run))
    BY <1>1, <1>4, <1>8 DEF OwesNoLess, Clear, TakesNoMore, Taking, Working, Moving
  <2>3. s.chain = "free" /\ s.ending = "none"
    BY <1>1, <1>8, RunTypes DEF RunFits, Working
  <2>4. s.state \notin Gone /\ s.state # "handler"
    BY <1>8 DEF Gone
  <2>5. QED BY <1>1, <1>7, <1>8, <2>1, <2>2, <2>3, <2>4, RunTypes, ControlFollows
<1>10. runs' = [runs EXCEPT ![r] = s] /\ UNCHANGED <<rows, outcomes, reader, history, faults>>
  BY <1>6 DEF CloseEnds, Become
<1>11. QED BY <1>9, <1>10, PlainStep

LEMMA OverTypes ==
  ASSUME AttemptInv, NEW r \in Runs, runs[r] # NoRun, NEW s, s = Over(runs[r])
  PROVE  /\ s \in RunRec /\ RunFits(s) /\ ProgFits(s) /\ ~Moving(s) /\ KnowsNoMore(runs[r], s)
         /\ s.row = runs[r].row /\ s.state = "over"
<1> DEFINE run == runs[r]
<1>1. run \in RunRec /\ RunFits(run) /\ run.row \in Rows
  BY RunTypes
<1>2. /\ run.row \in 0..2 /\ run.running \in SUBSET Steps /\ run.writing \in [Steps -> Results]
      /\ run.cache \in [Steps -> Results]
  BY <1>1 DEF RunRec
<1>3. s = [NoRun EXCEPT !.row = run.row, !.state = "over",
                        !.running = run.running, !.writing = run.writing]
  BY DEF Over
<1>4. s \in RunRec
  BY <1>2, <1>3, NoRunTypes DEF RunRec, States
<1>5. /\ s.row = run.row /\ s.state = "over" /\ s.running = run.running /\ s.ending = "none"
      /\ s.writing = run.writing /\ s.cache = NoSteps /\ s.how = "none" /\ s.chain = "free"
      /\ s.prog = NewProgress(0)
  BY <1>3 DEF NoRun
<1>6. RunFits(s) /\ ProgFits(s)
  BY <1>1, <1>5 DEF RunFits, ProgFits, Accounted, NewProgress, Clear
<1>7. KnowsNoMore(run, s) /\ ~Moving(s)
  BY <1>2, <1>5 DEF KnowsNoMore, Pending, NoSteps, Moving
<1>8. QED BY <1>4, <1>5, <1>6, <1>7

LEMMA OverStep ==
  ASSUME AttemptInv, NEW r \in Runs, runs[r] # NoRun, ~Owned(r),
         runs' = [runs EXCEPT ![r] = Over(runs[r])],
         rows' = rows, outcomes' = outcomes, owed' = owed, reader' = reader,
         pruned' = pruned, resolved' = resolved, results' = results, sets' = sets,
         faults' = faults
  PROVE  AttemptInv'
<1>1. PICK s : s = Over(runs[r])
  OBVIOUS
<1>2. BecomesIn(runs[r], s) /\ KnowsNoMore(runs[r], s)
  BY <1>1, OverTypes DEF BecomesIn
<1>3. /\ results' \in [Steps -> Results] /\ sets' \in Values
      /\ faults' \in 0..MaxFaults /\ faults' >= faults
  BY DEF AttemptInv, Types
<1>4. ~Holds(r)
  BY DEF Holds
<1>5. QED BY <1>1, <1>2, <1>3, <1>4, SteadyStep

LEMMA UnlockedTypes ==
  ASSUME NEW row \in RowRec PROVE Unlocked(row) \in RowRec
<1>1. 0 \in 0..MaxRuns
  BY AttemptAssumption DEF AttemptAssumption
<1>2. PICK spent \in BOOLEAN : spent = (row.spent \/ row.tries >= MaxAttempts)
  BY DEF RowRec
<1>3. Unlocked(row) = [row EXCEPT !.state = "queued", !.lock = 0, !.spent = spent]
  BY <1>2 DEF Unlocked, RowRec
<1>4. QED BY <1>1, <1>3 DEF RowRec

LEMMA GraphileFailsStep ==
  ASSUME AttemptInv, NEW r \in Runs, GraphileFails(r) PROVE AttemptInv'
<1> DEFINE run == runs[r]
<1>1. run # NoRun /\ run.state = "leaving"
  BY DEF GraphileFails, NoRun
<1>2. /\ outcomes' = outcomes /\ reader' = reader /\ pruned' = pruned /\ faults' = faults
      /\ resolved' = resolved /\ results' = results /\ sets' = sets
      /\ runs' = [runs EXCEPT ![r] = Over(run)]
  BY DEF GraphileFails, Become
<1>3. CASE ~Owned(r)
  <2>1. rows' = rows /\ owed' = owed
    BY <1>3 DEF GraphileFails, Writes
  <2>2. QED BY <1>1, <1>2, <1>3, <2>1, OverStep
<1>4. CASE Owned(r)
  <2>1. PICK s : s = Over(run)
    OBVIOUS
  <2>2. PICK row : row = Unlocked(RowOf(r))
    OBVIOUS
  <2>3. row \in RowRec /\ run.row \in Rows /\ run.prog.owes \in Values
    BY <1>1, <2>2, UnlockedTypes, RunTypes DEF Progress
  <2>4. rows' = [rows EXCEPT ![run.row] = row]
    BY <1>4, <2>2 DEF GraphileFails, Writes
  <2>5. PICK o \in Values : o = IF Excused(run) THEN RowOf(r).progress ELSE run.prog.owes
    BY <1>1, <2>3, RunTypes DEF RowRec
  <2>6. owed' = [owed EXCEPT ![run.row] = o]
    BY <1>4, <2>5 DEF GraphileFails
  <2>7. /\ owed' \in [Rows -> Values] /\ owed'[run.row] = o
        /\ \A j \in Rows : j # run.row => owed'[j] = owed[j]
    BY <2>3, <2>6 DEF AttemptInv, Types
  <2>8. Holds(r)
    BY <1>4, <2>3 DEF Holds
  <2>9. run.prog.writing = {} /\ run.prog.owes = run.prog.value /\ (run.prog.dirty => Excused(run))
    BY <1>1, RunTypes DEF ProgFits, Accounted, Excused, Drained
  <2>10. owed'[run.row] = RowOf(r).progress
    BY <2>5, <2>7, <2>8, <2>9 DEF AttemptInv, Written, WrittenBy, Clear
  <2>11. faults' \in 0..MaxFaults /\ faults' >= faults
    BY <1>2 DEF AttemptInv, Types
  <2>12. s \in RunRec /\ RunFits(s) /\ ProgFits(s) /\ ~Moving(s) /\ KnowsNoMore(runs[r], s)
    BY <1>1, <2>1, OverTypes
  <2>13. runs' = [runs EXCEPT ![r] = s]
    BY <1>2, <2>1
  <2> HIDE DEF run
  <2>14. row.state = "queued" => owed'[runs[r].row] = RowOf(r).progress
    BY <2>10 DEF run
  <2>15. rows' = [rows EXCEPT ![runs[r].row] = row]
         /\ \A j \in Rows : j # runs[r].row => owed'[j] = owed[j]
    BY <2>4, <2>7 DEF run
  <2>16. QED BY <1>2, <2>2, <2>3, <2>7, <2>8, <2>11, <2>12, <2>13, <2>14, <2>15, UnlockStep
<1>5. QED BY <1>3, <1>4

LEMMA ReleaseStep ==
  ASSUME AttemptInv, NEW r \in Runs, Release(r) PROVE AttemptInv'
<1> DEFINE run == runs[r]
<1>1. run # NoRun /\ Owned(r)
  BY DEF Release, NoRun, Gone
<1>2. /\ outcomes' = outcomes /\ reader' = reader /\ pruned' = pruned
      /\ resolved' = resolved /\ results' = results /\ sets' = sets
      /\ faults' \in 0..MaxFaults /\ faults' >= faults
  BY FaultsCount DEF Release
<1>3. PICK s : /\ s \in {runs[r], [NoRun EXCEPT !.row = Job, !.state = "dead"]}
               /\ runs' = [runs EXCEPT ![r] = s]
  <2>1. runs = [runs EXCEPT ![r] = runs[r]]
    BY DEF AttemptInv, Types
  <2>2. QED BY <2>1 DEF Release, Become
<1>4. /\ s \in RunRec /\ RunFits(s) /\ ProgFits(s) /\ KnowsNoMore(runs[r], s)
      /\ ~Moving(s) \/ s = runs[r]
  <2>1. CASE s = runs[r]
    <3>1. runs[r].cache \in [Steps -> Results]
      BY <1>1, RunTypes DEF RunRec
    <3>2. QED BY <1>1, <2>1, <3>1, RunTypes DEF KnowsNoMore
  <2>2. CASE s = [NoRun EXCEPT !.row = Job, !.state = "dead"]
    <3>1. s \in RunRec
      <4>1. Job \in 0..2 /\ "dead" \in States
        BY DEF Job, States
      <4>2. QED BY <2>2, <4>1, NoRunTypes DEF RunRec
    <3>2. /\ s.row = Job /\ s.state = "dead" /\ s.running = {} /\ s.ending = "none"
          /\ s.writing = NoSteps /\ s.cache = NoSteps /\ s.how = "none" /\ s.chain = "free"
          /\ s.prog = NewProgress(0)
      BY <2>2 DEF NoRun
    <3>3. RunFits(s) /\ ProgFits(s) /\ ~Moving(s)
      BY <3>2 DEF RunFits, ProgFits, Accounted, NewProgress, Clear, NoSteps, Moving, Rows
    <3>4. KnowsNoMore(runs[r], s)
      BY <3>2 DEF KnowsNoMore, Pending, NoSteps
    <3>5. QED BY <3>1, <3>3, <3>4
  <2>3. QED BY <1>3, <2>1, <2>2
<1>5. PICK row : row = Unlocked(RowOf(r))
  OBVIOUS
<1>6. row \in RowRec /\ run.row \in Rows
  BY <1>1, <1>5, UnlockedTypes, RunTypes
<1>7. /\ rows' = [rows EXCEPT ![run.row] = row]
      /\ owed' = [owed EXCEPT ![run.row] = RowOf(r).progress]
  BY <1>5 DEF Release, RowOf
<1>8. /\ owed' \in [Rows -> Values] /\ owed'[run.row] = RowOf(r).progress
      /\ \A j \in Rows : j # run.row => owed'[j] = owed[j]
  <2>1. RowOf(r).progress \in Values
    BY <1>1, RunTypes DEF RowRec
  <2>2. QED BY <1>6, <1>7, <2>1 DEF AttemptInv, Types
<1>9. Holds(r)
  BY <1>1, <1>6 DEF Holds
<1>10. row.state = "queued" => owed'[runs[r].row] = RowOf(r).progress
  BY <1>8
<1>11. rows' = [rows EXCEPT ![runs[r].row] = row]
       /\ \A j \in Rows : j # runs[r].row => owed'[j] = owed[j]
  BY <1>7, <1>8
<1>12. runs' = [runs EXCEPT ![r] = s] /\ row \in RowRec /\ owed' \in [Rows -> Values]
  BY <1>3, <1>6, <1>8
<1> HIDE DEF run
<1>13. QED BY <1>2, <1>4, <1>5, <1>9, <1>10, <1>11, <1>12, UnlockStep

LEMMA SettleStep ==
  ASSUME AttemptInv, NEW r \in Runs, Settle(r) PROVE AttemptInv'
<1> DEFINE run == runs[r]
<1>1. run # NoRun /\ run.state = "settling"
  BY DEF Settle, NoRun
<1>2. run \in RunRec /\ run.row \in Rows /\ RowOf(r) \in RowRec /\ run.chain = "free"
  BY <1>1, RunTypes DEF RunFits, Working
<1>3. /\ owed' = owed /\ reader' = reader /\ pruned' = pruned
      /\ resolved' = resolved /\ results' = results /\ sets' = sets
  BY DEF Settle, history
<1>4. PICK left : left = [run EXCEPT !.state = "leaving"]
  OBVIOUS
<1>5. PICK back : back = Closing(run, "fail")
  OBVIOUS
<1>6. PICK over : over = Over(run)
  OBVIOUS
<1>7. PICK gone : gone = [RowOf(r) EXCEPT !.state = "gone"]
  OBVIOUS
<1>8. PICK spent : spent = [RowOf(r) EXCEPT !.spent = TRUE]
  OBVIOUS
<1>9. faults' \in 0..MaxFaults /\ faults' >= faults
  BY FaultsCount DEF Settle, Settles
<1>10. ASSUME Persists(run.how)
       PROVE  Follows(run, left) /\ left.state = "leaving" /\ left.prog = run.prog
  <2>1. left \in RunRec
    BY <1>2, <1>4 DEF RunRec, States
  <2>2. /\ left.row = run.row /\ left.state = "leaving" /\ left.how = run.how
        /\ left.ending = run.ending /\ left.cache = run.cache /\ left.running = run.running
        /\ left.writing = run.writing /\ left.prog = run.prog /\ left.chain = "free"
    BY <1>2, <1>4 DEF RunRec
  <2>3. ProgFits(left)
    BY <1>1, <1>10, <2>2, RunTypes DEF ProgFits, Accounted
  <2>4. /\ OwesNoLess(run, left) /\ TakesNoMore(run, left) /\ (Moving(left) => Moving(run))
        /\ left.state \notin Gone /\ left.state # "handler"
    BY <2>2 DEF OwesNoLess, TakesNoMore, Taking, Working, Moving, Gone
  <2>5. left.ending = "none"
    BY <1>1, <2>2, RunTypes DEF RunFits, Working
  <2>6. Follows(run, left)
    BY <1>1, <2>1, <2>2, <2>3, <2>4, <2>5, RunTypes, ControlFollows
  <2>7. QED BY <2>2, <2>6
<1>11. Follows(run, back) /\ ~Moving(back)
  <2>1. Follows(run, back)
    BY <1>1, <1>2, <1>5, RunTypes, ClosingFollows
  <2>2. back.how = "fail" /\ back.ending = "none"
    BY <1>2, <1>5 DEF Closing, RunRec
  <2>3. QED BY <2>1, <2>2 DEF Moving
<1>12. /\ over \in RunRec /\ RunFits(over) /\ ProgFits(over) /\ ~Moving(over)
       /\ KnowsNoMore(run, over)
  BY <1>1, <1>6, OverTypes
<1>13. outcomes' \in [Rows -> Outcomes] \/ ~Unsettled
  BY DEF Unsettled, AttemptInv, Types
<1>14. ASSUME NEW s, runs' = [runs EXCEPT ![r] = s], Follows(run, s), Unsettled
       PROVE  AttemptInv'
  <2>1. results' \in [Steps -> Results] /\ sets' \in Values
    BY <1>3 DEF AttemptInv, Types
  <2>2. rows' = rows /\ outcomes' = outcomes
    BY <1>14 DEF Unsettled
  <2>3. QED BY <1>3, <1>9, <1>14, <2>1, <2>2, FollowStep
<1>15. Owned(r) => Holds(r)
  BY <1>2 DEF Holds
<1>16. ASSUME NEW s \in {over, back}, runs' = [runs EXCEPT ![r] = s], Owned(r),
              Settled(r, gone, "completed")
       PROVE  AttemptInv'
  <2>1. gone \in RowRec /\ gone.state = "gone"
    BY <1>2, <1>7 DEF RowRec
  <2>2. /\ rows' = [rows EXCEPT ![runs[r].row] = gone]
        /\ outcomes' = [outcomes EXCEPT ![runs[r].row] = "completed"]
    BY <1>16 DEF Settled
  <2>3. s \in RunRec /\ RunFits(s) /\ ProgFits(s) /\ ~Moving(s) /\ KnowsNoMore(runs[r], s)
    BY <1>11, <1>12, <1>16 DEF Follows, BecomesIn
  <2>4. owed' \in [Rows -> Values]
    BY <1>3 DEF AttemptInv, Types
  <2>5. gone = [RowOf(r) EXCEPT !.state = "gone"]
    BY <1>7
  <2>6. /\ gone.state = "queued" => owed'[runs[r].row] = RowOf(r).progress
        /\ \A j \in Rows : j # runs[r].row => owed'[j] = owed[j]
    BY <1>3, <2>1
  <2>7. runs' = [runs EXCEPT ![r] = s] /\ Holds(r)
    BY <1>15, <1>16
  <2> HIDE DEF run
  <2>8. QED BY <1>3, <1>9, <2>1, <2>2, <2>3, <2>4, <2>5, <2>6, <2>7, UnlockStep
<1>17. ASSUME NEW row \in {RowOf(r), spent}, runs' = [runs EXCEPT ![r] = left], Owned(r),
              Persists(run.how), Settled(r, row, "failed")
       PROVE  AttemptInv'
  <2>1. /\ row \in RowRec /\ row.state = "locked" /\ row.lock = r /\ row.steps = RowOf(r).steps
        /\ row.tries = RowOf(r).tries /\ row.progress = RowOf(r).progress
    BY <1>2, <1>8, <1>17 DEF RowRec, Owned
  <2>2. /\ rows' = [rows EXCEPT ![runs[r].row] = row]
        /\ outcomes' = [outcomes EXCEPT ![runs[r].row] = "failed"]
    BY <1>17 DEF Settled
  <2>3. /\ outcomes' \in [Rows -> Outcomes]
        /\ runs[r].row # Job => outcomes'[Job] = outcomes[Job]
    BY <1>2, <2>2 DEF AttemptInv, Types, Outcomes, Rows, Job
  <2>4. /\ BecomesIn(runs[r], left) /\ KnowsNoMore(runs[r], left)
        /\ TakesNoMore(runs[r], left) /\ left.state \notin Gone
    BY <1>10, <1>17 DEF Follows, Gone
  <2>5. Clear(left.prog) => row.progress = left.prog.value
    BY <1>10, <1>15, <1>17, <2>1 DEF AttemptInv, Written, WrittenBy
  <2>6. runs' = [runs EXCEPT ![r] = left] /\ Holds(r)
    BY <1>15, <1>17
  <2> HIDE DEF run
  <2>7. QED BY <1>3, <1>9, <2>1, <2>2, <2>3, <2>4, <2>5, <2>6, RowStep
<1>18. CASE run.how = "continue" /\ Unsettled /\ Clean /\ Become(r, Over(run))
  <2>1. run.row = Job /\ rows[Job].state = "gone"
    BY <1>18 DEF AttemptInv, Continued, Moving
  <2>2. ~Owned(r)
    BY <2>1 DEF Owned, RowOf
  <2>3. rows' = rows /\ outcomes' = outcomes /\ faults' = faults
        /\ runs' = [runs EXCEPT ![r] = Over(runs[r])]
    BY <1>18 DEF Unsettled, Clean, Become
  <2>4. QED BY <1>1, <1>3, <2>2, <2>3, OverStep
<1>19. CASE Settles(r, gone, "completed", over, back)
  <2>1. CASE Owned(r) /\ Settled(r, gone, "completed")
    BY <1>16, <1>19, <2>1 DEF Settles, Become
  <2>2. CASE Unsettled /\ Become(r, back)
    BY <1>11, <1>14, <2>2 DEF Become
  <2>3. QED BY <1>19, <2>1, <2>2 DEF Settles
<1>20. CASE Persists(run.how) /\ Unsettled /\ Become(r, left)
  BY <1>10, <1>14, <1>20 DEF Become
<1>21. ASSUME NEW row \in {RowOf(r), spent}, Persists(run.how), Settles(r, row, "failed", left, left)
       PROVE  AttemptInv'
  <2>1. CASE Owned(r) /\ Settled(r, row, "failed")
    BY <1>17, <1>21, <2>1 DEF Settles, Become
  <2>2. CASE Unsettled
    BY <1>20, <1>21, <2>2 DEF Settles
  <2>3. QED BY <1>21, <2>1, <2>2 DEF Settles
<1>22. QED
  <2>1. run.how \in {"wait", "fail", "fatal"} => Persists(run.how)
    BY DEF Persists
  <2>2. QED
    BY <1>4, <1>5, <1>6, <1>7, <1>8, <1>18, <1>19, <1>20, <1>21, <2>1 DEF Settle

---------------------------------------------------------------------------
(* Theorems. *)

LEMMA InitHolds == Init => AttemptInv
<1> SUFFICES ASSUME Init PROVE AttemptInv
  OBVIOUS
<1>1. Queued \in RowRec /\ NoRow \in RowRec /\ NoRun \in RunRec /\ RunFits(NoRun) /\ ProgFits(NoRun)
  <2>1. NoRow \in RowRec
    <3>1. 0 \in 0..MaxRuns /\ 0 \in Values /\ NoSteps \in [Steps -> Results]
      BY AttemptAssumption DEF AttemptAssumption, Values, Results, NoSteps
    <3>2. QED BY <3>1 DEF NoRow, RowRec
  <2>2. QED BY <2>1, QueuedTypes, NoRunTypes
<1>2. /\ rows \in [Rows -> RowRec] /\ rows[Job] = Queued /\ rows[Continuation] = NoRow
      /\ runs \in [Runs -> RunRec] /\ Rows = {Job, Continuation} /\ Job # Continuation
      /\ \A r \in Runs : runs[r] = NoRun
  BY <1>1 DEF Init, Rows, Job, Continuation
<1>3. /\ Queued.state = "queued" /\ Queued.tries = 0 /\ NoRow.state = "none" /\ NoRow.tries = 0
      /\ NoRun.state = "none" /\ NoRun.how = "none" /\ NoRun.ending = "none"
      /\ NoRun.cache = NoSteps /\ NoRun.row = 0
  BY DEF Queued, NoRow, NoRun
<1>4. Types
  <2>1. 0 \in Values /\ 0 \in 0..MaxFaults /\ NoSteps \in [Steps -> Results]
    BY AttemptAssumption DEF AttemptAssumption, Values, Results, NoSteps
  <2>2. outcomes \in [Rows -> Outcomes] /\ owed \in [Rows -> Values]
        /\ resolved \in [Steps -> SUBSET Results] /\ reader \in [missed : BOOLEAN, told : Answers]
    BY <2>1 DEF Init, Outcomes, Answers
  <2>3. QED BY <1>2, <2>1, <2>2 DEF Types, Init
<1>5. LocksWork /\ JobFirst /\ RunsFit /\ Continued
  BY <1>1, <1>2, <1>3 DEF LocksWork, JobFirst, RunsFit, Continued, Moving
<1>6. Kept
  BY <1>2, <1>3 DEF Kept, NoSteps, Init
<1>7. OnlyUnknown /\ Written /\ NextRunReadsLast /\ \A r \in Runs : TriesLeftBy(r)
  <2>1. \A r \in Runs : ~Holds(r)
    BY <1>2, <1>3 DEF Holds, Rows, Job, Continuation
  <2>2. \A j \in Rows : owed[j] = 0 /\ rows[j].progress = 0
    BY <1>2 DEF Init, Queued, NoRow
  <2>3. QED BY <2>1, <2>2 DEF OnlyUnknown, Written, WrittenBy, NextRunReadsLast, TriesLeftBy
<1>8. \A j \in Rows : TriesOf(j)
  <2>1. faults = 0 /\ MaxAttempts \in Int /\ MaxAttempts > 0
    BY AttemptAssumption DEF Init, AttemptAssumption
  <2>2. QED BY <1>2, <1>3, <2>1 DEF TriesOf
<1>9. Readers
  BY <1>2, <1>3 DEF Readers, Live, Init
<1>10. QED BY <1>4, <1>5, <1>6, <1>7, <1>8, <1>9 DEF AttemptInv, Tries

LEMMA StutterHolds == ASSUME AttemptInv, UNCHANGED vars PROVE AttemptInv'
<1>1. reader' \in [missed : BOOLEAN, told : Answers] /\ outcomes' \in [Rows -> Outcomes]
  BY DEF AttemptInv, Types, vars
<1>2. Readers'
  BY ReadersStay DEF AttemptInv, vars, history
<1>3. QED BY <1>1, <1>2, ReadStep DEF vars, history

LEMMA NextHolds == AttemptInv /\ [Next]_vars => AttemptInv'
<1> SUFFICES ASSUME AttemptInv, [Next]_vars PROVE AttemptInv'
  OBVIOUS
<1>1. CASE Prune \/ Query
  BY <1>1, PruneStep, QueryStep
<1>2. ASSUME NEW r \in Runs, NEW j \in Rows, Fetch(j, r) PROVE AttemptInv'
  BY <1>2, FetchStep
<1>3. ASSUME NEW r \in Runs, NEW x \in Steps,
             CallStep(r, x) \/ StepEnds(r, x) \/ Checkpoint(r, x)
      PROVE  AttemptInv'
  BY <1>3, CallStepStep, StepEndsStep, CheckpointActionStep
<1>4. ASSUME NEW r \in Runs,
             CallSet(r) \/ Parsed(r) \/ TimerFires(r) \/ Flush(r) \/ LinkStarts(r) \/ LinkEnds(r)
      PROVE  AttemptInv'
  BY <1>4, CallSetStep, ParsedStep, TimerFiresStep, FlushStep, LinkStartsStep, LinkEndsStep
<1>5. ASSUME NEW r \in Runs,
             CallWait(r) \/ WaitEnds(r) \/ CallContinue(r) \/ ContinueEnds(r)
      PROVE  AttemptInv'
  BY <1>5, CallWaitStep, WaitEndsStep, CallContinueStep, ContinueEndsStep
<1>6. ASSUME NEW r \in Runs,
             \/ HandlerEnds(r) \/ TimesOut(r) \/ Decide(r) \/ CloseEnds(r) \/ Settle(r)
             \/ GraphileFails(r) \/ Release(r)
      PROVE  AttemptInv'
  BY <1>6, HandlerEndsStep, DecideStep, CloseEndsStep, SettleStep, GraphileFailsStep, ReleaseStep
<1>7. CASE UNCHANGED vars
  BY <1>7, StutterHolds
<1>8. QED BY <1>1, <1>2, <1>3, <1>4, <1>5, <1>6, <1>7 DEF Next

THEOREM InvariantHolds == Spec => []AttemptInv
BY InitHolds, NextHolds, PTL DEF Spec

(* TypeOK: values stay in range, attempts included, no timer of a run's    *)
(* progress outlives close(), and a continuation replaces its job.         *)
THEOREM TypesHold == Spec => []TypeOK
<1>1. AttemptInv => TypeOK
  <2> SUFFICES ASSUME AttemptInv PROVE TypeOK
    OBVIOUS
  <2>1. ASSUME NEW j \in Rows
        PROVE  /\ rows[j].state \in {"none", "queued", "locked", "gone"}
               /\ rows[j].lock \in 0..MaxRuns /\ rows[j].tries \in (-MaxFaults)..MaxAttempts
               /\ rows[j].steps \in [Steps -> Results] /\ rows[j].progress \in Values
    <3>1. rows[j] \in RowRec /\ faults \in 0..MaxFaults /\ MaxFaults \in Int /\ MaxAttempts \in Int
      BY AttemptAssumption DEF AttemptInv, Types, AttemptAssumption
    <3>2. rows[j].tries \in Int /\ rows[j].tries >= -faults /\ rows[j].tries <= MaxAttempts
      BY <3>1 DEF RowRec, AttemptInv, Tries, TriesOf
    <3>3. rows[j].tries \in (-MaxFaults)..MaxAttempts
      BY <3>1, <3>2
    <3>4. QED BY <3>1, <3>3 DEF RowRec
  <2>2. ASSUME NEW r \in Runs
        PROVE  /\ runs[r].state \in States /\ runs[r].prog \in Progress
               /\ runs[r].running \subseteq Steps
               /\ runs[r].state \in {"settling", "leaving"} =>
                    runs[r].prog.closed /\ ~runs[r].prog.timer /\ Drained(runs[r].prog)
    <3>1. runs[r] \in RunRec /\ ProgFits(runs[r])
      BY DEF AttemptInv, Types, RunsFit
    <3>2. QED BY <3>1 DEF RunRec, ProgFits
  <2>3. QED BY <2>1, <2>2 DEF TypeOK, AttemptInv, Types, JobFirst
<1>2. QED BY <1>1, InvariantHolds, PTL

(* ResolvedStepsStay: a step's result is what the row of the job has, and  *)
(* only the holder of its lock, who knows no result, may write one.        *)
THEOREM ResolvedStaysResolved == Spec => []ResolvedStepsStay
<1>1. AttemptInv => ResolvedStepsStay
  <2> SUFFICES ASSUME AttemptInv, NEW x \in Steps PROVE Cardinality(resolved[x]) <= 1
    BY DEF ResolvedStepsStay
  <2>1. PICK v : v = rows[Cur].steps[x]
    OBVIOUS
  <2>2. resolved[x] \in SUBSET {v}
    BY <2>1 DEF AttemptInv, Types, Kept
  <2>3. IsFiniteSet({v}) /\ Cardinality({v}) = 1
    BY FS_Singleton
  <2>4. Cardinality(resolved[x]) <= Cardinality({v})
    BY <2>2, <2>3, FS_Subset
  <2>5. QED BY <2>3, <2>4
<1>2. QED BY <1>1, InvariantHolds, PTL

(* NextRunReadsLast: the last value accepted is dirty, being written, or   *)
(* in the row; close() leaves it dirty only when its last write failed,    *)
(* which it throws, and no run without the lock writes the row.            *)
THEOREM ProgressIsReadBack == Spec => []NextRunReadsLast
BY InvariantHolds, PTL DEF AttemptInv

(* AnswersAreFinal: an outcome is recorded with the end of the row that is *)
(* read before it, and a row that failed for good is never taken again.    *)
THEOREM AnswersStayFinal == Spec => AnswersAreFinal
<1>1. AttemptInv /\ [Next]_vars =>
        [/\ reader.told \in Ends /\ reader'.told # reader.told => reader'.told = "not_found"
         /\ reader'.told = "not_found" => pruned /\ ~Live']_vars
  <2> SUFFICES ASSUME AttemptInv, Next PROVE TellsTruth
    BY DEF TellsTruth
  <2>1. CASE Query
    BY <2>1, QueryStep
  <2>2. CASE reader' = reader
    <3>1. AttemptInv'
      BY NextHolds
    <3>2. QED BY <2>2, <3>1 DEF AttemptInv, Readers, TellsTruth
  <2>3. Query \/ reader' = reader
    <3>1. CASE Prune \/ \E r \in Runs, j \in Rows : Fetch(j, r)
      BY <3>1 DEF Prune, Fetch
    <3>2. ASSUME NEW r \in Runs, NEW x \in Steps,
                 CallStep(r, x) \/ StepEnds(r, x) \/ Checkpoint(r, x)
          PROVE  reader' = reader
      BY <3>2 DEF CallStep, StepEnds, Checkpoint
    <3>3. ASSUME NEW r \in Runs,
                 CallSet(r) \/ Parsed(r) \/ TimerFires(r) \/ Flush(r) \/ LinkStarts(r) \/ LinkEnds(r)
          PROVE  reader' = reader
      BY <3>3 DEF CallSet, Parsed, TimerFires, Flush, LinkStarts, LinkEnds
    <3>4. ASSUME NEW r \in Runs,
                 CallWait(r) \/ WaitEnds(r) \/ CallContinue(r) \/ ContinueEnds(r)
          PROVE  reader' = reader
      BY <3>4 DEF CallWait, WaitEnds, CallContinue, ContinueEnds
    <3>5. ASSUME NEW r \in Runs,
                 \/ HandlerEnds(r) \/ TimesOut(r) \/ Decide(r) \/ CloseEnds(r) \/ Settle(r)
                 \/ GraphileFails(r) \/ Release(r)
          PROVE  reader' = reader
      BY <3>5 DEF HandlerEnds, TimesOut, Decide, CloseEnds, Settle, GraphileFails, Release
    <3>6. QED BY <3>1, <3>2, <3>3, <3>4, <3>5 DEF Next
  <2>4. QED BY <2>1, <2>2, <2>3
<1>2. QED BY <1>1, InvariantHolds, PTL DEF Spec, AnswersAreFinal
=============================================================================
