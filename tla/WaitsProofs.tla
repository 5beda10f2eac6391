----------------------------- MODULE WaitsProofs -----------------------------
(***************************************************************************)
(* Theorems of Waits, for any number of waits, children and pools, and     *)
(* every bound.                                                            *)
(***************************************************************************)
EXTENDS Waits, FiniteSetTheorems, TLAPS

---------------------------------------------------------------------------
(* Constants and counts. *)

LEMMA KidsCount ==
  /\ IsFiniteSet(Kids)
  /\ \A w \in Waits : /\ KidsOf(w) \subseteq Kids /\ IsFiniteSet(KidsOf(w))
                      /\ Cardinality(KidsOf(w)) = Count[w]
                      /\ Count[w] \in 0..Cardinality(Kids)
<1> DEFINE Row(w) == {<<w, i>> : i \in 1..Count[w]}
<1>1. \A w \in Waits : IsFiniteSet(Row(w)) /\ Cardinality(Row(w)) = Count[w]
  <2> TAKE w \in Waits
  <2>1. Count[w] \in Nat
    BY WaitsAssumption DEF WaitsAssumption
  <2>2. IsFiniteSet(1..Count[w]) /\ Cardinality(1..Count[w]) = Count[w]
    <3>1. IsFiniteSet(1..Count[w])
          /\ Cardinality(1..Count[w]) = IF 1 > Count[w] THEN 0 ELSE Count[w] - 1 + 1
      BY <2>1, FS_Interval
    <3>2. QED BY <2>1, <3>1
  <2> DEFINE pair == [i \in 1..Count[w] |-> <<w, i>>]
  <2>3. pair \in Bijection(1..Count[w], Row(w))
    BY DEF Bijection, Injection, Surjection, IsInjective
  <2>4. ExistsBijection(1..Count[w], Row(w))
    BY <2>3 DEF ExistsBijection
  <2>5. QED BY <2>2, <2>4, FS_Bijection
<1>2. Kids = UNION {Row(w) : w \in Waits}
  BY DEF Kids
<1>3. IsFiniteSet({Row(w) : w \in Waits})
  <2> DEFINE rows == {Row(w) : w \in Waits}
             row == [w \in Waits |-> Row(w)]
  <2>1. row \in Surjection(Waits, rows)
    BY DEF Surjection
  <2>2. IsFiniteSet(Waits)
    BY WaitsAssumption DEF WaitsAssumption
  <2>3. QED BY <2>1, <2>2, FS_Surjection
<1>4. IsFiniteSet(Kids)
  <2>1. \A T \in {Row(w) : w \in Waits} : IsFiniteSet(T)
    BY <1>1
  <2>2. QED BY <1>2, <1>3, <2>1, FS_UNION
<1>5. \A w \in Waits : KidsOf(w) = Row(w)
  BY DEF KidsOf, Kids
<1>6. ASSUME NEW w \in Waits
      PROVE  /\ KidsOf(w) \subseteq Kids /\ IsFiniteSet(KidsOf(w))
             /\ Cardinality(KidsOf(w)) = Count[w]
             /\ Count[w] \in 0..Cardinality(Kids)
  <2>1. KidsOf(w) \subseteq Kids
    BY DEF KidsOf
  <2>2. IsFiniteSet(KidsOf(w)) /\ Cardinality(KidsOf(w)) = Count[w]
    BY <1>1, <1>5
  <2>3. Cardinality(KidsOf(w)) <= Cardinality(Kids)
    BY <1>4, <2>1, FS_Subset
  <2>4. Cardinality(Kids) \in Nat /\ Count[w] \in Nat
    BY <1>4, FS_CardinalityType, WaitsAssumption DEF WaitsAssumption
  <2>5. QED BY <2>1, <2>2, <2>3, <2>4
<1>7. QED BY <1>4, <1>6

LEMMA KidFacts ==
  \A c \in Kids : c[1] \in Waits /\ c \in KidsOf(c[1])
BY DEF Kids, KidsOf

(* The subsets of a wait's children are finite. *)
LEMMA KidSets ==
  ASSUME NEW w \in Waits, NEW S \in SUBSET KidsOf(w)
  PROVE  /\ IsFiniteSet(S) /\ Cardinality(S) \in 0..Cardinality(Kids)
         /\ Cardinality(S) = 0 <=> S = {}
<1>1. IsFiniteSet(Kids) /\ S \subseteq Kids
  BY KidsCount
<1>2. IsFiniteSet(S) /\ Cardinality(S) <= Cardinality(Kids)
  BY <1>1, FS_Subset
<1>3. Cardinality(S) \in Nat /\ Cardinality(Kids) \in Nat
  BY <1>1, <1>2, FS_CardinalityType
<1>4. Cardinality(S) = 0 <=> S = {}
  BY <1>2, FS_EmptySet
<1>5. QED BY <1>2, <1>3, <1>4

---------------------------------------------------------------------------
(* Types.  How low a run can count the attempts depends on whether replies *)
(* are lost, so that for now they are any integers.                        *)

AnyAttempts ==
  [live : BOOLEAN, lockedBy : Pools \cup {None}, lockNo : 0..MaxLocks,
   attempts : Int, max : Int, runAt : SUBSET Instants]

RowTypes ==
  /\ group \in [Waits -> [open : BOOLEAN, remaining : 0..Cardinality(Kids)]]
  /\ wait \in [Kids -> [job : Gens, result : {"none", "told", "lost"}]]
  /\ saved \in [Waits -> {"none", "complete", "timedOut"}]
  /\ jobs \in [Kids \X Gens -> JobStates]

WorldTypes == passed \subseteq Timed /\ up \subseteq Pools /\ stalls \in 0..MaxStalls

CoreTypes ==
  /\ parent \in AnyAttempts
  /\ RowTypes /\ WorldTypes
  /\ runs \in [Locks -> Run]

LEMMA Bounds ==
  /\ MaxLocks \in Nat /\ MaxGen \in Nat /\ MaxStalls \in Nat /\ 0 \in Gens
  /\ MaxAttempts \in Nat \ {0} /\ Timed \subseteq Waits /\ None \notin Pools
  /\ Continue \notin Waits /\ Locks \subseteq Nat
BY WaitsAssumption DEF WaitsAssumption, Gens, Locks

---------------------------------------------------------------------------
(* Groups and wait rows. *)

(* The children of w without a result. *)
Pending(w) == {c \in KidsOf(w) : wait[c].result = "none"}

LEMMA LeftCounts ==
  ASSUME RowTypes, RemainingCounts, NEW tell \in SUBSET Kids, NEW w \in Waits
  PROVE  /\ Left(w, Told(tell)) \in 0..Cardinality(Kids)
         /\ ~group[w].open => Left(w, Told(tell)) = group[w].remaining
         /\ group[w].open =>
              Left(w, Told(tell)) = Cardinality(Pending(w) \ Told(tell))
         /\ group[w].remaining # 0 /\ Left(w, Told(tell)) = 0 =>
              \E c \in Told(tell) : Left(c[1], Told(tell)) = 0
<1> DEFINE told == Told(tell) \cap KidsOf(w)
<1>1. told \in SUBSET KidsOf(w) /\ \A c \in told : group[w].open /\ wait[c].result = "none"
  BY DEF Told, KidsOf
<1>2. group[w].remaining \in 0..Cardinality(Kids)
  BY DEF RowTypes
<1>3. Cardinality(Kids) \in Nat
  BY KidsCount, FS_CardinalityType
<1>4. CASE ~group[w].open
  <2>1. told = {}
    BY <1>1, <1>4
  <2>2. Cardinality(told) = 0
    BY <2>1, FS_EmptySet
  <2>3. Left(w, Told(tell)) = group[w].remaining
    BY <1>2, <2>2, <1>3 DEF Left
  <2>4. QED BY <1>2, <1>4, <2>3
<1>5. CASE group[w].open
  <2>1. told \subseteq Pending(w) /\ Pending(w) \cap told = told
    BY <1>1 DEF Pending
  <2>2. IsFiniteSet(Pending(w)) /\ group[w].remaining = Cardinality(Pending(w))
    <3>1. Pending(w) \in SUBSET KidsOf(w)
      BY DEF Pending
    <3>2. QED BY <1>5, <3>1, KidSets DEF RemainingCounts, Pending
  <2>3. Cardinality(Pending(w) \ told) = Cardinality(Pending(w)) - Cardinality(told)
    <3>1. Cardinality(Pending(w) \ told)
            = Cardinality(Pending(w)) - Cardinality(Pending(w) \cap told)
      BY <2>2, FS_Difference
    <3>2. QED BY <2>1, <3>1
  <2>4. Pending(w) \ told = Pending(w) \ Told(tell)
    BY DEF Pending
  <2>5. Left(w, Told(tell)) = Cardinality(Pending(w) \ Told(tell))
    BY <2>2, <2>3, <2>4 DEF Left
  <2>6. Cardinality(Pending(w) \ Told(tell)) \in 0..Cardinality(Kids)
    <3>1. Pending(w) \ Told(tell) \in SUBSET KidsOf(w)
      BY DEF Pending
    <3>2. QED BY <3>1, KidSets
  <2>7. ASSUME group[w].remaining # 0, Left(w, Told(tell)) = 0
        PROVE  \E c \in Told(tell) : Left(c[1], Told(tell)) = 0
    <3>1. told # {}
      <4>1. Cardinality(told) # 0
        BY <2>7, <1>2 DEF Left
      <4>2. QED BY <4>1, FS_EmptySet
    <3>2. PICK c \in told : TRUE
      BY <3>1
    <3>3. c \in Told(tell) /\ c[1] = w
      BY <3>2 DEF KidsOf
    <3>4. QED BY <2>7, <3>3
  <2>8. QED BY <1>5, <2>5, <2>6, <2>7
<1>6. QED BY <1>4, <1>5

(* A report keeps the counters exact, and wakes a live parent whenever one *)
(* of them gets to zero.                                                   *)
LEMMA ReportFacts ==
  ASSUME parent \in AnyAttempts, RowTypes, RemainingCounts,
         NEW tell \in SUBSET Kids, NEW result \in {"told", "lost"}, Report(tell, result)
  PROVE  /\ group' \in [Waits -> [open : BOOLEAN, remaining : 0..Cardinality(Kids)]]
         /\ wait' \in [Kids -> [job : Gens, result : {"none", "told", "lost"}]]
         /\ RemainingCounts'
         /\ \A w \in Waits : group'[w].open = group[w].open
         /\ \A c \in Kids : wait'[c].job = wait[c].job
         /\ \A c \in Kids : wait'[c].result # wait[c].result =>
              c \in Told(tell) /\ wait'[c].result = result
         /\ parent' = parent \/ parent' = [parent EXCEPT !.runAt = {"now"}]
         /\ parent.live => \A w \in Waits :
              group[w].remaining # 0 /\ group'[w].remaining = 0 => parent'.runAt = {"now"}
<1> DEFINE told == Told(tell)
           left(w) == Left(w, told)
<1>1. /\ wait' = [c \in Kids |-> IF c \in told THEN [wait[c] EXCEPT !.result = result] ELSE wait[c]]
      /\ group' = [w \in Waits |-> [group[w] EXCEPT !.remaining = left(w)]]
      /\ parent' = Woken(\E c \in told : left(c[1]) = 0)
  BY DEF Report
<1>2. \A w \in Waits :
        /\ left(w) \in 0..Cardinality(Kids)
        /\ group[w].open => left(w) = Cardinality(Pending(w) \ told)
        /\ group[w].remaining # 0 /\ left(w) = 0 => \E c \in told : left(c[1]) = 0
  BY LeftCounts
<1> HIDE DEF told, left
<1>3. \A w \in Waits : /\ group'[w] \in [open : BOOLEAN, remaining : 0..Cardinality(Kids)]
                       /\ group'[w].open = group[w].open /\ group'[w].remaining = left(w)
  BY <1>1, <1>2 DEF RowTypes
<1>4. \A c \in Kids : /\ wait'[c] \in [job : Gens, result : {"none", "told", "lost"}]
                      /\ wait'[c].job = wait[c].job
                      /\ wait'[c].result = IF c \in told THEN result ELSE wait[c].result
  BY <1>1 DEF RowTypes
<1>5. RemainingCounts'
  <2> SUFFICES ASSUME NEW w \in Waits, group'[w].open
               PROVE  group'[w].remaining = Cardinality(Pending(w)')
    BY DEF RemainingCounts, Pending
  <2>1. \A c \in KidsOf(w) : c \in Kids
    BY KidsCount
  <2>2. Pending(w)' = Pending(w) \ told
    BY <1>4, <2>1 DEF Pending
  <2>3. QED BY <1>2, <1>3, <2>2
<1>6. parent' = parent \/ parent' = [parent EXCEPT !.runAt = {"now"}]
  BY <1>1 DEF Woken
<1>7. ASSUME parent.live, NEW w \in Waits, group[w].remaining # 0, group'[w].remaining = 0
      PROVE  parent'.runAt = {"now"}
  <2>1. \E c \in told : left(c[1]) = 0
    BY <1>2, <1>3, <1>7
  <2>2. parent' = [parent EXCEPT !.runAt = {"now"}]
    BY <1>1, <1>7, <2>1 DEF Woken
  <2>3. QED BY <2>2 DEF AnyAttempts
<1>8. /\ group' \in [Waits -> [open : BOOLEAN, remaining : 0..Cardinality(Kids)]]
      /\ wait' \in [Kids -> [job : Gens, result : {"none", "told", "lost"}]]
  BY <1>1, <1>3, <1>4
<1>9. \A c \in Kids : wait'[c].result # wait[c].result => c \in told /\ wait'[c].result = result
  BY <1>4
<1>10. QED BY <1>3, <1>4, <1>5, <1>6, <1>7, <1>8, <1>9 DEF told

---------------------------------------------------------------------------
(* Runs, record by record: run r becomes s. *)

Endings == Waits \cup {Continue}
Working(r) == r.phase \in {"handler", "ending"}

Same(r, s) ==
  s.pool = r.pool /\ s.ending = r.ending /\ s.knows = r.knows /\ s.wrote = r.wrote

Calls(r, s) ==
  /\ Same(r, s) /\ r.phase = "handler" /\ s.phase = "handler" /\ s.begun = r.begun
  /\ \E x \in Endings :
       /\ s.chain = Append(r.chain, x)
       /\ x \in Waits => x \notin r.knows /\ \A i \in DOMAIN r.chain : r.chain[i] # x

Returns(r, s) ==
  /\ Same(r, s) /\ r.phase = "handler" /\ s.phase = "ending"
  /\ s.chain = r.chain /\ s.begun = r.begun

Begins(r, s) ==
  /\ Same(r, s) /\ r.chain # <<>> /\ s.phase = r.phase /\ s.chain = r.chain /\ s.begun
  /\ Head(r.chain) = Continue => r.ending = "none"
  /\ Head(r.chain) # Continue => r.ending # "continued"

(* The first ending of the chain settles. *)
Pops(r, s) ==
  /\ r.chain # <<>> /\ s.pool = r.pool /\ s.phase = r.phase
  /\ s.chain = Tail(r.chain) /\ ~s.begun

Drops(r, s) == Pops(r, s) /\ Same(r, s)

(* The run is over, but for Graphile's update, or that too. *)
Quits(r, s) ==
  /\ s.phase \in {"failed", "completing", "done"} /\ s.wrote = r.wrote
  /\ s.chain = <<>> /\ ~s.begun /\ s.ending = "none" /\ s.knows = {}

Moves(r, s) ==
  Calls(r, s) \/ Returns(r, s) \/ Begins(r, s) \/ Drops(r, s) \/ Quits(r, s)

(* What EXCEPT makes of a run. *)
LEMMA RunChain ==
  ASSUME NEW r \in Run, NEW c \in Seq(Endings)
  PROVE  /\ [r EXCEPT !.chain = c] \in Run /\ Same(r, [r EXCEPT !.chain = c])
         /\ [r EXCEPT !.chain = c].phase = r.phase /\ [r EXCEPT !.chain = c].chain = c
         /\ [r EXCEPT !.chain = c].begun = r.begun
BY DEF Run, Endings, Same

LEMMA RunContinues ==
  ASSUME NEW r \in Run, NEW c \in Seq(Endings)
  PROVE  LET s == [r EXCEPT !.chain = c, !.called = TRUE] IN
         /\ s \in Run /\ Same(r, s) /\ s.phase = r.phase /\ s.chain = c /\ s.begun = r.begun
BY DEF Run, Endings, Same

LEMMA RunReturns ==
  ASSUME NEW r \in Run, NEW result \in {"none", "ok", "error", "fatal"}
  PROVE  LET s == [r EXCEPT !.phase = "ending", !.result = result] IN
         /\ s \in Run /\ Same(r, s) /\ s.phase = "ending" /\ s.chain = r.chain
         /\ s.begun = r.begun
BY DEF Run, Same, Phases

LEMMA RunExpires ==
  ASSUME NEW r \in Run
  PROVE  LET s == [r EXCEPT !.phase = "ending", !.result = "error", !.expired = TRUE] IN
         /\ s \in Run /\ Same(r, s) /\ s.phase = "ending" /\ s.chain = r.chain
         /\ s.begun = r.begun
BY DEF Run, Same, Phases

LEMMA RunBegins ==
  ASSUME NEW r \in Run
  PROVE  LET s == [r EXCEPT !.begun = TRUE] IN
         /\ s \in Run /\ Same(r, s) /\ s.phase = r.phase /\ s.chain = r.chain /\ s.begun
BY DEF Run, Same

LEMMA RunPops ==
  ASSUME NEW r \in Run, r.chain # <<>>
  PROVE  LET s == [r EXCEPT !.chain = Tail(@), !.begun = FALSE] IN
         s \in Run /\ Drops(r, s)
<1>1. r.chain \in Seq(Endings) /\ Tail(r.chain) \in Seq(Endings)
  BY DEF Run, Endings
<1>2. QED BY <1>1 DEF Run, Same, Drops, Pops, Endings

LEMMA RunQuits ==
  ASSUME NEW r \in Run, NEW pool \in Pools \cup {None},
         NEW phase \in {"failed", "completing", "done"}
  PROVE  LET s == [NoRun EXCEPT !.pool = pool, !.phase = phase, !.wrote = r.wrote] IN
         s \in Run /\ Quits(r, s) /\ s.pool = pool
<1>1. <<>> \in Seq(Waits \cup {Continue})
  OBVIOUS
<1>2. QED BY <1>1 DEF Run, Quits, NoRun, Phases

LEMMA RunOver ==
  ASSUME NEW r \in Run
  PROVE  LET s == [NoRun EXCEPT !.phase = "done", !.wrote = r.wrote] IN
         s \in Run /\ Quits(r, s)
<1>1. <<>> \in Seq(Waits \cup {Continue})
  OBVIOUS
<1>2. QED BY <1>1 DEF Run, Quits, NoRun, Phases

RunTo(n, s) == s \in Run /\ runs' = [runs EXCEPT ![n] = s]

(* The steps of a run that write no row but, perhaps, the parent's. *)
QuietRun(n) ==
  \/ HandlerEnds(n) \/ TimesOut(n) \/ BeginEnding(n) \/ EndingFails(n)
  \/ EndWaiting(n) \/ EndContinued(n) \/ EndOk(n) \/ EndFailed(n)
  \/ GraphileCompletes(n) \/ GraphileFails(n) \/ CallContinue(n)
  \/ \E w \in Waits : CallWait(n, w)

LEMMA QuietRunMoves ==
  ASSUME CoreTypes, NEW n \in Locks, QuietRun(n)
  PROVE  \E s \in Run : RunTo(n, s) /\ Moves(runs[n], s)
<1> DEFINE r == runs[n]
<1>0. r \in Run /\ runs \in [Locks -> Run] /\ r.chain \in Seq(Endings)
  BY DEF CoreTypes, Run, Endings
<1>1. CASE HandlerEnds(n)
  <2>1. PICK result \in {"ok", "error", "fatal"} :
          runs' = [runs EXCEPT ![n].phase = "ending", ![n].result = result]
    BY <1>1 DEF HandlerEnds
  <2> DEFINE s == [r EXCEPT !.phase = "ending", !.result = result]
  <2>2. runs' = [runs EXCEPT ![n] = s]
    BY ONLY <1>0, <2>1
  <2>3. r.phase = "handler"
    BY <1>1 DEF HandlerEnds
  <2>4. s \in Run /\ Returns(r, s)
    <3>1. result \in {"none", "ok", "error", "fatal"}
      OBVIOUS
    <3>2. QED BY <1>0, <2>3, <3>1, RunReturns DEF Returns
  <2>5. QED BY <2>2, <2>4 DEF RunTo, Moves
<1>2. CASE TimesOut(n)
  <2> DEFINE s == [r EXCEPT !.phase = "ending", !.result = "error", !.expired = TRUE]
  <2>1. runs' = [runs EXCEPT ![n].phase = "ending", ![n].result = "error",
                             ![n].expired = TRUE] /\ r.phase = "handler"
    BY <1>2 DEF TimesOut
  <2>2. runs' = [runs EXCEPT ![n] = s]
    BY ONLY <1>0, <2>1
  <2>3. s \in Run /\ Returns(r, s)
    BY <1>0, <2>1, RunExpires DEF Returns
  <2>4. QED BY <2>2, <2>3 DEF RunTo, Moves
<1>3. CASE BeginEnding(n)
  <2>1. r.chain # <<>> /\ runs' = [runs EXCEPT ![n] = IF Refuses(n) THEN Popped(n)
                                                     ELSE [r EXCEPT !.begun = TRUE]]
    BY <1>3 DEF BeginEnding
  <2>2. CASE Refuses(n)
    <3>1. Popped(n) \in Run /\ Drops(r, Popped(n))
      BY <1>0, <2>1, RunPops DEF Popped
    <3>2. QED BY <2>1, <2>2, <3>1 DEF RunTo, Moves
  <2>3. CASE ~Refuses(n)
    <3> DEFINE s == [r EXCEPT !.begun = TRUE]
    <3>1. s \in Run /\ Same(r, s) /\ s.phase = r.phase /\ s.chain = r.chain /\ s.begun
      BY <1>0, RunBegins
    <3>2. /\ Head(r.chain) = Continue => r.ending = "none"
          /\ Head(r.chain) # Continue => r.ending # "continued"
      BY <2>3 DEF Refuses, Head1
    <3>3. Begins(r, s)
      BY <2>1, <3>1, <3>2 DEF Begins
    <3>4. QED BY <2>1, <2>3, <3>1, <3>3 DEF RunTo, Moves
  <2>4. QED BY <2>2, <2>3
<1>4. CASE EndingFails(n)
  <2>1. r.chain # <<>> /\ runs' = [runs EXCEPT ![n] = Popped(n)]
    BY <1>4 DEF EndingFails, Next1
  <2>2. Popped(n) \in Run /\ Drops(r, Popped(n))
    BY <1>0, <2>1, RunPops DEF Popped
  <2>3. QED BY <2>1, <2>2 DEF RunTo, Moves
<1>5. CASE EndWaiting(n) \/ EndContinued(n) \/ EndOk(n) \/ EndFailed(n)
  <2>1. PICK phase \in {"failed", "completing", "done"} : To(n, phase)
    BY <1>5 DEF EndWaiting, EndContinued, EndOk, EndFailed
  <2> DEFINE s == [NoRun EXCEPT !.pool = r.pool, !.phase = phase, !.wrote = r.wrote]
  <2>2. r.pool \in Pools \cup {None}
    BY <1>0 DEF Run
  <2>3. s \in Run /\ Quits(r, s)
    BY <1>0, <2>2, RunQuits
  <2>4. runs' = [runs EXCEPT ![n] = s]
    BY <2>1 DEF To
  <2>5. QED BY <2>3, <2>4 DEF RunTo, Moves
<1>6. CASE GraphileCompletes(n) \/ GraphileFails(n)
  <2>1. runs' = [runs EXCEPT ![n] = Over(n)]
    BY <1>6 DEF GraphileCompletes, GraphileFails
  <2>2. Over(n) \in Run /\ Quits(r, Over(n))
    BY <1>0, RunOver DEF Over
  <2>3. QED BY <2>1, <2>2 DEF RunTo, Moves
<1>7. CASE CallContinue(n)
  <2> DEFINE c == Append(r.chain, Continue)
             s == [r EXCEPT !.chain = c, !.called = TRUE]
  <2>1. runs' = [runs EXCEPT ![n].chain = Append(@, Continue), ![n].called = TRUE]
        /\ r.phase = "handler"
    BY <1>7 DEF CallContinue, Calling
  <2>2. runs' = [runs EXCEPT ![n] = s]
    BY ONLY <1>0, <2>1
  <2>3. c \in Seq(Endings) /\ Continue \in Endings /\ Continue \notin Waits
    BY <1>0, Bounds DEF Endings
  <2>4. /\ s \in Run /\ Same(r, s) /\ s.phase = r.phase /\ s.chain = c /\ s.begun = r.begun
    BY <1>0, <2>3, RunContinues
  <2>5. Calls(r, s)
    BY <2>1, <2>3, <2>4 DEF Calls
  <2>6. QED BY <2>2, <2>4, <2>5 DEF RunTo, Moves
<1>8. ASSUME NEW w \in Waits, CallWait(n, w)
      PROVE  \E s \in Run : RunTo(n, s) /\ Moves(r, s)
  <2> DEFINE c == Append(r.chain, w)
             s == [r EXCEPT !.chain = c]
  <2>1. /\ runs' = [runs EXCEPT ![n].chain = Append(@, w)] /\ r.phase = "handler"
        /\ w \notin r.knows /\ \A i \in DOMAIN r.chain : r.chain[i] # w
    BY <1>8 DEF CallWait, Calling
  <2>2. runs' = [runs EXCEPT ![n] = s]
    BY ONLY <1>0, <2>1
  <2>3. c \in Seq(Endings) /\ w \in Endings
    BY <1>0 DEF Endings
  <2>4. s \in Run /\ Same(r, s) /\ s.phase = r.phase /\ s.chain = c /\ s.begun = r.begun
    BY <1>0, <2>3, RunChain
  <2>5. Calls(r, s)
    BY <2>1, <2>3, <2>4 DEF Calls
  <2>6. QED BY <2>2, <2>4, <2>5 DEF RunTo, Moves
<1>9. QED BY <1>1, <1>2, <1>3, <1>4, <1>5, <1>6, <1>7, <1>8 DEF QuietRun

(* A transaction commits an ending, and its run hears of it, or the reply  *)
(* is lost.                                                                *)
Heard(r, s, ending, knows) ==
  /\ s.ending = (IF r.ending = "none" THEN ending ELSE r.ending)
  /\ s.knows = r.knows \cup knows

Commits(r, s, ending, knows, wrote) ==
  /\ Pops(r, s) /\ r.begun /\ s.wrote = r.wrote \cup wrote
  /\ \/ Heard(r, s, ending, knows)
     \/ "lost" \in Faults /\ s.ending = r.ending /\ s.knows = r.knows

LEMMA CommittedMoves ==
  ASSUME CoreTypes, NEW n \in Locks, Next1(n),
         NEW ending \in {"none", "waiting", "continued"}, NEW knows \in SUBSET Waits,
         NEW wrote \in SUBSET {"suspended", "continued"},
         \E run \in Committed(n, ending, knows, wrote) : runs' = [runs EXCEPT ![n] = run]
  PROVE  \E s \in Run : RunTo(n, s) /\ Commits(runs[n], s, ending, knows, wrote)
<1> DEFINE r == runs[n]
<1>1. r \in Run /\ r.chain # <<>> /\ r.begun
  BY DEF CoreTypes, Next1
<1>2. PICK q : q = Popped(n)
  OBVIOUS
<1>3. q \in Run /\ Pops(r, q) /\ Same(r, q)
  BY <1>1, <1>2, RunPops DEF Popped, Drops
<1>4. PICK s : s = [q EXCEPT !.ending = IF @ = "none" THEN ending ELSE @,
                             !.knows = @ \cup knows, !.wrote = @ \cup wrote]
  OBVIOUS
<1>5. PICK l : l = [q EXCEPT !.wrote = @ \cup wrote]
  OBVIOUS
<1>6. /\ s \in Run /\ s.chain = q.chain /\ s.pool = q.pool /\ s.phase = q.phase
      /\ s.begun = q.begun /\ s.wrote = q.wrote \cup wrote /\ Heard(q, s, ending, knows)
  BY <1>3, <1>4 DEF Run, Heard
<1>7. /\ l \in Run /\ l.chain = q.chain /\ l.pool = q.pool /\ l.phase = q.phase
      /\ l.begun = q.begun /\ l.wrote = q.wrote \cup wrote
      /\ l.ending = q.ending /\ l.knows = q.knows
  BY <1>3, <1>5 DEF Run
<1>8. runs' = [runs EXCEPT ![n] = s] \/ ("lost" \in Faults /\ runs' = [runs EXCEPT ![n] = l])
  <2>1. s = [Popped(n) EXCEPT !.ending = IF @ = "none" THEN ending ELSE @,
                              !.knows = @ \cup knows, !.wrote = @ \cup wrote]
    BY ONLY <1>2, <1>4
  <2>2. l = [Popped(n) EXCEPT !.wrote = @ \cup wrote]
    BY ONLY <1>2, <1>5
  <2>3. Committed(n, ending, knows, wrote) = {s} \cup {l : lost \in {"lost"} \cap Faults}
    BY ONLY <2>1, <2>2 DEF Committed
  <2>4. QED BY <2>3
<1>9. Commits(r, s, ending, knows, wrote)
  BY <1>1, <1>3, <1>6 DEF Pops, Same, Heard, Commits
<1>10. "lost" \in Faults => Commits(r, l, ending, knows, wrote)
  BY <1>1, <1>3, <1>7 DEF Pops, Same, Commits
<1>11. QED BY <1>6, <1>7, <1>8, <1>9, <1>10 DEF RunTo

---------------------------------------------------------------------------
(* The parent's row. *)

(* A run that has an ending to settle has a pool and is not over. *)
ChainsWork ==
  \A n \in Locks :
    /\ runs[n].chain # <<>> => Working(runs[n])
    /\ Working(runs[n]) => runs[n].pool \in Pools

(* The parent sleeps only on a wait with children left, whose deadline     *)
(* wakes it; or it is locked by a run and its deadline has passed, which   *)
(* the unlock turns into a backoff.                                        *)
AwakeUnlessWaiting ==
  parent.live /\ parent.runAt \cap {"now", "soon"} = {} =>
    \/ \E w \in Waits : /\ group[w].open /\ group[w].remaining > 0
                        /\ w \in Timed => w \in parent.runAt
    \/ parent.lockedBy # None /\ parent.runAt \cap passed # {}

CoreInv ==
  /\ CoreTypes
  /\ ChainsWork
  /\ RemainingCounts
  /\ AwakeUnlessWaiting

(* What steps that neither take nor give back an attempt may do to it. *)
Follows(p, q) ==
  /\ q \in AnyAttempts
  /\ q.lockNo = p.lockNo /\ q.attempts = p.attempts /\ q.max \in {p.max, p.attempts}
  /\ q.live => p.live
  /\ q.lockedBy \in {p.lockedBy, None}
  /\ q.live /\ q.runAt \cap {"now", "soon"} = {} =>
       q.runAt = p.runAt /\ (q.lockedBy = p.lockedBy \/ p.runAt \cap passed = {})

LEMMA ParentFollows ==
  ASSUME NEW p \in AnyAttempts, NEW q,
         \/ q = p \/ q = [p EXCEPT !.live = FALSE, !.lockedBy = None]
         \/ q = [p EXCEPT !.max = p.attempts] \/ q = [p EXCEPT !.runAt = {"now"}]
         \/ \E at \in Backoff(p.runAt) : q = [p EXCEPT !.lockedBy = None, !.runAt = at]
  PROVE  Follows(p, q)
<1>1. CASE q = p
  BY <1>1 DEF Follows
<1>2. CASE q = [p EXCEPT !.live = FALSE, !.lockedBy = None]
  BY <1>2 DEF Follows, AnyAttempts
<1>3. CASE q = [p EXCEPT !.max = p.attempts]
  BY <1>3 DEF Follows, AnyAttempts
<1>4. CASE q = [p EXCEPT !.runAt = {"now"}]
  BY <1>4 DEF Follows, AnyAttempts, Instants
<1>5. ASSUME NEW at \in Backoff(p.runAt), q = [p EXCEPT !.lockedBy = None, !.runAt = at]
      PROVE  Follows(p, q)
  <2>1. at = {"soon"} \/ (at = p.runAt /\ p.runAt \cap passed = {})
    BY DEF Backoff
  <2>2. at \in SUBSET Instants
    BY <2>1 DEF AnyAttempts, Instants
  <2>3. /\ q \in AnyAttempts /\ q.lockNo = p.lockNo /\ q.attempts = p.attempts
        /\ q.max = p.max /\ q.live = p.live /\ q.lockedBy = None /\ q.runAt = at
    BY <1>5, <2>2 DEF AnyAttempts
  <2>4. QED BY <2>1, <2>3 DEF Follows
<1>6. QED BY <1>1, <1>2, <1>3, <1>4, <1>5

LEMMA QuietRunFollows ==
  ASSUME CoreTypes, NEW n \in Locks, QuietRun(n)
  PROVE  Follows(parent, parent') /\ UNCHANGED <<waiting, world>>
<1>1. parent \in AnyAttempts
  BY DEF CoreTypes
<1>2. \/ parent' = parent \/ parent' = [parent EXCEPT !.live = FALSE, !.lockedBy = None]
      \/ parent' = [parent EXCEPT !.max = parent.attempts]
      \/ \E at \in Backoff(parent.runAt) :
           parent' = [parent EXCEPT !.lockedBy = None, !.runAt = at]
  BY DEF QuietRun, HandlerEnds, TimesOut, BeginEnding, EndingFails, EndWaiting,
         EndContinued, EndOk, EndFailed, GraphileCompletes, GraphileFails, CallContinue,
         CallWait, Unlocked
<1>3. UNCHANGED <<waiting, world>>
  BY DEF QuietRun, HandlerEnds, TimesOut, BeginEnding, EndingFails, EndWaiting,
         EndContinued, EndOk, EndFailed, GraphileCompletes, GraphileFails, CallContinue,
         CallWait
<1>4. QED BY <1>1, <1>2, <1>3, ParentFollows

(* A sleep goes on as long as the group it depends on has children left. *)
LEMMA StaysAwake ==
  ASSUME CoreInv, Follows(parent, parent'), passed \subseteq passed',
         \A w \in Waits : group[w].open /\ group[w].remaining > 0 =>
           group'[w].open /\ (group'[w].remaining > 0 \/ parent'.runAt = {"now"})
  PROVE  AwakeUnlessWaiting'
<1> SUFFICES ASSUME parent'.live, parent'.runAt \cap {"now", "soon"} = {}
             PROVE  \/ \E w \in Waits : /\ group'[w].open /\ group'[w].remaining > 0
                                        /\ w \in Timed => w \in parent'.runAt
                    \/ parent'.lockedBy # None /\ parent'.runAt \cap passed' # {}
  BY DEF AwakeUnlessWaiting
<1>1. /\ parent.live /\ parent'.runAt = parent.runAt
      /\ parent'.lockedBy = parent.lockedBy \/ parent.runAt \cap passed = {}
  BY DEF Follows
<1>2. CASE \E w \in Waits : /\ group[w].open /\ group[w].remaining > 0
                            /\ w \in Timed => w \in parent.runAt
  <2>1. parent'.runAt # {"now"}
    OBVIOUS
  <2>2. QED BY <1>1, <1>2, <2>1
<1>3. CASE parent.lockedBy # None /\ parent.runAt \cap passed # {}
  BY <1>1, <1>3
<1>4. QED BY <1>1, <1>2, <1>3 DEF CoreInv, AwakeUnlessWaiting

LEMMA AwakeMeansAwake == CoreInv => SleepsOnlyWhileWaiting
BY DEF CoreInv, AwakeUnlessWaiting, SleepsOnlyWhileWaiting, Asleep

LEMMA InitCore == Init => CoreInv
<1> SUFFICES ASSUME Init PROVE CoreInv
  OBVIOUS
<1>1. NoRun \in Run
  <2>1. <<>> \in Seq(Waits \cup {Continue})
    OBVIOUS
  <2>2. QED BY <2>1 DEF NoRun, Run, Phases
<1>2. Cardinality(Kids) \in Nat
  BY KidsCount, FS_CardinalityType
<1>3. CoreTypes
  <2>1. parent \in AnyAttempts
    BY Bounds DEF Init, AnyAttempts, Instants
  <2>2. RowTypes
    BY <1>2, Bounds DEF Init, RowTypes, NoGroup, NoWait, JobStates
  <2>3. WorldTypes
    BY Bounds DEF Init, WorldTypes
  <2>4. QED BY <1>1, <2>1, <2>2, <2>3 DEF Init, CoreTypes
<1>4. ChainsWork
  BY DEF Init, ChainsWork, NoRun, Working
<1>5. RemainingCounts /\ AwakeUnlessWaiting
  BY DEF Init, RemainingCounts, NoGroup, AwakeUnlessWaiting
<1>6. QED BY <1>3, <1>4, <1>5 DEF CoreInv

---------------------------------------------------------------------------
(* One lemma per kind of step. *)

LEMMA ChainsMove ==
  ASSUME CoreTypes, ChainsWork, NEW n \in Locks, NEW s \in Run, RunTo(n, s),
         Moves(runs[n], s) \/ Pops(runs[n], s)
  PROVE  ChainsWork' /\ runs' \in [Locks -> Run]
<1> DEFINE r == runs[n]
<1>1. runs' \in [Locks -> Run] /\ runs'[n] = s /\ \A m \in Locks \ {n} : runs'[m] = runs[m]
  BY DEF CoreTypes, RunTo
<1>2. /\ r.chain # <<>> => Working(r)
      /\ Working(r) => r.pool \in Pools
  BY DEF ChainsWork
<1>3. /\ s.chain # <<>> => Working(s)
      /\ Working(s) => s.pool \in Pools
  BY <1>2 DEF Moves, Calls, Returns, Begins, Drops, Pops, Quits, Same, Working
<1>4. ChainsWork'
  BY <1>1, <1>3 DEF ChainsWork, Working
<1>5. QED BY <1>1, <1>4

(* Steps that leave groups, wait rows, checkpoints and children alone. *)
LEMMA QuietRunCore ==
  ASSUME CoreInv, NEW n \in Locks, QuietRun(n)
  PROVE  CoreInv'
<1>1. PICK s \in Run : RunTo(n, s) /\ Moves(runs[n], s)
  BY QuietRunMoves DEF CoreInv
<1>2. Follows(parent, parent') /\ UNCHANGED <<waiting, world>>
  BY QuietRunFollows DEF CoreInv
<1>3. ChainsWork' /\ runs' \in [Locks -> Run]
  BY <1>1, ChainsMove DEF CoreInv
<1>4. CoreTypes'
  BY <1>2, <1>3 DEF CoreInv, CoreTypes, RowTypes, WorldTypes, waiting, world, Follows
<1>5. RemainingCounts'
  BY <1>2 DEF CoreInv, RemainingCounts, waiting
<1>6. AwakeUnlessWaiting'
  BY <1>2, StaysAwake DEF waiting, world
<1>7. QED BY <1>3, <1>4, <1>5, <1>6 DEF CoreInv

WorldStep ==
  \/ BecomesDue \/ SweepWake
  \/ \E w \in Waits : DeadlinePasses(w)
  \/ \E p \in Pools : Release(p)

LEMMA WorldFacts ==
  ASSUME CoreTypes, WorldStep
  PROVE  /\ UNCHANGED <<waiting, runs, up>> /\ WorldTypes'
         /\ passed \subseteq passed'
         /\ Follows(parent, parent')
<1>1. parent \in AnyAttempts /\ WorldTypes /\ MaxStalls \in Nat
  BY Bounds DEF CoreTypes
<1>2. CASE BecomesDue \/ SweepWake
  <2>1. parent' = [parent EXCEPT !.runAt = {"now"}] /\ UNCHANGED <<waiting, runs, world>>
    BY <1>2 DEF BecomesDue, SweepWake, waiting, world
  <2>2. Follows(parent, parent')
    BY <1>1, <2>1, ParentFollows
  <2>3. QED BY <1>1, <2>1, <2>2 DEF world, WorldTypes
<1>3. CASE \E w \in Waits : DeadlinePasses(w)
  <2>1. Follows(parent, parent')
    BY <1>1, <1>3, ParentFollows DEF DeadlinePasses
  <2>2. QED BY <1>1, <1>3, <2>1 DEF DeadlinePasses, WorldTypes
<1>4. CASE \E p \in Pools : Release(p)
  <2>1. \E at \in Backoff(parent.runAt) :
          parent' = [parent EXCEPT !.lockedBy = None, !.runAt = at]
    BY <1>4 DEF Release, Unlocked
  <2>2. Follows(parent, parent')
    BY <1>1, <2>1, ParentFollows
  <2>3. stalls' \in 0..MaxStalls
    BY <1>1, <1>4 DEF Release, WorldTypes
  <2>4. QED BY <1>1, <1>4, <2>2, <2>3 DEF Release, WorldTypes
<1>5. QED BY <1>2, <1>3, <1>4 DEF WorldStep

LEMMA WorldCore ==
  ASSUME CoreInv, WorldStep
  PROVE  CoreInv'
<1>1. /\ UNCHANGED <<waiting, runs, up>> /\ WorldTypes' /\ passed \subseteq passed'
      /\ Follows(parent, parent')
  BY WorldFacts DEF CoreInv
<1>2. CoreTypes'
  BY <1>1 DEF CoreInv, CoreTypes, RowTypes, waiting, Follows
<1>3. ChainsWork' /\ RemainingCounts'
  BY <1>1 DEF CoreInv, ChainsWork, Working, RemainingCounts, waiting
<1>4. AwakeUnlessWaiting'
  BY <1>1, StaysAwake DEF waiting
<1>5. QED BY <1>2, <1>3, <1>4 DEF CoreInv

(* The runs of a pool that crashes quit. *)
LEMMA CrashFacts ==
  ASSUME CoreTypes, NEW p \in Pools, Crash(p)
  PROVE  /\ UNCHANGED <<parent, waiting, passed, stalls>> /\ up' \subseteq up
         /\ runs' \in [Locks -> Run]
         /\ \A n \in Locks : runs'[n] = runs[n] \/ Quits(runs[n], runs'[n])
<1>1. /\ UNCHANGED <<parent, waiting, passed, stalls>> /\ up' \subseteq up
      /\ runs' = [n \in Locks |-> IF runs[n].pool = p THEN Over(n) ELSE runs[n]]
  BY DEF Crash
<1>2. \A n \in Locks : runs[n] \in Run /\ Over(n) \in Run /\ Quits(runs[n], Over(n))
  BY RunOver DEF CoreTypes, Over
<1>3. QED BY <1>1, <1>2

LEMMA CrashCore ==
  ASSUME CoreInv, NEW p \in Pools, Crash(p)
  PROVE  CoreInv'
<1>1. /\ UNCHANGED <<parent, waiting, passed, stalls>> /\ up' \subseteq up
      /\ runs' \in [Locks -> Run]
      /\ \A n \in Locks : runs'[n] = runs[n] \/ Quits(runs[n], runs'[n])
  BY CrashFacts DEF CoreInv
<1>2. CoreTypes'
  BY <1>1 DEF CoreInv, CoreTypes, RowTypes, WorldTypes, waiting
<1>3. ChainsWork'
  BY <1>1 DEF CoreInv, ChainsWork, Working, Quits
<1>4. RemainingCounts' /\ AwakeUnlessWaiting'
  BY <1>1 DEF CoreInv, RemainingCounts, AwakeUnlessWaiting, waiting
<1>5. QED BY <1>2, <1>3, <1>4 DEF CoreInv

LEMMA FetchFacts ==
  ASSUME CoreTypes, NEW p \in Pools, Fetch(p)
  PROVE  LET n == parent.lockNo + 1 IN
         /\ n \in Locks /\ Asleep /\ "now" \in parent.runAt
         /\ parent' \in AnyAttempts /\ parent'.live = parent.live
         /\ parent'.lockedBy = p /\ parent'.lockNo = n /\ parent'.runAt = parent.runAt
         /\ parent'.attempts = parent.attempts + 1 /\ parent'.max = parent.max
         /\ \E s \in Run :
              /\ RunTo(n, s) /\ s.pool = p /\ s.phase = "handler" /\ s.chain = <<>>
              /\ ~s.begun /\ s.ending = "none" /\ s.wrote = {}
              /\ s.knows = {w \in Waits : saved[w] # "none"}
         /\ UNCHANGED <<waiting, world>>
<1>0. PICK knows \in SUBSET Waits : knows = {w \in Waits : saved[w] # "none"}
  OBVIOUS
<1> DEFINE n == parent.lockNo + 1
           s == [NoRun EXCEPT !.pool = p, !.phase = "handler", !.knows = knows]
<1>1. /\ n \in Locks /\ Asleep /\ "now" \in parent.runAt
      /\ parent' = [parent EXCEPT !.lockedBy = p, !.lockNo = n, !.attempts = @ + 1]
      /\ runs' = [runs EXCEPT ![n] = s]
      /\ UNCHANGED <<waiting, world>>
  BY <1>0 DEF Fetch
<1>2. /\ s \in Run /\ s.pool = p /\ s.phase = "handler" /\ s.chain = <<>> /\ ~s.begun
      /\ s.ending = "none" /\ s.wrote = {} /\ s.knows = {w \in Waits : saved[w] # "none"}
  <2>1. p \in Pools /\ knows \in SUBSET Waits
    OBVIOUS
  <2>2. /\ s \in Run /\ s.pool = p /\ s.phase = "handler" /\ s.chain = <<>> /\ ~s.begun
        /\ s.ending = "none" /\ s.wrote = {} /\ s.knows = knows
    <3>1. <<>> \in Seq(Waits \cup {Continue})
      OBVIOUS
    <3>2. QED BY ONLY <2>1, <3>1 DEF Run, NoRun, Phases
  <2>3. QED BY ONLY <1>0, <2>2
<1>3. /\ parent' \in AnyAttempts /\ parent'.live = parent.live
      /\ parent'.lockedBy = p /\ parent'.lockNo = n /\ parent'.runAt = parent.runAt
      /\ parent'.attempts = parent.attempts + 1 /\ parent'.max = parent.max
  <2>1. n \in 0..MaxLocks /\ parent \in AnyAttempts
    BY <1>1, Bounds DEF Locks, CoreTypes
  <2>2. parent.attempts + 1 \in Int
    BY <2>1 DEF AnyAttempts
  <2> HIDE DEF n
  <2>3. QED BY <1>1, <2>1, <2>2 DEF AnyAttempts
<1> HIDE DEF s
<1>4. QED BY <1>1, <1>2, <1>3 DEF RunTo

LEMMA FetchCore ==
  ASSUME CoreInv, NEW p \in Pools, Fetch(p)
  PROVE  CoreInv'
<1> DEFINE n == parent.lockNo + 1
<1>1. PICK s \in Run :
        /\ n \in Locks /\ "now" \in parent.runAt
        /\ parent' \in AnyAttempts /\ parent'.runAt = parent.runAt
        /\ RunTo(n, s) /\ s.pool = p /\ s.chain = <<>>
        /\ UNCHANGED <<waiting, world>>
  BY FetchFacts DEF CoreInv
<1> HIDE DEF n
<1>2. runs' \in [Locks -> Run] /\ runs'[n] = s /\ \A m \in Locks \ {n} : runs'[m] = runs[m]
  BY <1>1 DEF CoreInv, CoreTypes, RunTo
<1>3. CoreTypes'
  BY <1>1, <1>2 DEF CoreInv, CoreTypes, RowTypes, WorldTypes, waiting, world
<1>4. ChainsWork'
  BY <1>1, <1>2 DEF CoreInv, ChainsWork, Working
<1>5. RemainingCounts' /\ AwakeUnlessWaiting'
  BY <1>1 DEF CoreInv, RemainingCounts, AwakeUnlessWaiting, waiting
<1>6. QED BY <1>3, <1>4, <1>5 DEF CoreInv

FinishCommits(n, w, s) ==
  /\ runs[n].chain # <<>> /\ Head(runs[n].chain) = w /\ Owned(n)
  /\ Complete(w) \/ Expired(w)
  /\ RunTo(n, s) /\ Commits(runs[n], s, "none", {w}, {})
  /\ \E v \in {"complete", "timedOut"} : saved' = [saved EXCEPT ![w] = v]
  /\ group' = GroupsWithout({w}) /\ wait' = WaitsWithout({w})
  /\ UNCHANGED <<parent, jobs, world>>

LEMMA FinishFacts ==
  ASSUME CoreTypes, NEW n \in Locks, NEW w \in Waits, FinishWait(n, w)
  PROVE  \E s \in Run : FinishCommits(n, w, s)
<1>1. {w} \in SUBSET Waits /\ {} \in SUBSET {"suspended", "continued"}
  OBVIOUS
<1>2. Next1(n) /\ \E run \in Committed(n, "none", {w}, {}) : runs' = [runs EXCEPT ![n] = run]
  BY DEF FinishWait
<1>3. PICK s \in Run : RunTo(n, s) /\ Commits(runs[n], s, "none", {w}, {})
  BY <1>1, <1>2, CommittedMoves
<1>4. \E v \in {"complete", "timedOut"} : saved' = [saved EXCEPT ![w] = v]
  BY DEF FinishWait
<1>5. FinishCommits(n, w, s)
  BY <1>3, <1>4 DEF FinishWait, FinishCommits, Next1, Head1
<1>6. QED BY <1>5

(* Groups and wait rows that are dropped. *)
LEMMA WithoutFacts ==
  ASSUME RowTypes, RemainingCounts, NEW ws \in SUBSET Waits,
         group' = GroupsWithout(ws), wait' = WaitsWithout(ws)
  PROVE  /\ group' \in [Waits -> [open : BOOLEAN, remaining : 0..Cardinality(Kids)]]
         /\ wait' \in [Kids -> [job : Gens, result : {"none", "told", "lost"}]]
         /\ \A w \in ws : ~group'[w].open
         /\ \A w \in Waits \ ws : group'[w] = group[w]
         /\ \A c \in Kids : c[1] \notin ws => wait'[c] = wait[c]
         /\ \A c \in Kids : c[1] \in ws => wait'[c].result = "none"
         /\ RemainingCounts'
<1>1. NoGroup \in [open : BOOLEAN, remaining : 0..Cardinality(Kids)] /\ ~NoGroup.open
  <2>1. Cardinality(Kids) \in Nat
    BY KidsCount, FS_CardinalityType
  <2>2. QED BY <2>1 DEF NoGroup
<1>2. NoWait \in [job : Gens, result : {"none", "told", "lost"}] /\ NoWait.result = "none"
  BY Bounds DEF NoWait
<1>3. /\ \A w \in ws : ~group'[w].open
      /\ \A w \in Waits \ ws : group'[w] = group[w]
      /\ \A c \in Kids : c[1] \notin ws => wait'[c] = wait[c]
      /\ \A c \in Kids : c[1] \in ws => wait'[c].result = "none"
  BY <1>1, <1>2 DEF GroupsWithout, WaitsWithout
<1>4. /\ group' \in [Waits -> [open : BOOLEAN, remaining : 0..Cardinality(Kids)]]
      /\ wait' \in [Kids -> [job : Gens, result : {"none", "told", "lost"}]]
  BY <1>1, <1>2 DEF RowTypes, GroupsWithout, WaitsWithout
<1>5. RemainingCounts'
  <2> SUFFICES ASSUME NEW w \in Waits, group'[w].open
               PROVE  group'[w].remaining = Cardinality(Pending(w)')
    BY DEF RemainingCounts, Pending
  <2>1. w \notin ws /\ group'[w] = group[w]
    BY <1>3
  <2>2. \A c \in KidsOf(w) : c \in Kids /\ c[1] = w
    BY DEF KidsOf
  <2>3. Pending(w)' = Pending(w)
    BY <1>3, <2>1, <2>2 DEF Pending
  <2>4. QED BY <2>1, <2>3 DEF RemainingCounts, Pending
<1>6. QED BY <1>3, <1>4, <1>5

LEMMA FinishCore ==
  ASSUME CoreInv, NEW n \in Locks, NEW w \in Waits, NEW s \in Run, FinishCommits(n, w, s)
  PROVE  CoreInv'
<1>0. CoreTypes /\ RowTypes /\ RemainingCounts /\ ChainsWork
  BY DEF CoreInv, CoreTypes
<1>1. /\ RunTo(n, s) /\ Pops(runs[n], s) /\ UNCHANGED <<parent, jobs, world>>
      /\ group' = GroupsWithout({w}) /\ wait' = WaitsWithout({w})
  BY DEF FinishCommits, Commits
<1>2. ChainsWork' /\ runs' \in [Locks -> Run]
  BY <1>0, <1>1, ChainsMove
<1>3. /\ group' \in [Waits -> [open : BOOLEAN, remaining : 0..Cardinality(Kids)]]
      /\ wait' \in [Kids -> [job : Gens, result : {"none", "told", "lost"}]]
      /\ \A v \in Waits \ {w} : group'[v] = group[v]
      /\ RemainingCounts'
  BY <1>0, <1>1, WithoutFacts
<1>4. saved' \in [Waits -> {"none", "complete", "timedOut"}]
  BY <1>0 DEF FinishCommits, RowTypes
<1>5. CoreTypes'
  BY <1>0, <1>1, <1>2, <1>3, <1>4 DEF CoreTypes, RowTypes, WorldTypes, world
<1>6. AwakeUnlessWaiting'
  <2> SUFFICES ASSUME parent.live, parent.runAt \cap {"now", "soon"} = {}
               PROVE  \/ \E v \in Waits : /\ group'[v].open /\ group'[v].remaining > 0
                                          /\ v \in Timed => v \in parent.runAt
                      \/ parent.lockedBy # None /\ parent.runAt \cap passed # {}
    BY <1>1 DEF AwakeUnlessWaiting, world
  <2>1. parent.lockedBy # None
    <3>1. runs[n].pool \in Pools
      BY <1>0 DEF FinishCommits, ChainsWork
    <3>2. QED BY <3>1, Bounds DEF FinishCommits, Owned
  <2>2. ASSUME NEW v \in Waits, group[v].open, group[v].remaining > 0,
               v \in Timed => v \in parent.runAt
        PROVE  \/ group'[v] = group[v]
               \/ parent.runAt \cap passed # {}
    <3>1. CASE v # w
      BY <1>3, <3>1
    <3>2. CASE v = w
      <4>1. w \in passed
        BY <2>2, <3>2 DEF FinishCommits, Complete, Expired
      <4>2. w \in Timed
        BY <1>0, <4>1 DEF CoreTypes, WorldTypes
      <4>3. QED BY <2>2, <3>2, <4>1, <4>2
    <3>3. QED BY <3>1, <3>2
  <2>3. QED BY <2>1, <2>2 DEF CoreInv, AwakeUnlessWaiting
<1>7. QED BY <1>2, <1>3, <1>5, <1>6 DEF CoreInv

SuspendCommits(n, w, s) ==
  /\ runs[n].chain # <<>> /\ Head(runs[n].chain) = w /\ Owned(n)
  /\ CanEnqueue(w) /\ ~Complete(w) /\ ~Expired(w)
  /\ RunTo(n, s) /\ Commits(runs[n], s, "waiting", {}, {"suspended"})
  /\ group' = [group EXCEPT ![w] = Enqueued(w)]
  /\ jobs' = EnqueuedJobs(w) /\ wait' = EnqueuedWait(w)
  /\ parent' \in AnyAttempts
  /\ parent'.live = parent.live /\ parent'.lockedBy = parent.lockedBy
  /\ parent'.lockNo = parent.lockNo /\ parent'.max = parent.max
  /\ parent'.attempts = parent.attempts - GivenBack(n)
  /\ w \in Timed => w \in parent'.runAt
  /\ passed' = IF group[w].open THEN passed ELSE passed \ {w}
  /\ UNCHANGED <<saved, up, stalls>>

LEMMA SuspendFacts ==
  ASSUME CoreTypes, NEW n \in Locks, NEW w \in Waits, SuspendWait(n, w)
  PROVE  \E s \in Run : SuspendCommits(n, w, s)
<1>1. {} \in SUBSET Waits /\ {"suspended"} \in SUBSET {"suspended", "continued"}
  OBVIOUS
<1>2. Next1(n) /\ \E run \in Committed(n, "waiting", {}, {"suspended"}) :
                      runs' = [runs EXCEPT ![n] = run]
  BY DEF SuspendWait
<1>3. PICK s \in Run : RunTo(n, s) /\ Commits(runs[n], s, "waiting", {}, {"suspended"})
  BY <1>1, <1>2, CommittedMoves
<1>4. PICK at : at = SuspendedUntil(n, w)
  OBVIOUS
<1>5. at \in SUBSET Instants /\ (w \in Timed => w \in at)
  BY <1>4 DEF CoreTypes, AnyAttempts, SuspendedUntil, Instants
<1>6. PICK a \in Int : a = parent.attempts - GivenBack(n)
  BY DEF CoreTypes, AnyAttempts, GivenBack
<1>7. parent' = [parent EXCEPT !.attempts = a, !.runAt = at]
  BY <1>4, <1>6 DEF SuspendWait
<1>8. /\ parent' \in AnyAttempts
      /\ parent'.live = parent.live /\ parent'.lockedBy = parent.lockedBy
      /\ parent'.lockNo = parent.lockNo /\ parent'.max = parent.max
      /\ parent'.attempts = a /\ parent'.runAt = at
  BY <1>5, <1>7 DEF CoreTypes, AnyAttempts
<1>9. SuspendCommits(n, w, s)
  BY <1>3, <1>5, <1>6, <1>8 DEF SuspendWait, SuspendCommits, Next1, Head1
<1>10. QED BY <1>9

(* The first suspend of a wait makes a group with all its children left.   *)
LEMMA EnqueueFacts ==
  ASSUME RowTypes, RemainingCounts, NEW w \in Waits, CanEnqueue(w), ~Complete(w),
         group' = [group EXCEPT ![w] = Enqueued(w)], wait' = EnqueuedWait(w),
         jobs' = EnqueuedJobs(w)
  PROVE  /\ group' \in [Waits -> [open : BOOLEAN, remaining : 0..Cardinality(Kids)]]
         /\ wait' \in [Kids -> [job : Gens, result : {"none", "told", "lost"}]]
         /\ jobs' \in [Kids \X Gens -> JobStates]
         /\ group'[w].open /\ group'[w].remaining > 0
         /\ \A v \in Waits \ {w} : group'[v] = group[v]
         /\ \A c \in Kids : (c[1] = w /\ ~group[w].open) \/ wait'[c] = wait[c]
         /\ \A c \in Kids : c[1] = w /\ ~group[w].open =>
              wait'[c].result = "none" /\ wait'[c].job \in Fresh(c)
         /\ RemainingCounts'
<1>0. Count[w] \in 0..Cardinality(Kids) /\ Count[w] \in Nat \ {0}
      /\ Cardinality(KidsOf(w)) = Count[w] /\ \A c \in KidsOf(w) : c \in Kids /\ c[1] = w
  BY KidsCount, WaitsAssumption DEF WaitsAssumption, KidsOf
<1>1. /\ Enqueued(w) \in [open : BOOLEAN, remaining : 0..Cardinality(Kids)]
      /\ Enqueued(w).open /\ Enqueued(w).remaining > 0
      /\ group[w].open => Enqueued(w) = group[w]
      /\ ~group[w].open => Enqueued(w).remaining = Count[w]
  <2>1. CASE group[w].open
    <3>1. group[w].remaining \in Nat /\ group[w].remaining # 0
      BY <2>1 DEF RowTypes, Complete
    <3>2. QED BY <2>1, <3>1 DEF Enqueued, RowTypes
  <2>2. CASE ~group[w].open
    BY <1>0, <2>2 DEF Enqueued
  <2>3. QED BY <2>1, <2>2
<1>2. ASSUME NEW c \in Kids, c[1] = w, ~group[w].open
      PROVE  /\ wait'[c] \in [job : Gens, result : {"none", "told", "lost"}]
             /\ wait'[c].result = "none" /\ wait'[c].job \in Fresh(c)
  <2>1. c \in KidsOf(w)
    BY <1>2 DEF KidsOf
  <2>2. PICK g : g = CHOOSE h \in Fresh(c) : TRUE
    OBVIOUS
  <2>3. g \in Fresh(c)
    BY <1>2, <2>1, <2>2 DEF CanEnqueue
  <2>4. wait'[c] = [NoWait EXCEPT !.job = g]
    BY <1>2, <2>2 DEF EnqueuedWait
  <2>5. g \in Gens
    BY <2>3 DEF Fresh
  <2>6. QED BY <2>3, <2>4, <2>5 DEF NoWait
<1>3. \A c \in Kids : (c[1] = w /\ ~group[w].open) \/ wait'[c] = wait[c]
  BY DEF EnqueuedWait
<1>4. wait' \in [Kids -> [job : Gens, result : {"none", "told", "lost"}]]
  <2>1. \A c \in Kids : wait'[c] \in [job : Gens, result : {"none", "told", "lost"}]
    BY <1>2, <1>3 DEF RowTypes
  <2>2. wait' = [c \in Kids |-> wait'[c]]
    BY DEF EnqueuedWait
  <2>3. QED BY <2>1, <2>2
<1>5. jobs' \in [Kids \X Gens -> JobStates]
  BY DEF RowTypes, EnqueuedJobs, JobStates
<1>6. /\ group' \in [Waits -> [open : BOOLEAN, remaining : 0..Cardinality(Kids)]]
      /\ group'[w] = Enqueued(w) /\ \A v \in Waits \ {w} : group'[v] = group[v]
  BY <1>1 DEF RowTypes
<1>7. RemainingCounts'
  <2> SUFFICES ASSUME NEW v \in Waits, group'[v].open
               PROVE  group'[v].remaining = Cardinality(Pending(v)')
    BY DEF RemainingCounts, Pending
  <2>1. CASE v # w \/ group[w].open
    <3>1. group'[v] = group[v] /\ group[v].open
      BY <1>1, <1>6, <2>1
    <3>2. \A c \in KidsOf(v) : c \in Kids /\ c[1] = v
      BY DEF KidsOf
    <3>3. Pending(v)' = Pending(v)
      BY <1>3, <2>1, <3>2 DEF Pending
    <3>4. QED BY <3>1, <3>3 DEF RemainingCounts, Pending
  <2>2. CASE v = w /\ ~group[w].open
    <3>1. Pending(w)' = KidsOf(w)
      BY <1>0, <1>2, <2>2 DEF Pending
    <3>2. QED BY <1>0, <1>1, <1>6, <2>2, <3>1
  <2>3. QED BY <2>1, <2>2
<1>8. QED BY <1>1, <1>2, <1>3, <1>4, <1>5, <1>6, <1>7

LEMMA SuspendCore ==
  ASSUME CoreInv, NEW n \in Locks, NEW w \in Waits, NEW s \in Run, SuspendCommits(n, w, s)
  PROVE  CoreInv'
<1>0. CoreTypes /\ RowTypes /\ RemainingCounts /\ ChainsWork
  BY DEF CoreInv, CoreTypes
<1>1. /\ RunTo(n, s) /\ Pops(runs[n], s)
      /\ CanEnqueue(w) /\ ~Complete(w) /\ group' = [group EXCEPT ![w] = Enqueued(w)]
      /\ wait' = EnqueuedWait(w) /\ jobs' = EnqueuedJobs(w)
  BY DEF SuspendCommits, Commits
<1>2. ChainsWork' /\ runs' \in [Locks -> Run]
  BY <1>0, <1>1, ChainsMove
<1>3. /\ group' \in [Waits -> [open : BOOLEAN, remaining : 0..Cardinality(Kids)]]
      /\ wait' \in [Kids -> [job : Gens, result : {"none", "told", "lost"}]]
      /\ jobs' \in [Kids \X Gens -> JobStates]
      /\ group'[w].open /\ group'[w].remaining > 0
      /\ RemainingCounts'
  BY <1>0, <1>1, EnqueueFacts
<1>4. CoreTypes'
  BY <1>0, <1>2, <1>3 DEF SuspendCommits, CoreTypes, RowTypes, WorldTypes
<1>5. AwakeUnlessWaiting'
  BY <1>3 DEF SuspendCommits, AwakeUnlessWaiting
<1>6. QED BY <1>2, <1>3, <1>4, <1>5 DEF CoreInv

ContinueCommits(n, s) ==
  /\ runs[n].chain # <<>> /\ Head(runs[n].chain) = Continue /\ Owned(n)
  /\ RunTo(n, s) /\ Commits(runs[n], s, "continued", {}, {"continued"})
  /\ Follows(parent, parent')
  /\ UNCHANGED <<waiting, world>>

LEMMA ContinueFacts ==
  ASSUME CoreTypes, NEW n \in Locks, ContinueParent(n)
  PROVE  \E s \in Run : ContinueCommits(n, s)
<1>1. {} \in SUBSET Waits /\ {"continued"} \in SUBSET {"suspended", "continued"}
  OBVIOUS
<1>2. Next1(n) /\ \E run \in Committed(n, "continued", {}, {"continued"}) :
                      runs' = [runs EXCEPT ![n] = run]
  BY DEF ContinueParent
<1>3. PICK s \in Run : RunTo(n, s) /\ Commits(runs[n], s, "continued", {}, {"continued"})
  BY <1>1, <1>2, CommittedMoves
<1>4. Follows(parent, parent')
  BY ParentFollows DEF ContinueParent, CoreTypes
<1>5. ContinueCommits(n, s)
  BY <1>3, <1>4 DEF ContinueParent, ContinueCommits, Next1, Head1
<1>6. QED BY <1>5

LEMMA ContinueCore ==
  ASSUME CoreInv, NEW n \in Locks, NEW s \in Run, ContinueCommits(n, s)
  PROVE  CoreInv'
<1>1. /\ RunTo(n, s) /\ Pops(runs[n], s) /\ Follows(parent, parent')
      /\ UNCHANGED <<waiting, world>>
  BY DEF ContinueCommits, Commits
<1>2. ChainsWork' /\ runs' \in [Locks -> Run]
  BY <1>1, ChainsMove DEF CoreInv
<1>3. CoreTypes'
  BY <1>1, <1>2 DEF CoreInv, CoreTypes, RowTypes, WorldTypes, waiting, world, Follows
<1>4. RemainingCounts'
  BY <1>1 DEF CoreInv, RemainingCounts, waiting
<1>5. AwakeUnlessWaiting'
  BY <1>1, StaysAwake DEF waiting, world
<1>6. QED BY <1>2, <1>3, <1>4, <1>5 DEF CoreInv

---------------------------------------------------------------------------
(* Children and the sweep. *)

(* A step of a child that reports nothing. *)
SilentChild(k) ==
  SpentEnds(k) \/ ChildEndsUnheard(k) \/ ChildRevived(k) \/ ChildContinues(k)

LEMMA RepointFacts ==
  ASSUME RowTypes, NEW k \in Kids \X Gens, NEW g \in Gens, wait' = Repointed(k, g)
  PROVE  /\ wait' \in [Kids -> [job : Gens, result : {"none", "told", "lost"}]]
         /\ \A c \in Kids : wait'[c].result = wait[c].result
         /\ \A c \in Kids : wait'[c].job =
              IF c = k[1] /\ group[c[1]].open /\ wait[c] = [job |-> k[2], result |-> "none"]
              THEN g ELSE wait[c].job
BY DEF RowTypes, Repointed

LEMMA SilentChildFacts ==
  ASSUME CoreTypes, NEW k \in Kids \X Gens, SilentChild(k)
  PROVE  /\ RowTypes' /\ \A c \in Kids : wait'[c].result = wait[c].result
         /\ UNCHANGED <<parent, group, saved, runs, passed, up, stalls>>
<1>1. RowTypes
  BY DEF CoreTypes
<1>2. CASE SpentEnds(k) \/ ChildEndsUnheard(k) \/ ChildRevived(k)
  <2>1. UNCHANGED <<parent, group, wait, saved, runs, passed, up, stalls>>
    BY <1>2 DEF SpentEnds, ChildEndsUnheard, ChildRevived, world
  <2>2. PICK left \in JobStates : jobs' = [jobs EXCEPT ![k] = left]
    BY <1>2 DEF SpentEnds, ChildEndsUnheard, ChildRevived, JobStates
  <2>3. QED BY <1>1, <2>1, <2>2 DEF RowTypes
<1>3. CASE ChildContinues(k)
  <2>1. PICK g \in Fresh(k[1]) :
          /\ jobs' = [jobs EXCEPT ![<<k[1], g>>] = "live",
                                  ![k] = IF JobOutcomes THEN "gone" ELSE "spent"]
          /\ wait' = Repointed(k, g)
    BY <1>3 DEF ChildContinues
  <2>2. g \in Gens
    BY <2>1 DEF Fresh
  <2>3. /\ wait' \in [Kids -> [job : Gens, result : {"none", "told", "lost"}]]
        /\ \A c \in Kids : wait'[c].result = wait[c].result
    BY <1>1, <2>1, <2>2, RepointFacts
  <2>4. jobs' \in [Kids \X Gens -> JobStates]
    BY <1>1, <2>1, <2>2 DEF RowTypes, JobStates
  <2>5. UNCHANGED <<parent, group, saved, runs, passed, up, stalls>>
    BY <1>3 DEF ChildContinues, world
  <2>6. QED BY <1>1, <2>3, <2>4, <2>5 DEF RowTypes
<1>4. QED BY <1>2, <1>3 DEF SilentChild

LEMMA SilentChildCore ==
  ASSUME CoreInv, NEW k \in Kids \X Gens, SilentChild(k)
  PROVE  CoreInv'
<1>1. /\ RowTypes' /\ \A c \in Kids : wait'[c].result = wait[c].result
      /\ UNCHANGED <<parent, group, saved, runs, passed, up, stalls>>
  BY SilentChildFacts DEF CoreInv
<1>2. CoreTypes' /\ ChainsWork' /\ AwakeUnlessWaiting'
  BY <1>1 DEF CoreInv, CoreTypes, WorldTypes, ChainsWork, Working, AwakeUnlessWaiting
<1>3. RemainingCounts'
  <2> SUFFICES ASSUME NEW w \in Waits, group[w].open
               PROVE  group[w].remaining = Cardinality(Pending(w)')
    BY <1>1 DEF RemainingCounts, Pending
  <2>1. \A c \in KidsOf(w) : c \in Kids
    BY KidsCount
  <2>2. Pending(w)' = Pending(w)
    BY <1>1, <2>1 DEF Pending
  <2>3. QED BY <2>2 DEF CoreInv, RemainingCounts, Pending
<1>4. QED BY <1>2, <1>3 DEF CoreInv

(* A child's report, or the sweep's of the lost ones. *)
Reporting(tell, result) ==
  /\ Report(tell, result)
  /\ result = "lost" => tell = Lost
  /\ jobs' \in [Kids \X Gens -> JobStates]
  /\ \A k \in Kids \X Gens :
       jobs'[k] = jobs[k] \/ (jobs[k] = "live" /\ jobs'[k] \in {"spent", "gone"})
  /\ UNCHANGED <<saved, runs, passed, up, stalls>>

LEMMA ReportingFacts ==
  ASSUME CoreTypes, SweepLost \/ \E k \in Kids \X Gens : ChildReports(k)
  PROVE  \E tell \in SUBSET Kids, result \in {"told", "lost"} : Reporting(tell, result)
<1>1. jobs \in [Kids \X Gens -> JobStates]
  BY DEF CoreTypes, RowTypes
<1>2. CASE SweepLost
  <2>1. Lost \in SUBSET Kids
    BY DEF Lost
  <2>2. Reporting(Lost, "lost")
    BY <1>1, <1>2 DEF SweepLost, Reporting
  <2>3. QED BY <2>1, <2>2
<1>3. ASSUME NEW k \in Kids \X Gens, ChildReports(k)
      PROVE  \E tell \in SUBSET Kids, result \in {"told", "lost"} : Reporting(tell, result)
  <2>1. {c \in {k[1]} : wait[c].job = k[2]} \in SUBSET Kids
    BY <1>3
  <2>2. PICK left \in {"spent", "gone"} : jobs' = [jobs EXCEPT ![k] = left]
    BY <1>3 DEF ChildReports
  <2>3. /\ jobs' \in [Kids \X Gens -> JobStates]
        /\ \A l \in Kids \X Gens :
             jobs'[l] = jobs[l] \/ (jobs[l] = "live" /\ jobs'[l] \in {"spent", "gone"})
    BY <1>1, <1>3, <2>2 DEF ChildReports, JobStates
  <2>4. Reporting({c \in {k[1]} : wait[c].job = k[2]}, "told")
    BY <1>3, <2>3 DEF ChildReports, Reporting, world
  <2>5. QED BY <2>1, <2>4
<1>4. QED BY <1>2, <1>3

LEMMA ReportingCore ==
  ASSUME CoreInv, NEW tell \in SUBSET Kids, NEW result \in {"told", "lost"},
         Reporting(tell, result)
  PROVE  CoreInv'
<1>0. parent \in AnyAttempts /\ RowTypes /\ RemainingCounts /\ Report(tell, result)
  BY DEF CoreInv, CoreTypes, Reporting
<1>1. /\ group' \in [Waits -> [open : BOOLEAN, remaining : 0..Cardinality(Kids)]]
      /\ wait' \in [Kids -> [job : Gens, result : {"none", "told", "lost"}]]
      /\ RemainingCounts'
      /\ \A w \in Waits : group'[w].open = group[w].open
      /\ parent' = parent \/ parent' = [parent EXCEPT !.runAt = {"now"}]
      /\ parent.live => \A w \in Waits :
           group[w].remaining # 0 /\ group'[w].remaining = 0 => parent'.runAt = {"now"}
  BY <1>0, ReportFacts
<1>2. Follows(parent, parent')
  BY <1>0, <1>1, ParentFollows
<1>3. CoreTypes' /\ ChainsWork'
  BY <1>1, <1>2 DEF Reporting, CoreInv, CoreTypes, RowTypes, WorldTypes, ChainsWork,
                    Working, Follows
<1>4. AwakeUnlessWaiting'
  <2>1. CASE parent.live
    <3>1. \A w \in Waits : group[w].open /\ group[w].remaining > 0 =>
            group'[w].open /\ (group'[w].remaining > 0 \/ parent'.runAt = {"now"})
      <4> SUFFICES ASSUME NEW w \in Waits, group[w].open, group[w].remaining > 0
                   PROVE  group'[w].open /\ (group'[w].remaining > 0 \/ parent'.runAt = {"now"})
        OBVIOUS
      <4>1. group'[w].remaining \in Nat /\ group[w].remaining \in Nat
        BY <1>0, <1>1 DEF RowTypes
      <4>2. QED BY <1>1, <2>1, <4>1
    <3>2. passed \subseteq passed'
      BY DEF Reporting
    <3>3. QED BY <1>2, <3>1, <3>2, StaysAwake
  <2>2. CASE ~parent.live
    <3>1. ~parent'.live
      BY <1>2, <2>2 DEF Follows, AnyAttempts
    <3>2. QED BY <3>1 DEF AwakeUnlessWaiting
  <2>3. QED BY <2>1, <2>2
<1>5. QED BY <1>1, <1>3, <1>4 DEF CoreInv

LEMMA OrphansCore ==
  ASSUME CoreInv, SweepOrphans
  PROVE  CoreInv'
<1>0. RowTypes /\ RemainingCounts /\ Orphans \in SUBSET Waits
  BY DEF CoreInv, CoreTypes, Orphans
<1>1. /\ group' = GroupsWithout(Orphans) /\ wait' = WaitsWithout(Orphans) /\ ~parent.live
      /\ UNCHANGED <<parent, saved, jobs, runs, passed, up, stalls>>
  BY DEF SweepOrphans, Orphans
<1>2. /\ group' \in [Waits -> [open : BOOLEAN, remaining : 0..Cardinality(Kids)]]
      /\ wait' \in [Kids -> [job : Gens, result : {"none", "told", "lost"}]]
      /\ RemainingCounts'
  BY <1>0, <1>1, WithoutFacts
<1>3. CoreTypes' /\ ChainsWork'
  BY <1>1, <1>2 DEF CoreInv, CoreTypes, RowTypes, WorldTypes, ChainsWork, Working
<1>4. AwakeUnlessWaiting'
  BY <1>1 DEF AwakeUnlessWaiting
<1>5. QED BY <1>2, <1>3, <1>4 DEF CoreInv

---------------------------------------------------------------------------
(* The kinds of steps. *)
RunCommits(n, s) ==
  \/ \E w \in Waits : FinishCommits(n, w, s) \/ SuspendCommits(n, w, s)
  \/ ContinueCommits(n, s)

StepKinds ==
  \/ \E n \in Locks : QuietRun(n)
  \/ \E n \in Locks, s \in Run : RunCommits(n, s)
  \/ \E p \in Pools : Fetch(p) \/ Crash(p)
  \/ WorldStep
  \/ \E k \in Kids \X Gens : SilentChild(k)
  \/ \E tell \in SUBSET Kids, result \in {"told", "lost"} : Reporting(tell, result)
  \/ SweepOrphans

LEMMA NextKinds == CoreTypes /\ Next => StepKinds
<1> SUFFICES ASSUME CoreTypes, Next PROVE StepKinds
  OBVIOUS
<1>1. ASSUME NEW n \in Locks,
             RunProgress(n) \/ CallContinue(n) \/ \E w \in Waits : CallWait(n, w)
      PROVE  StepKinds
  <2>1. QuietRun(n) \/ ContinueParent(n) \/ \E w \in Waits : FinishWait(n, w) \/ SuspendWait(n, w)
    BY <1>1 DEF RunProgress, QuietRun
  <2>2. CASE QuietRun(n)
    BY <2>2 DEF StepKinds
  <2>3. CASE ContinueParent(n)
    BY <2>3, ContinueFacts DEF StepKinds, RunCommits
  <2>4. CASE \E w \in Waits : FinishWait(n, w) \/ SuspendWait(n, w)
    BY <2>4, FinishFacts, SuspendFacts DEF StepKinds, RunCommits
  <2>5. QED BY <2>1, <2>2, <2>3, <2>4
<1>2. ASSUME NEW k \in Kids \X Gens, ChildStep(k) PROVE StepKinds
  <2>1. SilentChild(k) \/ ChildReports(k)
    BY <1>2 DEF ChildStep, SilentChild
  <2>2. QED BY <2>1, ReportingFacts DEF StepKinds
<1>3. CASE SweepLost
  BY <1>3, ReportingFacts DEF StepKinds
<1>4. CASE \/ \E p \in Pools : Fetch(p) \/ Crash(p) \/ Release(p)
           \/ \E w \in Waits : DeadlinePasses(w)
           \/ BecomesDue \/ SweepWake \/ SweepOrphans
  BY <1>4 DEF StepKinds, WorldStep
<1>5. QED BY <1>1, <1>2, <1>3, <1>4 DEF Next

LEMMA CoreKept == CoreInv /\ [Next]_vars => CoreInv'
<1> SUFFICES ASSUME CoreInv, [Next]_vars PROVE CoreInv'
  OBVIOUS
<1>1. CASE UNCHANGED vars
  BY <1>1 DEF vars, CoreInv, CoreTypes, RowTypes, WorldTypes, ChainsWork, Working,
              RemainingCounts, AwakeUnlessWaiting
<1>2. CASE StepKinds
  BY <1>2, QuietRunCore, FinishCore, SuspendCore, ContinueCore, FetchCore, CrashCore,
     WorldCore, SilentChildCore, ReportingCore, OrphansCore DEF StepKinds, RunCommits
<1>3. QED BY <1>1, <1>2, NextKinds DEF CoreInv

LEMMA CoreHolds == Spec => []CoreInv
BY InitCore, CoreKept, PTL DEF Spec

---------------------------------------------------------------------------
(* The counter of a group is the number of its children without a result:  *)
(* reports of children, sweeps for lost ones, continuations that wait rows *)
(* follow, replays and false deaths of the parent, lost replies and        *)
(* rollbacks neither skip a child nor count one twice.                     *)
THEOREM RemainingIsExact == Spec => []RemainingCounts
<1>1. CoreInv => RemainingCounts
  BY DEF CoreInv
<1>2. QED BY <1>1, CoreHolds, PTL

(* A parent whose run_at enterWait has moved away sleeps only while a wait *)
(* of it has a child left: no report falls between the suspend and the     *)
(* failure update that unlocks the parent, whatever other waits the run    *)
(* finishes or suspends in between.                                        *)
THEOREM NoWakeupIsLost == Spec => []SleepsOnlyWhileWaiting
BY AwakeMeansAwake, CoreHolds, PTL
---------------------------------------------------------------------------
(* What a run wrote and what it knows, while replies arrive: a run whose   *)
(* COMMIT succeeded but whose reply is lost takes its ending for failed,   *)
(* and may suspend, finish or continue once more.                          *)
RepliesArrive == "lost" \notin Faults

TellsItsEnding(r) ==
  /\ r.wrote # {"suspended", "continued"}
  /\ Working(r) => ("suspended" \in r.wrote <=> r.ending = "waiting")
  /\ Working(r) => ("continued" \in r.wrote <=> r.ending = "continued")

(* No continuation begins after a suspend, and no wait after a             *)
(* continuation.                                                           *)
BegunFits(r) ==
  /\ r.chain = <<>> => ~r.begun
  /\ r.chain # <<>> /\ r.begun /\ Head(r.chain) = Continue => r.ending = "none"
  /\ r.chain # <<>> /\ r.begun /\ Head(r.chain) # Continue => r.ending # "continued"

(* A wait is on the chain once, and not when its result is known. *)
CallsOnce(r) ==
  \A i \in DOMAIN r.chain : r.chain[i] \in Waits =>
    /\ r.chain[i] \notin r.knows
    /\ \A j \in DOMAIN r.chain : j # i => r.chain[j] # r.chain[i]

RunInv(r) == TellsItsEnding(r) /\ BegunFits(r) /\ CallsOnce(r)

LEMMA ChainTail ==
  ASSUME NEW r \in Run, r.chain # <<>>
  PROVE  /\ r.chain \in Seq(Endings) /\ Len(r.chain) \in Nat \ {0}
         /\ DOMAIN r.chain = 1..Len(r.chain) /\ Head(r.chain) = r.chain[1]
         /\ DOMAIN Tail(r.chain) = 1..(Len(r.chain) - 1)
         /\ \A i \in DOMAIN Tail(r.chain) : Tail(r.chain)[i] = r.chain[i + 1]
<1>1. r.chain \in Seq(Endings)
  BY DEF Run, Endings
<1>2. QED BY <1>1

(* The first ending is not among those that follow it. *)
LEMMA TailOnce ==
  ASSUME NEW r \in Run, NEW s \in Run, CallsOnce(r), Pops(r, s),
         NEW knows \in SUBSET Waits, s.knows = r.knows \cup knows,
         knows = {} \/ (knows = {Head(r.chain)} /\ Head(r.chain) \in Waits)
  PROVE  CallsOnce(s)
<1>1. /\ r.chain # <<>> /\ s.chain = Tail(r.chain)
      /\ Len(r.chain) \in Nat \ {0} /\ DOMAIN r.chain = 1..Len(r.chain)
      /\ Head(r.chain) = r.chain[1]
      /\ DOMAIN s.chain = 1..(Len(r.chain) - 1)
      /\ \A i \in DOMAIN s.chain : s.chain[i] = r.chain[i + 1]
  BY ChainTail DEF Pops
<1> SUFFICES ASSUME NEW i \in DOMAIN s.chain, s.chain[i] \in Waits
             PROVE  /\ s.chain[i] \notin s.knows
                    /\ \A j \in DOMAIN s.chain : j # i => s.chain[j] # s.chain[i]
  BY DEF CallsOnce
<1>2. /\ i + 1 \in DOMAIN r.chain /\ 1 \in DOMAIN r.chain /\ i + 1 # 1
      /\ s.chain[i] = r.chain[i + 1]
  BY <1>1
<1>3. s.chain[i] \notin r.knows /\ s.chain[i] # Head(r.chain)
  BY <1>1, <1>2 DEF CallsOnce
<1>4. ASSUME NEW j \in DOMAIN s.chain, j # i PROVE s.chain[j] # s.chain[i]
  <2>1. j + 1 \in DOMAIN r.chain /\ j + 1 # i + 1 /\ s.chain[j] = r.chain[j + 1]
    BY <1>1, <1>4
  <2>2. QED BY <1>2, <2>1 DEF CallsOnce
<1>5. QED BY <1>3, <1>4

LEMMA MovesKeepRun ==
  ASSUME NEW r \in Run, NEW s \in Run, RunInv(r), Moves(r, s)
  PROVE  RunInv(s)
<1>1. CASE Calls(r, s)
  <2>1. /\ Same(r, s) /\ r.phase = "handler" /\ s.phase = "handler" /\ s.begun = r.begun
        /\ TellsItsEnding(r) /\ BegunFits(r) /\ CallsOnce(r)
    BY <1>1 DEF Calls, RunInv
  <2>2. PICK x \in Endings :
          /\ s.chain = Append(r.chain, x)
          /\ x \in Waits => x \notin r.knows /\ \A i \in DOMAIN r.chain : r.chain[i] # x
    BY <1>1 DEF Calls
  <2>3. /\ r.chain \in Seq(Endings) /\ DOMAIN r.chain = 1..Len(r.chain) /\ Len(r.chain) \in Nat
        /\ DOMAIN s.chain = 1..(Len(r.chain) + 1) /\ s.chain[Len(r.chain) + 1] = x
        /\ \A i \in DOMAIN r.chain : s.chain[i] = r.chain[i]
        /\ s.chain # <<>> /\ (r.chain # <<>> => Head(s.chain) = Head(r.chain))
    <3>1. r.chain \in Seq(Endings)
      BY DEF Run, Endings
    <3>2. QED BY <2>2, <3>1
  <2>4. TellsItsEnding(s)
    BY <2>1 DEF TellsItsEnding, Same, Working
  <2>5. BegunFits(s)
    BY <2>1, <2>3 DEF BegunFits, Same
  <2>6. CallsOnce(s)
    <3> SUFFICES ASSUME NEW i \in DOMAIN s.chain, s.chain[i] \in Waits
                 PROVE  /\ s.chain[i] \notin s.knows
                        /\ \A j \in DOMAIN s.chain : j # i => s.chain[j] # s.chain[i]
      BY DEF CallsOnce
    <3>1. s.knows = r.knows
      BY <2>1 DEF Same
    <3>2. \A l \in DOMAIN s.chain : l \in DOMAIN r.chain \/ l = Len(r.chain) + 1
      BY <2>3
    <3>3. CASE i \in DOMAIN r.chain
      <4>1. s.chain[i] = r.chain[i] /\ s.chain[i] \notin r.knows
        BY <2>1, <2>3, <3>3 DEF CallsOnce
      <4>2. ASSUME NEW j \in DOMAIN s.chain, j # i PROVE s.chain[j] # s.chain[i]
        <5>1. CASE j \in DOMAIN r.chain
          BY <2>1, <2>3, <3>3, <4>1, <4>2, <5>1 DEF CallsOnce
        <5>2. CASE j = Len(r.chain) + 1
          <6>1. s.chain[j] = x
            BY <2>3, <5>2
          <6>2. QED BY <2>2, <3>3, <4>1, <6>1
        <5>3. QED BY <3>2, <5>1, <5>2
      <4>3. QED BY <3>1, <4>1, <4>2
    <3>4. CASE i = Len(r.chain) + 1
      <4>1. s.chain[i] = x /\ x \in Waits
        BY <2>3, <3>4
      <4>2. ASSUME NEW j \in DOMAIN s.chain, j # i PROVE s.chain[j] # s.chain[i]
        <5>1. j \in DOMAIN r.chain
          BY <3>2, <3>4, <4>2
        <5>2. QED BY <2>2, <2>3, <4>1, <5>1
      <4>3. QED BY <2>2, <3>1, <4>1, <4>2
    <3>5. QED BY <3>2, <3>3, <3>4
  <2>7. QED BY <2>4, <2>5, <2>6 DEF RunInv
<1>2. CASE Returns(r, s) \/ Begins(r, s)
  <2>1. /\ Same(r, s) /\ s.chain = r.chain /\ (Working(s) => Working(r))
        /\ s.begun = r.begun \/ Begins(r, s)
    BY <1>2 DEF Returns, Begins, Working
  <2>2. TellsItsEnding(s)
    BY <2>1 DEF RunInv, TellsItsEnding, Same
  <2>3. BegunFits(s)
    BY <2>1 DEF RunInv, BegunFits, Same, Begins
  <2>4. CallsOnce(s)
    BY <2>1 DEF RunInv, CallsOnce, Same
  <2>5. QED BY <2>2, <2>3, <2>4 DEF RunInv
<1>3. CASE Drops(r, s)
  <2>1. Pops(r, s) /\ Same(r, s) /\ s.phase = r.phase /\ ~s.begun
    BY <1>3 DEF Drops, Pops
  <2>2. TellsItsEnding(s) /\ BegunFits(s)
    BY <2>1 DEF RunInv, TellsItsEnding, BegunFits, Same, Working
  <2>3. {} \in SUBSET Waits /\ s.knows = r.knows \cup {}
    BY <2>1 DEF Same
  <2>4. CallsOnce(s)
    BY <2>1, <2>3, TailOnce DEF RunInv
  <2>5. QED BY <2>2, <2>4 DEF RunInv
<1>4. CASE Quits(r, s)
  <2>1. s.chain = <<>> /\ ~Working(s) /\ s.wrote = r.wrote /\ ~s.begun
    BY <1>4 DEF Quits, Working
  <2>2. TellsItsEnding(s) /\ BegunFits(s)
    BY <2>1 DEF RunInv, TellsItsEnding, BegunFits
  <2>3. CallsOnce(s)
    BY <2>1 DEF CallsOnce
  <2>4. QED BY <2>2, <2>3 DEF RunInv
<1>5. QED BY <1>1, <1>2, <1>3, <1>4 DEF Moves

(* The kinds of commits: what a run wrote is what it was told. *)
LEMMA CommitKeepsRun ==
  ASSUME RepliesArrive, NEW r \in Run, NEW s \in Run, RunInv(r), Working(r),
         NEW ending \in {"none", "waiting", "continued"}, NEW knows \in SUBSET Waits,
         NEW wrote \in SUBSET {"suspended", "continued"},
         Commits(r, s, ending, knows, wrote),
         \/ /\ ending = "none" /\ wrote = {} /\ knows = {Head(r.chain)}
            /\ Head(r.chain) \in Waits
         \/ /\ ending = "waiting" /\ wrote = {"suspended"} /\ knows = {}
            /\ Head(r.chain) # Continue
         \/ /\ ending = "continued" /\ wrote = {"continued"} /\ knows = {}
            /\ Head(r.chain) = Continue
  PROVE  RunInv(s)
<1>1. /\ Pops(r, s) /\ r.begun /\ s.wrote = r.wrote \cup wrote
      /\ s.ending = (IF r.ending = "none" THEN ending ELSE r.ending)
      /\ s.knows = r.knows \cup knows
  BY DEF RepliesArrive, Commits, Heard
<1>2. /\ r.chain # <<>> /\ s.phase = r.phase /\ ~s.begun
      /\ TellsItsEnding(r) /\ BegunFits(r) /\ CallsOnce(r)
      /\ r.ending \in {"none", "waiting", "continued"}
      /\ r.wrote \subseteq {"suspended", "continued"}
  BY <1>1 DEF Pops, RunInv, Run
<1>3. TellsItsEnding(s)
  BY <1>1, <1>2 DEF TellsItsEnding, BegunFits, Working
<1>4. BegunFits(s)
  BY <1>2 DEF BegunFits
<1>5. CallsOnce(s)
  <2>1. knows = {} \/ (knows = {Head(r.chain)} /\ Head(r.chain) \in Waits)
    OBVIOUS
  <2>2. QED BY <1>1, <1>2, <2>1, TailOnce
<1>6. QED BY <1>3, <1>4, <1>5 DEF RunInv

---------------------------------------------------------------------------
(* The invariant while replies arrive. *)
RunsFit == \A n \in Locks : RunInv(runs[n])

(* The run that holds the latest lock knows every checkpoint. *)
KnowsSaved ==
  \A n \in Locks : n = parent.lockNo /\ Working(runs[n]) =>
    {w \in Waits : saved[w] # "none"} \subseteq runs[n].knows

(* A wait with neither a group nor a checkpoint has not enqueued anything. *)
OneBatch ==
  parent.live => \A w \in Waits : ~group[w].open /\ saved[w] = "none" =>
    \A c \in KidsOf(w), g \in Gens : jobs[<<c, g>>] = "none"

Counted == {n \in 1..parent.lockNo : "suspended" \notin runs[n].wrote}

AttemptsFit ==
  /\ parent.attempts = Cardinality(Counted)
  /\ parent.attempts <= MaxAttempts /\ parent.max \in 0..MaxAttempts

OnceInv == CoreInv /\ RunsFit /\ KnowsSaved /\ OneBatch /\ AttemptsFit

(* The row of a commit's run, and the run. *)
LEMMA CommitFacts ==
  ASSUME RepliesArrive, CoreInv, RunsFit, NEW n \in Locks, NEW s \in Run, RunCommits(n, s)
  PROVE  /\ RunTo(n, s) /\ RunInv(s) /\ Working(runs[n]) /\ runs[n].begun
         /\ s.phase = runs[n].phase /\ runs[n] \in Run /\ RunInv(runs[n])
         /\ parent.live /\ parent.lockNo = n
         /\ parent'.lockNo = parent.lockNo
<1>1. /\ RunTo(n, s) /\ runs[n].chain # <<>> /\ Owned(n) /\ parent'.lockNo = parent.lockNo
      /\ runs[n].begun /\ s.phase = runs[n].phase
  BY DEF RunCommits, FinishCommits, SuspendCommits, ContinueCommits, Commits, Pops, Follows
<1>2. Working(runs[n]) /\ runs[n] \in Run /\ RunInv(runs[n])
  BY <1>1 DEF CoreInv, ChainsWork, CoreTypes, RunsFit
<1>3. RunInv(s)
  <2>1. ASSUME NEW w \in Waits, FinishCommits(n, w, s) PROVE RunInv(s)
    <3>1. /\ Commits(runs[n], s, "none", {w}, {}) /\ Head(runs[n].chain) = w
          /\ {w} \in SUBSET Waits /\ {} \in SUBSET {"suspended", "continued"}
      BY <2>1 DEF FinishCommits
    <3>2. QED BY <1>2, <3>1, CommitKeepsRun
  <2>2. ASSUME NEW w \in Waits, SuspendCommits(n, w, s) PROVE RunInv(s)
    <3>1. /\ Commits(runs[n], s, "waiting", {}, {"suspended"})
          /\ Head(runs[n].chain) # Continue
          /\ {} \in SUBSET Waits /\ {"suspended"} \in SUBSET {"suspended", "continued"}
      BY <2>2, Bounds DEF SuspendCommits
    <3>2. QED BY <1>2, <3>1, CommitKeepsRun
  <2>3. CASE ContinueCommits(n, s)
    <3>1. /\ Commits(runs[n], s, "continued", {}, {"continued"})
          /\ Head(runs[n].chain) = Continue
          /\ {} \in SUBSET Waits /\ {"continued"} \in SUBSET {"suspended", "continued"}
      BY <2>3 DEF ContinueCommits
    <3>2. QED BY <1>2, <3>1, CommitKeepsRun
  <2>4. QED BY <2>1, <2>2, <2>3 DEF RunCommits
<1>4. QED BY <1>1, <1>2, <1>3 DEF Owned

LEMMA RunsFitKept ==
  ASSUME RepliesArrive, CoreInv, RunsFit, StepKinds
  PROVE  RunsFit'
<1>0. CoreTypes /\ \A n \in Locks : runs[n] \in Run /\ RunInv(runs[n])
  BY DEF CoreInv, CoreTypes, RunsFit
<1>1. ASSUME NEW n \in Locks, NEW s \in Run, RunTo(n, s), RunInv(s) PROVE RunsFit'
  <2>1. \A m \in Locks : runs'[m] = IF m = n THEN s ELSE runs[m]
    BY <1>0, <1>1 DEF RunTo, CoreTypes
  <2>2. QED BY <1>0, <1>1, <2>1 DEF RunsFit
<1>2. ASSUME NEW n \in Locks, QuietRun(n) PROVE RunsFit'
  <2>1. PICK s \in Run : RunTo(n, s) /\ Moves(runs[n], s)
    BY <1>0, <1>2, QuietRunMoves
  <2>2. RunInv(s)
    BY <1>0, <2>1, MovesKeepRun
  <2>3. QED BY <1>1, <2>1, <2>2
<1>3. ASSUME NEW n \in Locks, NEW s \in Run, RunCommits(n, s) PROVE RunsFit'
  BY <1>1, <1>3, CommitFacts
<1>4. ASSUME NEW p \in Pools, Fetch(p) PROVE RunsFit'
  <2>1. PICK n \in Locks : \E s \in Run :
          RunTo(n, s) /\ s.chain = <<>> /\ ~s.begun /\ s.ending = "none" /\ s.wrote = {}
    BY <1>0, <1>4, FetchFacts
  <2>2. PICK s \in Run :
          RunTo(n, s) /\ s.chain = <<>> /\ ~s.begun /\ s.ending = "none" /\ s.wrote = {}
    BY <2>1
  <2>3. RunInv(s)
    BY <2>2 DEF RunInv, TellsItsEnding, BegunFits, CallsOnce
  <2>4. QED BY <1>1, <2>2, <2>3
<1>5. ASSUME NEW p \in Pools, Crash(p) PROVE RunsFit'
  <2>1. /\ runs' \in [Locks -> Run]
        /\ \A n \in Locks : runs'[n] = runs[n] \/ Moves(runs[n], runs'[n])
    BY <1>0, <1>5, CrashFacts DEF Moves
  <2>2. QED BY <1>0, <2>1, MovesKeepRun DEF RunsFit
<1>6. CASE \/ WorldStep \/ SweepOrphans
           \/ \E k \in Kids \X Gens : SilentChild(k)
           \/ \E tell \in SUBSET Kids, result \in {"told", "lost"} : Reporting(tell, result)
  <2>1. runs' = runs
    BY <1>0, <1>6, WorldFacts, SilentChildFacts DEF Reporting, SweepOrphans
  <2>2. QED BY <1>0, <2>1 DEF RunsFit
<1>7. QED BY <1>2, <1>3, <1>4, <1>5, <1>6 DEF StepKinds

(* The steps that are no run's. *)
Elsewhere ==
  \/ WorldStep \/ SweepOrphans
  \/ \E k \in Kids \X Gens : SilentChild(k)
  \/ \E tell \in SUBSET Kids, result \in {"told", "lost"} : Reporting(tell, result)

LEMMA ElsewhereFacts ==
  ASSUME CoreInv, Elsewhere
  PROVE  runs' = runs /\ saved' = saved /\ Follows(parent, parent')
<1>0. CoreTypes /\ RowTypes /\ RemainingCounts /\ parent \in AnyAttempts
  BY DEF CoreInv, CoreTypes
<1>1. CASE WorldStep
  BY <1>0, <1>1, WorldFacts DEF waiting
<1>2. CASE SweepOrphans \/ \E k \in Kids \X Gens : SilentChild(k)
  <2>1. runs' = runs /\ saved' = saved /\ parent' = parent
    BY <1>0, <1>2, SilentChildFacts DEF SweepOrphans
  <2>2. QED BY <1>0, <2>1, ParentFollows
<1>3. ASSUME NEW tell \in SUBSET Kids, NEW result \in {"told", "lost"}, Reporting(tell, result)
      PROVE  runs' = runs /\ saved' = saved /\ Follows(parent, parent')
  <2>1. Report(tell, result) /\ runs' = runs /\ saved' = saved
    BY <1>3 DEF Reporting
  <2>2. parent' = parent \/ parent' = [parent EXCEPT !.runAt = {"now"}]
    BY <1>0, <2>1, ReportFacts
  <2>3. QED BY <1>0, <2>1, <2>2, ParentFollows
<1>4. QED BY <1>1, <1>2, <1>3 DEF Elsewhere

LEMMA KnowsSavedKept ==
  ASSUME RepliesArrive, CoreInv, RunsFit, KnowsSaved, StepKinds
  PROVE  KnowsSaved'
<1>0. CoreTypes /\ RowTypes /\ runs \in [Locks -> Run] /\ Locks \subseteq Nat
      /\ parent.lockNo \in Nat
  <2>1. CoreTypes /\ RowTypes /\ runs \in [Locks -> Run] /\ parent \in AnyAttempts
    BY DEF CoreInv, CoreTypes
  <2>2. QED BY <2>1, Bounds DEF AnyAttempts
<1>1. ASSUME saved' = saved, parent'.lockNo = parent.lockNo,
             \A n \in Locks : \/ ~Working(runs'[n])
                              \/ /\ Working(runs[n]) /\ runs[n].knows \subseteq runs'[n].knows
      PROVE  KnowsSaved'
  BY <1>1 DEF KnowsSaved, Working
<1>2. ASSUME NEW n \in Locks, QuietRun(n) PROVE KnowsSaved'
  <2>1. PICK s \in Run : RunTo(n, s) /\ Moves(runs[n], s)
    BY <1>0, <1>2, QuietRunMoves
  <2>2. saved' = saved /\ parent'.lockNo = parent.lockNo
    BY <1>0, <1>2, QuietRunFollows DEF waiting, Follows
  <2>3. ~Working(s) \/ (Working(runs[n]) /\ s.knows = runs[n].knows)
    BY <2>1 DEF Moves, Calls, Returns, Begins, Drops, Pops, Quits, Same, Working
  <2>4. \A m \in Locks : \/ ~Working(runs'[m])
                         \/ Working(runs[m]) /\ runs[m].knows \subseteq runs'[m].knows
    <3> SUFFICES ASSUME NEW m \in Locks, Working(runs'[m])
                 PROVE  Working(runs[m]) /\ runs[m].knows \subseteq runs'[m].knows
      OBVIOUS
    <3>1. CASE m = n
      <4>1. runs'[m] = s
        BY <1>0, <2>1, <3>1 DEF RunTo
      <4>2. QED BY <2>3, <3>1, <4>1
    <3>2. CASE m # n
      BY <1>0, <2>1, <3>2 DEF RunTo
    <3>3. QED BY <3>1, <3>2
  <2>5. QED BY <1>1, <2>2, <2>4
<1>3. ASSUME NEW n \in Locks, NEW s \in Run, RunCommits(n, s) PROVE KnowsSaved'
  <2>1. /\ RunTo(n, s) /\ parent.lockNo = n /\ parent'.lockNo = n /\ Working(runs[n])
    BY <1>3, CommitFacts
  <2>2. runs'[n] = s
    BY <1>0, <2>1 DEF RunTo
  <2>3. \E knows \in SUBSET Waits :
          /\ s.knows = runs[n].knows \cup knows
          /\ {w \in Waits : saved'[w] # "none"} \subseteq {w \in Waits : saved[w] # "none"} \cup knows
    <3>1. ASSUME NEW w \in Waits, FinishCommits(n, w, s)
          PROVE  /\ s.knows = runs[n].knows \cup {w}
                 /\ \A v \in Waits \ {w} : saved'[v] = saved[v]
      BY <1>0, <3>1 DEF FinishCommits, Commits, Heard, RepliesArrive, RowTypes
    <3>2. ASSUME \/ \E w \in Waits : SuspendCommits(n, w, s)
                 \/ ContinueCommits(n, s)
          PROVE  s.knows = runs[n].knows /\ saved' = saved
      BY <3>2 DEF SuspendCommits, ContinueCommits, Commits, Heard, RepliesArrive, waiting
    <3>3. CASE \E w \in Waits : FinishCommits(n, w, s)
      <4>1. PICK w \in Waits : /\ s.knows = runs[n].knows \cup {w}
                               /\ \A v \in Waits \ {w} : saved'[v] = saved[v]
        BY <3>1, <3>3
      <4>2. {w} \in SUBSET Waits
        OBVIOUS
      <4>3. QED BY <4>1, <4>2
    <3>4. CASE \/ \E w \in Waits : SuspendCommits(n, w, s)
               \/ ContinueCommits(n, s)
      <4>1. {} \in SUBSET Waits /\ s.knows = runs[n].knows \cup {} /\ saved' = saved
        BY <3>2, <3>4
      <4>2. QED BY <4>1
    <3>5. QED BY <1>3, <3>3, <3>4 DEF RunCommits
  <2>4. {w \in Waits : saved[w] # "none"} \subseteq runs[n].knows
    BY <2>1 DEF KnowsSaved
  <2>5. QED BY <2>1, <2>2, <2>3, <2>4 DEF KnowsSaved
<1>4. ASSUME NEW p \in Pools, Fetch(p) PROVE KnowsSaved'
  <2>1. PICK n : n = parent.lockNo + 1
    OBVIOUS
  <2>2. /\ n \in Locks /\ parent'.lockNo = n /\ saved' = saved
        /\ \E s \in Run : RunTo(n, s) /\ s.knows = {w \in Waits : saved[w] # "none"}
    BY <1>0, <1>4, <2>1, FetchFacts DEF waiting
  <2>3. runs'[n].knows = {w \in Waits : saved[w] # "none"}
    BY <1>0, <2>2 DEF RunTo
  <2>4. QED BY <2>2, <2>3 DEF KnowsSaved
<1>5. ASSUME NEW p \in Pools, Crash(p) PROVE KnowsSaved'
  <2>1. /\ UNCHANGED <<parent, waiting>>
        /\ \A n \in Locks : runs'[n] = runs[n] \/ Quits(runs[n], runs'[n])
    BY <1>0, <1>5, CrashFacts
  <2>2. QED BY <2>1 DEF KnowsSaved, Quits, Working, waiting
<1>6. CASE Elsewhere
  <2>1. runs' = runs /\ saved' = saved /\ parent'.lockNo = parent.lockNo
    BY <1>6, ElsewhereFacts DEF Follows
  <2>2. QED BY <2>1 DEF KnowsSaved
<1>7. QED BY <1>2, <1>3, <1>4, <1>5, <1>6 DEF StepKinds, Elsewhere

---------------------------------------------------------------------------
(* The children's rows. *)

(* A wait that suspends without a group has neither a checkpoint nor a     *)
(* child with a row: its run would know the checkpoint.                    *)
LEMMA NothingYet ==
  ASSUME RepliesArrive, OnceInv, NEW n \in Locks, NEW w \in Waits, NEW s \in Run,
         SuspendCommits(n, w, s), ~group[w].open
  PROVE  \A c \in KidsOf(w), g \in Gens : jobs[<<c, g>>] = "none"
<1>1. /\ parent.live /\ parent.lockNo = n /\ Working(runs[n]) /\ runs[n] \in Run
      /\ RunInv(runs[n]) /\ runs[n].chain # <<>> /\ Head(runs[n].chain) = w
  <2>1. RunCommits(n, s) /\ CoreInv /\ RunsFit
    BY DEF RunCommits, OnceInv
  <2>2. QED BY <2>1, CommitFacts DEF SuspendCommits
<1>2. w \notin runs[n].knows
  <2>1. 1 \in DOMAIN runs[n].chain /\ runs[n].chain[1] = w
    BY <1>1, ChainTail
  <2>2. QED BY <1>1, <2>1 DEF RunInv, CallsOnce
<1>3. saved[w] = "none"
  BY <1>1, <1>2 DEF OnceInv, KnowsSaved
<1>4. QED BY <1>1, <1>3 DEF OnceInv, OneBatch

(* One row moves on, or a child continues as its next row. *)
Proceeds(k) ==
  /\ jobs[k] \in {"live", "spent", "failed"} /\ wait' = wait
  /\ jobs' \in [Kids \X Gens -> JobStates]
  /\ jobs'[k] # "none" /\ \A l \in (Kids \X Gens) \ {k} : jobs'[l] = jobs[l]

ContinuesAs(k, g) ==
  /\ jobs[k] = "live" /\ g \in Fresh(k[1]) /\ g \in Gens /\ jobs[<<k[1], g>>] = "none"
  /\ wait' = Repointed(k, g)
  /\ jobs'[k] = (IF JobOutcomes THEN "gone" ELSE "spent") /\ jobs'[<<k[1], g>>] = "live"
  /\ \A l \in (Kids \X Gens) \ {k, <<k[1], g>>} : jobs'[l] = jobs[l]

LEMMA SilentJobs ==
  ASSUME CoreTypes, NEW k \in Kids \X Gens, SilentChild(k)
  PROVE  Proceeds(k) \/ \E g \in Gens : ContinuesAs(k, g)
<1>0. jobs \in [Kids \X Gens -> JobStates]
  BY DEF CoreTypes, RowTypes
<1>1. CASE SpentEnds(k) \/ ChildEndsUnheard(k) \/ ChildRevived(k)
  <2>1. PICK left \in JobStates \ {"none"} : jobs' = [jobs EXCEPT ![k] = left]
    BY <1>1 DEF SpentEnds, ChildEndsUnheard, ChildRevived, JobStates
  <2>2. jobs[k] \in {"live", "spent", "failed"} /\ wait' = wait
    BY <1>1 DEF SpentEnds, ChildEndsUnheard, ChildRevived
  <2>3. QED BY <1>0, <2>1, <2>2 DEF Proceeds
<1>2. CASE ChildContinues(k)
  <2>1. PICK g \in Fresh(k[1]) :
          /\ jobs' = [jobs EXCEPT ![<<k[1], g>>] = "live",
                                  ![k] = IF JobOutcomes THEN "gone" ELSE "spent"]
          /\ wait' = Repointed(k, g)
    BY <1>2 DEF ChildContinues
  <2>2. jobs[k] = "live" /\ g \in Gens /\ jobs[<<k[1], g>>] = "none" /\ <<k[1], g>> \in Kids \X Gens
    BY <1>2, <2>1 DEF ChildContinues, Fresh
  <2>3. <<k[1], g>> # k
    BY <2>2
  <2>4. ContinuesAs(k, g)
    BY <1>0, <2>1, <2>2, <2>3 DEF ContinuesAs
  <2>5. QED BY <2>2, <2>4
<1>3. QED BY <1>1, <1>2 DEF SilentChild

(* Rows of other children than one that proceeds appear nowhere but where  *)
(* a wait suspends for the first time or a child continues.                *)
LEMMA JobsStay ==
  ASSUME CoreInv, StepKinds
  PROVE  \/ jobs' = jobs
         \/ \E n \in Locks, w \in Waits, s \in Run :
              SuspendCommits(n, w, s) /\ ~group[w].open
         \/ \E k \in Kids \X Gens : Proceeds(k) /\ group' = group /\ saved' = saved
         \/ \E k \in Kids \X Gens, g \in Gens :
              ContinuesAs(k, g) /\ group' = group /\ saved' = saved
         \/ \E tell \in SUBSET Kids, result \in {"told", "lost"} : Reporting(tell, result)
<1>0. CoreTypes /\ jobs \in [Kids \X Gens -> JobStates]
  BY DEF CoreInv, CoreTypes, RowTypes
<1>1. ASSUME NEW n \in Locks, QuietRun(n) PROVE jobs' = jobs
  BY <1>0, <1>1, QuietRunFollows DEF waiting
<1>2. ASSUME NEW n \in Locks, NEW w \in Waits, NEW s \in Run,
             SuspendCommits(n, w, s), group[w].open
      PROVE  jobs' = jobs
  BY <1>0, <1>2 DEF SuspendCommits, EnqueuedJobs
<1>3. ASSUME NEW n \in Locks, NEW s \in Run,
             ContinueCommits(n, s) \/ \E w \in Waits : FinishCommits(n, w, s)
      PROVE  jobs' = jobs
  BY <1>3 DEF ContinueCommits, FinishCommits, waiting
<1>4. ASSUME NEW p \in Pools, Fetch(p) \/ Crash(p) PROVE jobs' = jobs
  BY <1>0, <1>4, FetchFacts, CrashFacts DEF waiting
<1>5. CASE WorldStep \/ SweepOrphans
  BY <1>0, <1>5, WorldFacts DEF waiting, SweepOrphans
<1>6. ASSUME NEW k \in Kids \X Gens, SilentChild(k)
      PROVE  (Proceeds(k) \/ \E g \in Gens : ContinuesAs(k, g)) /\ group' = group /\ saved' = saved
  BY <1>0, <1>6, SilentJobs, SilentChildFacts
<1>7. QED BY <1>1, <1>2, <1>3, <1>4, <1>5, <1>6 DEF StepKinds, RunCommits

LEMMA OneBatchKept ==
  ASSUME RepliesArrive, OnceInv, StepKinds
  PROVE  OneBatch'
<1>0. CoreInv /\ CoreTypes /\ RowTypes /\ RemainingCounts /\ OneBatch
      /\ jobs \in [Kids \X Gens -> JobStates] /\ parent \in AnyAttempts
  BY DEF OnceInv, CoreInv, CoreTypes, RowTypes
<1>1. ASSUME parent'.live => parent.live,
             \A w \in Waits : ~group'[w].open /\ saved'[w] = "none" =>
               /\ ~group[w].open /\ saved[w] = "none"
               /\ \A c \in KidsOf(w), g \in Gens :
                    jobs[<<c, g>>] = "none" => jobs'[<<c, g>>] = "none"
      PROVE  OneBatch'
  BY <1>0, <1>1 DEF OneBatch
<1>2. ASSUME NEW n \in Locks, QuietRun(n) PROVE OneBatch'
  <2>1. Follows(parent, parent') /\ UNCHANGED waiting
    BY <1>0, <1>2, QuietRunFollows
  <2>2. QED BY <1>1, <2>1 DEF waiting, Follows
<1>3. ASSUME NEW n \in Locks, NEW w \in Waits, NEW s \in Run, FinishCommits(n, w, s)
      PROVE  OneBatch'
  <2>1. /\ saved'[w] # "none" /\ \A v \in Waits \ {w} : saved'[v] = saved[v]
        /\ jobs' = jobs /\ parent' = parent
    BY <1>0, <1>3 DEF FinishCommits, RowTypes
  <2>2. \A v \in Waits \ {w} : group'[v] = group[v]
    <3>1. group' = GroupsWithout({w}) /\ wait' = WaitsWithout({w})
      BY <1>3 DEF FinishCommits
    <3>2. {w} \in SUBSET Waits /\ RowTypes /\ RemainingCounts
      BY <1>0
    <3>3. \A v \in Waits \ {w} : group'[v] = group[v]
      BY ONLY <3>1, <3>2, WithoutFacts
    <3>4. QED BY <3>3
  <2>3. QED BY <1>1, <2>1, <2>2
<1>4. ASSUME NEW n \in Locks, NEW w \in Waits, NEW s \in Run, SuspendCommits(n, w, s)
      PROVE  OneBatch'
  <2>1. /\ group'[w].open /\ \A v \in Waits \ {w} : group'[v] = group[v]
    BY <1>0, <1>4, EnqueueFacts DEF SuspendCommits
  <2>2. \A v \in Waits \ {w}, c \in Kids, g \in Gens :
          c \in KidsOf(v) => jobs'[<<c, g>>] = jobs[<<c, g>>]
    BY <1>0, <1>4 DEF SuspendCommits, EnqueuedJobs, KidsOf
  <2>3. \A v \in Waits : KidsOf(v) \subseteq Kids
    BY KidsCount
  <2>4. saved' = saved /\ parent'.live = parent.live
    BY <1>4 DEF SuspendCommits
  <2>5. \A v \in Waits : ~group'[v].open =>
          /\ ~group[v].open
          /\ \A c \in KidsOf(v), g \in Gens : jobs'[<<c, g>>] = jobs[<<c, g>>]
    BY <2>1, <2>2, <2>3
  <2>6. QED BY <1>1, <2>4, <2>5
<1>5. ASSUME NEW n \in Locks, NEW s \in Run, ContinueCommits(n, s) PROVE OneBatch'
  <2>1. Follows(parent, parent') /\ UNCHANGED waiting
    BY <1>5 DEF ContinueCommits
  <2>2. QED BY <1>1, <2>1 DEF waiting, Follows
<1>6. ASSUME NEW p \in Pools, Fetch(p) \/ Crash(p) PROVE OneBatch'
  <2>1. parent'.live = parent.live /\ UNCHANGED waiting
    BY <1>0, <1>6, FetchFacts, CrashFacts
  <2>2. QED BY <1>1, <2>1 DEF waiting
<1>7. CASE WorldStep
  <2>1. Follows(parent, parent') /\ UNCHANGED waiting
    BY <1>0, <1>7, WorldFacts
  <2>2. QED BY <1>1, <2>1 DEF waiting, Follows
<1>8. ASSUME NEW k \in Kids \X Gens, SilentChild(k) PROVE OneBatch'
  <2>1. parent' = parent /\ group' = group /\ saved' = saved
    BY <1>0, <1>8, SilentChildFacts
  <2>2. jobs[k] # "none" /\ k = <<k[1], k[2]>> /\ k[1] \in Kids /\ k[2] \in Gens
    <3>1. jobs[k] # "none"
      BY <1>0, <1>8, SilentJobs DEF Proceeds, ContinuesAs
    <3>2. QED BY <3>1
  <2>3. \A c \in Kids, g \in Gens : c # k[1] => jobs'[<<c, g>>] = jobs[<<c, g>>]
    <3>1. CASE Proceeds(k)
      BY <3>1 DEF Proceeds
    <3>2. CASE \E g \in Gens : ContinuesAs(k, g)
      BY <3>2 DEF ContinuesAs
    <3>3. QED BY <1>0, <1>8, <3>1, <3>2, SilentJobs
  <2>4. ASSUME NEW w \in Waits, ~group[w].open, saved[w] = "none", parent.live,
               NEW c \in KidsOf(w), NEW g \in Gens
        PROVE  jobs'[<<c, g>>] = "none"
    <3>1. c \in Kids
      BY KidsCount
    <3>2. \A h \in Gens : jobs[<<c, h>>] = "none"
      BY <1>0, <2>4 DEF OneBatch
    <3>3. c # k[1]
      BY <2>2, <3>2
    <3>4. QED BY <2>3, <3>1, <3>2, <3>3
  <2>5. QED BY <2>1, <2>4 DEF OneBatch
<1>9. ASSUME NEW tell \in SUBSET Kids, NEW result \in {"told", "lost"}, Reporting(tell, result)
      PROVE  OneBatch'
  <2>1. /\ Report(tell, result) /\ saved' = saved
        /\ \A k \in Kids \X Gens : jobs[k] = "none" => jobs'[k] = jobs[k]
    BY <1>9 DEF Reporting
  <2>2. (\A w \in Waits : group'[w].open = group[w].open)
        /\ (parent' = parent \/ parent' = [parent EXCEPT !.runAt = {"now"}])
    BY <1>0, <2>1, ReportFacts
  <2>3. parent'.live = parent.live
    BY <1>0, <2>2 DEF AnyAttempts
  <2>4. \A w \in Waits : KidsOf(w) \subseteq Kids
    BY KidsCount
  <2>5. QED BY <1>1, <2>1, <2>2, <2>3, <2>4
<1>10. CASE SweepOrphans
  BY <1>10 DEF SweepOrphans, Orphans, OneBatch
<1>11. QED BY <1>2, <1>3, <1>4, <1>5, <1>6, <1>7, <1>8, <1>9, <1>10 DEF StepKinds, RunCommits

---------------------------------------------------------------------------
(* Attempts. *)
LEMMA CountedFinite ==
  ASSUME CoreTypes
  PROVE  IsFiniteSet(Counted) /\ Cardinality(Counted) \in Nat /\ parent.lockNo \in Nat
<1>1. parent.lockNo \in Nat
  BY Bounds DEF CoreTypes, AnyAttempts
<1>2. IsFiniteSet(1..parent.lockNo) /\ Counted \subseteq 1..parent.lockNo
  BY <1>1, FS_Interval DEF Counted
<1>3. QED BY <1>1, <1>2, FS_Subset, FS_CardinalityType

LEMMA AttemptsKept ==
  ASSUME RepliesArrive, OnceInv, StepKinds
  PROVE  AttemptsFit'
<1>0. /\ CoreInv /\ CoreTypes /\ AttemptsFit /\ RunsFit /\ parent \in AnyAttempts
      /\ runs \in [Locks -> Run] /\ parent.lockNo \in 0..MaxLocks
      /\ IsFiniteSet(Counted) /\ Cardinality(Counted) \in Nat
      /\ MaxAttempts \in Nat /\ MaxLocks \in Nat
      /\ parent.attempts \in 0..MaxAttempts /\ parent.max \in 0..MaxAttempts
      /\ 1..parent.lockNo \subseteq Locks
  <2>1. /\ CoreInv /\ CoreTypes /\ AttemptsFit /\ RunsFit /\ parent \in AnyAttempts
        /\ runs \in [Locks -> Run]
    BY DEF OnceInv, CoreInv, CoreTypes
  <2>2. IsFiniteSet(Counted) /\ Cardinality(Counted) \in Nat /\ MaxAttempts \in Nat
    BY <2>1, CountedFinite, Bounds
  <2>3. parent.attempts \in 0..MaxAttempts /\ parent.max \in 0..MaxAttempts
    BY <2>1, <2>2 DEF AttemptsFit
  <2>4. parent.lockNo \in 0..MaxLocks /\ MaxLocks \in Nat /\ 1..parent.lockNo \subseteq Locks
    BY <2>1, Bounds DEF AnyAttempts, Locks
  <2>5. QED BY <2>1, <2>2, <2>3, <2>4
<1>1. ASSUME parent'.attempts = parent.attempts, parent'.max \in {parent.max, parent.attempts},
             parent'.lockNo = parent.lockNo,
             \A m \in Locks : "suspended" \in runs'[m].wrote <=> "suspended" \in runs[m].wrote
      PROVE  AttemptsFit'
  <2>1. Counted' = Counted
    BY <1>0, <1>1 DEF Counted
  <2>2. QED BY <1>0, <1>1, <2>1 DEF AttemptsFit
<1>2. ASSUME NEW n \in Locks, NEW s \in Run, RunTo(n, s),
             "suspended" \in s.wrote <=> "suspended" \in runs[n].wrote,
             Follows(parent, parent')
      PROVE  AttemptsFit'
  <2>1. \A m \in Locks : runs'[m] = IF m = n THEN s ELSE runs[m]
    BY <1>0, <1>2 DEF RunTo
  <2>2. \A m \in Locks : "suspended" \in runs'[m].wrote <=> "suspended" \in runs[m].wrote
    BY <1>2, <2>1
  <2>3. QED BY <1>1, <1>2, <2>2 DEF Follows
<1>3. ASSUME NEW n \in Locks, QuietRun(n) PROVE AttemptsFit'
  <2>1. PICK s \in Run : RunTo(n, s) /\ Moves(runs[n], s)
    BY <1>0, <1>3, QuietRunMoves
  <2>2. s.wrote = runs[n].wrote
    BY <2>1 DEF Moves, Calls, Returns, Begins, Drops, Quits, Same
  <2>3. Follows(parent, parent')
    BY <1>0, <1>3, QuietRunFollows
  <2>4. QED BY <1>2, <2>1, <2>2, <2>3
<1>4. ASSUME NEW n \in Locks, NEW w \in Waits, NEW s \in Run, FinishCommits(n, w, s)
      PROVE  AttemptsFit'
  <2>1. RunTo(n, s) /\ s.wrote = runs[n].wrote \cup {} /\ Follows(parent, parent')
    BY <1>0, <1>4, ParentFollows DEF FinishCommits, Commits
  <2>2. QED BY <1>2, <2>1
<1>5. ASSUME NEW n \in Locks, NEW s \in Run, ContinueCommits(n, s) PROVE AttemptsFit'
  <2>1. RunTo(n, s) /\ s.wrote = runs[n].wrote \cup {"continued"} /\ Follows(parent, parent')
    BY <1>5 DEF ContinueCommits, Commits
  <2>2. QED BY <1>2, <2>1
<1>6. ASSUME NEW n \in Locks, NEW w \in Waits, NEW s \in Run, SuspendCommits(n, w, s)
      PROVE  AttemptsFit'
  <2>1. /\ RunTo(n, s) /\ Working(runs[n]) /\ runs[n].begun /\ parent.lockNo = n
        /\ RunInv(runs[n]) /\ runs[n] \in Run
        /\ runs[n].chain # <<>> /\ Head(runs[n].chain) = w
        /\ s.wrote = runs[n].wrote \cup {"suspended"}
    <3>1. RunCommits(n, s)
      BY <1>6 DEF RunCommits
    <3>2. QED BY <1>0, <1>6, <3>1, CommitFacts DEF SuspendCommits, Commits
  <2>2. /\ parent'.lockNo = parent.lockNo /\ parent'.max = parent.max
        /\ parent'.attempts = parent.attempts - GivenBack(n)
    BY <1>6 DEF SuspendCommits
  <2>3. runs[n].ending = "none" <=> n \in Counted
    <3>1. runs[n].ending # "continued" /\ runs[n].ending \in {"none", "waiting", "continued"}
      BY <2>1, Bounds DEF RunInv, BegunFits, Run
    <3>2. "suspended" \in runs[n].wrote <=> runs[n].ending = "waiting"
      BY <2>1 DEF RunInv, TellsItsEnding
    <3>3. n \in 1..parent.lockNo
      BY <1>0, <2>1 DEF Locks
    <3>4. QED BY <3>1, <3>2, <3>3 DEF Counted
  <2>4. Counted' = Counted \ {n}
    <3>1. \A m \in Locks : runs'[m] = IF m = n THEN s ELSE runs[m]
      BY <1>0, <2>1 DEF RunTo
    <3>2. QED BY <1>0, <2>1, <2>2, <3>1 DEF Counted
  <2>5. Cardinality(Counted \ {n}) =
          IF n \in Counted THEN Cardinality(Counted) - 1 ELSE Cardinality(Counted)
    BY <1>0, FS_RemoveElement
  <2>6. parent'.attempts = Cardinality(Counted')
    BY <1>0, <2>2, <2>3, <2>4, <2>5 DEF AttemptsFit, GivenBack
  <2>7. parent'.attempts <= MaxAttempts
    BY <1>0, <2>2 DEF GivenBack
  <2>8. QED BY <1>0, <2>2, <2>6, <2>7 DEF AttemptsFit
<1>7. ASSUME NEW p \in Pools, Fetch(p) PROVE AttemptsFit'
  <2>1. PICK n : n = parent.lockNo + 1
    OBVIOUS
  <2>2. /\ n \in Locks /\ Asleep /\ parent'.lockNo = n
        /\ parent'.attempts = parent.attempts + 1 /\ parent'.max = parent.max
        /\ \E s \in Run : RunTo(n, s) /\ s.wrote = {}
    BY <1>0, <1>7, <2>1, FetchFacts
  <2>3. PICK s \in Run : RunTo(n, s) /\ s.wrote = {}
    BY <2>2
  <2>4. Counted' = Counted \cup {n} /\ n \notin Counted
    <3>1. \A m \in Locks : runs'[m] = IF m = n THEN s ELSE runs[m]
      BY <1>0, <2>3 DEF RunTo
    <3>2. 1..n = (1..parent.lockNo) \cup {n} /\ n \notin 1..parent.lockNo
      BY <1>0, <2>1
    <3>3. QED BY <1>0, <2>2, <2>3, <3>1, <3>2 DEF Counted
  <2>5. Cardinality(Counted \cup {n}) = Cardinality(Counted) + 1
    BY <1>0, <2>4, FS_AddElement
  <2>6. parent.attempts < parent.max
    BY <2>2 DEF Asleep
  <2>7. QED BY <1>0, <2>2, <2>4, <2>5, <2>6 DEF AttemptsFit
<1>8. ASSUME NEW p \in Pools, Crash(p) PROVE AttemptsFit'
  <2>1. /\ parent' = parent
        /\ \A n \in Locks : runs'[n] = runs[n] \/ Quits(runs[n], runs'[n])
    BY <1>0, <1>8, CrashFacts
  <2>2. QED BY <1>1, <2>1 DEF Quits
<1>9. CASE Elsewhere
  <2>1. runs' = runs /\ Follows(parent, parent')
    BY <1>0, <1>9, ElsewhereFacts
  <2>2. QED BY <1>1, <2>1 DEF Follows
<1>10. QED BY <1>3, <1>4, <1>5, <1>6, <1>7, <1>8, <1>9 DEF StepKinds, RunCommits, Elsewhere

LEMMA InitOnce == Init => OnceInv
<1> SUFFICES ASSUME Init PROVE OnceInv
  OBVIOUS
<1>1. CoreInv
  BY InitCore
<1>2. RunsFit /\ KnowsSaved
  BY DEF Init, RunsFit, RunInv, TellsItsEnding, BegunFits, CallsOnce, KnowsSaved, NoRun,
         Working
<1>3. OneBatch
  <2>1. \A w \in Waits : KidsOf(w) \subseteq Kids
    BY KidsCount
  <2>2. QED BY <2>1 DEF Init, OneBatch
<1>4. AttemptsFit
  <2>1. Counted = {}
    BY DEF Init, Counted
  <2>2. Cardinality(Counted) = 0
    BY <2>1, FS_EmptySet
  <2>3. QED BY <2>2, Bounds DEF Init, AttemptsFit
<1>5. QED BY <1>1, <1>2, <1>3, <1>4 DEF OnceInv

LEMMA OnceKept ==
  ASSUME RepliesArrive
  PROVE  OnceInv /\ [Next]_vars => OnceInv'
<1> SUFFICES ASSUME OnceInv, [Next]_vars PROVE OnceInv'
  OBVIOUS
<1>1. CoreInv'
  BY CoreKept DEF OnceInv
<1>2. CASE UNCHANGED vars
  <2>1. RunsFit' /\ KnowsSaved' /\ OneBatch'
    BY <1>2 DEF vars, OnceInv, RunsFit, KnowsSaved, OneBatch
  <2>2. AttemptsFit'
    BY <1>2 DEF vars, OnceInv, AttemptsFit, Counted
  <2>3. QED BY <1>1, <2>1, <2>2 DEF OnceInv
<1>3. CASE Next
  <2>1. StepKinds
    BY <1>3, NextKinds DEF OnceInv, CoreInv
  <2>2. QED BY <1>1, <2>1, RunsFitKept, KnowsSavedKept, OneBatchKept, AttemptsKept DEF OnceInv
<1>4. QED BY <1>2, <1>3

LEMMA OnceHolds ==
  ASSUME RepliesArrive
  PROVE  Spec => []OnceInv
<1>1. Init => OnceInv
  BY InitOnce
<1>2. OnceInv /\ [Next]_vars => OnceInv'
  BY OnceKept
<1>3. QED BY <1>1, <1>2, PTL DEF Spec

(* Every variable has its type; the attempts that suspends give back never *)
(* exceed those that fetches took, and no fetch takes one too many.        *)
THEOREM TypesHold ==
  ASSUME RepliesArrive
  PROVE  Spec => []TypeOK
<1>1. OnceInv => TypeOK
  <2> SUFFICES ASSUME OnceInv PROVE TypeOK
    OBVIOUS
  <2>1. CoreTypes /\ AttemptsFit /\ Cardinality(Counted) \in Nat /\ MaxAttempts \in Nat
    BY CountedFinite, Bounds DEF OnceInv, CoreInv
  <2>2. parent \in AnyAttempts /\ parent.attempts \in 0..MaxAttempts
        /\ parent.max \in 0..MaxAttempts
    BY <2>1 DEF CoreTypes, AttemptsFit
  <2>3. parent \in Parent
    BY <2>2 DEF AnyAttempts, Parent
  <2>4. QED BY <2>1, <2>3 DEF TypeOK, CoreTypes, RowTypes, WorldTypes
<1>2. QED BY <1>1, OnceHolds, PTL

(* No run both suspends and continues: beginEnding refuses a continuation  *)
(* after a suspend and a wait after a continuation, for any number and     *)
(* order of calls, provided that a committed ending is known to its run.   *)
THEOREM OneEndingPerRun ==
  ASSUME RepliesArrive
  PROVE  Spec => []OneEnding
<1>1. OnceInv => OneEnding
  BY DEF OnceInv, RunsFit, RunInv, TellsItsEnding, OneEnding
<1>2. QED BY <1>1, OnceHolds, PTL

(* attempts counts the runs that did not suspend: enterWait gives a run's  *)
(* attempt back once, however many of its waits suspend.                   *)
THEOREM AttemptsAreConserved ==
  ASSUME RepliesArrive
  PROVE  Spec => []AttemptsConserved
<1>1. OnceInv => AttemptsConserved
  BY DEF OnceInv, AttemptsFit, Counted, AttemptsConserved
<1>2. QED BY <1>1, OnceHolds, PTL

(* Replays enqueue no second batch of children: a run that suspends a wait *)
(* without a group has neither its checkpoint nor a child of it, so that a *)
(* later row of a child is only the continuation of one that ends.         *)
THEOREM ChildrenAreEnqueuedOnce ==
  ASSUME RepliesArrive
  PROVE  Spec => ChildrenOnce
<1>1. ASSUME OnceInv, [Next]_vars
      PROVE  [\A c \in Kids, g \in Gens \ {0} :
                jobs[<<c, g>>] = "none" /\ jobs'[<<c, g>>] # "none" =>
                  \E h \in Gens : jobs[<<c, h>>] = "live" /\ jobs'[<<c, h>>] # "live"]_vars
  <2> SUFFICES ASSUME NEW c \in Kids, NEW g \in Gens \ {0}, Next,
                      jobs[<<c, g>>] = "none", jobs'[<<c, g>>] # "none"
               PROVE  \E h \in Gens : jobs[<<c, h>>] = "live" /\ jobs'[<<c, h>>] # "live"
    BY <1>1 DEF vars
  <2>1. CoreInv /\ StepKinds /\ <<c, g>> \in Kids \X Gens
    BY <1>1, NextKinds DEF OnceInv, CoreInv
  <2>2. ASSUME NEW n \in Locks, NEW w \in Waits, NEW s \in Run,
               SuspendCommits(n, w, s), ~group[w].open
        PROVE  FALSE
    <3>1. c[1] = w /\ g \in Fresh(c)
      BY <2>1, <2>2 DEF SuspendCommits, EnqueuedJobs
    <3>2. c \in KidsOf(w)
      BY <3>1 DEF KidsOf
    <3>3. jobs[<<c, 0>>] = "none"
      BY <1>1, <2>2, <3>2, NothingYet, Bounds
    <3>4. 0 \in 0..(g - 1)
      BY Bounds DEF Gens
    <3>5. QED BY <3>1, <3>3, <3>4 DEF Fresh
  <2>3. ASSUME NEW k \in Kids \X Gens, Proceeds(k) PROVE FALSE
    BY <2>1, <2>3 DEF Proceeds
  <2>4. ASSUME NEW k \in Kids \X Gens, NEW h \in Gens, ContinuesAs(k, h)
        PROVE  k[1] = c /\ jobs[k] = "live" /\ jobs'[k] # "live"
    <3>1. jobs[k] = "live" /\ jobs'[k] # "live"
      BY <2>4 DEF ContinuesAs
    <3>2. <<c, g>> = <<k[1], h>>
      BY <2>1, <2>4 DEF ContinuesAs
    <3>3. QED BY <3>1, <3>2
  <2>5. ASSUME NEW tell \in SUBSET Kids, NEW result \in {"told", "lost"}, Reporting(tell, result)
        PROVE  FALSE
    BY <2>1, <2>5 DEF Reporting
  <2>6. QED BY <2>1, <2>2, <2>3, <2>4, <2>5, JobsStay
<1>2. QED BY <1>1, OnceHolds, PTL DEF Spec, ChildrenOnce

---------------------------------------------------------------------------
(* The line of a child's rows, with jobOutcomes: a continuation deletes    *)
(* the row it continues, so that nobody can revive that.                   *)

(* Only the last row of a child exists. *)
OneLine ==
  \A c \in Kids, g, h \in Gens :
    g < h /\ jobs[<<c, h>>] # "none" => jobs[<<c, g>>] = "gone"

(* A wait row without a result points at its child's last row. *)
Followed ==
  \A c \in Kids : group[c[1]].open /\ wait[c].result = "none" =>
    /\ jobs[<<c, wait[c].job>>] # "none"
    /\ \A g \in Gens : g > wait[c].job => jobs[<<c, g>>] = "none"

LineInv == OnceInv /\ OneLine /\ Followed

(* The next row of a child that continues follows its last. *)
LEMMA ContinuesNext ==
  ASSUME OneLine, NEW k \in Kids \X Gens, NEW g \in Gens, ContinuesAs(k, g)
  PROVE  /\ k[2] < g /\ k[2] \in Nat /\ g \in Nat
         /\ \A h \in Gens : h < k[2] => jobs[<<k[1], h>>] = "gone"
         /\ \A h \in Gens : h > k[2] => jobs[<<k[1], h>>] = "none"
         /\ \A h \in Gens : h < g => h <= k[2]
<1>1. /\ k[1] \in Kids /\ k[2] \in Gens /\ k = <<k[1], k[2]>> /\ MaxGen \in Nat
      /\ jobs[<<k[1], k[2]>>] = "live" /\ jobs[<<k[1], g>>] = "none"
      /\ \A h \in 0..(g - 1) : jobs[<<k[1], h>>] # "none"
  BY Bounds DEF ContinuesAs, Fresh
<1>2. /\ \A h \in Gens : h < k[2] => jobs[<<k[1], h>>] = "gone"
      /\ \A h \in Gens : h > k[2] => jobs[<<k[1], h>>] = "none"
  BY <1>1 DEF OneLine
<1>3. k[2] < g
  <2>1. k[2] # g
    BY <1>1
  <2>2. ~(g < k[2])
    BY <1>1, <1>2
  <2>3. QED BY <1>1, <2>1, <2>2 DEF Gens
<1>4. \A h \in Gens : h < g => h <= k[2]
  <2> SUFFICES ASSUME NEW h \in Gens, h < g PROVE ~(h > k[2])
    BY <1>1 DEF Gens
  <2>1. jobs[<<k[1], h>>] # "none"
    BY <1>1 DEF Gens
  <2>2. QED BY <1>2, <2>1
<1>5. QED BY <1>1, <1>2, <1>3, <1>4 DEF Gens

LEMMA OneLineKept ==
  ASSUME RepliesArrive, JobOutcomes, OnceInv, OneLine, StepKinds
  PROVE  OneLine'
<1>0. CoreInv /\ RowTypes
  BY DEF OnceInv, CoreInv, CoreTypes
<1>1. ASSUME \A l \in Kids \X Gens :
               /\ jobs'[l] # "none" => jobs[l] # "none"
               /\ jobs[l] = "gone" => jobs'[l] = "gone"
      PROVE  OneLine'
  BY <1>1 DEF OneLine
<1>2. CASE jobs' = jobs
  BY <1>1, <1>2
<1>3. ASSUME NEW k \in Kids \X Gens, Proceeds(k) PROVE OneLine'
  BY <1>1, <1>3 DEF Proceeds
<1>4. ASSUME NEW tell \in SUBSET Kids, NEW result \in {"told", "lost"}, Reporting(tell, result)
      PROVE  OneLine'
  BY <1>1, <1>4 DEF Reporting
<1>5. ASSUME NEW n \in Locks, NEW w \in Waits, NEW s \in Run,
             SuspendCommits(n, w, s), ~group[w].open
      PROVE  OneLine'
  <2> SUFFICES ASSUME NEW c \in Kids, NEW g \in Gens, NEW h \in Gens, g < h,
                      jobs'[<<c, h>>] # "none"
               PROVE  jobs'[<<c, g>>] = "gone"
    BY DEF OneLine
  <2>0. \A e \in Kids, f \in Gens :
          jobs'[<<e, f>>] = IF e[1] = w /\ f \in Fresh(e) THEN "live" ELSE jobs[<<e, f>>]
    BY <1>5 DEF SuspendCommits, EnqueuedJobs
  <2>1. CASE c[1] = w
    <3>1. c \in KidsOf(w)
      BY <2>1 DEF KidsOf
    <3>2. \A f \in Gens : jobs[<<c, f>>] = "none"
      BY <1>5, <3>1, NothingYet
    <3>3. h \in Fresh(c)
      BY <2>0, <3>2
    <3>4. 0 \in 0..(h - 1)
      BY Bounds DEF Gens
    <3>5. QED BY <3>2, <3>3, <3>4, Bounds DEF Fresh
  <2>2. CASE c[1] # w
    BY <2>0, <2>2 DEF OneLine
  <2>3. QED BY <2>1, <2>2
<1>6. ASSUME NEW k \in Kids \X Gens, NEW f \in Gens, ContinuesAs(k, f) PROVE OneLine'
  <2> SUFFICES ASSUME NEW c \in Kids, NEW g \in Gens, NEW h \in Gens, g < h,
                      jobs'[<<c, h>>] # "none"
               PROVE  jobs'[<<c, g>>] = "gone"
    BY DEF OneLine
  <2>1. /\ k = <<k[1], k[2]>> /\ k[1] \in Kids /\ k[2] \in Gens
        /\ jobs'[<<k[1], k[2]>>] = "gone"
        /\ \A l \in (Kids \X Gens) \ {k, <<k[1], f>>} : jobs'[l] = jobs[l]
    BY <1>6 DEF ContinuesAs
  <2>2. /\ k[2] < f /\ k[2] \in Nat /\ f \in Nat
        /\ \A e \in Gens : e < k[2] => jobs[<<k[1], e>>] = "gone"
        /\ \A e \in Gens : e > k[2] => jobs[<<k[1], e>>] = "none"
        /\ \A e \in Gens : e < f => e <= k[2]
    BY <1>6, ContinuesNext
  <2>3. CASE c # k[1]
    <3>1. jobs'[<<c, g>>] = jobs[<<c, g>>] /\ jobs'[<<c, h>>] = jobs[<<c, h>>]
      BY <2>1, <2>3
    <3>2. QED BY <3>1 DEF OneLine
  <2>4. CASE c = k[1]
    <3>0. g \in Nat /\ h \in Nat
      BY Bounds DEF Gens
    <3>1. h <= f
      <4>1. CASE h = f
        BY <4>1, <3>0
      <4>2. CASE h = k[2]
        BY <2>2, <4>2
      <4>3. CASE h # f /\ h # k[2]
        <5>1. jobs'[<<c, h>>] = jobs[<<c, h>>]
          BY <2>1, <2>4, <4>3
        <5>2. ~(h > k[2])
          BY <2>2, <2>4, <5>1
        <5>3. QED BY <2>2, <3>0, <5>2
      <4>4. QED BY <4>1, <4>2, <4>3
    <3>2. g < f /\ g <= k[2]
      BY <2>2, <3>0, <3>1
    <3>3. CASE g = k[2]
      BY <2>1, <2>4, <3>3
    <3>4. CASE g # k[2]
      <4>1. jobs[<<c, g>>] = "gone"
        BY <2>2, <2>4, <3>0, <3>2, <3>4
      <4>2. jobs'[<<c, g>>] = jobs[<<c, g>>]
        BY <2>1, <2>4, <3>2, <3>4, <3>0, <2>2
      <4>3. QED BY <4>1, <4>2
    <3>5. QED BY <3>3, <3>4
  <2>5. QED BY <2>3, <2>4
<1>7. QED BY <1>0, <1>2, <1>3, <1>4, <1>5, <1>6, JobsStay

LEMMA FollowedKept ==
  ASSUME RepliesArrive, JobOutcomes, LineInv, StepKinds
  PROVE  Followed'
<1>0. /\ CoreInv /\ CoreTypes /\ RowTypes /\ RemainingCounts /\ OnceInv /\ OneLine /\ Followed
      /\ \A c \in Kids : c[1] \in Waits
  BY KidFacts DEF LineInv, OnceInv, CoreInv, CoreTypes
<1>1. ASSUME \A c \in Kids : group'[c[1]].open /\ wait'[c].result = "none" =>
               /\ group[c[1]].open /\ wait[c].result = "none" /\ wait'[c].job = wait[c].job
               /\ \A g \in Gens : jobs'[<<c, g>>] = "none" <=> jobs[<<c, g>>] = "none"
      PROVE  Followed'
  <2> SUFFICES ASSUME NEW c \in Kids, group'[c[1]].open, wait'[c].result = "none"
               PROVE  /\ jobs'[<<c, wait'[c].job>>] # "none"
                      /\ \A g \in Gens : g > wait'[c].job => jobs'[<<c, g>>] = "none"
    BY DEF Followed
  <2>1. /\ group[c[1]].open /\ wait[c].result = "none" /\ wait'[c].job = wait[c].job
        /\ \A g \in Gens : jobs'[<<c, g>>] = "none" <=> jobs[<<c, g>>] = "none"
    BY <1>1
  <2>2. wait[c].job \in Gens
    BY <1>0 DEF RowTypes
  <2>3. QED BY <1>0, <2>1, <2>2 DEF Followed
<1>2. CASE UNCHANGED waiting
  BY <1>1, <1>2 DEF waiting
<1>3. ASSUME NEW n \in Locks, QuietRun(n) \/ \E s \in Run : ContinueCommits(n, s) PROVE Followed'
  BY <1>0, <1>2, <1>3, QuietRunFollows DEF ContinueCommits
<1>4. CASE WorldStep \/ \E p \in Pools : Fetch(p) \/ Crash(p)
  BY <1>0, <1>2, <1>4, WorldFacts, FetchFacts, CrashFacts
<1>5. ASSUME NEW ws \in SUBSET Waits, group' = GroupsWithout(ws), wait' = WaitsWithout(ws),
             jobs' = jobs
      PROVE  Followed'
  <2>1. RowTypes /\ RemainingCounts
    BY <1>0
  <2>2. /\ \A w \in ws : ~group'[w].open
        /\ \A w \in Waits \ ws : group'[w] = group[w]
        /\ \A c \in Kids : c[1] \notin ws => wait'[c] = wait[c]
    BY ONLY <2>1, <1>5, WithoutFacts
  <2>3. QED BY <1>0, <1>1, <1>5, <2>2
<1>6. CASE SweepOrphans
  <2>1. Orphans \in SUBSET Waits
    BY DEF Orphans
  <2>2. group' = GroupsWithout(Orphans) /\ wait' = WaitsWithout(Orphans) /\ jobs' = jobs
    BY <1>6 DEF SweepOrphans
  <2>3. QED BY <1>5, <2>1, <2>2
<1>7. ASSUME NEW n \in Locks, NEW w \in Waits, NEW s \in Run, FinishCommits(n, w, s)
      PROVE  Followed'
  <2>1. {w} \in SUBSET Waits
    OBVIOUS
  <2>2. group' = GroupsWithout({w}) /\ wait' = WaitsWithout({w}) /\ jobs' = jobs
    BY <1>7 DEF FinishCommits
  <2>3. QED BY <1>5, <2>1, <2>2
<1>8. ASSUME NEW n \in Locks, NEW w \in Waits, NEW s \in Run, SuspendCommits(n, w, s)
      PROVE  Followed'
  <2>1. /\ CanEnqueue(w) /\ ~Complete(w) /\ group' = [group EXCEPT ![w] = Enqueued(w)]
        /\ wait' = EnqueuedWait(w) /\ jobs' = EnqueuedJobs(w)
    BY <1>8 DEF SuspendCommits
  <2>2. /\ \A v \in Waits \ {w} : group'[v] = group[v]
        /\ \A c \in Kids : (c[1] = w /\ ~group[w].open) \/ wait'[c] = wait[c]
        /\ \A c \in Kids : c[1] = w /\ ~group[w].open =>
             wait'[c].result = "none" /\ wait'[c].job \in Fresh(c)
    BY <1>0, <2>1, EnqueueFacts
  <2>3. \A c \in Kids, g \in Gens :
          jobs'[<<c, g>>] = IF c[1] = w /\ ~group[w].open /\ g \in Fresh(c)
                            THEN "live" ELSE jobs[<<c, g>>]
    BY <2>1 DEF EnqueuedJobs
  <2> SUFFICES ASSUME NEW c \in Kids, group'[c[1]].open, wait'[c].result = "none"
               PROVE  /\ jobs'[<<c, wait'[c].job>>] # "none"
                      /\ \A g \in Gens : g > wait'[c].job => jobs'[<<c, g>>] = "none"
    BY DEF Followed
  <2>4. CASE c[1] = w /\ ~group[w].open
    <3>1. PICK h : h = wait'[c].job
      OBVIOUS
    <3>2. h \in Fresh(c) /\ h \in Gens /\ h \in Nat
      BY <2>2, <2>4, <3>1, Bounds DEF Fresh, Gens
    <3>3. \A g \in Gens : jobs[<<c, g>>] = "none"
      <4>1. c \in KidsOf(w)
        BY <2>4 DEF KidsOf
      <4>2. QED BY <1>0, <1>8, <2>4, <4>1, NothingYet
    <3>4. jobs'[<<c, h>>] # "none"
      BY <2>3, <2>4, <3>2
    <3>5. ASSUME NEW g \in Gens, g > h PROVE jobs'[<<c, g>>] = "none"
      <4>1. h \in 0..(g - 1)
        BY <3>2, <3>5, Bounds DEF Gens
      <4>2. g \notin Fresh(c)
        BY <3>2, <3>3, <4>1 DEF Fresh
      <4>3. QED BY <2>3, <3>3, <4>2
    <3>6. QED BY <3>1, <3>4, <3>5
  <2>5. CASE ~(c[1] = w /\ ~group[w].open)
    <3>1. wait'[c] = wait[c] /\ \A g \in Gens : jobs'[<<c, g>>] = jobs[<<c, g>>]
      BY <2>2, <2>3, <2>5
    <3>2. group[c[1]].open
      BY <1>0, <2>2, <2>5
    <3>3. wait[c].job \in Gens
      BY <1>0 DEF RowTypes
    <3>4. QED BY <1>0, <3>1, <3>2, <3>3 DEF Followed
  <2>6. QED BY <2>4, <2>5
<1>9. ASSUME NEW k \in Kids \X Gens, SilentChild(k) PROVE Followed'
  <2>1. group' = group /\ (Proceeds(k) \/ \E g \in Gens : ContinuesAs(k, g))
    BY <1>0, <1>9, SilentChildFacts, SilentJobs
  <2>2. CASE Proceeds(k)
    <3>1. wait' = wait /\ \A c \in Kids, g \in Gens :
            jobs'[<<c, g>>] = "none" <=> jobs[<<c, g>>] = "none"
      BY <2>2 DEF Proceeds
    <3>2. QED BY <1>1, <2>1, <3>1
  <2>3. ASSUME NEW f \in Gens, ContinuesAs(k, f) PROVE Followed'
    <3> SUFFICES ASSUME NEW c \in Kids, group[c[1]].open, wait'[c].result = "none"
                 PROVE  /\ jobs'[<<c, wait'[c].job>>] # "none"
                        /\ \A g \in Gens : g > wait'[c].job => jobs'[<<c, g>>] = "none"
      BY <2>1 DEF Followed
    <3>1. /\ k = <<k[1], k[2]>> /\ k[1] \in Kids /\ k[2] \in Gens /\ jobs[k] = "live"
          /\ jobs'[<<k[1], f>>] = "live" /\ wait' = Repointed(k, f)
          /\ \A l \in (Kids \X Gens) \ {k, <<k[1], f>>} : jobs'[l] = jobs[l]
      BY <2>3 DEF ContinuesAs
    <3>2. /\ k[2] < f /\ k[2] \in Nat /\ f \in Nat
          /\ \A e \in Gens : e < k[2] => jobs[<<k[1], e>>] = "gone"
          /\ \A e \in Gens : e > k[2] => jobs[<<k[1], e>>] = "none"
      BY <1>0, <2>3, ContinuesNext
    <3>3. /\ wait'[c].result = wait[c].result
          /\ wait'[c].job = IF c = k[1] /\ group[c[1]].open
                               /\ wait[c] = [job |-> k[2], result |-> "none"]
                            THEN f ELSE wait[c].job
      BY <1>0, <3>1, RepointFacts
    <3>4. /\ wait[c] \in [job : Gens, result : {"none", "told", "lost"}]
          /\ jobs[<<c, wait[c].job>>] # "none"
          /\ \A g \in Gens : g > wait[c].job => jobs[<<c, g>>] = "none"
      BY <1>0, <3>3 DEF Followed, RowTypes
    <3>5. CASE c # k[1]
      <4>1. \A g \in Gens : jobs'[<<c, g>>] = jobs[<<c, g>>]
        BY <3>1, <3>5
      <4>2. QED BY <3>3, <3>4, <3>5, <4>1
    <3>6. CASE c = k[1]
      <4>1. wait[c].job = k[2]
        <5>1. ~(k[2] > wait[c].job)
          BY <3>1, <3>4, <3>6
        <5>2. ~(wait[c].job > k[2])
          BY <3>2, <3>4, <3>6
        <5>3. wait[c].job \in Nat
          BY <3>4, Bounds DEF Gens
        <5>4. QED BY <3>2, <5>1, <5>2, <5>3
      <4>2. wait[c] = [job |-> k[2], result |-> "none"]
        BY <3>3, <3>4, <4>1
      <4>3. wait'[c].job = f
        BY <3>3, <3>6, <4>2
      <4>4. ASSUME NEW g \in Gens, g > f PROVE jobs'[<<c, g>>] = "none"
        <5>1. g > k[2] /\ g # k[2] /\ g # f
          BY <3>2, <4>4, Bounds DEF Gens
        <5>2. jobs'[<<c, g>>] = jobs[<<c, g>>]
          BY <3>1, <3>6, <5>1
        <5>3. QED BY <3>2, <3>6, <5>1, <5>2
      <4>5. QED BY <3>1, <3>6, <4>3, <4>4
    <3>7. QED BY <3>5, <3>6
  <2>4. QED BY <2>1, <2>2, <2>3
<1>10. ASSUME NEW tell \in SUBSET Kids, NEW result \in {"told", "lost"}, Reporting(tell, result)
       PROVE  Followed'
  <2>1. /\ Report(tell, result)
        /\ \A c \in Kids, g \in Gens : jobs'[<<c, g>>] = "none" <=> jobs[<<c, g>>] = "none"
    BY <1>10 DEF Reporting
  <2>2. /\ \A w \in Waits : group'[w].open = group[w].open
        /\ \A c \in Kids : wait'[c].job = wait[c].job
        /\ \A c \in Kids : wait'[c].result # wait[c].result => wait'[c].result = result
    BY <1>0, <2>1, ReportFacts DEF CoreTypes
  <2>3. QED BY <1>0, <1>1, <2>1, <2>2
<1>11. QED BY <1>3, <1>4, <1>6, <1>7, <1>8, <1>9, <1>10 DEF StepKinds, RunCommits

LEMMA LineHolds ==
  ASSUME RepliesArrive, JobOutcomes
  PROVE  Spec => []LineInv
<1>1. Init => LineInv
  <2> SUFFICES ASSUME Init PROVE LineInv
    OBVIOUS
  <2>1. OneLine
    BY DEF Init, OneLine
  <2>2. Followed
    BY KidFacts DEF Init, Followed, NoGroup
  <2>3. QED BY <2>1, <2>2, InitOnce DEF LineInv
<1>2. LineInv /\ [Next]_vars => LineInv'
  <2> SUFFICES ASSUME LineInv, [Next]_vars PROVE LineInv'
    OBVIOUS
  <2>1. OnceInv'
    BY OnceKept DEF LineInv
  <2>2. CASE UNCHANGED vars
    BY <2>1, <2>2 DEF vars, LineInv, OneLine, Followed
  <2>3. CASE Next
    <3>1. StepKinds
      BY <2>3, NextKinds DEF LineInv, OnceInv, CoreInv
    <3>2. OneLine' /\ Followed'
      BY <3>1, OneLineKept, FollowedKept DEF LineInv
    <3>3. QED BY <2>1, <3>2 DEF LineInv
  <2>4. QED BY <2>2, <2>3
<1>3. QED BY <1>1, <1>2, PTL DEF Spec

(* A result turns to "lost" only in a sweep, for a child it found lost. *)
LEMMA LostBySweep ==
  ASSUME CoreInv, StepKinds, NEW c \in Kids,
         wait'[c].result = "lost", wait[c].result # "lost"
  PROVE  /\ group[c[1]].open /\ wait[c].result = "none"
         /\ jobs[<<c, wait[c].job>>] \in {"failed", "gone"}
<1>0. CoreTypes /\ RowTypes /\ RemainingCounts /\ parent \in AnyAttempts
  BY DEF CoreInv, CoreTypes
<1>1. ~UNCHANGED waiting /\ wait'[c] # wait[c]
  BY DEF waiting
<1>2. ASSUME NEW ws \in SUBSET Waits, group' = GroupsWithout(ws), wait' = WaitsWithout(ws)
      PROVE  FALSE
  <2>1. RowTypes /\ RemainingCounts
    BY <1>0
  <2>2. c[1] \in ws => wait'[c].result = "none"
    BY ONLY <2>1, <1>2, WithoutFacts, c \in Kids
  <2>3. c[1] \notin ws => wait'[c] = wait[c]
    BY ONLY <2>1, <1>2, WithoutFacts, c \in Kids
  <2>4. QED BY <2>2, <2>3
<1>3. ~\E n \in Locks : QuietRun(n) \/ \E s \in Run : ContinueCommits(n, s)
  BY <1>0, <1>1, QuietRunFollows DEF ContinueCommits
<1>4. ~WorldStep /\ ~\E p \in Pools : Fetch(p) \/ Crash(p)
  BY <1>0, <1>1, WorldFacts, FetchFacts, CrashFacts
<1>5. ~SweepOrphans
  <2>1. Orphans \in SUBSET Waits
    BY DEF Orphans
  <2>2. QED BY <1>2, <2>1 DEF SweepOrphans
<1>6. ASSUME NEW n \in Locks, NEW w \in Waits, NEW s \in Run, FinishCommits(n, w, s)
      PROVE  FALSE
  <2>1. {w} \in SUBSET Waits
    OBVIOUS
  <2>2. QED BY <1>2, <1>6, <2>1 DEF FinishCommits
<1>7. ASSUME NEW n \in Locks, NEW w \in Waits, NEW s \in Run, SuspendCommits(n, w, s)
      PROVE  FALSE
  <2>1. /\ CanEnqueue(w) /\ ~Complete(w) /\ group' = [group EXCEPT ![w] = Enqueued(w)]
        /\ wait' = EnqueuedWait(w) /\ jobs' = EnqueuedJobs(w)
    BY <1>7 DEF SuspendCommits
  <2>2. wait'[c] = wait[c] \/ wait'[c].result = "none"
    BY <1>0, <2>1, EnqueueFacts
  <2>3. QED BY <1>1, <2>2
<1>8. ~\E k \in Kids \X Gens : SilentChild(k)
  BY <1>0, SilentChildFacts
<1>9. PICK tell \in SUBSET Kids, result \in {"told", "lost"} : Reporting(tell, result)
  BY <1>3, <1>4, <1>5, <1>6, <1>7, <1>8 DEF StepKinds, RunCommits
<1>10. c \in Told(tell) /\ result = "lost"
  BY <1>0, <1>9, ReportFacts DEF Reporting
<1>11. tell = Lost
  BY <1>9, <1>10 DEF Reporting
<1>12. QED BY <1>10, <1>11 DEF Told, Lost

(* The sweep reports no child as lost while a row of it can still run: a   *)
(* wait row follows its child to every continuation, and with jobOutcomes  *)
(* the row that was continued is deleted, so that no operator can revive   *)
(* it behind the wait.                                                     *)
THEOREM LostChildrenCannotRun ==
  ASSUME RepliesArrive, JobOutcomes
  PROVE  Spec => LostCannotRun
<1>1. ASSUME LineInv, [Next]_vars
      PROVE  [\A c \in Kids : wait'[c].result = "lost" /\ wait[c].result # "lost" =>
                \A g \in wait[c].job..MaxGen : jobs[<<c, g>>] # "live"]_vars
  <2> SUFFICES ASSUME Next, NEW c \in Kids, wait'[c].result = "lost",
                      wait[c].result # "lost", NEW g \in wait[c].job..MaxGen
               PROVE  jobs[<<c, g>>] # "live"
    BY <1>1 DEF vars
  <2>1. CoreInv /\ StepKinds
    BY <1>1, NextKinds DEF LineInv, OnceInv, CoreInv
  <2>2. /\ group[c[1]].open /\ wait[c].result = "none"
        /\ jobs[<<c, wait[c].job>>] \in {"failed", "gone"}
    BY <2>1, LostBySweep
  <2>3. wait[c].job \in Gens /\ MaxGen \in Nat
    BY <2>1, Bounds DEF CoreInv, CoreTypes, RowTypes
  <2>4. CASE g = wait[c].job
    BY <2>2, <2>4
  <2>5. CASE g # wait[c].job
    <3>1. g \in Gens /\ g > wait[c].job
      BY <2>3, <2>5 DEF Gens
    <3>2. QED BY <1>1, <2>2, <3>1 DEF LineInv, Followed
  <2>6. QED BY <2>4, <2>5
<1>2. QED BY <1>1, LineHolds, PTL DEF Spec, LostCannotRun
=============================================================================
