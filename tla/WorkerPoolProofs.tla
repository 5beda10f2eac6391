-------------------------- MODULE WorkerPoolProofs --------------------------
(***************************************************************************)
(* Theorems about WorkerPool: its types, that a worker has one runner at   *)
(* most, that nothing outlives a stop, and that all workers of a pool run  *)
(* or none does.                                                           *)
(***************************************************************************)
EXTENDS WorkerPool, FiniteSetTheorems, TLAPS

CallNames  == {"start", "stop", "once"}
CallStates == {"idle", "workers", "undo"}
Watches    == {"nothing", "completion", "once"}

Types ==
  /\ db \in {"up", "down"} /\ tables \in BOOLEAN
  /\ runner \in [Workers -> [Slots -> Runner]]
  /\ life \in [Workers -> Life]
  /\ utils \in [Workers -> Utils]
  /\ on \in [Calls -> [Workers -> Replies]]
  /\ call \in [CallNames -> CallStates]
  /\ watched \in [Workers -> Watches]
  /\ members \in SUBSET Workers
  /\ alarm \in BOOLEAN /\ crossed \in BOOLEAN /\ idle \in BOOLEAN
  /\ events \in 0..MaxEvents

---------------------------------------------------------------------------
(* What the variables of one lifecycle say of each other. *)

(* One of start(), relaunch and runOnce() is getting ready, or none. *)
Opens(l) ==
  /\ l.opening # "no" <=> l.starting = "yes" \/ l.once = "tables" \/ l.sup = "starting"
  /\ l.active # 0 <=> l.opening = "runner" \/ l.sup \in {"watching", "stopping"}
  /\ l.starting # "no" \/ l.once # "no" => l.run = "none"
  /\ l.once # "no" => l.starting = "no" /\ l.opening # "runner"

(* A run is supervised; stop() has taken it over, and no earlier call is   *)
(* under way, once it is stopped.                                          *)
Runs(l) ==
  /\ l.run = "none" => l.sup = "none" /\ l.stopping # "run"
  /\ l.run = "live" =>
       /\ l.stopping \in {"no", "waiting"} /\ l.completion = "pending"
       /\ l.sup \in {"watching", "backoff", "starting"}
       /\ l.current = IF l.sup = "watching" THEN l.active ELSE 0
  /\ l.run = "stopped" =>
       l.stopping = "run" /\ (l.completion = "pending" <=> l.sup # "none")
  /\ l.stopping \in {"run", "releasing"} => l.starting = "no" /\ l.once = "no"

(* Signals are heard from start() until the run stops. *)
Hears(l) == l.signals <=> (HandleSignals /\ (l.starting = "yes" \/ l.run = "live"))

LifeSound(l) == Opens(l) /\ Runs(l) /\ Hears(l)

(* The maintenance of a runner that settled is over. *)
Stilled(r) == r.pool \in {"none", "ended", "failed", "unopened"} => r.maint = "none"

(* Only the active runner of a worker exists; it ended if it was asked to, *)
(* and nobody asked it while the run lives.                                *)
RunnersSound(w) ==
  \A s \in Slots :
    /\ s # life[w].active => runner[w][s] = NoRunner
    /\ runner[w][s].pool = "ended" => runner[w][s].asked
    /\ life[w].run # "stopped" => ~runner[w][s].asked
    /\ Stilled(runner[w][s])

(* release() is under way for a stop or a start that failed, and nothing   *)
(* is cached meanwhile.                                                    *)
UtilsSound(w) ==
  /\ utils[w].releasing # "no" <=>
       life[w].starting = "releasing" \/ life[w].stopping = "releasing"
  /\ utils[w].releasing # "no" => utils[w].cached = "none"

WorkerSound(w) == LifeSound(life[w]) /\ RunnersSound(w) /\ UtilsSound(w)

---------------------------------------------------------------------------
(* What the calls of the pool have to do with each worker. *)

(* The worker has a run, or gets one, unless something comes between. *)
WillRun(w) ==
  \/ on["start"][w] = "queued"
  \/ life[w].stopping = "no" /\ (life[w].starting = "yes" \/ life[w].run # "none")

Member(w) ==
  /\ w \notin members =>
       life[w].starting = "no" /\ life[w].once = "no" /\ life[w].run = "none"
  /\ on["start"][w] # "no" <=> w \in members /\ call["start"] = "workers"
  /\ on["start"][w] = "wait" <=> life[w].starting # "no"
  /\ on["start"][w] = "queued" => life[w].stopping # "no" \/ life[w].run = "none"
  /\ w \in members /\ life[w].run # "none" /\ life[w].stopping = "no" =>
       IF call["start"] = "workers" THEN on["start"][w] = "ok"
       ELSE call["start"] = "idle" /\ watched[w] = "completion"

(* A start that fails, or a run that ended under a start(): the others     *)
(* will be stopped.                                                        *)
Dooms(w) ==
  \/ life[w].starting = "releasing" \/ on["start"][w] = "failed"
  \/ /\ on["start"][w] = "ok" /\ life[w].once = "no"
     /\ life[w].run = "none" /\ life[w].completion = "failed"

MustStop == alarm \/ \E w \in members : Dooms(w)

Together ==
  Several /\ ~crossed =>
    MustStop \/ (\A w \in members : WillRun(w)) \/ (\A w \in members : ~WillRun(w))

PoolInv ==
  /\ Types
  /\ \A w \in Workers : WorkerSound(w) /\ Member(w)
  /\ idle => members = {}
  /\ Together

---------------------------------------------------------------------------
(* Steps of one worker. *)

(* What a worker's steps leave alone, and the types of what they write. *)
Alone(w) ==
  /\ db' = db /\ tables' \in BOOLEAN
  /\ runner' \in [Workers -> [Slots -> Runner]]
  /\ life' \in [Workers -> Life]
  /\ utils' \in [Workers -> Utils]
  /\ on' \in [Calls -> [Workers -> Replies]]
  /\ \A x \in Workers \ {w} :
       /\ life'[x] = life[x] /\ runner'[x] = runner[x] /\ utils'[x] = utils[x]
       /\ \A c \in Calls : on'[c][x] = on[c][x]

(* A stop or a failed start settles only when all is gone. *)
LeavesNothing(w) ==
  \/ life[w].stopping # "no" /\ life'[w].stopping = "no"
  \/ life[w].starting = "releasing" /\ life'[w].starting = "no"
  => Gone(w)

(* What the pool sees of it.  A worker begins to run only for a start(),   *)
(* and ceases to only if that failed, its run failed, or it stops.         *)
Abides(w) ==
  LET l == life[w]
      k == life'[w]
      o == on["start"][w]
      p == on'["start"][w] IN
  /\ p = "no" <=> o = "no"
  /\ p = "wait" <=> k.starting # "no"
  /\ p = "queued" => k.stopping # "no" \/ k.run = "none"
  /\ k.starting # "no" => l.starting # "no" \/ o = "queued"
  /\ k.once # "no" => l.once # "no"
  /\ k.run # "none" => l.run # "none" \/ l.starting # "no"
  /\ k.run # "none" /\ k.stopping = "no" =>
       p = "ok" \/ (o = p /\ l.run # "none" /\ l.stopping = "no")
  /\ WillRun(w)' => WillRun(w)
  /\ WillRun(w) /\ ~WillRun(w)' =>
       Dooms(w)' \/ (o = "no" /\ l.run = "live" /\ l.stopping = "no" /\ k.completion = "failed")
  /\ Dooms(w) => Dooms(w)'

Good(w) == Alone(w) /\ WorkerSound(w)' /\ LeavesNothing(w) /\ Abides(w)

Here(w) == Types /\ w \in Workers /\ WorkerSound(w) /\ Member(w)

(* The pool sees nothing of it. *)
Unseen(w, k) ==
  LET l == life[w] IN
  /\ k.starting = l.starting /\ k.stopping = l.stopping /\ k.run = l.run
  /\ k.once \in {l.once, "no"}
  /\ k.completion = l.completion \/ l.run = "stopped"
  /\ on'["start"][w] = on["start"][w]

LEMMA LifeWritten ==
  ASSUME Types, NEW w \in Workers, NEW k \in Life, Sets(w, k)
  PROVE  /\ life' \in [Workers -> Life] /\ life'[w] = k
         /\ \A x \in Workers \ {w} : life'[x] = life[x]
BY DEF Types, Sets

LEMMA RunnerWritten ==
  ASSUME Types, NEW w \in Workers, NEW s \in Slots, NEW r \in Runner,
         runner' = [runner EXCEPT ![w][s] = r]
  PROVE  /\ runner' \in [Workers -> [Slots -> Runner]] /\ runner'[w][s] = r
         /\ \A t \in Slots \ {s} : runner'[w][t] = runner[w][t]
         /\ \A x \in Workers \ {w} : runner'[x] = runner[x]
BY DEF Types

LEMMA UtilsWritten ==
  ASSUME Types, NEW w \in Workers, NEW u \in Utils, utils' = [utils EXCEPT ![w] = u]
  PROVE  /\ utils' \in [Workers -> Utils] /\ utils'[w] = u
         /\ \A x \in Workers \ {w} : utils'[x] = utils[x]
BY DEF Types

LEMMA Answered ==
  ASSUME Types, NEW w \in Workers, NEW c \in Calls, NEW reply \in Replies, Answer(c, w, reply)
  PROVE  /\ on' \in [Calls -> [Workers -> Replies]]
         /\ on'[c][w] = IF on[c][w] = "wait" THEN reply ELSE on[c][w]
         /\ \A b \in Calls \ {c} : on'[b][w] = on[b][w]
         /\ \A x \in Workers \ {w}, b \in Calls : on'[b][x] = on[b][x]
BY DEF Types, Answer

(* The worker's records change, and nothing of the others. *)
LEMMA IsAlone ==
  ASSUME Types, NEW w \in Workers, NEW k \in Life, Sets(w, k),
         db' = db, tables' \in BOOLEAN,
         runner' \in [Workers -> [Slots -> Runner]],
         utils' \in [Workers -> Utils], on' \in [Calls -> [Workers -> Replies]],
         \A x \in Workers \ {w} : runner'[x] = runner[x] /\ utils'[x] = utils[x],
         \A x \in Workers \ {w}, c \in Calls : on'[c][x] = on[c][x]
  PROVE  Alone(w) /\ life'[w] = k
BY LifeWritten DEF Alone

LEMMA RunnersStay ==
  ASSUME NEW w \in Workers, RunnersSound(w), runner'[w] = runner[w],
         life'[w].active = life[w].active,
         life[w].run = "stopped" /\ life'[w].run # "stopped" => life[w].active = 0
  PROVE  RunnersSound(w)'
BY RunnerAssumption DEF RunnersSound, NoRunner, RunnerAssumption

(* Of a runner that settled nothing is left. *)
LEMMA LeftIsNone ==
  ASSUME Types, NEW w \in Workers, RunnersSound(w), NEW s \in Slots,
         runner[w][s].pool \in {"ended", "failed", "unopened"},
         runner' = [runner EXCEPT ![w][s] = Left(@)]
  PROVE  runner' = [runner EXCEPT ![w][s] = NoRunner]
<1>1. runner[w][s].maint = "none"
  BY DEF RunnersSound, Stilled
<1>2. Left(runner[w][s]) = NoRunner
  BY <1>1 DEF Left, NoRunner
<1>3. QED BY <1>2 DEF Types

LEMMA RunnersFollow ==
  ASSUME Types, NEW w \in Workers, RunnersSound(w), NEW s \in Slots, NEW r \in Runner,
         runner' = [runner EXCEPT ![w][s] = r],
         life[w].active \in {0, s},
         life'[w].active = s \/ r = NoRunner,
         r.pool = "ended" => r.asked, life'[w].run # "stopped" => ~r.asked,
         Stilled(r)
  PROVE  RunnersSound(w)'
<1>1. runner'[w][s] = r /\ \A t \in Slots \ {s} : runner'[w][t] = runner[w][t]
  BY RunnerWritten
<1>2. \A t \in Slots \ {s} : runner'[w][t] = NoRunner
  BY <1>1, RunnerAssumption DEF RunnersSound, RunnerAssumption
<1>3. NoRunner.pool = "none" /\ NoRunner.asked = FALSE /\ Stilled(NoRunner)
  BY DEF NoRunner, Stilled
<1>4. QED BY <1>1, <1>2, <1>3 DEF RunnersSound

LEMMA UtilsStay ==
  ASSUME NEW w \in Workers, UtilsSound(w), utils'[w] = utils[w],
         life'[w].starting = "releasing" <=> life[w].starting = "releasing",
         life'[w].stopping = "releasing" <=> life[w].stopping = "releasing"
  PROVE  UtilsSound(w)'
BY DEF UtilsSound

LEMMA UnseenIsFine ==
  ASSUME NEW w \in Workers, NEW k, Here(w), life'[w] = k, Unseen(w, k)
  PROVE  Abides(w) /\ LeavesNothing(w)
BY DEF Here, Types, Unseen, Abides, LeavesNothing, Member, WillRun, Dooms, WorkerSound, LifeSound, Opens, Runs

(* The edit that ends a run gives a lifecycle. *)
LEMMA EndedIsLife ==
  ASSUME NEW l \in Life, NEW c \in {"ok", "failed"}
  PROVE  [l EXCEPT !.sup = "none", !.active = 0, !.completion = c,
                    !.signals = IF l.run = "stopped" THEN @ ELSE FALSE,
                    !.current = IF l.run = "stopped" THEN @ ELSE 0,
                    !.run = IF @ = "stopped" THEN @ ELSE "none"] \in Life
<1>1. PICK a : a = [l EXCEPT !.sup = "none", !.active = 0]
  OBVIOUS
<1>2. PICK b : b = [a EXCEPT !.completion = c,
                              !.signals = IF l.run = "stopped" THEN @ ELSE FALSE]
  OBVIOUS
<1>3. PICK d : d = [b EXCEPT !.current = IF l.run = "stopped" THEN @ ELSE 0]
  OBVIOUS
<1>4. a \in Life
  BY ONLY <1>1, l \in Life DEF Life
<1>5. b \in Life
  <2>1. PICK s \in BOOLEAN : s = IF l.run = "stopped" THEN a.signals ELSE FALSE
    BY ONLY <1>4 DEF Life
  <2>2. b = [a EXCEPT !.completion = c, !.signals = s]
    <3>1. b = [[a EXCEPT !.completion = c]
                 EXCEPT !.signals = IF l.run = "stopped" THEN @ ELSE FALSE]
      BY ONLY <1>2
    <3>2. [a EXCEPT !.completion = c].signals = a.signals
      BY ONLY <1>4 DEF Life
    <3> QED BY ONLY <2>1, <3>1, <3>2
  <2> QED BY ONLY <1>4, <2>2, s \in BOOLEAN, c \in {"ok", "failed"} DEF Life
<1>6. d \in Life
  BY ONLY <1>3, <1>5 DEF Life
<1>7. [d EXCEPT !.run = IF @ = "stopped" THEN @ ELSE "none"] \in Life
  BY ONLY <1>6 DEF Life
<1> QED BY ONLY <1>1, <1>2, <1>3, <1>7

LEMMA WatchKeeps ==
  ASSUME NEW w \in Workers, Here(w), Watch(w)
  PROVE  Good(w)
<1> DEFINE l == life[w]
           failed == runner[w][l.active].pool = "failed"
           ends == ~failed \/ l.run = "stopped" \/ w \notin Restarting
           e == [l EXCEPT !.sup = "none", !.active = 0,
                            !.completion = IF failed THEN "failed" ELSE "ok",
                            !.signals = IF l.run = "stopped" THEN @ ELSE FALSE,
                            !.current = IF l.run = "stopped" THEN @ ELSE 0,
                            !.run = IF @ = "stopped" THEN @ ELSE "none"]
           k == IF ends THEN e ELSE Relaunches(l)
<1> USE DEF Here
<1>1. l \in Life /\ l.active \in Slots
  BY DEF Here, Types, WorkerSound, LifeSound, Opens, Watch, Life
<1>2. /\ e.sup = "none" /\ e.active = 0
      /\ e.completion = IF failed THEN "failed" ELSE "ok"
      /\ e.signals <=> IF l.run = "stopped" THEN l.signals ELSE FALSE
      /\ e.run = IF l.run = "stopped" THEN "stopped" ELSE "none"
      /\ e.starting = l.starting /\ e.opening = l.opening
      /\ e.stopping = l.stopping /\ e.once = l.once
  BY <1>1 DEF Life
<1>3. e \in Life
  <2>1. PICK c \in {"ok", "failed"} : c = IF failed THEN "failed" ELSE "ok"
    OBVIOUS
  <2> QED BY ONLY <1>1, <2>1, EndedIsLife
<1>4. /\ Relaunches(l) \in Life /\ Relaunches(l).sup = "backoff"
      /\ Relaunches(l).active = 0 /\ Relaunches(l).current = 0
      /\ Relaunches(l).starting = l.starting /\ Relaunches(l).opening = l.opening
      /\ Relaunches(l).run = l.run /\ Relaunches(l).completion = l.completion
      /\ Relaunches(l).stopping = l.stopping /\ Relaunches(l).once = l.once
      /\ Relaunches(l).signals <=> l.signals
  BY <1>1 DEF Life, Relaunches
<1>5. k \in Life /\ Sets(w, k)
  BY <1>3, <1>4 DEF Watch
<1>6. LifeSound(l) /\ LifeSound(k)
  <2>1. LifeSound(l) /\ l.sup = "watching"
    BY DEF Here, WorkerSound, Watch
  <2> HIDE DEF l, k, e, failed
  <2>2. k = IF ends THEN e ELSE Relaunches(l)
    BY DEF k
  <2>3. CASE ends
    BY <1>1, <1>2, <2>1, <2>2, <2>3 DEF Life, LifeSound, Opens, Runs, Hears
  <2>4. CASE ~ends
    BY <1>1, <1>4, <2>1, <2>2, <2>4 DEF Life, LifeSound, Opens, Runs, Hears
  <2> QED BY <2>3, <2>4
<1>7. /\ NoRunner \in Runner /\ NoRunner.pool = "none" /\ NoRunner.asked = FALSE
     /\ Stilled(NoRunner)
  BY DEF NoRunner, Runner, Stilled
<1>8. runner' = [runner EXCEPT ![w][l.active] = NoRunner]
  <2>1. Types /\ RunnersSound(w)
    BY DEF WorkerSound
  <2>2. runner[w][l.active].pool \in {"ended", "failed", "unopened"}
    BY DEF Watch, Settled
  <2>3. runner' = [runner EXCEPT ![w][l.active] = Left(@)]
    BY DEF Watch
  <2> QED BY ONLY <1>1, <2>1, <2>2, <2>3, LeftIsNone, w \in Workers
<1>9. Alone(w) /\ life'[w] = k
  <2>1. /\ db' = db /\ tables' = tables /\ utils' = utils /\ on' = on
        /\ runner' \in [Workers -> [Slots -> Runner]]
        /\ \A x \in Workers \ {w} : runner'[x] = runner[x]
    <3>1. /\ runner' \in [Workers -> [Slots -> Runner]]
          /\ \A x \in Workers \ {w} : runner'[x] = runner[x]
      BY ONLY <1>1, <1>7, <1>8, RunnerWritten, Here(w) DEF Here
    <3> QED BY <3>1 DEF Watch
  <2> QED BY ONLY <2>1, <1>5, IsAlone, Here(w) DEF Here, Types
<1>10. RunnersSound(w)'
  BY <1>1, <1>7, <1>8, <1>9, RunnersFollow DEF WorkerSound
<1>11. UtilsSound(w)'
  <2>1. life'[w].starting = l.starting /\ life'[w].stopping = l.stopping
    BY <1>2, <1>4, <1>9
  <2> QED BY <2>1, UtilsStay DEF WorkerSound, Watch
<1>12. LeavesNothing(w) /\ Abides(w)
  <2>1. on' = on
    BY DEF Watch
  <2>2. CASE l.run = "stopped" \/ ~ends
    <3>1. Unseen(w, k)
      BY <2>1, <2>2, <1>2, <1>4 DEF Unseen
    <3> QED BY <1>9, <3>1, UnseenIsFine
  <2>3. CASE l.run # "stopped" /\ ends
    <3>1. l.run = "live" /\ l.once = "no" /\ l.starting = "no"
      BY <1>1, <2>3 DEF Life, WorkerSound, LifeSound, Opens, Runs, Watch
    <3>2. failed
      BY <1>1, <3>1 DEF WorkerSound, RunnersSound, Watch, Settled
    <3>3. /\ k.run = "none" /\ k.completion = "failed" /\ k.once = "no"
          /\ k.starting = "no" /\ k.stopping = l.stopping
      BY <1>2, <2>3, <3>1, <3>2
    <3> HIDE DEF l, k
    <3>4. life'[w] = k /\ life[w] = l
      BY <1>9 DEF l
    <3>5. LeavesNothing(w)
      BY <3>1, <3>3, <3>4 DEF LeavesNothing
    <3>6. Abides(w)
      BY <2>1, <3>1, <3>3, <3>4 DEF Abides, Member, WillRun, Dooms, Types
    <3> QED BY <3>5, <3>6
  <2> QED BY <2>2, <2>3
<1> QED BY <1>6, <1>9, <1>10, <1>11, <1>12 DEF Good, WorkerSound
(* A step that only writes the lifecycle's variables, and does not show. *)
LEMMA LifeOnly ==
  ASSUME NEW w \in Workers, NEW k \in Life, Here(w), Sets(w, k), LifeSound(k), Unseen(w, k),
         k.active = life[w].active,
         UNCHANGED <<db, runner, tables, utils>>,
         on' \in [Calls -> [Workers -> Replies]],
         \A x \in Workers \ {w}, c \in Calls : on'[c][x] = on[c][x]
  PROVE  Good(w)
<1>1. Alone(w) /\ life'[w] = k
  BY IsAlone DEF Here, Types
<1>2. RunnersSound(w)' /\ UtilsSound(w)'
  BY <1>1, RunnersStay, UtilsStay DEF Here, WorkerSound, Unseen
<1>3. QED BY <1>1, <1>2, UnseenIsFine DEF Good, WorkerSound

LEMMA BackoffKeeps ==
  ASSUME NEW w \in Workers, Here(w), BackoffEnds(w)
  PROVE  Good(w)
<1> DEFINE l == life[w]
           e == [l EXCEPT !.sup = "none", !.completion = "ok"]
           f == [l EXCEPT !.sup = "starting", !.opening = "tables"]
           k == IF l.run = "stopped" THEN e ELSE f
<1>1. l \in Life /\ LifeSound(l) /\ l.sup = "backoff"
  BY DEF Here, Types, WorkerSound, BackoffEnds
<1>2. /\ e \in Life /\ e.sup = "none" /\ e.completion = "ok"
      /\ e.opening = l.opening /\ e.active = l.active /\ e.starting = l.starting
      /\ e.stopping = l.stopping /\ e.run = l.run /\ e.once = l.once
      /\ e.signals <=> l.signals
  BY <1>1 DEF Life
<1>3. /\ f \in Life /\ f.sup = "starting" /\ f.completion = l.completion
      /\ f.opening = "tables" /\ f.active = l.active /\ f.starting = l.starting
      /\ f.stopping = l.stopping /\ f.run = l.run /\ f.once = l.once
      /\ f.current = l.current /\ (f.signals <=> l.signals)
  BY <1>1 DEF Life
<1>4. k \in Life /\ Sets(w, k) /\ on' = on /\ UNCHANGED <<db, runner, tables, utils>>
  BY <1>2, <1>3 DEF BackoffEnds
<1>5. k = IF l.run = "stopped" THEN e ELSE f
  OBVIOUS
<1>6. life[w] = l
  OBVIOUS
<1> HIDE DEF l, e, f, k
<1>7. LifeSound(k) /\ Unseen(w, k) /\ k.active = l.active
  <2>1. CASE l.run = "stopped"
    BY <1>1, <1>2, <1>4, <1>5, <1>6, <2>1 DEF Life, LifeSound, Opens, Runs, Hears, Unseen
  <2>2. CASE l.run # "stopped"
    <3>1. k = f /\ l.run = "live" /\ l.starting = "no" /\ l.once = "no"
      BY <1>1, <1>5, <2>2 DEF Life, LifeSound, Opens, Runs
    <3>2. Opens(k)
      BY <1>1, <1>3, <3>1 DEF LifeSound, Opens
    <3>3. Runs(k) /\ Hears(k)
      BY <1>1, <1>3, <3>1 DEF LifeSound, Runs, Hears
    <3> QED BY <1>3, <1>4, <1>6, <3>1, <3>2, <3>3 DEF LifeSound, Unseen
  <2> QED BY <2>1, <2>2
<1>8. QED
  BY <1>4, <1>6, <1>7, LifeOnly DEF Here, Types

LEMMA LateStopKeeps ==
  ASSUME NEW w \in Workers, Here(w), LateStopped(w)
  PROVE  Good(w)
<1> DEFINE l == life[w]
           k == [l EXCEPT !.sup = "none", !.completion = "ok", !.active = 0]
<1>1. /\ l \in Life /\ LifeSound(l) /\ l.sup = "stopping" /\ life[w] = l
      /\ on' = on /\ l.active \in Slots
  BY DEF Here, Types, WorkerSound, LateStopped, LifeSound, Opens, Life
<1>2. /\ k \in Life /\ k.sup = "none" /\ k.completion = "ok" /\ k.active = 0
      /\ k.opening = l.opening /\ k.starting = l.starting
      /\ k.stopping = l.stopping /\ k.run = l.run /\ k.once = l.once
      /\ k.signals <=> l.signals
  BY <1>1 DEF Life
<1>3. Sets(w, k) /\ runner' = [runner EXCEPT ![w][l.active] = NoRunner]
  <2>1. Types /\ RunnersSound(w)
    BY DEF Here, WorkerSound
  <2>2. runner[w][l.active].pool \in {"ended", "failed", "unopened"}
    BY DEF LateStopped, Settled
  <2>3. Sets(w, k) /\ runner' = [runner EXCEPT ![w][l.active] = Left(@)]
    BY DEF LateStopped
  <2> QED BY ONLY <1>1, <2>1, <2>2, <2>3, LeftIsNone, w \in Workers
<1> HIDE DEF l, k
<1>4. LifeSound(k) /\ Unseen(w, k)
  BY <1>1, <1>2 DEF Life, LifeSound, Opens, Runs, Hears, Unseen
<1>5. /\ NoRunner \in Runner /\ NoRunner.pool = "none" /\ NoRunner.asked = FALSE
     /\ Stilled(NoRunner)
  BY DEF NoRunner, Runner, Stilled
<1>6. Alone(w) /\ life'[w] = k
  <2>1. /\ db' = db /\ tables' = tables /\ utils' = utils /\ on' = on
        /\ runner' \in [Workers -> [Slots -> Runner]]
        /\ \A x \in Workers \ {w} : runner'[x] = runner[x]
    <3>1. /\ runner' \in [Workers -> [Slots -> Runner]]
          /\ \A x \in Workers \ {w} : runner'[x] = runner[x]
      BY ONLY <1>1, <1>3, <1>5, RunnerWritten, Here(w) DEF Here
    <3> QED BY <3>1 DEF LateStopped
  <2> QED BY ONLY <2>1, <1>2, <1>3, IsAlone, Here(w) DEF Here, Types
<1>7. RunnersSound(w)'
  BY <1>1, <1>3, <1>5, <1>6, RunnersFollow DEF Here, WorkerSound
<1>8. UtilsSound(w)'
  BY <1>1, <1>2, <1>6, UtilsStay DEF Here, WorkerSound, LateStopped
<1>9. LeavesNothing(w) /\ Abides(w)
  BY <1>4, <1>6, UnseenIsFine
<1> QED BY <1>4, <1>6, <1>7, <1>8, <1>9 DEF Good, WorkerSound

LEMMA SupervisingKeeps ==
  ASSUME NEW w \in Workers, Here(w), Supervising(w)
  PROVE  Good(w)
BY WatchKeeps, BackoffKeeps, LateStopKeeps DEF Supervising

---------------------------------------------------------------------------
(* What calls do at once. *)

LEMMA AfterStartSound ==
  ASSUME NEW l \in Life, LifeSound(l)
  PROVE  /\ AfterStart(l) \in Life /\ LifeSound(AfterStart(l))
         /\ AfterStart(l).active = l.active /\ AfterStart(l).run = l.run
         /\ AfterStart(l).stopping = l.stopping /\ AfterStart(l).once = l.once
         /\ AfterStart(l).completion = l.completion
         /\ AfterStart(l).starting =
              IF StartReply(l) = "wait" /\ l.starting = "no" THEN "yes" ELSE l.starting
<1> DEFINE b == Begun(l)
<1>1. /\ b \in Life /\ b.starting = "yes" /\ b.opening = "tables"
      /\ b.signals <=> HandleSignals
      /\ b.active = l.active /\ b.run = l.run /\ b.stopping = l.stopping /\ b.once = l.once
      /\ b.completion = l.completion /\ b.sup = l.sup
  BY LifecycleAssumption DEF Life, Begun, LifecycleAssumption
<1>2. CASE StartReply(l) = "wait" /\ l.starting = "no"
  <2>1. l.stopping = "no" /\ l.once = "no" /\ l.run = "none" /\ AfterStart(l) = b
    BY <1>2 DEF StartReply, AfterStart, LifeSound, Opens, Runs
  <2> HIDE DEF b
  <2>2. LifeSound(b)
    BY <1>1, <2>1, <1>2 DEF LifeSound, Opens, Runs, Hears, Life
  <2> QED BY <1>1, <1>2, <2>1, <2>2
<1>3. CASE ~(StartReply(l) = "wait" /\ l.starting = "no")
  BY <1>3 DEF AfterStart
<1> QED BY <1>2, <1>3

LEMMA AfterStopSound ==
  ASSUME NEW l \in Life, LifeSound(l)
  PROVE  /\ AfterStop(l) \in Life /\ LifeSound(AfterStop(l))
         /\ AfterStop(l).active = l.active /\ AfterStop(l).run = l.run
         /\ AfterStop(l).starting = l.starting /\ AfterStop(l).once = l.once
         /\ AfterStop(l).completion = l.completion
         /\ AfterStop(l).stopping = IF l.stopping = "no" THEN "waiting" ELSE l.stopping
<1> DEFINE k == [l EXCEPT !.stopping = "waiting"]
<1>1. /\ k \in Life /\ k.stopping = "waiting" /\ k.starting = l.starting
      /\ k.opening = l.opening /\ (k.signals <=> l.signals) /\ k.current = l.current
      /\ k.active = l.active /\ k.run = l.run /\ k.once = l.once
      /\ k.completion = l.completion /\ k.sup = l.sup
  BY DEF Life
<1>2. AfterStop(l) = IF l.stopping = "no" THEN k ELSE l
  BY DEF AfterStop
<1> HIDE DEF k
<1>3. l.stopping = "no" => LifeSound(k)
  BY <1>1 DEF LifeSound, Opens, Runs, Hears, Life
<1> QED BY <1>1, <1>2, <1>3

LEMMA AfterOnceSound ==
  ASSUME NEW l \in Life, LifeSound(l)
  PROVE  /\ AfterOnce(l) \in Life /\ LifeSound(AfterOnce(l))
         /\ AfterOnce(l).active = l.active /\ AfterOnce(l).run = l.run
         /\ AfterOnce(l).starting = l.starting /\ AfterOnce(l).stopping = l.stopping
         /\ AfterOnce(l).completion = l.completion
         /\ AfterOnce(l).once = IF Busy(l) THEN l.once ELSE "tables"
<1>0. PICK m : m = [l EXCEPT !.once = "tables"]
  OBVIOUS
<1>a. /\ m \in Life /\ m.once = "tables" /\ m.starting = l.starting
      /\ (m.signals <=> l.signals)
      /\ m.active = l.active /\ m.run = l.run /\ m.stopping = l.stopping
      /\ m.completion = l.completion /\ m.sup = l.sup
  BY <1>0 DEF Life
<1>1. PICK k : k = [m EXCEPT !.opening = "tables"]
  OBVIOUS
<1>2. /\ k \in Life /\ k.once = "tables" /\ k.starting = l.starting
      /\ k.opening = "tables" /\ (k.signals <=> l.signals)
      /\ k.active = l.active /\ k.run = l.run /\ k.stopping = l.stopping
      /\ k.completion = l.completion /\ k.sup = l.sup
  BY ONLY <1>1, <1>a DEF Life
<1>3. AfterOnce(l) = IF Busy(l) THEN l ELSE k
  BY <1>0, <1>1 DEF AfterOnce
<1>4. ~Busy(l) => LifeSound(k)
  BY ONLY <1>2, LifeSound(l), l \in Life DEF LifeSound, Opens, Runs, Hears, Life, Busy
<1> QED BY ONLY <1>2, <1>3, <1>4, l \in Life, LifeSound(l)

LEMMA QueuedStartKeeps ==
  ASSUME NEW w \in Workers, Here(w), QueuedStart(w)
  PROVE  Good(w)
<1> DEFINE l == life[w]
           k == AfterStart(l)
           r == StartReply(l)
<1>1. /\ l \in Life /\ LifeSound(l) /\ l.stopping = "no" /\ life[w] = l
      /\ on["start"][w] = "queued" /\ l.starting = "no" /\ l.run = "none"
  BY DEF Here, Types, WorkerSound, QueuedStart, Member
<1>2. r = IF l.once # "no" THEN "failed" ELSE "wait"
  BY <1>1 DEF StartReply
<1>3. /\ k \in Life /\ LifeSound(k) /\ Sets(w, k)
      /\ k.active = l.active /\ k.run = l.run /\ k.stopping = l.stopping /\ k.once = l.once
      /\ k.completion = l.completion
      /\ k.starting = IF r = "wait" THEN "yes" ELSE "no"
  BY <1>1, AfterStartSound DEF QueuedStart
<1>4. /\ on' \in [Calls -> [Workers -> Replies]] /\ on'["start"][w] = r
      /\ \A x \in Workers \ {w}, c \in Calls : on'[c][x] = on[c][x]
  <2>1. r \in Replies /\ on' = [on EXCEPT !["start"][w] = r] /\ on \in [Calls -> [Workers -> Replies]]
    BY <1>2 DEF QueuedStart, Replies, Here, Types
  <2> HIDE DEF r
  <2> QED BY <2>1 DEF Calls
<1> HIDE DEF l, k, r
<1>5. Alone(w) /\ life'[w] = k
  BY <1>3, <1>4, IsAlone DEF Here, Types, QueuedStart
<1>6. RunnersSound(w)' /\ UtilsSound(w)'
  BY <1>1, <1>3, <1>5, RunnersStay, UtilsStay DEF Here, WorkerSound, QueuedStart
<1>7. LeavesNothing(w)
  BY <1>1, <1>3, <1>5 DEF LeavesNothing
<1>8. Abides(w)
  BY <1>1, <1>2, <1>3, <1>4, <1>5 DEF Abides, WillRun, Dooms
<1> QED BY <1>3, <1>5, <1>6, <1>7, <1>8 DEF Good, WorkerSound

---------------------------------------------------------------------------
(* The steps of stop(), of runOnce() and of the client. *)

LEMMA ReleasedUtils ==
  ASSUME Types, NEW w \in Workers, Released(w)
  PROVE  /\ utils' \in [Workers -> Utils]
         /\ utils'[w].cached = "none" /\ utils'[w].releasing # "no"
         /\ \A x \in Workers \ {w} : utils'[x] = utils[x]
<1>1. PICK u : u = [cached |-> "none", releasing |-> Found(utils[w])]
  OBVIOUS
<1>2. utils[w] \in Utils
  BY DEF Types
<1>3. u \in Utils /\ u.cached = "none" /\ u.releasing # "no"
  BY <1>1, <1>2 DEF Utils, Found
<1>4. utils' = [utils EXCEPT ![w] = u]
  BY <1>1, <1>2 DEF Released, Types
<1> QED BY <1>3, <1>4, UtilsWritten

LEMMA StopProceedsKeeps ==
  ASSUME NEW w \in Workers, Here(w), StopProceeds(w)
  PROVE  Good(w)
<1>0. PICK l \in Life : l = life[w] /\ LifeSound(l)
  BY DEF Here, Types, WorkerSound
<1>1. /\ l.stopping = "waiting" /\ l.starting = "no" /\ l.once = "no" /\ on' = on
      /\ db' = db /\ tables' = tables
  BY <1>0 DEF StopProceeds, MayStop
<1>2. CASE l.run = "none"
  <2>1. PICK k : k = [l EXCEPT !.stopping = "releasing", !.signals = FALSE]
    OBVIOUS
  <2>2. /\ k \in Life /\ k.stopping = "releasing" /\ ~k.signals /\ k.starting = l.starting
        /\ k.opening = l.opening /\ k.active = l.active /\ k.run = l.run /\ k.once = l.once
        /\ k.sup = l.sup /\ k.completion = l.completion
    BY ONLY <2>1, l \in Life DEF Life
  <2>3. Sets(w, k) /\ Released(w) /\ runner' = runner
    BY <1>0, <1>2, <2>1 DEF StopProceeds
  <2>4. LifeSound(k)
    BY ONLY <1>0, <1>1, <1>2, <2>2 DEF LifeSound, Opens, Runs, Hears
  <2>5. /\ utils' \in [Workers -> Utils]
        /\ utils'[w].cached = "none" /\ utils'[w].releasing # "no"
        /\ \A x \in Workers \ {w} : utils'[x] = utils[x]
    BY <2>3, ReleasedUtils DEF Here
  <2>6. Alone(w) /\ life'[w] = k
    BY <1>1, <2>2, <2>3, <2>5, IsAlone DEF Here, Types
  <2>7. RunnersSound(w)'
    BY <1>0, <1>2, <2>2, <2>3, <2>6, RunnersStay DEF Here, WorkerSound
  <2>8. UtilsSound(w)'
    BY <2>2, <2>5, <2>6 DEF UtilsSound
  <2>9. LeavesNothing(w) /\ Abides(w)
    BY <1>0, <1>1, <1>2, <2>2, <2>6 DEF LeavesNothing, Abides, WillRun, Dooms, Here, Member
  <2> QED BY <2>4, <2>6, <2>7, <2>8, <2>9 DEF Good, WorkerSound
<1>3. CASE l.run # "none"
  <2>1. PICK k : k = [l EXCEPT !.stopping = "run", !.run = "stopped", !.signals = FALSE]
    OBVIOUS
  <2>2. /\ k \in Life /\ k.stopping = "run" /\ ~k.signals /\ k.starting = l.starting
        /\ k.opening = l.opening /\ k.active = l.active /\ k.run = "stopped"
        /\ k.once = l.once /\ k.sup = l.sup /\ k.completion = l.completion
    BY ONLY <2>1, l \in Life DEF Life
  <2>3. /\ Sets(w, k) /\ utils' = utils
        /\ runner' = IF l.current = 0 THEN runner
                     ELSE [runner EXCEPT ![w][l.current] = Stopped(@)]
    BY <1>0, <1>3, <2>1 DEF StopProceeds
  <2>a. l.run = "live" /\ l.current \in {0, l.active} /\ l.current \in Slots \cup {0}
    BY ONLY <1>0, <1>1, <1>3 DEF LifeSound, Runs, Life
  <2>4. LifeSound(k)
    BY ONLY <1>0, <1>1, <2>a, <2>2 DEF LifeSound, Opens, Runs, Hears
  <2>5. /\ runner' \in [Workers -> [Slots -> Runner]]
        /\ \A x \in Workers \ {w} : runner'[x] = runner[x]
        /\ life'[w] = k => RunnersSound(w)'
    <3>1. CASE l.current = 0
      BY <1>0, <2>2, <2>3, <2>a, <3>1, RunnersStay DEF Here, WorkerSound, Types
    <3>2. CASE l.current \in Slots
      <4>1. PICK r : r = Stopped(runner[w][l.current])
        OBVIOUS
      <4>2. runner[w][l.current] \in Runner
        BY <3>2 DEF Here, Types
      <4>3. r \in Runner /\ r.asked /\ Stilled(r)
        <5>1. r \in Runner /\ r.asked
          BY <4>1, <4>2 DEF Runner, Stopped
        <5>2. r.pool \in {runner[w][l.current].pool, "draining"} /\ r.maint = runner[w][l.current].maint
          BY ONLY <4>1, <4>2 DEF Runner, Stopped
        <5>3. Stilled(runner[w][l.current])
          BY <3>2 DEF Here, WorkerSound, RunnersSound
        <5> QED BY ONLY <5>1, <5>2, <5>3 DEF Stilled
      <4>4. runner' = [runner EXCEPT ![w][l.current] = r]
        BY <2>3, <3>2, <4>1, RunnerAssumption DEF RunnerAssumption, Here, Types
      <4>5. l.current = l.active
        BY <2>a, <3>2, RunnerAssumption DEF RunnerAssumption
      <4>6. life'[w] = k => RunnersSound(w)'
        BY ONLY <1>0, <2>2, <3>2, <4>3, <4>4, <4>5, RunnersFollow, Here(w) DEF Here, WorkerSound
      <4> QED BY ONLY <3>2, <4>3, <4>4, <4>6, RunnerWritten, Here(w) DEF Here
    <3> QED BY <2>a, <3>1, <3>2
  <2>6. Alone(w) /\ life'[w] = k
    BY <1>1, <2>2, <2>3, <2>5, IsAlone DEF Here, Types
  <2>8. UtilsSound(w)'
    BY <1>0, <1>1, <2>2, <2>3, <2>6, UtilsStay DEF Here, WorkerSound
  <2>9. LeavesNothing(w) /\ Abides(w)
    BY <1>0, <1>1, <2>a, <2>2, <2>6 DEF LeavesNothing, Abides, WillRun, Dooms, Here, Member
  <2> QED BY <2>4, <2>5, <2>6, <2>8, <2>9 DEF Good, WorkerSound
<1> QED BY <1>2, <1>3

LEMMA RunEndsKeeps ==
  ASSUME NEW w \in Workers, Here(w), RunEnds(w)
  PROVE  Good(w)
<1>0. PICK l \in Life : l = life[w] /\ LifeSound(l)
  BY DEF Here, Types, WorkerSound
<1>1. /\ l.stopping = "run" /\ l.completion # "pending" /\ on' = on
      /\ db' = db /\ tables' = tables /\ runner' = runner /\ Released(w)
  BY <1>0 DEF RunEnds
<1>a. /\ l.run = "stopped" /\ l.sup = "none" /\ l.starting = "no" /\ l.once = "no"
      /\ l.active = 0 /\ l.opening = "no"
  BY ONLY <1>0, <1>1 DEF LifeSound, Opens, Runs, Life
<1>2. PICK k : k = [l EXCEPT !.stopping = "releasing", !.run = "none", !.current = 0]
  OBVIOUS
<1>3. /\ k \in Life /\ k.stopping = "releasing" /\ (k.signals <=> l.signals)
      /\ k.starting = l.starting
      /\ k.opening = l.opening /\ k.active = l.active /\ k.run = "none"
      /\ k.once = l.once /\ k.sup = l.sup /\ k.completion = l.completion
  BY ONLY <1>2, l \in Life DEF Life
<1>4. Sets(w, k)
  BY <1>0, <1>2 DEF RunEnds
<1>5. LifeSound(k)
  BY ONLY <1>0, <1>1, <1>a, <1>3 DEF LifeSound, Opens, Runs, Hears
<1>6. /\ utils' \in [Workers -> Utils]
      /\ utils'[w].cached = "none" /\ utils'[w].releasing # "no"
      /\ \A x \in Workers \ {w} : utils'[x] = utils[x]
  BY <1>1, ReleasedUtils DEF Here
<1>7. Alone(w) /\ life'[w] = k
  BY <1>1, <1>3, <1>4, <1>6, IsAlone DEF Here, Types
<1>8. RunnersSound(w)'
  BY <1>0, <1>1, <1>a, <1>3, <1>7, RunnersStay DEF Here, WorkerSound
<1>9. UtilsSound(w)'
  BY <1>3, <1>6, <1>7 DEF UtilsSound
<1>10. LeavesNothing(w) /\ Abides(w)
  BY <1>0, <1>1, <1>a, <1>3, <1>7 DEF LeavesNothing, Abides, WillRun, Dooms, Here, Member
<1> QED BY <1>5, <1>7, <1>8, <1>9, <1>10 DEF Good, WorkerSound

(* Without an active runner there is none. *)
LEMMA NoneIsActive ==
  ASSUME NEW w \in Workers, RunnersSound(w), life[w].active = 0
  PROVE  \A s \in Slots : runner[w][s].pool = "none" /\ runner[w][s].maint = "none"
BY RunnerAssumption DEF RunnersSound, NoRunner, RunnerAssumption

LEMMA ReleaseEndsKeeps ==
  ASSUME NEW w \in Workers, Here(w), ReleaseEnds(w)
  PROVE  Good(w)
<1>0. PICK l \in Life : l = life[w] /\ LifeSound(l)
  BY DEF Here, Types, WorkerSound
<1>1. /\ db' = db /\ tables' = tables /\ runner' = runner
      /\ l.starting = "releasing" \/ l.stopping = "releasing"
  BY <1>0 DEF ReleaseEnds, Here, WorkerSound, UtilsSound
<1>2. /\ l.run = "none" /\ l.sup = "none" /\ l.active = 0 /\ l.once = "no" /\ l.opening = "no"
      /\ ~l.signals /\ ~(l.starting = "releasing" /\ l.stopping = "releasing")
      /\ l.starting # "yes"
  BY ONLY <1>0, <1>1 DEF LifeSound, Opens, Runs, Hears, Life
<1>3. PICK u : u = [utils[w] EXCEPT !.releasing = "no"]
  OBVIOUS
<1>4. u \in Utils /\ u = [cached |-> "none", releasing |-> "no"]
  <2>1. utils[w] \in Utils /\ utils[w].cached = "none"
    BY DEF Here, Types, WorkerSound, UtilsSound, ReleaseEnds
  <2> QED BY ONLY <2>1, <1>3 DEF Utils
<1>5. utils' = [utils EXCEPT ![w] = u]
  BY <1>3 DEF ReleaseEnds, Here, Types
<1>6. /\ utils' \in [Workers -> Utils] /\ utils'[w] = u
      /\ \A x \in Workers \ {w} : utils'[x] = utils[x]
  BY <1>4, <1>5, UtilsWritten DEF Here
<1>7. \A s \in Slots : runner[w][s].pool = "none" /\ runner[w][s].maint = "none"
  BY <1>0, <1>2, NoneIsActive DEF Here, WorkerSound
<1>8. CASE l.starting = "releasing"
  <2>1. PICK k : k = [l EXCEPT !.starting = "no"]
    OBVIOUS
  <2>2. /\ k \in Life /\ k.stopping = l.stopping /\ (k.signals <=> l.signals)
        /\ k.starting = "no"
        /\ k.opening = l.opening /\ k.active = l.active /\ k.run = l.run
        /\ k.once = l.once /\ k.sup = l.sup /\ k.completion = l.completion
    BY ONLY <2>1, l \in Life DEF Life
  <2>3. Sets(w, k) /\ Answer("start", w, "failed")
    BY <1>0, <1>8, <2>1 DEF ReleaseEnds
  <2>4. LifeSound(k)
    BY ONLY <1>0, <1>2, <2>2 DEF LifeSound, Opens, Runs, Hears
  <2>5. /\ on' \in [Calls -> [Workers -> Replies]] /\ on'["start"][w] = "failed"
        /\ \A x \in Workers \ {w}, b \in Calls : on'[b][x] = on[b][x]
    <3>1. "start" \in Calls /\ "failed" \in Replies /\ on["start"][w] = "wait"
      BY <1>0, <1>8 DEF Calls, Replies, Here, Member
    <3> QED BY <2>3, <3>1, Answered DEF Here
  <2>6. Alone(w) /\ life'[w] = k
    BY <1>1, <1>6, <2>2, <2>3, <2>5, IsAlone DEF Here, Types
  <2>7. RunnersSound(w)'
    BY <1>0, <1>1, <1>2, <2>2, <2>6, RunnersStay DEF Here, WorkerSound
  <2>8. UtilsSound(w)'
    BY <1>2, <1>4, <1>6, <1>8, <2>2, <2>6 DEF UtilsSound
  <2>9. LeavesNothing(w)
    BY <1>0, <1>1, <1>2, <1>4, <1>6, <1>7, <2>2, <2>6 DEF LeavesNothing, Gone
  <2>10. Abides(w)
    BY <1>0, <1>2, <1>8, <2>2, <2>5, <2>6 DEF Abides, WillRun, Dooms, Here, Member
  <2> QED BY <2>4, <2>6, <2>7, <2>8, <2>9, <2>10 DEF Good, WorkerSound
<1>9. CASE l.starting # "releasing"
  <2>1. PICK k : k = [l EXCEPT !.stopping = "no", !.signals = FALSE]
    OBVIOUS
  <2>2. /\ k \in Life /\ k.stopping = "no" /\ ~k.signals /\ k.starting = l.starting
        /\ k.opening = l.opening /\ k.active = l.active /\ k.run = l.run
        /\ k.once = l.once /\ k.sup = l.sup /\ k.completion = l.completion
    BY ONLY <2>1, l \in Life DEF Life
  <2>3. PICK reply \in {"ok", "failed"} :
          /\ Sets(w, k)
          /\ on' = [c \in Calls |-> [on[c] EXCEPT ![w] =
               IF c \in {"stop", "undo"} /\ @ = "wait" THEN reply
               ELSE IF c = "start" /\ @ = "queued" /\ reply = "failed" THEN reply
               ELSE @]]
    BY <1>0, <1>9, <2>1 DEF ReleaseEnds
  <2>4. LifeSound(k)
    BY ONLY <1>0, <1>1, <1>2, <1>9, <2>2 DEF LifeSound, Opens, Runs, Hears
  <2>5. /\ on' \in [Calls -> [Workers -> Replies]]
        /\ on'["start"][w] = IF on["start"][w] = "queued" /\ reply = "failed"
                             THEN "failed" ELSE on["start"][w]
        /\ \A x \in Workers \ {w}, b \in Calls : on'[b][x] = on[b][x]
    <3>1. on \in [Calls -> [Workers -> Replies]]
      BY DEF Here, Types
    <3> QED BY ONLY <3>1, <2>3, w \in Workers DEF Calls, Replies
  <2>6. Alone(w) /\ life'[w] = k
    <3>1. Sets(w, k) /\ Types /\ tables' \in BOOLEAN /\ runner' = runner
      BY <1>1, <2>3 DEF Here, Types
    <3>2. runner \in [Workers -> [Slots -> Runner]]
      BY DEF Here, Types
    <3> QED BY ONLY <1>1, <1>6, <2>2, <2>5, <3>1, <3>2, IsAlone, w \in Workers
  <2>7. RunnersSound(w)'
    BY <1>0, <1>1, <1>2, <2>2, <2>6, RunnersStay DEF Here, WorkerSound
  <2>8. UtilsSound(w)'
    BY <1>2, <1>4, <1>6, <1>9, <2>2, <2>6 DEF UtilsSound
  <2>9. LeavesNothing(w)
    BY <1>0, <1>1, <1>2, <1>4, <1>6, <1>7, <2>2, <2>6 DEF LeavesNothing, Gone
  <2>10. Abides(w)
    BY <1>0, <1>1, <1>2, <1>9, <2>2, <2>5, <2>6 DEF Abides, WillRun, Dooms, Here, Member
  <2> QED BY <2>4, <2>6, <2>7, <2>8, <2>9, <2>10 DEF Good, WorkerSound
<1> QED BY <1>8, <1>9

LEMMA StoppingKeeps ==
  ASSUME NEW w \in Workers, Here(w), Stopping(w)
  PROVE  Good(w)
BY StopProceedsKeeps, RunEndsKeeps, ReleaseEndsKeeps DEF Stopping

(* An answer to runOnce() is not one to start(). *)
LEMMA OnceAnswered ==
  ASSUME Types, NEW w \in Workers, NEW reply \in Replies, Answer("once", w, reply)
  PROVE  /\ on' \in [Calls -> [Workers -> Replies]] /\ on'["start"][w] = on["start"][w]
         /\ \A x \in Workers \ {w}, c \in Calls : on'[c][x] = on[c][x]
BY Answered DEF Calls

LEMMA OnceKeeps ==
  ASSUME NEW w \in Workers, Here(w), OnceAdvances(w)
  PROVE  Good(w)
<1>0. PICK l \in Life : l = life[w] /\ LifeSound(l)
  BY DEF Here, Types, WorkerSound
<1>1. UNCHANGED <<db, runner, tables, utils>>
  BY DEF OnceAdvances
<1>2. PICK o \in {"no", "sweep"} :
        /\ Sets(w, [l EXCEPT !.once = o]) /\ l.once \in {"tasks", "bare", "sweep"}
        /\ o = "no" \/ l.once = "tasks"
        /\ on' = on \/ Answer("once", w, "ok") \/ Answer("once", w, "failed")
  <2>1. CASE TasksEnd(w)
    BY <1>0, <2>1 DEF TasksEnd
  <2>2. CASE SweepEnds(w)
    BY <1>0, <2>2 DEF SweepEnds
  <2> QED BY <2>1, <2>2 DEF OnceAdvances
<1>3. PICK k : k = [l EXCEPT !.once = o]
  OBVIOUS
<1>4. k \in Life
  BY ONLY <1>2, <1>3, l \in Life DEF Life
<1>5. /\ k.stopping = l.stopping /\ (k.signals <=> l.signals) /\ k.starting = l.starting
      /\ k.opening = l.opening /\ k.active = l.active /\ k.run = l.run
      /\ k.once = o /\ k.sup = l.sup /\ k.completion = l.completion
  BY ONLY <1>3, l \in Life DEF Life
<1>6. /\ on' \in [Calls -> [Workers -> Replies]] /\ on'["start"][w] = on["start"][w]
      /\ \A x \in Workers \ {w}, c \in Calls : on'[c][x] = on[c][x]
  <2>1. "ok" \in Replies /\ "failed" \in Replies
    BY DEF Replies
  <2> QED BY <1>2, <2>1, OnceAnswered DEF Here, Types
<1>7. LifeSound(k)
  BY ONLY <1>0, <1>2, <1>5 DEF LifeSound, Opens, Runs, Hears
<1>8. CASE o = "no"
  <2>1. Unseen(w, k)
    BY <1>0, <1>5, <1>6, <1>8 DEF Unseen
  <2>2. Sets(w, k) /\ k.active = life[w].active
    BY <1>0, <1>2, <1>3, <1>5
  <2> QED BY ONLY <1>1, <1>4, <1>6, <1>7, <2>1, <2>2, LifeOnly, Here(w), w \in Workers
<1>9. CASE o # "no"
  <2>1. Alone(w) /\ life'[w] = k
    BY <1>1, <1>2, <1>3, <1>4, <1>6, IsAlone DEF Here, Types
  <2>2. RunnersSound(w)' /\ UtilsSound(w)'
    BY <1>0, <1>1, <1>5, <2>1, RunnersStay, UtilsStay DEF Here, WorkerSound
  <2>3. l.run = "none"
    BY ONLY <1>0, <1>2 DEF LifeSound, Opens
  <2>4. LeavesNothing(w) /\ Abides(w)
    BY <1>0, <1>2, <1>5, <1>6, <1>9, <2>1, <2>3
    DEF LeavesNothing, Abides, WillRun, Dooms, Here, Member
  <2> QED BY <1>7, <2>1, <2>2, <2>4 DEF Good, WorkerSound
<1> QED BY <1>8, <1>9

(* A step of the client's utilities alone. *)
LEMMA UtilsOnly ==
  ASSUME NEW w \in Workers, Here(w), NEW u \in Utils, utils' = [utils EXCEPT ![w] = u],
         u.releasing # "no" <=> utils[w].releasing # "no",
         u.releasing # "no" => u.cached = "none",
         UNCHANGED <<db, runner, tables, life, on>>
  PROVE  Good(w)
<1>1. /\ utils' \in [Workers -> Utils] /\ utils'[w] = u
      /\ \A x \in Workers \ {w} : utils'[x] = utils[x]
  BY UtilsWritten DEF Here
<1>2. Alone(w)
  BY <1>1 DEF Alone, Here, Types
<1>3. WorkerSound(w)'
  BY <1>1 DEF Here, WorkerSound, RunnersSound, UtilsSound
<1>4. Unseen(w, life[w])
  BY DEF Unseen
<1> QED BY <1>2, <1>3, <1>4, UnseenIsFine DEF Good

LEMMA MakeKeeps ==
  ASSUME NEW w \in Workers, Here(w), MakeEnds(w)
  PROVE  Good(w)
<1>1. utils[w] \in Utils /\ utils \in [Workers -> Utils]
  BY DEF Here, Types
<1>2. CASE utils[w].cached = "making" /\ \E c \in {"open", "none"} : Caches(w, c)
  <2>1. PICK c \in {"open", "none"} : Caches(w, c)
    BY <1>2
  <2>2. PICK u : u = [utils[w] EXCEPT !.cached = c]
    OBVIOUS
  <2>3. u \in Utils /\ u.releasing = utils[w].releasing
    BY ONLY <1>1, <2>1, <2>2 DEF Utils
  <2>4. utils' = [utils EXCEPT ![w] = u]
    BY <1>1, <2>1, <2>2 DEF Caches
  <2>5. utils[w].releasing = "no"
    BY <1>2 DEF Here, WorkerSound, UtilsSound
  <2> QED BY <2>3, <2>4, <2>5, UtilsOnly DEF MakeEnds
<1>3. CASE /\ utils[w].releasing = "making"
           /\ \E c \in {"open", "nothing"} : utils' = [utils EXCEPT ![w].releasing = c]
  <2>1. PICK c \in {"open", "nothing"} : utils' = [utils EXCEPT ![w].releasing = c]
    BY <1>3
  <2>2. PICK u : u = [utils[w] EXCEPT !.releasing = c]
    OBVIOUS
  <2>3. u \in Utils /\ u.releasing = c /\ u.cached = utils[w].cached
    BY ONLY <1>1, <2>1, <2>2 DEF Utils
  <2>4. utils' = [utils EXCEPT ![w] = u]
    BY <1>1, <2>1, <2>2
  <2>5. utils[w].cached = "none"
    BY <1>3 DEF Here, WorkerSound, UtilsSound
  <2> QED BY <1>3, <2>1, <2>3, <2>4, <2>5, UtilsOnly DEF MakeEnds
<1> QED BY <1>2, <1>3 DEF MakeEnds

LEMMA GetUtilsKeeps ==
  ASSUME NEW w \in Workers, Here(w), GetUtils(w)
  PROVE  Good(w)
<1>1. utils[w] \in Utils /\ utils \in [Workers -> Utils] /\ utils[w].releasing = "no"
  BY DEF Here, Types, GetUtils, MayCache
<1>2. PICK u : u = [utils[w] EXCEPT !.cached = "making"]
  OBVIOUS
<1>3. u \in Utils /\ u.releasing = utils[w].releasing
  BY ONLY <1>1, <1>2 DEF Utils
<1>4. utils' = [utils EXCEPT ![w] = u]
  BY <1>1, <1>2 DEF Caches, GetUtils
<1> QED BY <1>1, <1>3, <1>4, UtilsOnly DEF GetUtils

---------------------------------------------------------------------------
(* The steps of options.start() and of runOnce's tables. *)

LEMMA PreparedKeeps ==
  ASSUME NEW w \in Workers, Here(w), NEW maintained \in BOOLEAN, Prepared(w, maintained),
         life[w].opening \in {"tables", "migrating"},
         UNCHANGED <<db, utils, on>>, tables' \in BOOLEAN
  PROVE  Good(w)
<1>0. PICK l \in Life : l = life[w] /\ LifeSound(l)
  BY DEF Here, Types, WorkerSound
<1>1. l.opening \in {"tables", "migrating"} /\ l.active = 0
  BY <1>0 DEF LifeSound, Opens, Runs
<1>2. CASE l.once = "tables"
  <2>1. PICK o \in {"tasks", "bare"} : Sets(w, [l EXCEPT !.opening = "no", !.once = o])
    BY <1>0, <1>2 DEF Prepared
  <2>2. PICK k : k = [l EXCEPT !.opening = "no", !.once = o]
    OBVIOUS
  <2>3. k \in Life
    <3>1. PICK m : m = [l EXCEPT !.opening = "no"]
      OBVIOUS
    <3>2. m \in Life
      BY ONLY <3>1, l \in Life DEF Life
    <3>3. k = [m EXCEPT !.once = o]
      BY ONLY <2>2, <3>1
    <3> QED BY ONLY <3>2, <3>3, o \in {"tasks", "bare"} DEF Life
  <2>4. /\ k.stopping = l.stopping /\ (k.signals <=> l.signals) /\ k.starting = l.starting
        /\ k.opening = "no" /\ k.active = l.active /\ k.run = l.run
        /\ k.once = o /\ k.sup = l.sup /\ k.completion = l.completion
    BY ONLY <2>2, l \in Life DEF Life
  <2>5. LifeSound(k) /\ l.run = "none"
    BY ONLY <1>0, <1>1, <1>2, <2>1, <2>4 DEF LifeSound, Opens, Runs, Hears
  <2>6. Alone(w) /\ life'[w] = k /\ runner' = runner
    BY <1>0, <1>2, <2>1, <2>2, <2>3, IsAlone DEF Here, Types, Prepared
  <2>7. RunnersSound(w)' /\ UtilsSound(w)'
    BY <1>0, <2>4, <2>6, RunnersStay, UtilsStay DEF Here, WorkerSound
  <2>8. LeavesNothing(w) /\ Abides(w)
    BY <1>0, <1>2, <2>1, <2>4, <2>5, <2>6
    DEF LeavesNothing, Abides, WillRun, Dooms, Here, Member
  <2> QED BY <2>5, <2>6, <2>7, <2>8 DEF Good, WorkerSound
<1>3. CASE l.once # "tables"
  <2>1. PICK s, r :
          /\ s \in Slots
          /\ Sets(w, [l EXCEPT !.opening = "runner", !.active = s])
          /\ r = [NoRunner EXCEPT !.pool = "opening",
                                  !.maint = IF maintained THEN "wanted" ELSE "none"]
          /\ runner' = [runner EXCEPT ![w][s] = r]
    <3>1. Free(w) # {} => (CHOOSE x \in Free(w) : TRUE) \in Slots
      BY DEF Free
    <3> QED BY <1>0, <1>3, <3>1 DEF Prepared
  <2>2. r \in Runner /\ r.pool = "opening" /\ ~r.asked /\ Stilled(r)
    BY ONLY <2>1 DEF NoRunner, Runner, Stilled
  <2>3. PICK k : k = [l EXCEPT !.opening = "runner", !.active = s]
    OBVIOUS
  <2>4. /\ k \in Life /\ k.stopping = l.stopping /\ (k.signals <=> l.signals)
        /\ k.starting = l.starting /\ k.opening = "runner" /\ k.active = s /\ k.run = l.run
        /\ k.once = l.once /\ k.sup = l.sup /\ k.completion = l.completion
        /\ k.current = l.current
    BY ONLY <2>1, <2>3, l \in Life DEF Life
  <2>5. LifeSound(k) /\ Unseen(w, k)
    <3>1. s # 0
      BY <2>1, RunnerAssumption DEF RunnerAssumption
    <3>2. LifeSound(k)
      BY ONLY <1>0, <1>1, <1>3, <2>4, <3>1 DEF LifeSound, Opens, Runs, Hears, Life
    <3> QED BY <1>0, <2>4, <3>2 DEF Unseen
  <2>6. /\ runner' \in [Workers -> [Slots -> Runner]]
        /\ \A x \in Workers \ {w} : runner'[x] = runner[x]
    BY <2>1, <2>2, RunnerWritten DEF Here
  <2>7. Alone(w) /\ life'[w] = k
    BY <2>1, <2>3, <2>4, <2>6, IsAlone DEF Here, Types
  <2>8. RunnersSound(w)'
    BY <1>0, <1>1, <2>1, <2>2, <2>4, <2>7, RunnersFollow DEF Here, WorkerSound
  <2>9. UtilsSound(w)'
    BY <1>0, <2>4, <2>7, UtilsStay DEF Here, WorkerSound
  <2>10. LeavesNothing(w) /\ Abides(w)
    BY <2>5, <2>7, UnseenIsFine
  <2> QED BY <2>5, <2>7, <2>8, <2>9, <2>10 DEF Good, WorkerSound
<1> QED BY <1>2, <1>3

(* The runner is gone, if there was one. *)
Clears(w) ==
  \/ life[w].active = 0 /\ runner' = runner
  \/ life[w].active # 0 /\ runner' = [runner EXCEPT ![w][life[w].active] = NoRunner]

LEMMA ClearedRunners ==
  ASSUME NEW w \in Workers, Here(w), Clears(w), life'[w].active = 0,
         life'[w].run = life[w].run
  PROVE  /\ runner' \in [Workers -> [Slots -> Runner]]
         /\ \A x \in Workers \ {w} : runner'[x] = runner[x]
         /\ RunnersSound(w)'
<1>1. CASE life[w].active = 0
  BY <1>1, RunnersStay DEF Clears, Here, WorkerSound, Types
<1>2. CASE life[w].active # 0
  <2>1. life[w].active \in Slots
    BY <1>2 DEF Here, Types, Life
  <2>2. /\ NoRunner \in Runner /\ NoRunner.pool = "none" /\ NoRunner.asked = FALSE
       /\ Stilled(NoRunner)
    BY DEF NoRunner, Runner, Stilled
  <2>3. runner' = [runner EXCEPT ![w][life[w].active] = NoRunner]
    BY <1>2 DEF Clears
  <2> QED BY <2>1, <2>2, <2>3, RunnersFollow, RunnerWritten DEF Here, WorkerSound
<1> QED BY <1>1, <1>2

LEMMA RejectedKeeps ==
  ASSUME NEW w \in Workers, Here(w), Rejected(w, life[w]), life[w].opening # "no",
         Clears(w), UNCHANGED <<db, tables>>
  PROVE  Good(w)
<1>0. PICK l \in Life : l = life[w] /\ LifeSound(l)
  BY DEF Here, Types, WorkerSound
<1>1. l.opening # "no" /\ (l.starting = "yes" \/ l.once = "tables" \/ l.sup = "starting")
  BY ONLY <1>0, life[w].opening # "no" DEF LifeSound, Opens
<1>2. CASE l.once # "no"
  <2>1. PICK k : k = [l EXCEPT !.opening = "no", !.once = "no"]
    OBVIOUS
  <2>2. k \in Life
    <3>1. PICK m : m = [l EXCEPT !.opening = "no"]
      OBVIOUS
    <3>2. m \in Life
      BY ONLY <3>1, l \in Life DEF Life
    <3>3. k = [m EXCEPT !.once = "no"]
      BY ONLY <2>1, <3>1
    <3> QED BY ONLY <3>2, <3>3 DEF Life
  <2>3. /\ k.stopping = l.stopping /\ (k.signals <=> l.signals) /\ k.starting = l.starting
        /\ k.opening = "no" /\ k.active = l.active /\ k.run = l.run
        /\ k.once = "no" /\ k.sup = l.sup /\ k.completion = l.completion
    BY ONLY <2>1, l \in Life DEF Life
  <2>4. Sets(w, k) /\ Answer("once", w, "failed") /\ utils' = utils
    <3>1. Rejected(w, l)
      BY <1>0
    <3>2. l.starting = "no"
      BY ONLY <1>0, <1>2 DEF LifeSound, Opens
    <3> QED BY ONLY <3>1, <3>2, <1>2, <2>1 DEF Rejected
  <2>5. LifeSound(k) /\ l.active = 0
    BY ONLY <1>0, <1>1, <1>2, <2>3 DEF LifeSound, Opens, Runs, Hears
  <2>6. /\ on' \in [Calls -> [Workers -> Replies]] /\ on'["start"][w] = on["start"][w]
        /\ \A x \in Workers \ {w}, c \in Calls : on'[c][x] = on[c][x]
    <3>1. "failed" \in Replies
      BY DEF Replies
    <3> QED BY <2>4, <3>1, OnceAnswered DEF Here
  <2>7. Unseen(w, k) /\ runner' = runner
    BY <1>0, <2>3, <2>5, <2>6 DEF Unseen, Clears
  <2> QED BY <1>0, <2>2, <2>3, <2>4, <2>5, <2>6, <2>7, LifeOnly
<1>3. CASE l.once = "no" /\ l.starting = "yes"
  <2>1. PICK k : k = [l EXCEPT !.starting = "releasing", !.opening = "no",
                               !.active = 0, !.signals = FALSE]
    OBVIOUS
  <2>2. /\ k \in Life /\ k.stopping = l.stopping /\ ~k.signals /\ k.starting = "releasing"
        /\ k.opening = "no" /\ k.active = 0 /\ k.run = l.run
        /\ k.once = l.once /\ k.sup = l.sup /\ k.completion = l.completion
    BY ONLY <2>1, l \in Life DEF Life
  <2>3. Sets(w, k) /\ Released(w) /\ on' = on
    BY <1>0, <1>3, <2>1 DEF Rejected
  <2>4. LifeSound(k) /\ l.run = "none"
    BY ONLY <1>0, <1>3, <2>2 DEF LifeSound, Opens, Runs, Hears
  <2>5. /\ utils' \in [Workers -> Utils]
        /\ utils'[w].cached = "none" /\ utils'[w].releasing # "no"
        /\ \A x \in Workers \ {w} : utils'[x] = utils[x]
    BY <2>3, ReleasedUtils DEF Here
  <2>6. life'[w] = k
    BY <2>2, <2>3, LifeWritten DEF Here
  <2>7. /\ runner' \in [Workers -> [Slots -> Runner]]
        /\ \A x \in Workers \ {w} : runner'[x] = runner[x]
        /\ RunnersSound(w)'
    BY <1>0, <2>2, <2>6, ClearedRunners
  <2>8. Alone(w)
    BY <2>2, <2>3, <2>5, <2>7, IsAlone DEF Here, Types
  <2>9. UtilsSound(w)'
    BY <2>2, <2>5, <2>6 DEF UtilsSound
  <2>10. LeavesNothing(w) /\ Abides(w)
    BY <1>0, <1>3, <2>2, <2>3, <2>4, <2>6
    DEF LeavesNothing, Abides, WillRun, Dooms, Here, Member
  <2> QED BY <2>4, <2>6, <2>7, <2>8, <2>9, <2>10 DEF Good, WorkerSound
<1>4. CASE l.once = "no" /\ l.starting # "yes"
  <2>0. l.sup = "starting" /\ l.run \in {"live", "stopped"} /\ l.starting = "no"
    BY ONLY <1>0, <1>1, <1>4 DEF LifeSound, Opens, Runs, Life
  <2>1. PICK e, f : /\ e = [l EXCEPT !.sup = "none", !.completion = "ok",
                                     !.opening = "no", !.active = 0]
                    /\ f = [l EXCEPT !.sup = "backoff", !.opening = "no", !.active = 0]
    OBVIOUS
  <2>2. /\ e \in Life /\ e.stopping = l.stopping /\ (e.signals <=> l.signals)
        /\ e.starting = l.starting /\ e.opening = "no" /\ e.active = 0 /\ e.run = l.run
        /\ e.once = l.once /\ e.sup = "none" /\ e.completion = "ok"
    BY ONLY <2>1, l \in Life DEF Life
  <2>3. /\ f \in Life /\ f.stopping = l.stopping /\ (f.signals <=> l.signals)
        /\ f.starting = l.starting /\ f.opening = "no" /\ f.active = 0 /\ f.run = l.run
        /\ f.once = l.once /\ f.sup = "backoff" /\ f.completion = l.completion
        /\ f.current = l.current
    BY ONLY <2>1, l \in Life DEF Life
  <2>4. PICK k : k = IF l.run = "stopped" THEN e ELSE f
    OBVIOUS
  <2>5. Sets(w, k) /\ UNCHANGED <<utils, on>>
    BY <1>0, <1>4, <2>1, <2>4 DEF Rejected, Retries
  <2>6. /\ k \in Life /\ LifeSound(k) /\ k.active = 0 /\ k.run = l.run
        /\ k.starting = l.starting /\ k.stopping = l.stopping
    BY ONLY <1>0, <1>4, <2>0, <2>2, <2>3, <2>4 DEF LifeSound, Opens, Runs, Hears
  <2>7. life'[w] = k /\ Unseen(w, k)
    BY <1>0, <2>2, <2>3, <2>4, <2>5, <2>6, LifeWritten DEF Unseen, Here
  <2>8. /\ runner' \in [Workers -> [Slots -> Runner]]
        /\ \A x \in Workers \ {w} : runner'[x] = runner[x]
        /\ RunnersSound(w)'
    BY <1>0, <2>6, <2>7, ClearedRunners
  <2>9. Alone(w)
    BY <2>5, <2>6, <2>8, IsAlone DEF Here, Types
  <2>10. UtilsSound(w)'
    BY <1>0, <2>5, <2>6, <2>7, UtilsStay DEF Here, WorkerSound
  <2> QED BY <2>6, <2>7, <2>8, <2>9, <2>10, UnseenIsFine DEF Good, WorkerSound
<1> QED BY <1>2, <1>3, <1>4

LEMMA TablesKeep ==
  ASSUME NEW w \in Workers, Here(w), TablesAnswer(w)
  PROVE  Good(w)
<1>0. PICK l \in Life : l = life[w] /\ LifeSound(l)
  BY DEF Here, Types, WorkerSound
<1>1. l.opening = "tables" /\ l.active = 0
  BY <1>0 DEF TablesAnswer, LifeSound, Opens, Runs
<1>2. CASE Prepared(w, TRUE) /\ UNCHANGED <<db, tables, utils, on>>
  BY <1>0, <1>1, <1>2, PreparedKeeps DEF Here, Types
<1>3. CASE /\ Sets(w, [life[w] EXCEPT !.opening = "migrating"])
           /\ IF MayCache(utils[w]) THEN Caches(w, "making") ELSE UNCHANGED utils
           /\ UNCHANGED <<db, runner, tables, on>>
  <2>1. PICK k : k = [l EXCEPT !.opening = "migrating"]
    OBVIOUS
  <2>2. /\ k \in Life /\ k.stopping = l.stopping /\ (k.signals <=> l.signals)
        /\ k.starting = l.starting /\ k.opening = "migrating" /\ k.active = l.active
        /\ k.run = l.run /\ k.once = l.once /\ k.sup = l.sup
        /\ k.completion = l.completion /\ k.current = l.current
    BY ONLY <2>1, l \in Life DEF Life
  <2>3. LifeSound(k) /\ Unseen(w, k)
    <3>1. LifeSound(k)
      BY ONLY <1>0, <1>1, <2>2 DEF LifeSound, Opens, Runs, Hears
    <3> QED BY <1>0, <1>3, <2>2, <3>1 DEF Unseen
  <2>4. /\ utils' \in [Workers -> Utils] /\ utils'[w].releasing = utils[w].releasing
        /\ utils[w].releasing # "no" => utils'[w] = utils[w]
        /\ \A x \in Workers \ {w} : utils'[x] = utils[x]
    <3>1. utils[w] \in Utils /\ utils \in [Workers -> Utils]
      BY DEF Here, Types
    <3>2. PICK u : u = [utils[w] EXCEPT !.cached = "making"]
      OBVIOUS
    <3>3. u \in Utils /\ u.releasing = utils[w].releasing
      BY ONLY <3>1, <3>2 DEF Utils
    <3>4. CASE MayCache(utils[w])
      <4>1. utils' = [utils EXCEPT ![w] = u]
        BY <1>3, <3>1, <3>2, <3>4 DEF Caches
      <4> QED BY <3>3, <3>4, <4>1, UtilsWritten DEF MayCache, Here
    <3>5. CASE ~MayCache(utils[w])
      BY <1>3, <3>1, <3>5
    <3> QED BY <3>4, <3>5
  <2>5. Alone(w) /\ life'[w] = k
    BY <1>0, <1>3, <2>1, <2>2, <2>4, IsAlone DEF Here, Types
  <2>6. RunnersSound(w)'
    BY <1>0, <1>3, <2>2, <2>5, RunnersStay DEF Here, WorkerSound
  <2>7. UtilsSound(w)'
    BY <1>0, <2>2, <2>4, <2>5 DEF Here, WorkerSound, UtilsSound
  <2> QED BY <2>3, <2>5, <2>6, <2>7, UnseenIsFine DEF Good, WorkerSound
<1>4. CASE Rejected(w, life[w]) /\ UNCHANGED <<db, runner, tables>>
  BY <1>0, <1>1, <1>4, RejectedKeeps DEF Clears
<1> QED BY <1>2, <1>3, <1>4 DEF TablesAnswer

LEMMA MigrationKeeps ==
  ASSUME NEW w \in Workers, Here(w), MigrationEnds(w)
  PROVE  Good(w)
<1>0. PICK l \in Life : l = life[w] /\ LifeSound(l)
  BY DEF Here, Types, WorkerSound
<1>1. l.opening = "migrating" /\ l.active = 0
  BY <1>0 DEF MigrationEnds, LifeSound, Opens, Runs
<1>2. CASE /\ Prepared(w, TRUE) \/ Prepared(w, FALSE)
           /\ tables' \in BOOLEAN /\ UNCHANGED <<db, utils, on>>
  BY <1>0, <1>1, <1>2, PreparedKeeps
<1>3. CASE Rejected(w, life[w]) /\ UNCHANGED <<db, runner, tables>>
  BY <1>0, <1>1, <1>3, RejectedKeeps DEF Clears
<1> QED BY <1>2, <1>3 DEF MigrationEnds, Here, Types

LEMMA UnopenedKeeps ==
  ASSUME NEW w \in Workers, Here(w), RunnerUnopened(w)
  PROVE  Good(w)
<1>1. life[w].opening = "runner" /\ life[w].active # 0
  BY DEF RunnerUnopened, Here, WorkerSound, LifeSound, Opens
<1>2. runner' = [runner EXCEPT ![w][life[w].active] = NoRunner]
  <2>1. Types /\ RunnersSound(w) /\ life[w].active \in Slots
    BY <1>1 DEF Here, WorkerSound, Types, Life
  <2>2. runner[w][life[w].active].pool \in {"ended", "failed", "unopened"}
    BY DEF RunnerUnopened
  <2>3. runner' = [runner EXCEPT ![w][life[w].active] = Left(@)]
    BY DEF RunnerUnopened
  <2> QED BY ONLY <2>1, <2>2, <2>3, LeftIsNone, w \in Workers
<1> QED BY <1>1, <1>2, RejectedKeeps DEF Clears, RunnerUnopened

LEMMA OpenedKeeps ==
  ASSUME NEW w \in Workers, Here(w), RunnerOpened(w)
  PROVE  Good(w)
<1>0. PICK l \in Life : l = life[w] /\ LifeSound(l)
  BY DEF Here, Types, WorkerSound
<1>1. /\ l.opening = "runner" /\ l.active \in Slots /\ l.active # 0 /\ l.once = "no"
      /\ UNCHANGED <<db, tables, utils>>
  BY <1>0 DEF RunnerOpened, LifeSound, Opens, Life
<1>2. CASE l.starting = "yes"
  <2>1. PICK k : k = [l EXCEPT !.starting = "no", !.opening = "no", !.run = "live",
                        !.current = l.active, !.sup = "watching",
                        !.completion = "pending"]
    OBVIOUS
  <2>2. /\ k \in Life /\ k.stopping = l.stopping /\ (k.signals <=> l.signals)
        /\ k.starting = "no" /\ k.opening = "no" /\ k.active = l.active
        /\ k.run = "live" /\ k.once = l.once /\ k.sup = "watching"
        /\ k.completion = "pending" /\ k.current = l.active
    <3>1. k \in Life
      <4>1. PICK m : m = [l EXCEPT !.starting = "no", !.opening = "no", !.run = "live"]
        OBVIOUS
      <4>2. m \in Life
        BY ONLY <4>1, l \in Life DEF Life
      <4>3. PICK a \in Slots : a = l.active
        BY <1>1
      <4>4. PICK c : c = [m EXCEPT !.current = a]
        OBVIOUS
      <4>5. c \in Life
        BY ONLY <4>2, <4>4, a \in Slots DEF Life
      <4>6. k = [c EXCEPT !.sup = "watching", !.completion = "pending"]
        BY ONLY <2>1, <4>1, <4>3, <4>4
      <4> QED BY ONLY <4>5, <4>6 DEF Life
    <3>2. /\ k.stopping = l.stopping /\ (k.signals <=> l.signals)
          /\ k.starting = "no" /\ k.opening = "no" /\ k.active = l.active
          /\ k.run = "live" /\ k.once = l.once /\ k.sup = "watching"
          /\ k.completion = "pending" /\ k.current = l.active
      BY ONLY <2>1, l \in Life DEF Life
    <3> QED BY <3>1, <3>2
  <2>3. Sets(w, k) /\ Answer("start", w, "ok") /\ runner' = runner
    BY <1>0, <1>2, <2>1 DEF RunnerOpened
  <2>4. LifeSound(k) /\ l.run = "none"
    BY ONLY <1>0, <1>1, <1>2, <2>2 DEF LifeSound, Opens, Runs, Hears, Life
  <2>5. /\ on' \in [Calls -> [Workers -> Replies]] /\ on'["start"][w] = "ok"
        /\ \A x \in Workers \ {w}, b \in Calls : on'[b][x] = on[b][x]
    <3>1. "start" \in Calls /\ "ok" \in Replies /\ on["start"][w] = "wait"
      BY <1>0, <1>2 DEF Calls, Replies, Here, Member
    <3> QED BY <2>3, <3>1, Answered DEF Here
  <2>6. Alone(w) /\ life'[w] = k
    BY <1>1, <2>2, <2>3, <2>5, IsAlone DEF Here, Types
  <2>7. RunnersSound(w)' /\ UtilsSound(w)'
    BY <1>0, <1>1, <1>2, <2>2, <2>3, <2>4, <2>6, RunnersStay, UtilsStay DEF Here, WorkerSound
  <2>8. LeavesNothing(w) /\ Abides(w)
    BY <1>0, <1>1, <1>2, <2>2, <2>4, <2>5, <2>6
    DEF LeavesNothing, Abides, WillRun, Dooms, Here, Member
  <2> QED BY <2>4, <2>6, <2>7, <2>8 DEF Good, WorkerSound
<1>3. CASE l.starting # "yes"
  <2>0. l.sup = "starting" /\ l.run \in {"live", "stopped"} /\ l.starting = "no"
    BY ONLY <1>0, <1>1, <1>3 DEF LifeSound, Opens, Runs, Life
  <2>1. PICK k : k = Opened(l)
    OBVIOUS
  <2>2. /\ k \in Life /\ k.stopping = l.stopping /\ (k.signals <=> l.signals)
        /\ k.starting = l.starting /\ k.opening = "no" /\ k.active = l.active
        /\ k.run = l.run /\ k.once = l.once /\ k.completion = l.completion
        /\ k.sup = IF l.run = "stopped" THEN "stopping" ELSE "watching"
        /\ l.run # "stopped" => k.current = l.active
    <3>1. CASE l.run = "stopped"
      <4>1. k = [l EXCEPT !.sup = "stopping", !.opening = "no"]
        BY ONLY <2>1, <3>1 DEF Opened
      <4>2. k \in Life
        BY ONLY <4>1, l \in Life DEF Life
      <4>3. /\ k.stopping = l.stopping /\ (k.signals <=> l.signals)
            /\ k.starting = l.starting /\ k.opening = "no" /\ k.active = l.active
            /\ k.run = l.run /\ k.once = l.once /\ k.completion = l.completion
            /\ k.sup = "stopping"
        BY ONLY <4>1, l \in Life DEF Life
      <4> QED BY ONLY <3>1, <4>2, <4>3
    <3>2. CASE l.run # "stopped"
      <4>1. PICK m : m = [l EXCEPT !.sup = "watching", !.opening = "no"]
        OBVIOUS
      <4>2. PICK a \in Slots : a = l.active
        BY <1>1
      <4>3. k = [m EXCEPT !.current = a]
        BY ONLY <2>1, <3>2, <4>1, <4>2 DEF Opened
      <4>4. m \in Life
        BY ONLY <4>1, l \in Life DEF Life
      <4>5. k \in Life
        BY ONLY <4>3, <4>4, a \in Slots DEF Life
      <4>6. /\ m.stopping = l.stopping /\ (m.signals <=> l.signals)
            /\ m.starting = l.starting /\ m.opening = "no" /\ m.active = l.active
            /\ m.run = l.run /\ m.once = l.once /\ m.completion = l.completion
            /\ m.sup = "watching"
        BY ONLY <4>1, l \in Life DEF Life
      <4>7. /\ k.stopping = m.stopping /\ (k.signals <=> m.signals)
            /\ k.starting = m.starting /\ k.opening = m.opening /\ k.active = m.active
            /\ k.run = m.run /\ k.once = m.once /\ k.completion = m.completion
            /\ k.sup = m.sup /\ k.current = a
        BY ONLY <4>3, <4>4 DEF Life
      <4> QED BY ONLY <3>2, <4>2, <4>5, <4>6, <4>7
    <3> QED BY <3>1, <3>2
  <2>3. /\ Sets(w, k) /\ on' = on
        /\ runner' = IF k.sup = "stopping"
                     THEN [runner EXCEPT ![w][l.active] = Stopped(@)] ELSE runner
    BY <1>0, <1>3, <2>1 DEF RunnerOpened
  <2>4. LifeSound(k) /\ Unseen(w, k)
    <3>1. LifeSound(k)
      BY ONLY <1>0, <1>1, <2>0, <2>2 DEF LifeSound, Opens, Runs, Hears
    <3> QED BY <1>0, <2>2, <2>3, <3>1 DEF Unseen
  <2>5. /\ runner' \in [Workers -> [Slots -> Runner]]
        /\ \A x \in Workers \ {w} : runner'[x] = runner[x]
        /\ life'[w] = k => RunnersSound(w)'
    <3>1. CASE k.sup # "stopping"
      BY <1>0, <2>2, <2>3, <3>1, RunnersStay DEF Here, WorkerSound, Types
    <3>2. CASE k.sup = "stopping"
      <4>1. PICK r : r = Stopped(runner[w][l.active])
        OBVIOUS
      <4>2. runner[w][l.active] \in Runner
        BY <1>1 DEF Here, Types
      <4>3. r \in Runner /\ r.asked /\ Stilled(r)
        <5>1. r \in Runner /\ r.asked
          BY <4>1, <4>2 DEF Runner, Stopped
        <5>2. r.pool \in {runner[w][l.active].pool, "draining"} /\ r.maint = runner[w][l.active].maint
          BY ONLY <4>1, <4>2 DEF Runner, Stopped
        <5>3. Stilled(runner[w][l.active])
          BY <1>1 DEF Here, WorkerSound, RunnersSound
        <5> QED BY ONLY <5>1, <5>2, <5>3 DEF Stilled
      <4>4. runner' = [runner EXCEPT ![w][l.active] = r]
        BY <1>1, <2>3, <3>2, <4>1 DEF Here, Types
      <4>5. k.run = "stopped"
        BY <2>2, <3>2
      <4>6. life'[w] = k => RunnersSound(w)'
        <5>1. Types /\ RunnersSound(w) /\ w \in Workers
          BY DEF Here, WorkerSound
        <5>2. life[w].active = l.active /\ k.active = l.active
          BY <1>0, <2>2
        <5> QED BY ONLY <1>1, <4>3, <4>4, <4>5, <5>1, <5>2, RunnersFollow
      <4> QED BY <1>1, <4>3, <4>4, <4>6, RunnerWritten DEF Here
    <3> QED BY <3>1, <3>2
  <2>6. Alone(w) /\ life'[w] = k
    BY <1>1, <2>2, <2>3, <2>5, IsAlone DEF Here, Types
  <2>7. UtilsSound(w)'
    BY <1>0, <1>1, <2>2, <2>6, UtilsStay DEF Here, WorkerSound
  <2> QED BY <2>4, <2>5, <2>6, <2>7, UnseenIsFine DEF Good, WorkerSound
<1> QED BY <1>2, <1>3

(* Every step of a worker is good. *)
LEMMA WorkerKeeps ==
  ASSUME NEW w \in Workers, Here(w), LifecycleNext(w)
  PROVE  Good(w)
BY TablesKeep, MigrationKeeps, OpenedKeeps, UnopenedKeeps, SupervisingKeeps, StoppingKeeps,
   QueuedStartKeeps, OnceKeeps, MakeKeeps
DEF LifecycleNext, Starting

---------------------------------------------------------------------------
(* The runners' own steps. *)

LEMMA BecomesSound ==
  ASSUME PoolInv, NEW w \in Workers, NEW s \in Slots, NEW r \in Runner, Becomes(w, s, r),
         runner[w][s] # NoRunner, r.asked = runner[w][s].asked, r.pool = "ended" => r.asked,
         Stilled(r), life' = life
  PROVE  /\ db' = db /\ runner' \in [Workers -> [Slots -> Runner]]
         /\ \A x \in Workers : RunnersSound(x)'
<1>1. /\ runner' = [runner EXCEPT ![w][s] = r] /\ db' = db
      /\ runner' \in [Workers -> [Slots -> Runner]]
      /\ \A x \in Workers \ {w} : runner'[x] = runner[x]
  BY RunnerWritten DEF PoolInv, Becomes
<1>2. RunnersSound(w) /\ life[w].active = s
  BY DEF PoolInv, WorkerSound, RunnersSound
<1>3. life[w].run # "stopped" => ~r.asked
  BY <1>2 DEF RunnersSound
<1>4. RunnersSound(w)'
  BY <1>1, <1>2, <1>3, RunnersFollow DEF PoolInv
<1>5. \A x \in Workers \ {w} : RunnersSound(x)'
  BY <1>1 DEF PoolInv, WorkerSound, RunnersSound
<1> QED BY <1>1, <1>4, <1>5

(* A runner that does something is none that is not there. *)
LEMMA RunnersMove ==
  ASSUME PoolInv, Disturbed \/ RunnerNext, life' = life
  PROVE  /\ db' \in {"up", "down"} /\ runner' \in [Workers -> [Slots -> Runner]]
         /\ \A x \in Workers : RunnersSound(x)'
<1>1. ASSUME NEW w \in Workers, NEW s \in Slots,
             \/ Breaks(w, s) \/ TimerFires(w, s) \/ ConnectionDrops(w, s)
             \/ RunResolves(w, s) \/ RunRejects(w, s) \/ Drains(w, s)
             \/ PassEnds(w, s) \/ MaintenanceStops(w, s)
      PROVE  /\ db' = db /\ runner' \in [Workers -> [Slots -> Runner]]
             /\ \A x \in Workers : RunnersSound(x)'
  <2>1. PICK q \in Runner : q = runner[w][s]
    BY DEF PoolInv, Types
  <2>2. PICK r \in Runner : /\ Becomes(w, s, r) /\ r.asked = q.asked /\ q # NoRunner
                            /\ (r.pool = "ended" => r.asked) /\ Stilled(r)
    <3>1. (q.pool = "ended" => q.asked) /\ Stilled(q)
      BY <2>1 DEF PoolInv, WorkerSound, RunnersSound
    <3>2. NoRunner.pool = "none" /\ NoRunner.maint = "none"
      BY DEF NoRunner
    <3>3. ASSUME NEW p, Becomes(w, s, [q EXCEPT !.pool = p]),
                 p \in {"draining", "closing"}, q.pool # "none"
          PROVE  \E r \in Runner : /\ Becomes(w, s, r) /\ r.asked = q.asked /\ q # NoRunner
                                   /\ (r.pool = "ended" => r.asked) /\ Stilled(r)
      <4>1. PICK r : r = [q EXCEPT !.pool = p]
        OBVIOUS
      <4>2. r \in Runner /\ r.asked = q.asked /\ r.pool = p /\ Stilled(r)
        BY ONLY <4>1, <3>3, q \in Runner DEF Runner, Stilled
      <4> QED BY <3>2, <3>3, <4>1, <4>2
    <3>4. ASSUME NEW m, Becomes(w, s, [q EXCEPT !.maint = m]),
                 m \in {"passing", "idle", "holding"}, q.maint # "none"
          PROVE  \E r \in Runner : /\ Becomes(w, s, r) /\ r.asked = q.asked /\ q # NoRunner
                                   /\ (r.pool = "ended" => r.asked) /\ Stilled(r)
      <4>1. PICK r : r = [q EXCEPT !.maint = m]
        OBVIOUS
      <4>2. r \in Runner /\ r.asked = q.asked /\ r.pool = q.pool /\ Stilled(r)
        BY ONLY <3>1, <4>1, <3>4, q \in Runner DEF Runner, Stilled
      <4> QED BY <3>1, <3>2, <3>4, <4>1, <4>2
    <3>5. ASSUME NEW p, NEW m, Becomes(w, s, [q EXCEPT !.pool = p, !.maint = m]),
                 p \in {"up", "aborting", "unopened", "ended", "failed"},
                 m \in {"none", "passing", "wanted", "idle", "holding"},
                 q.pool # "none", p = "ended" => q.asked,
                 p \in {"up", "aborting"} \/ m = "none"
          PROVE  \E r \in Runner : /\ Becomes(w, s, r) /\ r.asked = q.asked /\ q # NoRunner
                                   /\ (r.pool = "ended" => r.asked) /\ Stilled(r)
      <4>1. PICK r : r = [q EXCEPT !.pool = p, !.maint = m]
        OBVIOUS
      <4>2. r \in Runner /\ r.asked = q.asked /\ r.pool = p /\ Stilled(r)
        BY ONLY <4>1, <3>5, q \in Runner DEF Runner, Stilled
      <4> QED BY <3>2, <3>5, <4>1, <4>2
    <3>6. CASE Breaks(w, s) \/ Drains(w, s)
      BY <2>1, <3>3, <3>6 DEF Breaks, Drains
    <3>7. CASE TimerFires(w, s) \/ ConnectionDrops(w, s)
      BY <2>1, <3>4, <3>7 DEF TimerFires, ConnectionDrops
    <3>8. CASE PassEnds(w, s)
      BY <2>1, <3>4, <3>8 DEF PassEnds, Kept
    <3>9. CASE RunResolves(w, s)
      <4>1. PICK m : m = IF q.maint = "wanted" THEN "passing" ELSE q.maint
        OBVIOUS
      <4>2. Becomes(w, s, [q EXCEPT !.pool = "up", !.maint = m]) /\ q.pool = "opening"
        BY <2>1, <3>9, <4>1 DEF RunResolves
      <4>3. m \in {"none", "passing", "wanted", "idle", "holding"}
        BY ONLY <4>1, q \in Runner DEF Runner
      <4>4. PICK p : p = "up"
        OBVIOUS
      <4>5. /\ Becomes(w, s, [q EXCEPT !.pool = p, !.maint = m]) /\ q.pool # "none"
            /\ p \in {"up", "aborting", "unopened", "ended", "failed"} /\ p # "ended"
            /\ p \in {"up", "aborting"}
        BY ONLY <4>2, <4>4
      <4> QED BY ONLY <3>5, <4>3, <4>5
    <3>10. CASE RunRejects(w, s)
      <4>1. PICK m \in {"none", "passing"} :
              Becomes(w, s, [q EXCEPT !.pool = "aborting", !.maint = m]) /\ q.pool = "opening"
        BY <2>1, <3>10 DEF RunRejects
      <4>2. PICK p : p = "aborting"
        OBVIOUS
      <4>3. /\ Becomes(w, s, [q EXCEPT !.pool = p, !.maint = m]) /\ q.pool # "none"
            /\ p \in {"up", "aborting", "unopened", "ended", "failed"} /\ p # "ended"
            /\ m \in {"none", "passing", "wanted", "idle", "holding"}
            /\ p \in {"up", "aborting"}
        BY ONLY <4>1, <4>2
      <4> QED BY ONLY <3>5, <4>3
    <3>11. CASE MaintenanceStops(w, s)
      <4>1. PICK p : p = IF q.pool = "aborting" THEN "unopened" ELSE Outcome(q)
        OBVIOUS
      <4>2. Becomes(w, s, [q EXCEPT !.pool = p, !.maint = "none"]) /\ q.pool # "none"
        BY <2>1, <3>11, <4>1 DEF MaintenanceStops
      <4>3. p \in {"unopened", "ended", "failed"} /\ (p = "ended" => q.asked)
        BY ONLY <4>1 DEF Outcome
      <4> QED BY <3>5, <4>2, <4>3
    <3> QED BY <1>1, <3>6, <3>7, <3>8, <3>9, <3>10, <3>11
  <2> QED BY <2>1, <2>2, BecomesSound
<1>2. CASE DatabaseGoes \/ DatabaseReturns
  BY <1>2 DEF DatabaseGoes, DatabaseReturns, PoolInv, Types, WorkerSound, RunnersSound
<1> QED
  BY <1>1, <1>2 DEF PoolInv, Types, Disturbed, RunnerNext

---------------------------------------------------------------------------
(* Steps of the pool. *)

(* A good step of one worker, whose failure raises the alarm if it is      *)
(* watched.                                                                *)
LEMMA PoolFollows ==
  ASSUME PoolInv, NEW w \in Workers, Good(w),
         members' = members, idle' = idle, call' = call, crossed' = crossed,
         events' \in 0..MaxEvents, alarm' \in BOOLEAN, alarm => alarm',
         watched' \in [Workers -> Watches],
         \A x \in Workers : watched[x] = "completion" /\ life'[x].completion = "pending" =>
                              watched'[x] = "completion",
         watched[w] = "completion" /\ life[w].run = "live" /\ life'[w].completion = "failed" =>
           alarm'
  PROVE  PoolInv' /\ \A x \in Workers : LeavesNothing(x)
<1>1. Types'
  BY DEF PoolInv, Types, Good, Alone
<1>2. \A x \in Workers \ {w} :
        /\ life'[x] = life[x] /\ runner'[x] = runner[x] /\ utils'[x] = utils[x]
        /\ on'["start"][x] = on["start"][x]
  BY DEF Good, Alone, Calls
<1>3. \A x \in Workers : WorkerSound(x)'
  <2>1. ASSUME NEW x \in Workers \ {w} PROVE WorkerSound(x)'
    BY <1>2 DEF PoolInv, WorkerSound, RunnersSound, UtilsSound
  <2> QED BY <2>1 DEF Good
<1>4. \A x \in Workers : LeavesNothing(x)
  <2>1. ASSUME NEW x \in Workers \ {w} PROVE LeavesNothing(x)
    BY <1>2 DEF LeavesNothing
  <2> QED BY <2>1 DEF Good
<1>5. \A x \in Workers : life'[x].run = "live" => life'[x].completion = "pending"
  BY <1>3 DEF WorkerSound, LifeSound, Runs
<1>6. \A x \in Workers : life'[x].run # "none" /\ life'[x].stopping = "no" => life'[x].run = "live"
  BY <1>1, <1>3 DEF WorkerSound, LifeSound, Runs, Types, Life
<1>7. \A x \in Workers : Member(x)'
  <2>1. ASSUME NEW x \in Workers \ {w} PROVE Member(x)'
    BY <1>2, <1>5, <1>6 DEF PoolInv, Member
  <2>2. Member(w)'
    BY <1>5, <1>6 DEF PoolInv, Member, Good, Abides
  <2> QED BY <2>1, <2>2
<1>8. Together'
  <2> SUFFICES ASSUME Several, ~crossed
               PROVE  (MustStop \/ (\A x \in members : WillRun(x))
                                \/ (\A x \in members : ~WillRun(x)))'
    BY DEF Together, Several
  <2>1. \A x \in Workers \ {w} : (Dooms(x)' <=> Dooms(x)) /\ (WillRun(x)' <=> WillRun(x))
    BY <1>2 DEF Dooms, WillRun
  <2>2. /\ Dooms(w) => Dooms(w)'
        /\ WillRun(w)' => WillRun(w)
        /\ w \in members /\ WillRun(w) /\ ~WillRun(w)' => Dooms(w)' \/ alarm'
    BY DEF Good, Abides, PoolInv, Member
  <2>3. members \subseteq Workers
    BY DEF PoolInv, Types
  <2>4. CASE MustStop
    BY <2>1, <2>2, <2>3, <2>4 DEF MustStop
  <2>5. CASE \A x \in members : WillRun(x)
    BY <2>1, <2>2, <2>3, <2>5 DEF MustStop
  <2>6. CASE \A x \in members : ~WillRun(x)
    BY <2>1, <2>2, <2>3, <2>6
  <2> QED BY <2>4, <2>5, <2>6 DEF PoolInv, Together
<1> QED BY <1>1, <1>3, <1>4, <1>7, <1>8 DEF PoolInv

LEMMA WorkerStepKeeps ==
  ASSUME PoolInv, NEW w \in Workers, WorkerStep(w, LifecycleNext)
  PROVE  PoolInv' /\ \A x \in Workers : LeavesNothing(x)
<1>1. Good(w)
  BY WorkerKeeps DEF WorkerStep, Here, PoolInv
<1>2. PICK b \in BOOLEAN : b = (alarm \/ \E x \in Workers : Rang(x)) /\ alarm' = b
  BY DEF WorkerStep
<1>3. /\ members' = members /\ idle' = idle /\ call' = call /\ crossed' = crossed
      /\ events' = events
      /\ watched' = [x \in Workers |-> IF Unsettled(x) THEN watched[x] ELSE "nothing"]
  BY DEF WorkerStep
<1>4. watched' \in [Workers -> Watches]
  BY <1>3 DEF PoolInv, Types, Watches
<1>5. \A x \in Workers : watched[x] = "completion" /\ life'[x].completion = "pending" =>
                           watched'[x] = "completion"
  BY <1>3 DEF Unsettled
<1>6. watched[w] = "completion" /\ life[w].run = "live" /\ life'[w].completion = "failed" => alarm'
  BY <1>2 DEF Rang
<1>7. alarm => alarm'
  BY <1>2
<1> QED BY <1>1, <1>2, <1>3, <1>4, <1>5, <1>6, <1>7, PoolFollows DEF PoolInv, Types

LEMMA GetUtilsStepKeeps ==
  ASSUME PoolInv, NEW w \in Workers, GetUtils(w), UNCHANGED poolVars,
         events' \in 0..MaxEvents
  PROVE  PoolInv' /\ \A x \in Workers : LeavesNothing(x)
<1>1. Good(w) /\ life' = life
  BY GetUtilsKeeps DEF Here, PoolInv, GetUtils
<1>2. life[w].run = "live" => life[w].completion = "pending"
  BY DEF PoolInv, WorkerSound, LifeSound, Runs
<1>3. /\ members' = members /\ idle' = idle /\ call' = call /\ crossed' = crossed
      /\ alarm' = alarm /\ watched' = watched
  BY DEF poolVars
<1> QED BY <1>1, <1>2, <1>3, PoolFollows DEF PoolInv, Types

LEMMA RunnerStepKeeps ==
  ASSUME PoolInv, Disturbed \/ RunnerNext, UNCHANGED <<lifeVars, poolVars>>,
         events' \in 0..MaxEvents
  PROVE  PoolInv' /\ \A x \in Workers : LeavesNothing(x)
<1>1. /\ life' = life /\ utils' = utils /\ on' = on /\ tables' = tables
      /\ members' = members /\ idle' = idle /\ call' = call /\ crossed' = crossed
      /\ alarm' = alarm /\ watched' = watched
  BY DEF lifeVars, poolVars
<1>2. /\ db' \in {"up", "down"} /\ runner' \in [Workers -> [Slots -> Runner]]
      /\ \A x \in Workers : RunnersSound(x)'
  BY <1>1, RunnersMove
<1>3. Types'
  BY <1>1, <1>2 DEF PoolInv, Types
<1>4. \A x \in Workers : WorkerSound(x)' /\ Member(x)' /\ LeavesNothing(x)
  BY <1>1, <1>2 DEF PoolInv, WorkerSound, UtilsSound, Member, LeavesNothing
<1>5. Together' /\ (idle' => members' = {})
  BY <1>1 DEF PoolInv, Together, Several, MustStop, Dooms, WillRun
<1> QED BY <1>3, <1>4, <1>5 DEF PoolInv

(* One call to several workers. *)
LEMMA EachSound ==
  ASSUME PoolInv, NEW ws \in SUBSET Workers, NEW after, Each(ws, after),
         UNCHANGED <<db, runner, tables, utils>>,
         \A w \in ws : /\ after[w] \in Life /\ LifeSound(after[w])
                       /\ after[w].active = life[w].active /\ after[w].run = life[w].run
                       /\ after[w].starting = "releasing" <=> life[w].starting = "releasing"
                       /\ after[w].stopping = "releasing" <=> life[w].stopping = "releasing"
                       /\ after[w].stopping = "no" => life[w].stopping = "no"
  PROVE  /\ life' \in [Workers -> Life]
         /\ \A w \in Workers : life'[w] = IF w \in ws THEN after[w] ELSE life[w]
         /\ \A w \in Workers : WorkerSound(w)' /\ LeavesNothing(w)
<1>1. \A w \in Workers : life'[w] = IF w \in ws THEN after[w] ELSE life[w]
  BY DEF Each
<1>2. life' \in [Workers -> Life]
  BY DEF Each, PoolInv, Types
<1>3. ASSUME NEW w \in Workers PROVE WorkerSound(w)' /\ LeavesNothing(w)
  <2>1. WorkerSound(w)
    BY DEF PoolInv
  <2>2. CASE w \in ws
    <3>1. /\ LifeSound(life'[w])
          /\ life'[w].active = life[w].active /\ life'[w].run = life[w].run
          /\ life'[w].starting = "releasing" <=> life[w].starting = "releasing"
          /\ life'[w].stopping = "releasing" <=> life[w].stopping = "releasing"
          /\ life'[w].stopping = "no" => life[w].stopping = "no"
      BY <1>1, <2>2
    <3>2. RunnersSound(w)' /\ UtilsSound(w)'
      BY <2>1, <3>1, RunnersStay, UtilsStay DEF WorkerSound
    <3> QED BY <3>1, <3>2 DEF WorkerSound, LeavesNothing
  <2>3. CASE w \notin ws
    BY <1>1, <2>1, <2>3 DEF WorkerSound, RunnersSound, UtilsSound, LeavesNothing
  <2> QED BY <2>2, <2>3
<1> QED BY <1>1, <1>2, <1>3

LEMMA ToldSound ==
  ASSUME PoolInv, NEW ws \in SUBSET Workers, Each(ws, ToldToStop),
         UNCHANGED <<db, runner, tables, utils>>
  PROVE  /\ life' \in [Workers -> Life]
         /\ \A w \in Workers : WorkerSound(w)' /\ LeavesNothing(w)
         /\ \A w \in Workers :
              /\ life'[w].run = life[w].run /\ life'[w].starting = life[w].starting
              /\ life'[w].once = life[w].once /\ life'[w].completion = life[w].completion
              /\ life'[w].stopping = IF w \in ws /\ life[w].stopping = "no" THEN "waiting"
                                     ELSE life[w].stopping
<1>1. \A w \in ws : /\ ToldToStop[w] = AfterStop(life[w])
                    /\ life[w] \in Life /\ LifeSound(life[w])
  BY DEF ToldToStop, PoolInv, Types, WorkerSound
<1>2. \A w \in ws :
        /\ ToldToStop[w] \in Life /\ LifeSound(ToldToStop[w])
        /\ ToldToStop[w].active = life[w].active /\ ToldToStop[w].run = life[w].run
        /\ ToldToStop[w].starting = life[w].starting /\ ToldToStop[w].once = life[w].once
        /\ ToldToStop[w].completion = life[w].completion
        /\ ToldToStop[w].stopping =
             IF life[w].stopping = "no" THEN "waiting" ELSE life[w].stopping
  BY <1>1, AfterStopSound
<1>3. \A w \in ws :
        /\ ToldToStop[w].starting = "releasing" <=> life[w].starting = "releasing"
        /\ ToldToStop[w].stopping = "releasing" <=> life[w].stopping = "releasing"
        /\ ToldToStop[w].stopping = "no" => life[w].stopping = "no"
  BY <1>2
<1>4. /\ life' \in [Workers -> Life]
      /\ \A w \in Workers : life'[w] = IF w \in ws THEN ToldToStop[w] ELSE life[w]
      /\ \A w \in Workers : WorkerSound(w)' /\ LeavesNothing(w)
  <2>1. \A w \in ws :
          /\ ToldToStop[w] \in Life /\ LifeSound(ToldToStop[w])
          /\ ToldToStop[w].active = life[w].active /\ ToldToStop[w].run = life[w].run
          /\ ToldToStop[w].starting = "releasing" <=> life[w].starting = "releasing"
          /\ ToldToStop[w].stopping = "releasing" <=> life[w].stopping = "releasing"
          /\ ToldToStop[w].stopping = "no" => life[w].stopping = "no"
    BY <1>2, <1>3
  <2> QED BY <2>1, EachSound
<1> QED BY <1>2, <1>4

(* Whoever is told to stop will not run, unless a start is queued. *)
LEMMA StopStep ==
  ASSUME PoolInv, NEW ws \in SUBSET Workers, Each(ws, ToldToStop), Overtakes,
         UNCHANGED <<db, runner, tables, utils, members, watched>>,
         call' \in [CallNames -> CallStates], call'["start"] = call["start"],
         on' \in [Calls -> [Workers -> Replies]], on'["start"] = on["start"],
         alarm' \in BOOLEAN, idle' \in BOOLEAN, idle' => idle, events' \in 0..MaxEvents,
         Several => members \subseteq ws \/
           (alarm' = alarm /\ \A w \in members : WillRun(w) => w \in ws \/ on["start"][w] = "queued")
  PROVE  PoolInv' /\ \A x \in Workers : LeavesNothing(x)
<1>1. /\ life' \in [Workers -> Life]
      /\ \A w \in Workers : WorkerSound(w)' /\ LeavesNothing(w)
      /\ \A w \in Workers :
           /\ life'[w].run = life[w].run /\ life'[w].starting = life[w].starting
           /\ life'[w].once = life[w].once /\ life'[w].completion = life[w].completion
           /\ life'[w].stopping = IF w \in ws /\ life[w].stopping = "no" THEN "waiting"
                                  ELSE life[w].stopping
  BY ToldSound
<1>2. PICK b \in BOOLEAN : /\ b = (crossed \/ (Several /\ \E w \in members : on["start"][w] = "queued"))
                           /\ crossed' = b
  BY DEF Overtakes, Crosses
<1>3. Types'
  BY <1>1, <1>2 DEF PoolInv, Types
<1>4. \A w \in Workers : Member(w)'
  <2> SUFFICES ASSUME NEW w \in Workers PROVE Member(w)'
    OBVIOUS
  <2>1. Member(w) /\ members' = members /\ watched' = watched
    BY DEF PoolInv
  <2> QED BY <1>1, <2>1 DEF Member
<1>5. Together'
  <2> SUFFICES ASSUME Several, ~crossed'
               PROVE  (MustStop \/ (\A x \in members : ~WillRun(x)))'
    BY DEF Together, Several
  <2>1. ~crossed /\ \A w \in members : on["start"][w] # "queued"
    BY <1>2
  <2>2. members \subseteq Workers
    BY DEF PoolInv, Types
  <2>3. \A w \in members : WillRun(w)' => WillRun(w) /\ w \notin ws
    BY <1>1, <2>1, <2>2 DEF WillRun
  <2>4. \A w \in members : Dooms(w) => Dooms(w)'
    BY <1>1, <2>2 DEF Dooms
  <2>5. CASE members \subseteq ws
    BY <2>3, <2>5
  <2>6. CASE ~(members \subseteq ws)
    BY <2>1, <2>3, <2>6
  <2> QED BY <2>5, <2>6
<1> QED BY <1>1, <1>3, <1>4, <1>5 DEF PoolInv

LEMMA CreatedAre ==
  ASSUME PoolInv
  PROVE  Created \in SUBSET Workers /\ members \subseteq Created
BY WorkerPoolAssumption, LifecycleAssumption
DEF Created, PoolInv, Types, WorkerPoolAssumption, LifecycleAssumption

LEMMA CallStopKeeps ==
  ASSUME PoolInv, CallStop, events' \in 0..MaxEvents
  PROVE  PoolInv' /\ \A x \in Workers : LeavesNothing(x)
<1>1. Created \in SUBSET Workers /\ members \subseteq Created
  BY CreatedAre
<1>2. on' \in [Calls -> [Workers -> Replies]] /\ on'["start"] = on["start"]
  <2>1. Stops \in [Workers -> Replies] /\ on' = [on EXCEPT !["stop"] = Stops]
    BY DEF Stops, Replies, CallStop
  <2> QED BY <2>1 DEF PoolInv, Types, Calls
<1>3. call' \in [CallNames -> CallStates] /\ call'["start"] = call["start"]
  BY DEF CallStop, Turns, PoolInv, Types, CallNames, CallStates
<1>4. /\ Each(Created, ToldToStop) /\ Overtakes /\ idle' = FALSE
      /\ UNCHANGED <<db, runner, tables, utils, members, watched, alarm>>
  BY DEF CallStop
<1> QED BY <1>1, <1>2, <1>3, <1>4, StopStep DEF PoolInv, Types

LEMMA AlarmKeeps ==
  ASSUME PoolInv, Alarm, events' \in 0..MaxEvents
  PROVE  PoolInv' /\ \A x \in Workers : LeavesNothing(x)
<1>1. /\ Each(members, ToldToStop) /\ Overtakes /\ alarm' = FALSE
      /\ UNCHANGED <<db, runner, tables, utils, members, idle, on, call, watched>>
  BY DEF Alarm
<1> QED BY <1>1, StopStep DEF PoolInv, Types

LEMMA SignalKeeps ==
  ASSUME PoolInv, Signal, events' \in 0..MaxEvents
  PROVE  PoolInv' /\ \A x \in Workers : LeavesNothing(x)
<1>1. /\ Each(Listening, ToldToStop) /\ Overtakes /\ idle' = FALSE /\ Listening # {}
      /\ UNCHANGED <<db, runner, tables, utils, members, on, call, watched, alarm>>
  BY DEF Signal
<1>2. Listening \in SUBSET Workers
  BY CreatedAre DEF Listening
<1>3. \A w \in Workers : LifeSound(life[w]) /\ life[w] \in Life
  BY DEF PoolInv, WorkerSound, Types
<1>4. HandleSignals
  BY <1>1, <1>3 DEF Listening, LifeSound, Hears
<1>5. ASSUME NEW w \in members, WillRun(w), on["start"][w] # "queued"
      PROVE  w \in Listening
  <2>1. w \in Workers
    BY DEF PoolInv, Types
  <2>2. life[w].starting = "yes" \/ life[w].run = "live"
    BY <1>3, <1>5, <2>1 DEF WillRun, LifeSound, Runs, Life
  <2>3. life[w].signals
    BY <1>3, <1>4, <2>1, <2>2 DEF LifeSound, Hears
  <2> QED BY <2>1, <2>3 DEF Listening
<1> QED BY <1>1, <1>2, <1>5, StopStep DEF PoolInv, Types

LEMMA SettleKeeps ==
  ASSUME PoolInv, NEW c \in CallNames, NEW from \in CallStates, Settle(c, from),
         c = "start" => from = "undo"
  PROVE  PoolInv' /\ \A x \in Workers : LeavesNothing(x)
<1>1. /\ UNCHANGED <<db, runner, tables, utils, members, crossed, idle, watched, alarm,
                     life, events>>
      /\ call[c] = from /\ call' = [call EXCEPT ![c] = "idle"]
      /\ on' = [on EXCEPT ![IF from = "undo" THEN from ELSE c] = NoAnswers]
  BY DEF Settle, Turns, quiet, inner
<1>2. on' \in [Calls -> [Workers -> Replies]] /\ on'["start"] = on["start"]
  <2>1. NoAnswers \in [Workers -> Replies]
    BY DEF NoAnswers, Replies
  <2>2. PICK d \in Calls \ {"start"} : on' = [on EXCEPT ![d] = NoAnswers]
    BY <1>1 DEF CallNames, CallStates, Calls
  <2> QED BY <2>1, <2>2 DEF PoolInv, Types, Calls
<1>3. /\ call' \in [CallNames -> CallStates]
      /\ call'["start"] = call["start"] \/ (call["start"] = "undo" /\ call'["start"] = "idle")
  BY <1>1 DEF PoolInv, Types, CallNames, CallStates
<1>4. Types'
  BY <1>1, <1>2, <1>3 DEF PoolInv, Types
<1>5. ASSUME NEW x \in Workers PROVE WorkerSound(x)' /\ Member(x)' /\ LeavesNothing(x)
  <2>1. WorkerSound(x) /\ Member(x)
    BY DEF PoolInv
  <2>2. WorkerSound(x)'
    BY <1>1, <2>1 DEF WorkerSound, RunnersSound, UtilsSound
  <2>3. Member(x)'
    BY <1>1, <1>2, <1>3, <2>1 DEF Member
  <2> QED BY <1>1, <2>2, <2>3 DEF LeavesNothing
<1>6. Together' /\ (idle' => members' = {})
  BY <1>1, <1>2 DEF PoolInv, Together, Several, MustStop, Dooms, WillRun
<1> QED BY <1>4, <1>5, <1>6 DEF PoolInv

LEMMA CallStartKeeps ==
  ASSUME PoolInv, CallStart, events' \in 0..MaxEvents
  PROVE  PoolInv' /\ \A x \in Workers : LeavesNothing(x)
<1> DEFINE after == [w \in Workers |-> AfterStart(life[w])]
           reply == [w \in Workers |-> StartReply(life[w])]
<1>1. /\ Each(members, after) /\ on' = [on EXCEPT !["start"] = Asked(reply)]
      /\ UNCHANGED <<db, runner, tables, utils, members, crossed, watched, alarm>>
      /\ call["start"] = "idle" /\ call' = [call EXCEPT !["start"] = "workers"]
  BY DEF CallStart, Turns, inner
<1>2. members \in SUBSET Workers /\ \A w \in Workers : life[w] \in Life /\ LifeSound(life[w])
  BY DEF PoolInv, Types, WorkerSound
<1>3. \A w \in Workers : on["start"][w] = "no" /\ life[w].starting = "no"
  BY <1>1 DEF PoolInv, Member
<1>4. \A w \in Workers :
        /\ after[w] = AfterStart(life[w]) /\ reply[w] = StartReply(life[w])
        /\ reply[w] \in {"queued", "failed", "ok", "wait"}
        /\ reply[w] = "queued" <=> life[w].stopping # "no"
        /\ reply[w] = "ok" => life[w].run # "none"
        /\ life[w].run # "none" /\ life[w].stopping = "no" => reply[w] = "ok"
  <2>1. ASSUME NEW w \in Workers, NEW l, l = life[w], NEW r, r = StartReply(l)
        PROVE  /\ r \in {"queued", "failed", "ok", "wait"}
               /\ r = "queued" <=> l.stopping # "no"
               /\ r = "ok" => l.run # "none"
               /\ l.run # "none" /\ l.stopping = "no" => r = "ok"
    <3>1. l.run # "none" => l.once = "no"
      BY <1>2, <2>1 DEF LifeSound, Opens
    <3>2. l.starting = "no"
      BY <1>3, <2>1
    <3> QED BY ONLY <2>1, <3>1, <3>2 DEF StartReply
  <2> QED BY <2>1
<1>5. \A w \in members :
        /\ after[w] \in Life /\ LifeSound(after[w])
        /\ after[w].active = life[w].active /\ after[w].run = life[w].run
        /\ after[w].stopping = life[w].stopping /\ after[w].once = life[w].once
        /\ after[w].completion = life[w].completion
        /\ after[w].starting = IF reply[w] = "wait" THEN "yes" ELSE "no"
  BY <1>2, <1>3, <1>4, AfterStartSound
<1> HIDE DEF after, reply
<1>6. /\ life' \in [Workers -> Life]
      /\ \A w \in Workers : life'[w] = IF w \in members THEN after[w] ELSE life[w]
      /\ \A w \in Workers : WorkerSound(w)' /\ LeavesNothing(w)
  <2>1. \A w \in members :
          /\ after[w] \in Life /\ LifeSound(after[w])
          /\ after[w].active = life[w].active /\ after[w].run = life[w].run
          /\ after[w].starting = "releasing" <=> life[w].starting = "releasing"
          /\ after[w].stopping = "releasing" <=> life[w].stopping = "releasing"
          /\ after[w].stopping = "no" => life[w].stopping = "no"
    BY <1>2, <1>3, <1>5
  <2> QED BY <1>1, <1>2, <2>1, EachSound
<1>7. /\ on' \in [Calls -> [Workers -> Replies]]
      /\ \A w \in Workers : on'["start"][w] = IF w \in members THEN reply[w] ELSE "no"
  <2>1. /\ Asked(reply) \in [Workers -> Replies]
        /\ \A w \in Workers : Asked(reply)[w] = IF w \in members THEN reply[w] ELSE "no"
    BY <1>2, <1>4 DEF Asked, Replies
  <2> QED BY <1>1, <2>1 DEF PoolInv, Types, Calls
<1>8. call' \in [CallNames -> CallStates] /\ call'["start"] = "workers"
  BY <1>1 DEF PoolInv, Types, CallNames, CallStates
<1>9. PICK b \in BOOLEAN : idle' = b /\ b = (members = {})
  BY DEF CallStart
<1>10. Types'
  BY <1>1, <1>6, <1>7, <1>8, <1>9 DEF PoolInv, Types
<1>11. ASSUME NEW w \in Workers PROVE Member(w)'
  <2>1. CASE w \in members
    <3>1. /\ life'[w].run = life[w].run /\ life'[w].stopping = life[w].stopping
          /\ life'[w].starting = IF reply[w] = "wait" THEN "yes" ELSE "no"
          /\ on'["start"][w] = reply[w]
      BY <1>5, <1>6, <1>7, <2>1
    <3> QED BY <1>1, <1>4, <1>8, <2>1, <3>1 DEF Member
  <2>2. CASE w \notin members
    BY <1>1, <1>3, <1>6, <1>7, <1>8, <2>2 DEF PoolInv, Member
  <2> QED BY <2>1, <2>2
<1>12. Together'
  <2>1. ASSUME NEW w \in members PROVE Dooms(w)' \/ WillRun(w)'
    <3>1. /\ life'[w].run = life[w].run /\ life'[w].stopping = life[w].stopping
          /\ life'[w].starting = IF reply[w] = "wait" THEN "yes" ELSE "no"
          /\ on'["start"][w] = reply[w] /\ w \in Workers
      BY <1>2, <1>5, <1>6, <1>7
    <3> QED BY <1>4, <3>1 DEF Dooms, WillRun
  <2> QED BY <1>1, <2>1 DEF Together, MustStop
<1> QED BY <1>1, <1>6, <1>9, <1>10, <1>11, <1>12 DEF PoolInv

LEMMA CallOnceKeeps ==
  ASSUME PoolInv, CallOnce, events' \in 0..MaxEvents
  PROVE  PoolInv' /\ \A x \in Workers : LeavesNothing(x)
<1> DEFINE after == [w \in Workers |-> AfterOnce(life[w])]
           reply == [w \in Workers |-> OnceReply(life[w])]
<1>1. /\ Each(members, after) /\ on' = [on EXCEPT !["once"] = Asked(reply)]
      /\ UNCHANGED <<db, runner, tables, utils, members, idle, watched, alarm>>
      /\ call' = [call EXCEPT !["once"] = "workers"]
  BY DEF CallOnce, Turns
<1>2. members \in SUBSET Workers /\ \A w \in Workers : life[w] \in Life /\ LifeSound(life[w])
  BY DEF PoolInv, Types, WorkerSound
<1>3. \A w \in Workers : after[w] = AfterOnce(life[w]) /\ reply[w] \in {"failed", "wait"}
  BY DEF OnceReply
<1>4. \A w \in members :
        /\ after[w] \in Life /\ LifeSound(after[w])
        /\ after[w].active = life[w].active /\ after[w].run = life[w].run
        /\ after[w].stopping = life[w].stopping /\ after[w].starting = life[w].starting
        /\ after[w].completion = life[w].completion
  BY <1>2, <1>3, AfterOnceSound
<1> HIDE DEF after, reply
<1>5. /\ life' \in [Workers -> Life]
      /\ \A w \in Workers : life'[w] = IF w \in members THEN after[w] ELSE life[w]
      /\ \A w \in Workers : WorkerSound(w)' /\ LeavesNothing(w)
  <2>1. \A w \in members :
          /\ after[w] \in Life /\ LifeSound(after[w])
          /\ after[w].active = life[w].active /\ after[w].run = life[w].run
          /\ after[w].starting = "releasing" <=> life[w].starting = "releasing"
          /\ after[w].stopping = "releasing" <=> life[w].stopping = "releasing"
          /\ after[w].stopping = "no" => life[w].stopping = "no"
    BY <1>4
  <2> QED BY <1>1, <1>2, <2>1, EachSound
<1>6. on' \in [Calls -> [Workers -> Replies]] /\ on'["start"] = on["start"]
  <2>1. Asked(reply) \in [Workers -> Replies]
    BY <1>2, <1>3 DEF Asked, Replies
  <2> QED BY <1>1, <2>1 DEF PoolInv, Types, Calls
<1>7. call' \in [CallNames -> CallStates] /\ call'["start"] = call["start"]
  BY <1>1 DEF PoolInv, Types, CallNames, CallStates
<1>8. PICK b \in BOOLEAN : /\ crossed' = b
                           /\ b = (crossed \/ (Several /\ call["start"] = "workers"))
  BY DEF CallOnce, Crosses
<1>9. Types'
  BY <1>1, <1>5, <1>6, <1>7, <1>8 DEF PoolInv, Types
<1>10. \A w \in Workers :
         /\ life'[w].run = life[w].run /\ life'[w].stopping = life[w].stopping
         /\ life'[w].starting = life[w].starting
         /\ w \notin members => life'[w] = life[w]
  BY <1>4, <1>5
<1>11. ASSUME NEW w \in Workers PROVE Member(w)'
  <2>1. Member(w)
    BY DEF PoolInv
  <2> QED BY <1>1, <1>6, <1>7, <1>10, <2>1 DEF Member
<1>12. Together'
  <2> SUFFICES ASSUME Several, ~crossed'
               PROVE  (MustStop \/ (\A x \in members : WillRun(x))
                                \/ (\A x \in members : ~WillRun(x)))'
    BY <1>1 DEF Together, Several
  <2>1. ~crossed /\ call["start"] # "workers"
    BY <1>8
  <2>2. \A w \in members : ~Dooms(w) /\ (WillRun(w)' <=> WillRun(w))
    BY <1>2, <1>6, <1>10, <2>1 DEF PoolInv, Member, Dooms, WillRun
  <2> QED BY <1>1, <2>1, <2>2 DEF PoolInv, Together, MustStop
<1> QED BY <1>1, <1>5, <1>9, <1>11, <1>12 DEF PoolInv

LEMMA UndoKeeps ==
  ASSUME PoolInv, AllSettled("start"), Turns("start", "workers", "undo"),
         on' = [on EXCEPT !["start"] = NoAnswers, !["undo"] = Stops],
         Each(members, ToldToStop), UNCHANGED <<inner, idle, watched, alarm>>,
         events' \in 0..MaxEvents
  PROVE  PoolInv' /\ \A x \in Workers : LeavesNothing(x)
<1>1. /\ UNCHANGED <<db, runner, tables, utils, members, crossed, idle, watched, alarm>>
      /\ call["start"] = "workers" /\ call' = [call EXCEPT !["start"] = "undo"]
      /\ members \in SUBSET Workers
  BY DEF Turns, inner, PoolInv, Types
<1>2. /\ life' \in [Workers -> Life]
      /\ \A w \in Workers : WorkerSound(w)' /\ LeavesNothing(w)
      /\ \A w \in Workers :
           /\ life'[w].run = life[w].run /\ life'[w].starting = life[w].starting
           /\ life'[w].once = life[w].once /\ life'[w].completion = life[w].completion
           /\ life'[w].stopping = IF w \in members /\ life[w].stopping = "no" THEN "waiting"
                                  ELSE life[w].stopping
  BY <1>1, ToldSound
<1>3. /\ on' \in [Calls -> [Workers -> Replies]]
      /\ \A w \in Workers : on'["start"][w] = "no"
  <2>1. /\ NoAnswers \in [Workers -> Replies] /\ \A w \in Workers : NoAnswers[w] = "no"
        /\ Stops \in [Workers -> Replies]
    BY DEF NoAnswers, Stops, Replies
  <2> QED BY <2>1 DEF PoolInv, Types, Calls
<1>4. call' \in [CallNames -> CallStates] /\ call'["start"] = "undo"
  BY <1>1 DEF PoolInv, Types, CallNames, CallStates
<1>5. Types'
  BY <1>1, <1>2, <1>3, <1>4 DEF PoolInv, Types
<1>6. \A w \in Workers : life[w].starting = "no"
  BY DEF AllSettled, PoolInv, Member
<1>7. ASSUME NEW w \in Workers PROVE Member(w)'
  <2>1. Member(w)
    BY DEF PoolInv
  <2> QED BY <1>1, <1>2, <1>3, <1>4, <1>6, <2>1 DEF Member
<1>8. \A w \in members : ~WillRun(w)'
  BY <1>1, <1>2, <1>3 DEF WillRun
<1>9. Together'
  BY <1>1, <1>8 DEF Together
<1> QED BY <1>1, <1>2, <1>5, <1>7, <1>9 DEF PoolInv

LEMMA StartedKeeps ==
  ASSUME PoolInv, AllSettled("start"), ~Failed("start"), Turns("start", "workers", "idle"),
         on' = [on EXCEPT !["start"] = NoAnswers],
         watched' = [w \in Workers |-> PromiseOf(life[w])],
         alarm' = (alarm \/ \E w \in members :
           life[w].once = "no" /\ life[w].completion = "failed"),
         UNCHANGED life, UNCHANGED <<inner, idle>>,
         events' \in 0..MaxEvents
  PROVE  PoolInv' /\ \A x \in Workers : LeavesNothing(x)
<1>1. /\ UNCHANGED <<db, runner, tables, utils, members, crossed, idle, life>>
      /\ call["start"] = "workers" /\ call' = [call EXCEPT !["start"] = "idle"]
      /\ members \in SUBSET Workers
  BY DEF Turns, inner, PoolInv, Types
<1>2. /\ on' \in [Calls -> [Workers -> Replies]]
      /\ \A w \in Workers : on'["start"][w] = "no"
  <2>1. /\ NoAnswers \in [Workers -> Replies] /\ \A w \in Workers : NoAnswers[w] = "no"
    BY DEF NoAnswers, Replies
  <2> QED BY <2>1 DEF PoolInv, Types, Calls
<1>3. call' \in [CallNames -> CallStates] /\ call'["start"] = "idle"
  BY <1>1 DEF PoolInv, Types, CallNames, CallStates
<1>4. PICK b \in BOOLEAN : /\ alarm' = b
                           /\ b = (alarm \/ \E w \in members :
                                life[w].once = "no" /\ life[w].completion = "failed")
  OBVIOUS
<1>5. watched' \in [Workers -> Watches]
  BY DEF PromiseOf, Watches
<1>6. Types'
  BY <1>1, <1>2, <1>3, <1>4, <1>5 DEF PoolInv, Types
<1>7. \A w \in Workers : life[w].starting = "no" /\ on["start"][w] \in {"no", "ok"}
  BY DEF AllSettled, Failed, PoolInv, Member
<1>8. ASSUME NEW w \in Workers PROVE WorkerSound(w)' /\ Member(w)' /\ LeavesNothing(w)
  <2>1. WorkerSound(w) /\ Member(w) /\ life[w] \in Life
    BY DEF PoolInv, Types
  <2>2. WorkerSound(w)' /\ LeavesNothing(w)
    BY <1>1, <2>1 DEF WorkerSound, RunnersSound, UtilsSound, LeavesNothing
  <2>3. life[w].run # "none" /\ life[w].stopping = "no" => watched'[w] = "completion"
    BY <2>1 DEF WorkerSound, LifeSound, Opens, Runs, Life, PromiseOf
  <2> QED BY <1>1, <1>2, <1>3, <1>7, <2>1, <2>2, <2>3 DEF Member
<1>9. Together'
  <2>1. \A w \in members : WillRun(w)' <=> WillRun(w)
    BY <1>1, <1>2, <1>7 DEF WillRun
  <2>2. MustStop => alarm'
    BY <1>1, <1>4, <1>7 DEF MustStop, Dooms
  <2> QED BY <1>1, <2>1, <2>2 DEF PoolInv, Together, Several, MustStop
<1> QED BY <1>1, <1>6, <1>8, <1>9 DEF PoolInv

---------------------------------------------------------------------------
(* The invariant, and what follows from it. *)

LEMMA InitHolds == Init => PoolInv
<1> SUFFICES ASSUME Init PROVE PoolInv
  OBVIOUS
<1> USE DEF Init, LifecycleInit, RunnerInit
<1>1. /\ NoLife \in Life /\ LifeSound(NoLife) /\ NoLife.active = 0 /\ NoLife.run = "none"
      /\ NoLife.starting = "no" /\ NoLife.stopping = "no" /\ NoLife.once = "no"
  BY DEF NoLife, Life, LifeSound, Opens, Runs, Hears
<1>2. /\ NoRunner \in Runner /\ NoRunner.pool = "none" /\ NoRunner.asked = FALSE
      /\ Stilled(NoRunner)
  BY DEF NoRunner, Runner, Stilled
<1>3. Types
  <2>1. events \in 0..MaxEvents
    BY WorkerPoolAssumption DEF WorkerPoolAssumption
  <2>2. runner \in [Workers -> [Slots -> Runner]] /\ life \in [Workers -> Life]
    BY <1>1, <1>2
  <2>3. utils \in [Workers -> Utils]
    BY DEF Utils
  <2>4. on \in [Calls -> [Workers -> Replies]]
    BY DEF Replies
  <2>5. call \in [CallNames -> CallStates] /\ watched \in [Workers -> Watches]
    BY DEF CallNames, CallStates, Watches
  <2> QED BY <2>1, <2>2, <2>3, <2>4, <2>5 DEF Types
<1>4. ASSUME NEW w \in Workers PROVE WorkerSound(w) /\ Member(w)
  <2>1. life[w] = NoLife /\ \A s \in Slots : runner[w][s] = NoRunner
    OBVIOUS
  <2>2. utils[w].cached = "none" /\ utils[w].releasing = "no"
    OBVIOUS
  <2>3. on["start"][w] = "no" /\ call["start"] = "idle"
    BY DEF Calls
  <2>4. WorkerSound(w)
    BY <1>1, <1>2, <2>1, <2>2 DEF WorkerSound, RunnersSound, UtilsSound
  <2> QED BY <1>1, <2>1, <2>3, <2>4 DEF Member
<1>5. \A w \in members : ~WillRun(w)
  <2>1. ASSUME NEW w \in members PROVE ~WillRun(w)
    <3>1. w \in Workers /\ life[w] = NoLife /\ on["start"][w] = "no"
      BY DEF Calls
    <3> QED BY <1>1, <3>1 DEF WillRun
  <2> QED BY <2>1
<1> QED BY <1>3, <1>4, <1>5 DEF PoolInv, Together

LEMMA NextHolds ==
  PoolInv /\ [Next]_vars => PoolInv' /\ \A w \in Workers : LeavesNothing(w)
<1> SUFFICES ASSUME PoolInv, [Next]_vars
             PROVE  PoolInv' /\ \A w \in Workers : LeavesNothing(w)
  OBVIOUS
<1>1. events \in 0..MaxEvents /\ MaxEvents \in Nat
  BY WorkerPoolAssumption DEF PoolInv, Types, WorkerPoolAssumption
<1>2. Created \in SUBSET Workers
  BY CreatedAre
<1>3. CASE Event /\ IF Several THEN events < MaxEvents /\ events' = events + 1
                    ELSE UNCHANGED events
  <2>1. events' \in 0..MaxEvents
    BY <1>1, <1>3
  <2> QED BY <1>2, <1>3, <2>1, RunnerStepKeeps, GetUtilsStepKeeps, CallStartKeeps,
             CallStopKeeps, CallOnceKeeps, SignalKeeps
          DEF Event
<1>4. CASE RunnerStep
  BY <1>1, <1>4, RunnerStepKeeps DEF RunnerStep, Aside
<1>5. CASE \E w \in Created : WorkerStep(w, LifecycleNext)
  BY <1>2, <1>5, WorkerStepKeeps
<1>6. CASE UndoSettles \/ StopSettles \/ StopGivesUp \/ StopTimesOut \/ OnceSettles
  BY <1>6, SettleKeeps
  DEF UndoSettles, StopSettles, StopGivesUp, StopTimesOut, OnceSettles, CallNames, CallStates
<1>7. CASE StartSettles /\ UNCHANGED events
  BY <1>1, <1>7, UndoKeeps, StartedKeeps DEF StartSettles, Undoes
<1>8. CASE Alarm /\ UNCHANGED events
  BY <1>1, <1>8, AlarmKeeps
<1>9. CASE UNCHANGED vars
  <2>1. /\ db' = db /\ runner' = runner /\ UNCHANGED <<lifeVars, poolVars>> /\ events' = events
    BY <1>9 DEF vars
  <2>2. UNCHANGED <<tables, life, utils, on, members, idle, call, watched, alarm, crossed>>
    BY <2>1 DEF lifeVars, poolVars
  <2> QED BY <2>1, <2>2 DEF PoolInv, Types, WorkerSound, RunnersSound, UtilsSound, Member,
             Together, Several, MustStop, Dooms, WillRun, LeavesNothing
<1> QED BY <1>3, <1>4, <1>5, <1>6, <1>7, <1>8, <1>9 DEF Next

LEMMA InvHolds == Spec => []PoolInv
<1>1. PoolInv /\ [Next]_vars => PoolInv'
  BY NextHolds
<1> QED BY <1>1, InitHolds, PTL DEF Spec

(* The variables of the runners, lifecycles, clients and the pool keep     *)
(* their types, and a pool without queues idles only while no worker has   *)
(* a run, for every set of workers and every option.                       *)
THEOREM TypesHold == Spec => []TypeOK
<1>1. PoolInv => TypeOK
  <2> SUFFICES ASSUME PoolInv PROVE TypeOK
    OBVIOUS
  <2>1. DOMAIN call = {"start", "stop", "once"} /\ \A c \in DOMAIN call : call[c] \in {"idle", "workers", "undo"}
    BY DEF PoolInv, Types, CallNames, CallStates
  <2>2. idle => members = {} /\ \A w \in Workers : life[w].run = "none"
    BY DEF PoolInv, Member
  <2>3. {alarm, crossed, idle} \subseteq BOOLEAN
    BY DEF PoolInv, Types
  <2> QED BY <2>1, <2>2, <2>3 DEF PoolInv, Types, TypeOK, Watches
<1> QED BY <1>1, InvHolds, PTL

(* However start(), stop(), runOnce() and restarts of a worker overlap,    *)
(* createLifecycle has one runner at most, and none beside a runOnce().    *)
THEOREM OneRunnerAtATime == Spec => []OneRunner
<1>1. PoolInv => OneRunner
  <2> SUFFICES ASSUME PoolInv, NEW w \in Workers
               PROVE  Cardinality(Alive(w)) <= 1 /\ (life[w].once # "no" => Alive(w) = {})
    BY DEF OneRunner
  <2>1. NoRunner.pool = "none"
    BY DEF NoRunner
  <2>2. \A s \in Alive(w) : s = life[w].active
    BY <2>1 DEF PoolInv, WorkerSound, RunnersSound, Alive
  <2>3. life[w].once # "no" => life[w].active = 0
    BY DEF PoolInv, WorkerSound, LifeSound, Opens, Runs
  <2>4. 0 \notin Alive(w)
    BY RunnerAssumption DEF Alive, RunnerAssumption
  <2>5. Alive(w) = {} \/ Alive(w) = {life[w].active}
    BY <2>2
  <2>6. Cardinality({}) = 0 /\ Cardinality({life[w].active}) = 1
    BY FS_EmptySet, FS_Singleton
  <2> QED BY <2>2, <2>3, <2>4, <2>5, <2>6
<1> QED BY <1>1, InvHolds, PTL

(* Once the calls of a pool have settled and no worker is on its way, all  *)
(* its workers have a run or none has, unless a stop overtook a start that *)
(* was queued or runOnce() came during a start().                          *)
THEOREM AllRunOrNone == Spec => []AllOrNone
<1>1. PoolInv => AllOrNone
  <2> SUFFICES ASSUME PoolInv, Quiet, ~crossed, NEW v \in members, NEW w \in members, v # w
               PROVE  life[v].run = "none" <=> life[w].run = "none"
    BY DEF AllOrNone
  <2>1. Several
    <3>1. members \subseteq Workers /\ IsFiniteSet(members)
      BY WorkerPoolAssumption, FS_Subset DEF PoolInv, Types, WorkerPoolAssumption
    <3>2. {v} \subseteq members /\ {v} # members
      OBVIOUS
    <3>3. Cardinality({v}) = 1 /\ IsFiniteSet({v})
      BY FS_Singleton
    <3>4. Cardinality({v}) < Cardinality(members)
      BY <3>1, <3>2, FS_Subset, FS_CardinalityType
    <3> QED BY <3>1, <3>3, <3>4, FS_CardinalityType DEF Several
  <2>2. v \in Workers /\ w \in Workers
    BY DEF PoolInv, Types
  <2>3. call["start"] = "idle" /\ ~alarm
    BY DEF Quiet, PoolInv, Types, CallNames
  <2>4. \A x \in members : x \in Workers /\ on["start"][x] = "no"
    BY <2>3 DEF PoolInv, Types, Member
  <2>5. \A x \in members : /\ WillRun(x) <=> life[x].run # "none"
                           /\ ~Dooms(x)
    BY <2>4 DEF WillRun, Dooms, Quiet
  <2> QED BY <2>1, <2>3, <2>5 DEF PoolInv, Together, MustStop
<1> QED BY <1>1, InvHolds, PTL

(* Whatever is under way when stop() is called, and wherever a start()     *)
(* fails, no runner, pass of maintenance, held connection, listener or     *)
(* cached utilities outlive the promise.                                   *)
THEOREM NothingOutlivesAStop == Spec => NothingOutlivesStop
<1>1. PoolInv /\ [Next]_vars =>
        [\A w \in Workers :
           \/ life[w].stopping # "no" /\ life'[w].stopping = "no"
           \/ life[w].starting = "releasing" /\ life'[w].starting = "no"
           => Gone(w)]_vars
  BY NextHolds DEF LeavesNothing
<1> QED BY <1>1, InvHolds, PTL DEF Spec, NothingOutlivesStop

=============================================================================
