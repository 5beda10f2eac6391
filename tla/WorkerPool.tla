----------------------------- MODULE WorkerPool -----------------------------
(***************************************************************************)
(* The worker pool of one process: worker-pool.ts calls the lifecycle of   *)
(* every worker that has queues, waits for all of them, undoes a start     *)
(* that failed for one, and stops the rest when one ends for good.  A      *)
(* caller of stop() may give up on it: by a timeout, or when a probe finds *)
(* that the database no longer answers (shutdown.ts).                      *)
(***************************************************************************)
EXTENDS Lifecycle

CONSTANT
  MaxEvents  \* bound: calls, signals and disturbances while several workers run

ASSUME WorkerPoolAssumption ==
  MaxEvents \in Nat /\ Asking # {} /\ IsFiniteSet(Workers)

VARIABLES
  members,  \* assigned: the workers that have queues
  idle,     \* whether a pool without any idles
  call,     \* the pool's calls under way
  watched,  \* what start() watches of each worker, to stop the rest
  alarm,    \* stopAll is about to run for a worker that failed
  crossed,  \* history: a stop overtook a queued start(), or runOnce() came during one
  events    \* how many events are counted against MaxEvents

poolVars == <<members, idle, call, watched, alarm, crossed>>
vars == <<db, runner, lifeVars, poolVars, events>>

---------------------------------------------------------------------------
Init ==
  /\ LifecycleInit
  /\ members \in {ws \in SUBSET Workers : ws = {} \/ ws \cap Asking # {}}
  /\ idle = FALSE
  /\ events = 0
  /\ call = [c \in {"start", "stop", "once"} |-> "idle"]
  /\ watched = [w \in Workers |-> "nothing"]
  /\ alarm = FALSE
  /\ crossed = FALSE

(* primary answers for the pool, and is never started if no worker has     *)
(* queues: stopping the pool stops it then.                                *)
Created == IF members = {} THEN {CHOOSE w \in Asking : TRUE} ELSE members

(* `each`: one call to every worker, made at once, and its answers. *)
Each(ws, after) ==
  life' = [w \in Workers |-> IF w \in ws THEN after[w] ELSE life[w]]
Asked(reply) == [w \in Workers |-> IF w \in members THEN reply[w] ELSE "no"]
ToldToStop == [w \in Workers |-> AfterStop(life[w])]
Stops == [w \in Workers |-> IF w \in Created THEN "wait" ELSE "no"]
NoAnswers    == [w \in Workers |-> "no"]
AllSettled(c) == \A w \in Workers : on[c][w] \in {"no", "ok", "failed"}
Failed(c)     == \E w \in Workers : on[c][w] = "failed"

Turns(c, from, to) == call[c] = from /\ call' = [call EXCEPT ![c] = to]
inner == <<db, runner, tables, utils, members, crossed>>
quiet == <<inner, idle, watched, alarm>>

(* A worker's stop() joins one under way, even with a start queued behind. *)
Several   == Cardinality(members) > 1
Crosses(p) == crossed' = (crossed \/ (Several /\ p))
Overtakes == Crosses(\E w \in members : on["start"][w] = "queued")

CallStart ==
  /\ Turns("start", "idle", "workers")
  /\ on' = [on EXCEPT !["start"] = Asked([w \in Workers |-> StartReply(life[w])])]
  /\ Each(members, [w \in Workers |-> AfterStart(life[w])])
  /\ idle' = (members = {})
  /\ UNCHANGED <<inner, watched, alarm>>

(* Variant: a start that failed for one worker leaves the others running. *)
Undoes_Forgotten == FALSE

(* start() undoes itself when one worker's start failed. *)
Undoes == Failed("start")

(* Every worker has answered start(): undo it, or watch what each worker's *)
(* promise is by now; one that has failed already raises the alarm.        *)
StartSettles ==
  /\ AllSettled("start")
  /\ \/ /\ Undoes
        /\ Turns("start", "workers", "undo")
        /\ on' = [on EXCEPT !["start"] = NoAnswers, !["undo"] = Stops]
        /\ Each(members, ToldToStop)
        /\ UNCHANGED <<watched, alarm>>
     \/ /\ ~Undoes
        /\ Turns("start", "workers", "idle")
        /\ on' = [on EXCEPT !["start"] = NoAnswers]
        /\ watched' = [w \in Workers |-> PromiseOf(life[w])]
        /\ alarm' = (alarm \/ \E w \in members :
             life[w].once = "no" /\ life[w].completion = "failed")
        /\ UNCHANGED life
  /\ UNCHANGED <<inner, idle>>

Settle(c, from) ==
  /\ Turns(c, from, "idle")
  /\ on' = [on EXCEPT ![IF from = "undo" THEN from ELSE c] = NoAnswers]
  /\ UNCHANGED <<quiet, life, events>>

UndoSettles == AllSettled("undo") /\ Settle("start", "undo")

CallStop ==
  /\ Turns("stop", "idle", "workers")
  /\ on' = [on EXCEPT !["stop"] = Stops]
  /\ Each(Created, ToldToStop) /\ Overtakes
  /\ idle' = FALSE
  /\ UNCHANGED <<db, runner, tables, utils, members, watched, alarm>>

StopSettles == AllSettled("stop") /\ Settle("stop", "workers")

(* Variant: no probe ends the wait. *)
GivesUp_Patient == FALSE

(* whileReachable: a probe got no answer. *)
GivesUp == db = "down"

(* The caller is told; the workers go on stopping. *)
StopGivesUp  == GivesUp /\ Settle("stop", "workers")
StopTimesOut == Settle("stop", "workers")

OnceReply(l) == IF Busy(l) THEN "failed" ELSE "wait"

CallOnce ==
  /\ Turns("once", "idle", "workers")
  /\ on' = [on EXCEPT !["once"] = Asked([w \in Workers |-> OnceReply(life[w])])]
  /\ Each(members, [w \in Workers |-> AfterOnce(life[w])])
  /\ Crosses(call["start"] = "workers")
  /\ UNCHANGED <<db, runner, tables, utils, members, idle, watched, alarm>>

OnceSettles == AllSettled("once") /\ Settle("once", "workers")

(* worker.promise.catch(stopAll) *)
Alarm ==
  /\ alarm /\ alarm' = FALSE
  /\ Each(members, ToldToStop) /\ Overtakes
  /\ UNCHANGED <<db, runner, tables, utils, members, idle, on, call, watched>>

(* SIGINT or SIGTERM reaches the workers that listen, or the idle pool. *)
Listening ==
  {w \in Workers : life[w].signals} \cup {w \in Created : idle /\ HandleSignals}

Signal ==
  /\ Listening # {}
  /\ Each(Listening, ToldToStop) /\ Overtakes
  /\ idle' = FALSE
  /\ UNCHANGED <<db, runner, tables, utils, members, on, call, watched, alarm>>

(* A step of one worker, or of its runners.  What start() watches of it    *)
(* may settle with the step, and raise the alarm.                          *)
Rang(w) ==
  \/ watched[w] = "completion" /\ life'[w].completion = "failed"
  \/ watched[w] = "once" /\ life'[w].once = "no" /\ on'["once"][w] = "failed"

Unsettled(w) ==
  \/ watched[w] = "completion" /\ life'[w].completion = "pending"
  \/ watched[w] = "once" /\ life'[w].once # "no"

WorkerStep(w, Step(_)) ==
  /\ Step(w)
  /\ alarm' = (alarm \/ \E x \in Workers : Rang(x))
  /\ watched' = [x \in Workers |-> IF Unsettled(x) THEN watched[x] ELSE "nothing"]
  /\ UNCHANGED <<members, idle, call, crossed, events>>

Aside      == UNCHANGED <<lifeVars, poolVars, events>>
RunnerStep == RunnerNext /\ Aside

(* What the callers and the world do: as often as they like to one worker, *)
(* MaxEvents times to several.                                             *)
Event ==
  \/ Disturbed /\ UNCHANGED <<lifeVars, poolVars>>
  \/ \E w \in Created : GetUtils(w) /\ UNCHANGED poolVars
  \/ CallStart \/ CallStop \/ CallOnce \/ Signal

Next ==
  \/ /\ Event
     /\ IF Several THEN events < MaxEvents /\ events' = events + 1
        ELSE UNCHANGED events
  \/ RunnerStep
  \/ \E w \in Created : WorkerStep(w, LifecycleNext)
  \/ UndoSettles \/ StopSettles \/ StopGivesUp \/ StopTimesOut \/ OnceSettles
  \/ (StartSettles \/ Alarm) /\ UNCHANGED events

(* Promises settle, timers fire, jobs end, and while the database answers  *)
(* so does every query.  Callers, failures and the database are not fair.  *)
Fairness ==
  /\ WF_vars(StopSettles) /\ WF_vars(StopGivesUp)
  /\ \A w \in Workers :
       /\ WF_vars(WorkerStep(w, Supervising)) /\ WF_vars(WorkerStep(w, Stopping))
       /\ WF_vars(WorkerStep(w, OnceAdvances))
       /\ WF_vars(db = "up" /\ WorkerStep(w, Starting))
       /\ WF_vars(db = "up" /\ WorkerStep(w, MakeEnds))
       /\ \A s \in Slots :
            /\ WF_vars(RunResolves(w, s) /\ Aside)
            /\ WF_vars(db = "up" /\ Drains(w, s) /\ Aside)
            /\ WF_vars(db = "up" /\ PassEnds(w, s) /\ Aside)
            /\ WF_vars(MaintenanceStops(w, s) /\ Aside)

Spec == Init /\ [][Next]_vars /\ Fairness

---------------------------------------------------------------------------
TypeOK ==
  /\ db \in {"up", "down"} /\ tables \in BOOLEAN
  /\ runner \in [Workers -> [Slots -> Runner]]
  /\ life \in [Workers -> Life]
  /\ utils \in [Workers -> Utils]
  /\ on \in [Calls -> [Workers -> Replies]]
  /\ DOMAIN call = {"start", "stop", "once"}
  /\ \A c \in DOMAIN call : call[c] \in {"idle", "workers", "undo"}
  /\ watched \in [Workers -> {"nothing", "completion", "once"}]
  /\ members \subseteq Workers /\ {alarm, crossed, idle} \subseteq BOOLEAN
  /\ idle => members = {} /\ \A w \in Workers : life[w].run = "none"
  /\ events \in 0..MaxEvents

(* A worker never has two runners, however stop(), start(), runOnce() and  *)
(* restarts overlap, and none beside a runOnce(): two pools of one worker  *)
(* would run twice its concurrency.                                        *)
OneRunner ==
  \A w \in Workers :
    /\ Cardinality(Alive(w)) <= 1
    /\ life[w].once # "no" => Alive(w) = {}

(* When a worker's stop(), or a start that failed, settles, it leaves no   *)
(* pool, no pass of maintenance, no held connection, no signal listener    *)
(* and no cached utilities, whatever was under way when it was called.     *)
Gone(w) ==
  /\ \A s \in Slots : runner'[w][s].pool \notin {"opening", "up", "draining", "closing", "aborting"}
  /\ \A s \in Slots : runner'[w][s].maint = "none"
  /\ ~life'[w].signals /\ life'[w].run = "none"
  /\ utils'[w] = [cached |-> "none", releasing |-> "no"]

NothingOutlivesStop ==
  [][\A w \in Workers :
       \/ life[w].stopping # "no" /\ life'[w].stopping = "no"
       \/ life[w].starting = "releasing" /\ life'[w].starting = "no"
       => Gone(w)]_vars

(* Once every call has settled and no worker is on its way up or down,     *)
(* either every worker has a run or none has: a failed start is undone,    *)
(* and a worker that ended for good takes the others with it.  A signal    *)
(* stops only the workers that listen, and one whose start() is queued     *)
(* behind a stop() does not.  And when runOnce() comes while start() of a  *)
(* pool settles, the pool watches the promise of runOnce() instead of the  *)
(* run's (worker-pool.ts:212, lifecycle.ts:217), so that a later failure   *)
(* does not stop the rest, as worker-pool.ts:211 says: crossed has both.   *)
Quiet ==
  /\ \A c \in DOMAIN call : call[c] = "idle"
  /\ ~alarm
  /\ \A w \in Workers : life[w].stopping = "no" /\ life[w].starting = "no"

AllOrNone ==
  Quiet /\ ~crossed =>
    \A v, w \in members : life[v].run = "none" <=> life[w].run = "none"

(* stop() settles for its caller: when the database answers for good       *)
(* because the workers stop, when it falls silent because a probe says so. *)
StopSettlesInTime ==
  (<>[](db = "up") \/ <>[](db = "down")) =>
    (call["stop"] = "workers" ~> call["stop"] = "idle")

(* While a run lasts, its runner comes back after any failure once the     *)
(* database answers.                                                       *)
RunnerComesBack ==
  <>[](db = "up") =>
    \A w \in Restarting :
      life[w].run = "live" ~>
        (life[w].run # "live" \/ \E s \in Slots : runner[w][s].pool = "up")
=============================================================================
