------------------------------ MODULE Lifecycle ------------------------------
(***************************************************************************)
(* start(), stop() and runOnce() of each worker: lifecycle.ts on top of    *)
(* the runners of Runner, with what createWorker starts (the library's     *)
(* tables, then a runner) and releases (client.ts's cached utilities).     *)
(* stop() may come at any step of a start, a restart or a runOnce().       *)
(***************************************************************************)
EXTENDS Runner

CONSTANTS
  Restarting,     \* workers with the restart option
  HandleSignals,  \* the handleSignals option
  Required,       \* an option was set that needs the library's tables
  Asking          \* workers whose utilities the application asks for too

ASSUME LifecycleAssumption ==
  /\ {HandleSignals, Required} \subseteq BOOLEAN
  /\ Restarting \subseteq Workers /\ Asking \subseteq Workers

VARIABLES
  tables,  \* whether the library's tables exist
  life,    \* the variables of each worker's lifecycle
  utils,   \* the utilities each client caches, and those it is releasing
  on       \* the callers waiting on each worker, or the answer they got

lifeVars == <<tables, life, utils, on>>

Life ==
  [starting : {"no", "yes", "releasing"},
   opening : {"no", "tables", "migrating", "runner"},  \* options.start, or runOnce's tables
   run : {"none", "live", "stopped"},   \* run, and its stopped flag
   current : Slots \cup {0},            \* run.runner
   active : Slots \cup {0},             \* the runner supervise watches or relaunch starts
   sup : {"none", "watching", "backoff", "starting", "stopping"},
   completion : {"pending", "ok", "failed"},
   stopping : {"no", "waiting", "run", "releasing"},
   once : {"no", "tables", "tasks", "bare", "sweep"},
   signals : BOOLEAN]

NoLife == [starting |-> "no", opening |-> "no", run |-> "none", current |-> 0,
           active |-> 0, sup |-> "none", completion |-> "ok", stopping |-> "no",
           once |-> "no", signals |-> FALSE]

(* cached is `pending`; releasing is "nothing" when release() found none.  *)
Utils == [cached : {"none", "making", "open"},
          releasing : {"no", "nothing", "making", "open"}]

Calls   == {"start", "stop", "once", "undo"}
Replies == {"no", "queued", "wait", "ok", "failed"}

LifecycleInit ==
  /\ RunnerInit
  /\ tables = FALSE
  /\ life = [w \in Workers |-> NoLife]
  /\ utils = [w \in Workers |-> [cached |-> "none", releasing |-> "no"]]
  /\ on = [c \in Calls |-> [w \in Workers |-> "no"]]

---------------------------------------------------------------------------
(* What the API's calls do and answer at once. *)

Begun(l) == [l EXCEPT !.starting = "yes", !.opening = "tables", !.signals = HandleSignals]

StartReply(l) ==
  CASE l.stopping # "no" -> "queued"
    [] l.stopping = "no" /\ l.once # "no" -> "failed"
    [] l.stopping = "no" /\ l.once = "no" /\ l.run # "none" /\ l.starting = "no" -> "ok"
    [] OTHER -> "wait"

AfterStart(l) ==
  IF StartReply(l) = "wait" /\ l.starting = "no" THEN Begun(l) ELSE l

AfterStop(l) == IF l.stopping = "no" THEN [l EXCEPT !.stopping = "waiting"] ELSE l

(* Variant: runOnce() does not look for a run. *)
Busy_Running(l) == l.starting # "no" \/ l.stopping # "no" \/ l.once # "no"

(* runOnce() needs an idle lifecycle. *)
Busy(l) ==
  l.starting # "no" \/ l.stopping # "no" \/ l.run # "none" \/ l.once # "no"

AfterOnce(l) ==
  IF Busy(l) THEN l ELSE [l EXCEPT !.once = "tables", !.opening = "tables"]

(* The callers of c that wait on w get their answer. *)
Answer(c, w, reply) ==
  on' = [on EXCEPT ![c][w] = IF @ = "wait" THEN reply ELSE @]

Sets(w, l) == life' = [life EXCEPT ![w] = l]

---------------------------------------------------------------------------
(* client.ts *)

Caches(w, u) == utils' = [utils EXCEPT ![w].cached = u]

(* Variant: release() treats nothing cached as something to close. *)
Found_Unset(u) == u.cached

(* What release() finds to close. *)
Found(u) == IF u.cached = "none" THEN "nothing" ELSE u.cached

Released(w) ==
  utils' = [utils EXCEPT ![w] = [cached |-> "none", releasing |-> Found(@)]]

(* getUtils(): await releasing, then make them unless they are cached. *)
MayCache(u) == u.releasing = "no" /\ u.cached = "none"

GetUtils(w) ==
  /\ w \in Asking /\ MayCache(utils[w])
  /\ Caches(w, "making")
  /\ UNCHANGED <<db, runner, tables, life, on>>

(* makeWorkerUtils settles; utilities that failed are not kept. *)
MakeEnds(w) ==
  LET made == IF db = "up" THEN "open" ELSE "none" IN
  /\ \/ utils[w].cached = "making" /\ Caches(w, made)
     \/ /\ utils[w].releasing = "making"
        /\ utils' = [utils EXCEPT ![w].releasing = IF db = "up" THEN "open" ELSE "nothing"]
  /\ UNCHANGED <<db, runner, tables, life, on>>

---------------------------------------------------------------------------
(* options.start(), and the tables of runOnce() *)

Free(w) == {s \in Slots : runner[w][s].pool = "none"}

(* startRunner, maintained or not, or on to runOnce's tasks. *)
Prepared(w, maintained) ==
  IF life[w].once = "tables"
  THEN /\ Sets(w, [life[w] EXCEPT !.opening = "no",
                     !.once = IF maintained THEN "tasks" ELSE "bare"])
       /\ UNCHANGED runner
  ELSE LET s == CHOOSE x \in Free(w) : TRUE IN
       /\ Free(w) # {}
       /\ Sets(w, [life[w] EXCEPT !.opening = "runner", !.active = s])
       /\ runner' = [runner EXCEPT ![w][s] =
            [NoRunner EXCEPT !.pool = "opening",
                             !.maint = IF maintained THEN "wanted" ELSE "none"]]

(* Variant: relaunch gives up after a start that failed. *)
Retries_Once(l) == [l EXCEPT !.sup = "none", !.opening = "no", !.active = 0]

(* relaunch after a start that failed: another wait. *)
Retries(l) == [l EXCEPT !.sup = "backoff", !.opening = "no", !.active = 0]

(* The start, restart or runOnce that was getting ready fails: start()     *)
(* releases before it rejects, relaunch waits again unless it was stopped. *)
Rejected(w, l) ==
  CASE l.once # "no" ->
         /\ Sets(w, [l EXCEPT !.opening = "no", !.once = "no"])
         /\ Answer("once", w, "failed") /\ UNCHANGED utils
    [] l.starting = "yes" ->
         /\ Sets(w, [l EXCEPT !.starting = "releasing", !.opening = "no",
                              !.active = 0, !.signals = FALSE])
         /\ Released(w) /\ UNCHANGED on
    [] OTHER ->
         /\ Sets(w, IF l.run = "stopped"
                    THEN [l EXCEPT !.sup = "none", !.completion = "ok",
                                   !.opening = "no", !.active = 0]
                    ELSE Retries(l))
         /\ UNCHANGED <<utils, on>>

HasTables == db = "up" /\ tables

(* prepareTables: hasTables(), and migrate() when they are missing. *)
TablesAnswer(w) ==
  /\ life[w].opening = "tables"
  /\ \/ /\ HasTables
        /\ Prepared(w, TRUE) /\ UNCHANGED <<db, tables, utils, on>>
     \/ /\ db = "up" /\ ~HasTables
        /\ Sets(w, [life[w] EXCEPT !.opening = "migrating"])
        /\ IF MayCache(utils[w]) THEN Caches(w, "making") ELSE UNCHANGED utils
        /\ UNCHANGED <<db, runner, tables, on>>
     \/ /\ db = "down"
        /\ Rejected(w, life[w]) /\ UNCHANGED <<db, runner, tables>>

(* migrate() creates the tables once getUtils() has settled. *)
MayCreate(w) == utils[w].cached = "open" /\ db = "up"

(* A role that may not create them (42501) goes on unmaintained unless an  *)
(* option needs the tables.                                                *)
MigrationEnds(w) ==
  /\ life[w].opening = "migrating" /\ utils[w].cached # "making"
  /\ \/ /\ MayCreate(w) /\ tables' = TRUE
        /\ Prepared(w, TRUE) /\ UNCHANGED <<db, utils, on>>
     \/ /\ MayCreate(w) /\ ~Required
        /\ Prepared(w, FALSE) /\ UNCHANGED <<db, tables, utils, on>>
     \/ /\ ~MayCreate(w) \/ Required
        /\ Rejected(w, life[w]) /\ UNCHANGED <<db, runner, tables>>

(* relaunch, when options.start(true) has resolved. *)
Opened(l) ==
  IF l.run = "stopped"
  THEN [l EXCEPT !.sup = "stopping", !.opening = "no"]
  ELSE [l EXCEPT !.sup = "watching", !.opening = "no", !.current = l.active]

(* startRunner has resolved: start() has a run, relaunch a new runner that *)
(* it stops itself if stop() found none.                                   *)
RunnerOpened(w) ==
  LET l == life[w] IN
  /\ l.opening = "runner" /\ Resolved(w, l.active)
  /\ IF l.starting = "yes"
     THEN /\ Sets(w, [l EXCEPT !.starting = "no", !.opening = "no", !.run = "live",
                        !.current = l.active, !.sup = "watching",
                        !.completion = "pending"])
          /\ Answer("start", w, "ok") /\ UNCHANGED runner
     ELSE /\ Sets(w, Opened(l))
          /\ runner' = IF Opened(l).sup = "stopping"
                       THEN [runner EXCEPT ![w][l.active] = Stopped(@)] ELSE runner
          /\ UNCHANGED on
  /\ UNCHANGED <<db, tables, utils>>

RunnerUnopened(w) ==
  LET l == life[w] IN
  /\ l.opening = "runner" /\ runner[w][l.active].pool = "unopened"
  /\ runner' = [runner EXCEPT ![w][l.active] = Left(@)]
  /\ Rejected(w, l) /\ UNCHANGED <<db, tables>>

---------------------------------------------------------------------------
(* supervise and relaunch *)

(* On to relaunch, which waits first. *)
Relaunches(l) == [l EXCEPT !.sup = "backoff", !.active = 0, !.current = 0]

(* The runner's promise settles.  One that ended on its own and is not     *)
(* restarted takes the run with it.                                        *)
Watch(w) ==
  LET l == life[w]
      failed == runner[w][l.active].pool = "failed" IN
  /\ l.sup = "watching" /\ Settled(w, l.active)
  /\ Sets(w, IF ~failed \/ l.run = "stopped" \/ w \notin Restarting
             THEN [l EXCEPT !.sup = "none", !.active = 0,
                            !.completion = IF failed THEN "failed" ELSE "ok",
                            !.signals = IF l.run = "stopped" THEN @ ELSE FALSE,
                            !.current = IF l.run = "stopped" THEN @ ELSE 0,
                            !.run = IF @ = "stopped" THEN @ ELSE "none"]
             ELSE Relaunches(l))
  /\ runner' = [runner EXCEPT ![w][l.active] = Left(@)]
  /\ UNCHANGED <<db, tables, utils, on>>

(* The wait before a restart ends, woken by stop() or not. *)
BackoffEnds(w) ==
  LET l == life[w] IN
  /\ l.sup = "backoff"
  /\ Sets(w, IF l.run = "stopped" THEN [l EXCEPT !.sup = "none", !.completion = "ok"]
             ELSE [l EXCEPT !.sup = "starting", !.opening = "tables"])
  /\ UNCHANGED <<db, runner, tables, utils, on>>

LateStopped(w) ==
  LET l == life[w] IN
  /\ l.sup = "stopping" /\ Settled(w, l.active)
  /\ Sets(w, [l EXCEPT !.sup = "none", !.completion = "ok", !.active = 0])
  /\ runner' = [runner EXCEPT ![w][l.active] = Left(@)]
  /\ UNCHANGED <<db, tables, utils, on>>

---------------------------------------------------------------------------
(* The rest of start(), stop() and runOnce() *)

(* stopping.then(start) *)
QueuedStart(w) ==
  /\ on["start"][w] = "queued" /\ life[w].stopping = "no"
  /\ on' = [on EXCEPT !["start"][w] = StartReply(life[w])]
  /\ Sets(w, AfterStart(life[w]))
  /\ UNCHANGED <<db, runner, tables, utils>>

(* Variant: stop() does not wait for a start under way. *)
MayStop_Racing(l) == l.stopping = "waiting" /\ l.once = "no"

(* await starting, await once *)
MayStop(l) == l.stopping = "waiting" /\ l.starting = "no" /\ l.once = "no"

StopProceeds(w) ==
  LET l == life[w] IN
  /\ MayStop(l)
  /\ IF l.run = "none"
     THEN /\ Sets(w, [l EXCEPT !.stopping = "releasing", !.signals = FALSE])
          /\ Released(w) /\ UNCHANGED runner
     ELSE /\ Sets(w, [l EXCEPT !.stopping = "run", !.run = "stopped", !.signals = FALSE])
          /\ runner' = IF l.current = 0 THEN runner
                       ELSE [runner EXCEPT ![w][l.current] = Stopped(@)]
          /\ UNCHANGED utils
  /\ UNCHANGED <<db, tables, on>>

(* The runner stop() found has ended, and so has the run. *)
RunEnds(w) ==
  LET l == life[w] IN
  /\ l.stopping = "run" /\ l.completion # "pending"
  /\ Sets(w, [l EXCEPT !.stopping = "releasing", !.run = "none", !.current = 0])
  /\ Released(w) /\ UNCHANGED <<db, runner, tables, on>>

(* release() has settled, for a stop or for a start that failed. *)
ReleaseEnds(w) ==
  LET l == life[w] IN
  /\ utils[w].releasing \in {"nothing", "open"}
  /\ utils' = [utils EXCEPT ![w].releasing = "no"]
  /\ IF l.starting = "releasing"
     THEN Sets(w, [l EXCEPT !.starting = "no"]) /\ Answer("start", w, "failed")
     ELSE \E reply \in {"ok"} \cup {x \in {"failed"} : utils[w].releasing = "open"} :
          /\ Sets(w, [l EXCEPT !.stopping = "no", !.signals = FALSE])
          /\ on' = [c \in Calls |-> [on[c] EXCEPT ![w] =
               IF c \in {"stop", "undo"} /\ @ = "wait" THEN reply
               ELSE IF c = "start" /\ @ = "queued" /\ reply = "failed" THEN reply
               ELSE @]]
  /\ UNCHANGED <<db, runner, tables>>

(* runOnceTasks, and maintainOnce after it, whose failures are only logged. *)
TasksEnd(w) ==
  LET l == life[w] IN
  \/ l.once = "tasks" /\ Sets(w, [l EXCEPT !.once = "sweep"]) /\ UNCHANGED on
  \/ /\ l.once = "bare"
     /\ Sets(w, [l EXCEPT !.once = "no"]) /\ Answer("once", w, "ok")
  \/ /\ l.once \in {"tasks", "bare"}
     /\ Sets(w, [l EXCEPT !.once = "no"]) /\ Answer("once", w, "failed")

SweepEnds(w) ==
  /\ life[w].once = "sweep"
  /\ Sets(w, [life[w] EXCEPT !.once = "no"]) /\ Answer("once", w, "ok")

OnceAdvances(w) ==
  (TasksEnd(w) \/ SweepEnds(w)) /\ UNCHANGED <<db, runner, tables, utils>>

(* What the promise of a worker is: runOnce's, or the run's if it lasts.   *)
PromiseOf(l) ==
  IF l.once # "no" THEN "once"
  ELSE IF l.completion = "pending" THEN "completion" ELSE "nothing"

(* The promises a worker runs beside each other, each one step at a time.  *)
Starting(w) ==
  TablesAnswer(w) \/ MigrationEnds(w) \/ RunnerOpened(w) \/ RunnerUnopened(w)
Supervising(w) == Watch(w) \/ BackoffEnds(w) \/ LateStopped(w)
Stopping(w)    == StopProceeds(w) \/ RunEnds(w) \/ ReleaseEnds(w)

LifecycleNext(w) ==
  \/ Starting(w) \/ Supervising(w) \/ Stopping(w)
  \/ QueuedStart(w) \/ OnceAdvances(w) \/ MakeEnds(w)
=============================================================================
