------------------------------- MODULE Runner -------------------------------
(***************************************************************************)
(* The runners of a process: worker.ts startRunner puts a Graphile worker  *)
(* pool and maintenance.ts startMaintenance side by side.  Maintenance     *)
(* begins when Graphile announces the pool, holds a connection of its own  *)
(* between passes, and is stopped once the pool has drained; only then     *)
(* does the runner's promise settle.                                       *)
(***************************************************************************)
EXTENDS Naturals, FiniteSets

CONSTANTS
  Workers,  \* the workers of the process
  Slots     \* bound: runners of one worker that are told apart

ASSUME RunnerAssumption == Slots \subseteq Nat \ {0} /\ Slots # {}

VARIABLES
  db,      \* whether the database answers; while it does not, a query hangs or fails
  runner   \* the runners of each worker

Runner ==
  [pool : {"none", "opening", "up", "draining", "closing",  \* Graphile's pool
           "ended", "failed",             \* the runner's promise is settled
           "aborting", "unopened"},       \* Graphile's run() has rejected
   asked : BOOLEAN,                       \* requested: stop() was called
   maint : {"none", "wanted", "passing", "idle", "holding"}]

NoRunner == [pool |-> "none", asked |-> FALSE, maint |-> "none"]

(* A runner that is let go of; what its maintenance still does goes on.    *)
Left(r) == [NoRunner EXCEPT !.maint = r.maint]

Alive(w)    == {s \in Slots : runner[w][s].pool \in
                  {"opening", "up", "draining", "closing", "aborting"}}
Settled(w, s)  == runner[w][s].pool \in {"ended", "failed"}
Resolved(w, s) == runner[w][s].pool \in {"up", "draining", "closing", "ended", "failed"}

(* A runner's stop().  Graphile rejects a second stop, or one that races   *)
(* its own shutdown; it is ending either way.                              *)
Stopped(r) == [r EXCEPT !.asked = TRUE, !.pool = IF @ = "up" THEN "draining" ELSE @]

RunnerInit ==
  /\ db = "up"
  /\ runner = [w \in Workers |-> [s \in Slots |-> NoRunner]]

---------------------------------------------------------------------------
DatabaseGoes    == db = "up" /\ db' = "down" /\ UNCHANGED runner
DatabaseReturns == db = "down" /\ db' = "up" /\ UNCHANGED runner

Becomes(w, s, r) == runner' = [runner EXCEPT ![w][s] = r] /\ UNCHANGED db

(* Graphile's run() resolves; it has emitted pool:create on the way, and   *)
(* maintenance starts with its first pass.                                 *)
RunResolves(w, s) ==
  LET r == runner[w][s] IN
  /\ r.pool = "opening" /\ db = "up"
  /\ Becomes(w, s, [r EXCEPT !.pool = "up",
                             !.maint = IF @ = "wanted" THEN "passing" ELSE @])

(* run() rejects, before or after pool:create. *)
RunRejects(w, s) ==
  LET r == runner[w][s] IN
  /\ r.pool = "opening" /\ db = "down"
  /\ \E m \in {"none"} \cup {x \in {"passing"} : r.maint = "wanted"} :
       Becomes(w, s, [r EXCEPT !.pool = "aborting", !.maint = m])

(* Graphile shuts its pool down on its own, after a fatal error. *)
Breaks(w, s) ==
  /\ runner[w][s].pool = "up"
  /\ Becomes(w, s, [runner[w][s] EXCEPT !.pool = "draining"])

(* The pool's jobs have ended, and Graphile's promise resolves. *)
Drains(w, s) ==
  /\ runner[w][s].pool = "draining"
  /\ Becomes(w, s, [runner[w][s] EXCEPT !.pool = "closing"])

(* withConnection: a statement leaves the connection held, for the next    *)
(* one, or discarded by a failure.                                         *)
Kept == {"idle"} \cup {m \in {"holding"} : db = "up"}

(* A heartbeat and a sweep, whose steps fail one by one. *)
PassEnds(w, s) ==
  /\ runner[w][s].maint = "passing"
  /\ \E m \in Kept : Becomes(w, s, [runner[w][s] EXCEPT !.maint = m])

(* schedule: no timer is set, and the one that is gets cleared, once       *)
(* stopMaintenance has run.                                                *)
TimerFires(w, s) ==
  LET r == runner[w][s] IN
  /\ r.maint \in {"idle", "holding"}
  /\ r.pool \notin {"closing", "aborting"}
  /\ Becomes(w, s, [r EXCEPT !.maint = "passing"])

(* The held client emits 'error' between passes. *)
ConnectionDrops(w, s) ==
  /\ runner[w][s].maint = "holding"
  /\ Becomes(w, s, [runner[w][s] EXCEPT !.maint = "idle"])

(* The runner's promise: as asked to, or WorkerStoppedError. *)
Outcome(r) == IF r.asked THEN "ended" ELSE "failed"

(* Variant: stopMaintenance does not await the pass under way. *)
MaintenanceStops_Unawaited(w, s) ==
  LET r == runner[w][s] IN
  /\ r.pool \in {"closing", "aborting"}
  /\ Becomes(w, s, [r EXCEPT
       !.pool  = IF r.pool = "aborting" THEN "unopened" ELSE Outcome(r),
       !.maint = IF @ = "passing" THEN @ ELSE "none"])

(* stopMaintenance awaits the pass under way, then releases the connection, *)
(* and the runner settles.                                                 *)
MaintenanceStops(w, s) ==
  LET r == runner[w][s] IN
  /\ r.pool \in {"closing", "aborting"} /\ r.maint # "passing"
  /\ Becomes(w, s, [r EXCEPT
       !.pool  = IF r.pool = "aborting" THEN "unopened" ELSE Outcome(r),
       !.maint = "none"])

(* What befalls a runner, and the steps it takes of itself. *)
Disturbed ==
  \/ DatabaseGoes
  \/ \E w \in Workers, s \in Slots :
       Breaks(w, s) \/ TimerFires(w, s) \/ ConnectionDrops(w, s)

RunnerNext ==
  \/ DatabaseReturns
  \/ \E w \in Workers, s \in Slots :
       \/ RunResolves(w, s) \/ RunRejects(w, s) \/ Drains(w, s)
       \/ PassEnds(w, s) \/ MaintenanceStops(w, s)
=============================================================================
