----------------------------- MODULE WaitLocks -----------------------------
(***************************************************************************)
(* One wait of one parent at the grain of row locks (private-jobs.ts): the *)
(* parent's enterWait, the reports of its children and the sweep for lost  *)
(* children are transactions that lock the parent's row, the group row and *)
(* the wait rows in an order of their own.  PostgreSQL, READ COMMITTED: a  *)
(* statement finds rows in its snapshot, waits for their locks, and then   *)
(* works on their latest version; a circular wait costs one transaction.   *)
(***************************************************************************)
EXTENDS Naturals, FiniteSets

CONSTANTS
  Children,  \* the children of the wait; also their reporting statements
  Sweepers,  \* the workers whose maintenance sweeps
  Enter,     \* the parent's transaction, and its row
  Group,     \* the group row
  None       \* no transaction

ASSUME WaitLocksAssumption ==
  /\ IsFiniteSet(Children) /\ Children # {}
  /\ Children \cap Sweepers = {}
  /\ {Enter, Group, None} \cap (Children \cup Sweepers) = {}
  /\ Cardinality({Enter, Group, None}) = 3

Reporters == Children \cup Sweepers
Txns      == Reporters \cup {Enter}
Rows      == Children \cup {Group, Enter}   \* a wait row goes by its child

VARIABLES
  parent,   \* the parent's row: who has it, and its run_at
  group,    \* the group row
  result,   \* what the wait rows hold
  ended,    \* children whose row is deleted or has no attempt left
  expired,  \* whether the deadline has passed
  pc,       \* the lock each transaction takes next
  claims,   \* the wait rows each transaction reports
  seen,     \* what each statement's snapshot holds
  lock      \* who locks each row

vars == <<parent, group, result, ended, expired, pc, claims, seen, lock>>

(* "ending": the run is over and Graphile has yet to unlock the row. *)
Parent == [state : {"asleep", "running", "ending", "finished"},
           runAt : {"now", "later"}]

NothingSeen == [lost |-> {}, parent |-> "none"]

Reported == {c \in Children : result[c] # "none"}

Init ==
  /\ parent = [state |-> "running", runAt |-> "now"]
  /\ group = [open |-> TRUE, remaining |-> Cardinality(Children)]
  /\ result = [c \in Children |-> "none"]
  /\ ended = {}
  /\ expired = FALSE
  /\ pc = [t \in Txns |-> "idle"]
  /\ claims = [t \in Txns |-> {}]
  /\ seen = [t \in Txns |-> NothingSeen]
  /\ lock = [r \in Rows |-> None]

---------------------------------------------------------------------------
Free(r) == lock[r] = None

Take(t, rs) == lock' = [r \in Rows |-> IF r \in rs THEN t ELSE lock[r]]

(* Transaction t ends, its locks go. *)
Ends(t) ==
  /\ pc' = [pc EXCEPT ![t] = "idle"]
  /\ claims' = [claims EXCEPT ![t] = {}]
  /\ seen' = [seen EXCEPT ![t] = NothingSeen]
  /\ lock' = [r \in Rows |-> IF lock[r] = t THEN None ELSE lock[r]]

---------------------------------------------------------------------------
(* enterWait, replayed by a run of the parent. *)

EnterBegins ==
  /\ parent.state = "running" /\ pc[Enter] = "idle"
  /\ pc' = [pc EXCEPT ![Enter] = "parent"]
  /\ UNCHANGED <<parent, group, result, ended, expired, claims, seen, lock>>

EnterLocksOwnRow ==
  /\ pc[Enter] = "parent" /\ Free(Enter)
  /\ pc' = [pc EXCEPT ![Enter] = "group"]
  /\ Take(Enter, {Enter})
  /\ UNCHANGED <<parent, group, result, ended, expired, claims, seen>>

(* The wait is over, as the locked group row has it. *)
Over == group.remaining = 0 \/ expired

EnterSuspends ==
  /\ pc[Enter] = "group" /\ Free(Group) /\ ~Over
  /\ parent' = [state |-> "ending", runAt |-> "later"]
  /\ Ends(Enter)
  /\ UNCHANGED <<group, result, ended, expired>>

EnterFinishes ==
  /\ pc[Enter] = "group" /\ Free(Group) /\ Over
  /\ pc' = [pc EXCEPT ![Enter] = "rows"]
  /\ Take(Enter, {Group})
  /\ UNCHANGED <<parent, group, result, ended, expired, claims, seen>>

(* Deleting the group cascades to its wait rows. *)
EnterDeletes ==
  /\ pc[Enter] = "rows" /\ \A c \in Children : Free(c)
  /\ parent' = [parent EXCEPT !.state = "finished"]
  /\ group' = [open |-> FALSE, remaining |-> 0]
  /\ result' = [c \in Children |-> "none"]
  /\ Ends(Enter)
  /\ UNCHANGED <<ended, expired>>

(* The parent's next steps: Graphile unlocks it, it becomes due for        *)
(* another reason (its deadline, another wait of it), and is fetched.      *)
ParentUnlocked ==
  /\ parent.state = "ending" /\ Free(Enter)
  /\ parent' = [parent EXCEPT !.state = "asleep"]
  /\ UNCHANGED <<group, result, ended, expired, pc, claims, seen, lock>>

ParentDue ==
  /\ parent.state = "asleep" /\ parent.runAt = "later" /\ Free(Enter)
  /\ parent' = [parent EXCEPT !.runAt = "now"]
  /\ UNCHANGED <<group, result, ended, expired, pc, claims, seen, lock>>

ParentFetched ==
  /\ parent.state = "asleep" /\ parent.runAt = "now" /\ Free(Enter)
  /\ parent' = [parent EXCEPT !.state = "running"]
  /\ UNCHANGED <<group, result, ended, expired, pc, claims, seen, lock>>

DeadlinePasses ==
  /\ ~expired /\ group.open
  /\ expired' = TRUE
  /\ UNCHANGED <<parent, group, result, ended, pc, claims, seen, lock>>

---------------------------------------------------------------------------
(* Reports: a child's settleJob and the first statement of sweepWaits. *)

ChildEndsUnheard(c) ==
  /\ c \notin ended /\ pc[c] = "idle"
  /\ ended' = ended \cup {c}
  /\ UNCHANGED <<parent, group, result, expired, pc, claims, seen, lock>>

(* A statement starts and takes its snapshot. *)
ReportBegins(t) ==
  /\ pc[t] = "idle"
  /\ IF t \in Children THEN t \notin ended ELSE ended \ Reported # {} /\ group.open
  /\ pc' = [pc EXCEPT ![t] = "rows"]
  /\ seen' = [seen EXCEPT ![t] =
       [lost |-> IF t \in Children THEN {t} ELSE ended \ Reported,
        parent |-> parent.runAt]]
  /\ UNCHANGED <<parent, group, result, ended, expired, claims, lock>>

(* Variant: the wait row is not looked at again once it is locked. *)
Claimed_Snapshot(t) == {c \in seen[t].lost : group.open /\ Free(c)}

(* The wait rows it reports: those still without a result.  The sweep      *)
(* skips locked ones.                                                      *)
Claimed(t) == {c \in seen[t].lost : group.open /\ Free(c) /\ c \notin Reported}

ReportClaims(t) ==
  /\ pc[t] = "rows" /\ (t \in Children => Free(t))
  /\ Claimed(t) # {}
  /\ pc' = [pc EXCEPT ![t] = "group"]
  /\ claims' = [claims EXCEPT ![t] = Claimed(t)]
  /\ Take(t, Claimed(t))
  /\ UNCHANGED <<parent, group, result, ended, expired, seen>>

(* Nothing to report: a child's row still ends. *)
ReportsNothing(t) ==
  /\ pc[t] = "rows" /\ (t \in Children => Free(t))
  /\ Claimed(t) = {}
  /\ ended' = ended \cup ({t} \cap Children)
  /\ Ends(t)
  /\ UNCHANGED <<parent, group, result, expired>>

Left(t) == group.remaining - Cardinality(claims[t])

(* The commit of a report. *)
Commits(t) ==
  /\ group' = [group EXCEPT !.remaining = Left(t)]
  /\ result' = [c \in Children |-> IF c \notin claims[t] THEN result[c]
                                   ELSE IF t = c THEN "told" ELSE "lost"]
  /\ ended' = ended \cup ({t} \cap Children)
  /\ Ends(t)

ReportCounts(t) ==
  /\ pc[t] = "group" /\ Free(Group) /\ Left(t) # 0
  /\ Commits(t)
  /\ UNCHANGED <<parent, expired>>

ReportCountsLast(t) ==
  /\ pc[t] = "group" /\ Free(Group) /\ Left(t) = 0
  /\ pc' = [pc EXCEPT ![t] = "parent"]
  /\ Take(t, {Group})
  /\ UNCHANGED <<parent, group, result, ended, expired, claims, seen>>

(* Variant: the wake is filtered on run_at, as the snapshot has it. *)
Woken_Snapshot(t) ==
  IF seen[t].parent = "later" THEN [parent EXCEPT !.runAt = "now"] ELSE parent

Woken(t) == [parent EXCEPT !.runAt = "now"]

ReportWakes(t) ==
  /\ pc[t] = "parent" /\ Free(Enter)
  /\ parent' = Woken(t)
  /\ Commits(t)
  /\ UNCHANGED expired

---------------------------------------------------------------------------
(* PostgreSQL's deadlock detection. *)

(* The transactions that t waits for. *)
WaitsFor(t) ==
  {lock[r] : r \in CASE pc[t] = "parent" -> {Enter}
                     [] pc[t] = "group"  -> {Group}
                     [] pc[t] = "rows" /\ t = Enter -> Children
                     [] pc[t] = "rows" /\ t \in Children -> {t}
                     [] OTHER -> {}} \ {None}

Circular(t, u) == u \in WaitsFor(t) /\ t \in WaitsFor(u)

(* A victim rolls back.  The child's attempt fails although its handler    *)
(* succeeded, the parent's run fails, the sweep comes again.               *)
Aborts(t) ==
  /\ \E u \in Txns : Circular(t, u)
  /\ parent' = IF t = Enter THEN [parent EXCEPT !.state = "ending"] ELSE parent
  /\ Ends(t)
  /\ UNCHANGED <<group, result, ended, expired>>

(* The wait is over and every child has ended. *)
Terminated ==
  /\ parent.state = "finished" /\ ended = Children
  /\ \A t \in Txns : pc[t] = "idle"
  /\ UNCHANGED vars

---------------------------------------------------------------------------
EnterStep ==
  \/ EnterBegins \/ EnterLocksOwnRow \/ EnterSuspends
  \/ EnterFinishes \/ EnterDeletes

ParentStep == ParentUnlocked \/ ParentDue \/ ParentFetched \/ DeadlinePasses

ReportStep(t) ==
  \/ ReportBegins(t) \/ ReportClaims(t) \/ ReportsNothing(t)
  \/ ReportCounts(t) \/ ReportCountsLast(t) \/ ReportWakes(t)

Next ==
  \/ EnterStep \/ ParentStep \/ Terminated
  \/ \E t \in Reporters : ReportStep(t)
  \/ \E c \in Children : ChildEndsUnheard(c)
  \/ \E t \in Txns : Aborts(t)

Spec == Init /\ [][Next]_vars

---------------------------------------------------------------------------
(* Properties. *)

(* Every variable has its type; in particular the counter stays at or      *)
(* above zero, which the table's CHECK demands.                            *)
TypeOK ==
  /\ parent \in Parent
  /\ group \in [open : BOOLEAN, remaining : 0..Cardinality(Children)]
  /\ result \in [Children -> {"none", "told", "lost"}]
  /\ ended \subseteq Children /\ expired \in BOOLEAN
  /\ pc \in [Txns -> {"idle", "parent", "group", "rows"}]
  /\ claims \in [Txns -> SUBSET Children]
  /\ seen \in [Txns -> [lost : SUBSET Children, parent : {"none", "now", "later"}]]
  /\ lock \in [Rows -> Txns \cup {None}]

(* A parent never sleeps past its last report: no report falls between its *)
(* look at the group and its suspend, whatever the statements' snapshots   *)
(* hold and whoever waits for whom.                                        *)
NoLostWakeup ==
  parent.state \in {"ending", "asleep"} /\ parent.runAt = "later"
    => group.remaining > 0

(* Each child is counted once by reports and sweeps that overlap, those    *)
(* that wait for a row which changes meanwhile included.                   *)
RemainingCounts ==
  group.open => group.remaining = Cardinality(Children \ Reported)

(* A child that reports while its parent suspends still wakes it: one sees *)
(* the other, so neither is rolled back because each waits for the other.  *)
ReportMeetsSuspend ==
  ~Over => \A t, u \in Txns : ~Circular(t, u)
=============================================================================
