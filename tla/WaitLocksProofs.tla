--------------------------- MODULE WaitLocksProofs ---------------------------
(***************************************************************************)
(* Theorems of WaitLocks, for any number of children and of sweeping       *)
(* workers.                                                                *)
(***************************************************************************)
EXTENDS WaitLocks, FiniteSetTheorems, TLAPS

---------------------------------------------------------------------------
(* The inductive invariant: a transaction that has looked at a row keeps   *)
(* it locked until it commits, so what it has seen still holds.            *)

EnterLocked ==
  /\ pc[Enter] \in {"group", "rows"} => lock[Enter] = Enter
  /\ pc[Enter] = "rows" => lock[Group] = Enter
  /\ pc[Enter] # "idle" => parent.state = "running"
  /\ parent.state = "running" => parent.runAt = "now"

(* A report holds the wait rows it has claimed, which are without a result *)
(* until it commits, and the group row once it knows that it is the last.  *)
ClaimHeld(t) ==
  /\ pc[t] \in {"idle", "rows"} => claims[t] = {}
  /\ pc[t] \in {"group", "parent"} => claims[t] # {}
  /\ \A c \in claims[t] : lock[c] = t /\ c \notin Reported
  /\ pc[t] = "parent" => lock[Group] = t /\ Left(t) = 0

ClaimsHeld == \A t \in Reporters : ClaimHeld(t)

ClosedIsQuiet ==
  ~group.open => parent.state = "finished" /\ \A t \in Reporters : claims[t] = {}

WaitInv ==
  /\ TypeOK
  /\ EnterLocked
  /\ ClaimsHeld
  /\ ClosedIsQuiet
  /\ RemainingCounts
  /\ NoLostWakeup

---------------------------------------------------------------------------
(* Constants and counts. *)

LEMMA NoneIsNoTxn == None \notin Txns /\ Enter \in Txns /\ Enter \notin Reporters
<1>1. Enter # None
  <2> SUFFICES ASSUME Enter = None PROVE FALSE
    OBVIOUS
  <2>1. {Enter, Group, None} = {Group} \cup {None}
    OBVIOUS
  <2>2. Cardinality({Group} \cup {None}) <= 2
    <3>1. IsFiniteSet({Group}) /\ Cardinality({Group}) = 1
      BY FS_Singleton
    <3>2. Cardinality({Group} \cup {None}) = IF None \in {Group} THEN 1 ELSE 2
      BY <3>1, FS_AddElement
    <3>3. QED BY <3>2
  <2>3. Cardinality({Enter, Group, None}) = 3
    BY WaitLocksAssumption DEF WaitLocksAssumption
  <2>4. QED BY <2>1, <2>2, <2>3
<1>2. QED BY <1>1, WaitLocksAssumption DEF WaitLocksAssumption, Txns, Reporters

LEMMA ChildSets ==
  \A S \in SUBSET Children :
    /\ IsFiniteSet(S) /\ Cardinality(S) \in 0..Cardinality(Children)
    /\ Cardinality(S) = 0 <=> S = {}
<1> TAKE S \in SUBSET Children
<1>1. IsFiniteSet(Children)
  BY WaitLocksAssumption DEF WaitLocksAssumption
<1>2. IsFiniteSet(S) /\ Cardinality(S) <= Cardinality(Children)
  BY <1>1, FS_Subset
<1>3. Cardinality(S) \in Nat /\ Cardinality(Children) \in Nat
  BY <1>1, <1>2, FS_CardinalityType
<1>4. Cardinality(S) = 0 <=> S = {}
  BY <1>2, FS_EmptySet
<1>5. QED BY <1>2, <1>3, <1>4

(* What a report leaves of the counter: the children without a result that *)
(* it does not claim.                                                      *)
LEMMA LeftCounts ==
  ASSUME WaitInv, NEW t \in Reporters, claims[t] # {}
  PROVE  /\ group.open /\ claims[t] \subseteq Children \ Reported
         /\ Left(t) = Cardinality(Children \ (Reported \cup claims[t]))
         /\ Left(t) \in 0..Cardinality(Children)
<1> DEFINE rest == Children \ Reported
<1>1. group.open
  BY DEF WaitInv, ClosedIsQuiet
<1>2. claims[t] \subseteq rest
  <2>1. claims[t] \subseteq Children
    BY DEF WaitInv, TypeOK, Txns
  <2>2. QED BY <2>1 DEF WaitInv, ClaimsHeld, ClaimHeld
<1>3. group.remaining = Cardinality(rest)
  BY <1>1 DEF WaitInv, RemainingCounts
<1>4. IsFiniteSet(rest) /\ IsFiniteSet(claims[t]) /\ Cardinality(rest) \in Nat
      /\ Cardinality(claims[t]) \in Nat
  BY <1>2, ChildSets
<1>5. Cardinality(rest \ claims[t]) = Cardinality(rest) - Cardinality(rest \cap claims[t])
  BY <1>4, FS_Difference
<1>6. rest \cap claims[t] = claims[t] /\ rest \ claims[t] = Children \ (Reported \cup claims[t])
  BY <1>2
<1>7. Cardinality(rest \ claims[t]) \in 0..Cardinality(Children)
  BY ChildSets
<1>8. QED BY <1>1, <1>2, <1>3, <1>5, <1>6, <1>7 DEF Left

---------------------------------------------------------------------------
(* What a step of one transaction leaves to the others. *)

Others(t) ==
  /\ \A u \in Txns \ {t} : pc'[u] = pc[u] /\ claims'[u] = claims[u]
  /\ \A u \in Txns \ {t}, r \in Rows : lock[r] = u => lock'[r] = u

(* The four variables of transactions are of their types. *)
TxnTypes ==
  /\ pc \in [Txns -> {"idle", "parent", "group", "rows"}]
  /\ claims \in [Txns -> SUBSET Children]
  /\ seen \in [Txns -> [lost : SUBSET Children, parent : {"none", "now", "later"}]]
  /\ lock \in [Rows -> Txns \cup {None}]

LEMMA EndsFacts ==
  ASSUME TypeOK, NEW t \in Txns, Ends(t)
  PROVE  /\ TxnTypes' /\ Others(t)
         /\ pc'[t] = "idle" /\ claims'[t] = {}
<1>1. NothingSeen \in [lost : SUBSET Children, parent : {"none", "now", "later"}]
  BY DEF NothingSeen
<1>2. TxnTypes'
  BY <1>1 DEF TxnTypes, TypeOK, Ends
<1>3. pc'[t] = "idle" /\ claims'[t] = {}
  BY DEF TypeOK, Ends
<1>4. Others(t)
  BY NoneIsNoTxn DEF TypeOK, Ends, Others
<1>5. QED BY <1>2, <1>3, <1>4

LEMMA TakeFacts ==
  ASSUME TypeOK, NEW t \in Txns, NEW rs \in SUBSET Rows, \A r \in rs : Free(r),
         Take(t, rs)
  PROVE  /\ lock' \in [Rows -> Txns \cup {None}]
         /\ \A r \in rs : lock'[r] = t
         /\ \A u \in Txns, r \in Rows : lock[r] = u => lock'[r] = u
BY NoneIsNoTxn DEF TypeOK, Take, Free

LEMMA ClaimsOfOthers ==
  ASSUME WaitInv, NEW t \in Txns, Others(t), UNCHANGED <<group, result>>,
         NEW u \in Reporters, u # t
  PROVE  ClaimHeld(u)'
<1>1. u \in Txns /\ claims[u] \subseteq Rows /\ Group \in Rows
  BY DEF WaitInv, TypeOK, Txns, Rows
<1>2. ClaimHeld(u)
  BY DEF WaitInv, ClaimsHeld
<1>3. pc'[u] = pc[u] /\ claims'[u] = claims[u]
  BY <1>1 DEF Others
<1>4. \A r \in Rows : lock[r] = u => lock'[r] = u
  BY <1>1 DEF Others
<1>5. QED BY <1>1, <1>2, <1>3, <1>4 DEF ClaimHeld, Left, Reported

---------------------------------------------------------------------------
(* One lemma per kind of step. *)

LEMMA InitWait == Init => WaitInv
<1> SUFFICES ASSUME Init PROVE WaitInv
  OBVIOUS
<1>1. Cardinality(Children) \in 0..Cardinality(Children)
  BY ChildSets
<1>2. NothingSeen \in [lost : SUBSET Children, parent : {"none", "now", "later"}]
  BY DEF NothingSeen
<1>3. TypeOK
  BY <1>1, <1>2 DEF Init, TypeOK, Parent
<1>4. EnterLocked /\ ClosedIsQuiet /\ NoLostWakeup
  BY NoneIsNoTxn DEF Init, EnterLocked, ClosedIsQuiet, NoLostWakeup
<1>5. ClaimsHeld
  BY DEF Init, ClaimsHeld, ClaimHeld, Txns
<1>6. RemainingCounts
  <2>1. Children \ Reported = Children
    BY DEF Init, Reported
  <2>2. QED BY <2>1 DEF Init, RemainingCounts
<1>7. QED BY <1>3, <1>4, <1>5, <1>6 DEF WaitInv

(* A step that touches neither the group nor a result. *)
LEMMA CountsKept ==
  ASSUME WaitInv, UNCHANGED <<group, result>>
  PROVE  RemainingCounts'
BY DEF WaitInv, RemainingCounts, Reported

(* A step of the sleeping parent, the deadline, or a child that ends        *)
(* unheard: no transaction moves.                                          *)
QuietStep ==
  /\ UNCHANGED <<group, result, pc, claims, seen, lock>>
  /\ ended' \subseteq Children /\ expired' \in BOOLEAN
  /\ \/ parent' = parent
     \/ /\ parent.state \in {"ending", "asleep"}
        /\ parent' \in Parent
        /\ parent'.state # "finished"
        /\ parent'.state = "running" => parent'.runAt = "now"
        /\ parent'.runAt \in {parent.runAt, "now"}

LEMMA ParentIsQuiet ==
  ASSUME TypeOK, ParentStep \/ \E c \in Children : ChildEndsUnheard(c)
  PROVE  QuietStep
<1>0. parent \in Parent /\ ended \subseteq Children /\ expired \in BOOLEAN
  BY DEF TypeOK
<1>1. CASE ParentUnlocked
  <2>1. parent' = [state |-> "asleep", runAt |-> parent.runAt]
    BY <1>0, <1>1 DEF ParentUnlocked, Parent
  <2>2. QED BY <1>0, <1>1, <2>1 DEF ParentUnlocked, QuietStep, Parent
<1>2. CASE ParentDue
  <2>1. parent' = [state |-> "asleep", runAt |-> "now"]
    BY <1>0, <1>2 DEF ParentDue, Parent
  <2>2. QED BY <1>0, <1>2, <2>1 DEF ParentDue, QuietStep, Parent
<1>3. CASE ParentFetched
  <2>1. parent' = [state |-> "running", runAt |-> "now"]
    BY <1>0, <1>3 DEF ParentFetched, Parent
  <2>2. QED BY <1>0, <1>3, <2>1 DEF ParentFetched, QuietStep, Parent
<1>4. CASE DeadlinePasses \/ \E c \in Children : ChildEndsUnheard(c)
  BY <1>0, <1>4 DEF DeadlinePasses, ChildEndsUnheard, QuietStep
<1>5. QED BY <1>1, <1>2, <1>3, <1>4 DEF ParentStep

LEMMA QuietKeeps ==
  ASSUME WaitInv, QuietStep
  PROVE  WaitInv'
<1>1. TypeOK'
  BY DEF WaitInv, TypeOK, QuietStep
<1>2. EnterLocked'
  BY DEF WaitInv, EnterLocked, QuietStep
<1>3. ClaimsHeld'
  BY DEF WaitInv, ClaimsHeld, ClaimHeld, Left, Reported, QuietStep
<1>4. ClosedIsQuiet'
  BY DEF WaitInv, ClosedIsQuiet, QuietStep
<1>5. NoLostWakeup'
  BY DEF WaitInv, NoLostWakeup, QuietStep
<1>6. QED BY <1>1, <1>2, <1>3, <1>4, <1>5, CountsKept DEF WaitInv, QuietStep

LEMMA EnterKeeps ==
  ASSUME WaitInv, EnterStep
  PROVE  WaitInv'
<1>0. /\ TypeOK /\ Enter \in Txns /\ {Enter, Group} \subseteq Rows
      /\ pc \in [Txns -> {"idle", "parent", "group", "rows"}]
      /\ None \notin Txns /\ \A t \in Reporters : t # Enter /\ t \in Txns
  BY NoneIsNoTxn DEF WaitInv, TypeOK, Rows, Txns
<1>1. CASE EnterBegins
  <2>1. /\ UNCHANGED <<parent, group, result, ended, expired, claims, seen, lock>>
        /\ pc' = [pc EXCEPT ![Enter] = "parent"] /\ parent.state = "running"
    BY <1>1 DEF EnterBegins
  <2>2. TypeOK' /\ EnterLocked'
    BY <1>0, <2>1 DEF WaitInv, TypeOK, EnterLocked
  <2>3. Others(Enter)
    BY <1>0, <2>1 DEF Others
  <2>4. ClaimsHeld'
    BY <1>0, <2>1, <2>3, ClaimsOfOthers DEF ClaimsHeld
  <2>5. ClosedIsQuiet' /\ NoLostWakeup'
    BY <2>1 DEF WaitInv, ClosedIsQuiet, NoLostWakeup
  <2>6. QED BY <2>1, <2>2, <2>4, <2>5, CountsKept DEF WaitInv
<1>2. CASE EnterLocksOwnRow \/ EnterFinishes
  <2>1. PICK f \in {"group", "rows"}, r \in {Enter, Group} :
          /\ pc' = [pc EXCEPT ![Enter] = f] /\ Take(Enter, {r}) /\ Free(r)
          /\ f = "group" => r = Enter
          /\ f = "rows" => r = Group /\ lock[Enter] = Enter
    BY <1>2 DEF EnterLocksOwnRow, EnterFinishes, WaitInv, EnterLocked
  <2>2. UNCHANGED <<parent, group, result, ended, expired, claims, seen>> /\ pc[Enter] # "idle"
    BY <1>2 DEF EnterLocksOwnRow, EnterFinishes
  <2>3. /\ lock' \in [Rows -> Txns \cup {None}] /\ lock'[r] = Enter
        /\ \A u \in Txns, x \in Rows : lock[x] = u => lock'[x] = u
    BY <1>0, <2>1, TakeFacts
  <2>4. TypeOK'
    BY <1>0, <2>1, <2>2, <2>3 DEF WaitInv, TypeOK
  <2>5. EnterLocked'
    BY <1>0, <2>1, <2>2, <2>3 DEF WaitInv, EnterLocked
  <2>6. Others(Enter)
    BY <1>0, <2>1, <2>2, <2>3 DEF Others
  <2>7. ClaimsHeld'
    BY <1>0, <2>2, <2>6, ClaimsOfOthers DEF ClaimsHeld
  <2>8. ClosedIsQuiet' /\ NoLostWakeup'
    BY <2>2 DEF WaitInv, ClosedIsQuiet, NoLostWakeup
  <2>9. QED BY <2>2, <2>4, <2>5, <2>7, <2>8, CountsKept DEF WaitInv
<1>3. CASE EnterSuspends
  <2>1. /\ UNCHANGED <<group, result, ended, expired>> /\ Ends(Enter)
        /\ parent' = [state |-> "ending", runAt |-> "later"] /\ group.remaining # 0
        /\ parent.state = "running"
    BY <1>3 DEF EnterSuspends, Over, WaitInv, EnterLocked
  <2>2. /\ TxnTypes' /\ Others(Enter) /\ pc'[Enter] = "idle"
    BY <1>0, <2>1, EndsFacts
  <2>3. TypeOK'
    BY <2>1, <2>2 DEF WaitInv, TypeOK, TxnTypes, Parent
  <2>4. EnterLocked'
    BY <2>1, <2>2 DEF EnterLocked
  <2>5. ClaimsHeld'
    BY <1>0, <2>1, <2>2, ClaimsOfOthers DEF ClaimsHeld
  <2>6. ClosedIsQuiet'
    BY <2>1 DEF WaitInv, ClosedIsQuiet
  <2>7. NoLostWakeup'
    <3>1. group.remaining \in Nat
      BY DEF WaitInv, TypeOK
    <3>2. QED BY <2>1, <3>1 DEF NoLostWakeup
  <2>8. QED BY <2>1, <2>3, <2>4, <2>5, <2>6, <2>7, CountsKept DEF WaitInv
<1>4. CASE EnterDeletes
  <2>1. /\ UNCHANGED <<ended, expired>> /\ Ends(Enter)
        /\ parent' = [parent EXCEPT !.state = "finished"]
        /\ group' = [open |-> FALSE, remaining |-> 0]
        /\ result' = [c \in Children |-> "none"]
        /\ lock[Group] = Enter /\ \A c \in Children : lock[c] = None
    BY <1>4 DEF EnterDeletes, WaitInv, EnterLocked, Free
  <2>2. /\ TxnTypes' /\ Others(Enter) /\ pc'[Enter] = "idle"
    BY <1>0, <2>1, EndsFacts
  <2>3. parent' \in Parent /\ parent'.state = "finished"
    BY <2>1 DEF WaitInv, TypeOK, Parent
  <2>4. TypeOK'
    <3>1. 0 \in 0..Cardinality(Children)
      BY ChildSets
    <3>2. QED BY <2>1, <2>2, <2>3, <3>1 DEF WaitInv, TypeOK, TxnTypes
  <2>5. EnterLocked' /\ NoLostWakeup'
    BY <2>2, <2>3 DEF EnterLocked, NoLostWakeup
  <2>6. \A t \in Reporters : claims[t] = {} /\ pc[t] \in {"idle", "rows"}
    <3> TAKE t \in Reporters
    <3>1. claims[t] \subseteq Children
      BY <1>0 DEF TypeOK
    <3>2. claims[t] = {}
      BY <1>0, <2>1, <3>1 DEF WaitInv, ClaimsHeld, ClaimHeld
    <3>3. QED BY <1>0, <3>2 DEF WaitInv, ClaimsHeld, ClaimHeld
  <2>7. \A t \in Reporters : claims'[t] = {} /\ pc'[t] \in {"idle", "rows"}
    BY <1>0, <2>2, <2>6 DEF Others
  <2>8. ClaimsHeld'
    BY <2>7 DEF ClaimsHeld, ClaimHeld
  <2>9. ClosedIsQuiet' /\ RemainingCounts'
    BY <2>1, <2>3, <2>7 DEF ClosedIsQuiet, RemainingCounts
  <2>10. QED BY <2>4, <2>5, <2>8, <2>9 DEF WaitInv
<1>5. QED BY <1>1, <1>2, <1>3, <1>4 DEF EnterStep

---------------------------------------------------------------------------
(* Reports. *)

(* What a report's step leaves of the parent's transaction: it wakes the   *)
(* parent, or does not touch it.                                           *)
LEMMA EnterIsKept ==
  ASSUME WaitInv, NEW t \in Reporters, Others(t),
         parent' = parent \/ parent' = Woken(t)
  PROVE  /\ EnterLocked' /\ parent' \in Parent
         /\ parent'.state = parent.state
         /\ parent'.runAt \in {parent.runAt, "now"}
<1>1. parent \in Parent
  BY DEF WaitInv, TypeOK
<1>2. Woken(t) = [state |-> parent.state, runAt |-> "now"]
  BY <1>1 DEF Woken, Parent
<1>3. /\ parent' \in Parent /\ parent'.state = parent.state
      /\ parent'.runAt \in {parent.runAt, "now"}
  BY <1>1, <1>2 DEF Parent
<1>4. /\ t # Enter /\ Enter \in Txns /\ {Enter, Group} \subseteq Rows
  BY NoneIsNoTxn DEF Rows
<1>5. /\ pc'[Enter] = pc[Enter]
      /\ \A r \in {Enter, Group} : lock[r] = Enter => lock'[r] = Enter
  BY <1>4 DEF Others
<1>6. EnterLocked
  BY DEF WaitInv
<1>7. EnterLocked'
  BY <1>3, <1>5, <1>6 DEF EnterLocked
<1>8. QED BY <1>3, <1>7

(* A step of a report that changes nothing but itself, its locks and the   *)
(* children that have ended.                                               *)
LEMMA ReportWaits ==
  ASSUME WaitInv, NEW t \in Reporters, Others(t), TxnTypes',
         UNCHANGED <<parent, group, result, expired>>, ended' \subseteq Children,
         ClaimHeld(t)', claims'[t] # {} => group.open
  PROVE  WaitInv'
<1>1. TypeOK'
  BY DEF WaitInv, TypeOK, TxnTypes
<1>2. EnterLocked'
  BY EnterIsKept
<1>3. t \in Txns /\ \A u \in Reporters \ {t} : claims'[u] = claims[u]
  BY DEF Others, Txns
<1>4. ClaimsHeld'
  BY <1>3, ClaimsOfOthers DEF ClaimsHeld
<1>5. ClosedIsQuiet'
  BY <1>3 DEF WaitInv, ClosedIsQuiet
<1>6. NoLostWakeup'
  BY DEF WaitInv, NoLostWakeup
<1>7. QED BY <1>1, <1>2, <1>4, <1>5, <1>6, CountsKept DEF WaitInv

LEMMA ReportBeginsKeeps ==
  ASSUME WaitInv, NEW t \in Reporters, ReportBegins(t)
  PROVE  WaitInv'
<1>0. t \in Txns /\ TypeOK /\ ClaimHeld(t)
  BY DEF Txns, WaitInv, ClaimsHeld
<1>1. /\ pc[t] = "idle" /\ pc' = [pc EXCEPT ![t] = "rows"]
      /\ UNCHANGED <<parent, group, result, ended, expired, claims, lock>>
  BY DEF ReportBegins
<1>2. PICK s \in SUBSET Children :
        seen' = [seen EXCEPT ![t] = [lost |-> s, parent |-> parent.runAt]]
  BY <1>0 DEF ReportBegins, TypeOK
<1>3. parent.runAt \in {"none", "now", "later"}
  BY <1>0 DEF TypeOK, Parent
<1>4. TxnTypes'
  BY <1>0, <1>1, <1>2, <1>3 DEF TxnTypes, TypeOK
<1>5. Others(t) /\ pc'[t] = "rows"
  BY <1>0, <1>1 DEF Others, TypeOK
<1>6. claims[t] = {}
  BY <1>0, <1>1 DEF ClaimHeld
<1>7. ClaimHeld(t)'
  BY <1>1, <1>5, <1>6 DEF ClaimHeld
<1>8. ended' \subseteq Children
  BY <1>0, <1>1 DEF TypeOK
<1>9. QED BY <1>1, <1>4, <1>5, <1>6, <1>7, <1>8, ReportWaits

LEMMA ReportClaimsKeeps ==
  ASSUME WaitInv, NEW t \in Reporters, ReportClaims(t)
  PROVE  WaitInv'
<1>0. t \in Txns /\ TypeOK
  BY DEF Txns, WaitInv
<1>1. /\ pc' = [pc EXCEPT ![t] = "group"] /\ claims' = [claims EXCEPT ![t] = Claimed(t)]
      /\ Take(t, Claimed(t)) /\ Claimed(t) # {}
      /\ UNCHANGED <<parent, group, result, ended, expired, seen>>
  BY DEF ReportClaims
<1>2. Claimed(t) \subseteq Children
  <2>1. seen[t].lost \subseteq Children
    BY <1>0 DEF TypeOK
  <2>2. QED BY <2>1 DEF Claimed
<1>3. group.open /\ \A c \in Claimed(t) : Free(c) /\ c \notin Reported
  BY <1>1 DEF Claimed
<1>4. /\ lock' \in [Rows -> Txns \cup {None}]
      /\ \A r \in Claimed(t) : lock'[r] = t
      /\ \A u \in Txns, r \in Rows : lock[r] = u => lock'[r] = u
  <2>1. Claimed(t) \in SUBSET Rows
    BY <1>2 DEF Rows
  <2>2. QED BY <1>0, <1>1, <1>3, <2>1, TakeFacts
<1>5. TxnTypes'
  BY <1>0, <1>1, <1>2, <1>4 DEF TxnTypes, TypeOK
<1>6. Others(t) /\ pc'[t] = "group" /\ claims'[t] = Claimed(t)
  BY <1>0, <1>1, <1>4 DEF Others, TypeOK
<1>7. Reported' = Reported
  BY <1>1 DEF Reported
<1>8. ClaimHeld(t)'
  BY <1>1, <1>3, <1>4, <1>6, <1>7 DEF ClaimHeld
<1>9. ended' \subseteq Children
  BY <1>0, <1>1 DEF TypeOK
<1>10. QED BY <1>1, <1>3, <1>5, <1>6, <1>8, <1>9, ReportWaits

LEMMA ReportsNothingKeeps ==
  ASSUME WaitInv, NEW t \in Reporters, ReportsNothing(t)
  PROVE  WaitInv'
<1>1. t \in Txns /\ TypeOK
  BY DEF Txns, WaitInv
<1>2. Ends(t) /\ UNCHANGED <<parent, group, result, expired>> /\ ended' \subseteq Children
  BY <1>1 DEF ReportsNothing, TypeOK
<1>3. TxnTypes' /\ Others(t) /\ pc'[t] = "idle" /\ claims'[t] = {}
  BY <1>1, <1>2, EndsFacts
<1>4. ClaimHeld(t)'
  BY <1>3 DEF ClaimHeld
<1>5. QED BY <1>2, <1>3, <1>4, ReportWaits

LEMMA ReportCountsLastKeeps ==
  ASSUME WaitInv, NEW t \in Reporters, ReportCountsLast(t)
  PROVE  WaitInv'
<1>0. t \in Txns /\ TypeOK /\ Group \in Rows /\ ClaimHeld(t)
  BY DEF Txns, WaitInv, Rows, ClaimsHeld
<1>1. /\ pc[t] = "group" /\ pc' = [pc EXCEPT ![t] = "parent"] /\ Take(t, {Group})
      /\ Free(Group) /\ Left(t) = 0
      /\ UNCHANGED <<parent, group, result, ended, expired, claims, seen>>
  BY DEF ReportCountsLast
<1>2. /\ lock' \in [Rows -> Txns \cup {None}] /\ lock'[Group] = t
      /\ \A u \in Txns, r \in Rows : lock[r] = u => lock'[r] = u
  BY <1>0, <1>1, TakeFacts
<1>3. TxnTypes'
  BY <1>0, <1>1, <1>2 DEF TxnTypes, TypeOK
<1>4. Others(t) /\ pc'[t] = "parent"
  BY <1>0, <1>1, <1>2 DEF Others, TypeOK
<1>5. Reported' = Reported /\ Left(t)' = 0
  BY <1>1 DEF Reported, Left
<1>6. claims[t] \subseteq Rows /\ claims[t] # {}
  BY <1>0, <1>1 DEF TypeOK, Rows, ClaimHeld
<1>7. ClaimHeld(t)'
  BY <1>0, <1>1, <1>2, <1>4, <1>5, <1>6 DEF ClaimHeld
<1>8. group.open
  BY <1>6 DEF WaitInv, ClosedIsQuiet
<1>9. ended' \subseteq Children
  BY <1>0, <1>1 DEF TypeOK
<1>10. QED BY <1>1, <1>3, <1>4, <1>7, <1>8, <1>9, ReportWaits

(* The commit: the rows it claims get their results, and the counter what  *)
(* is left.  It holds those rows, so no other report has claimed them; and *)
(* the group row is free or its own, so no other knows that it is the last.*)
LEMMA CommitKeeps ==
  ASSUME WaitInv, NEW t \in Reporters, claims[t] # {}, Commits(t),
         lock[Group] \in {None, t}, UNCHANGED expired,
         parent' = parent \/ parent' = Woken(t),
         Left(t) # 0 \/ parent'.runAt = "now"
  PROVE  WaitInv'
<1>0. /\ t \in Txns /\ TypeOK /\ Group \in Rows /\ ClaimHeld(t) /\ None \notin Txns
      /\ \A u \in Reporters : u \in Txns
  BY NoneIsNoTxn DEF Txns, WaitInv, Rows, ClaimsHeld
<1>1. /\ Ends(t) /\ group' = [group EXCEPT !.remaining = Left(t)]
      /\ result' = [c \in Children |-> IF c \notin claims[t] THEN result[c]
                                       ELSE IF t = c THEN "told" ELSE "lost"]
      /\ ended' \subseteq Children
  BY <1>0 DEF Commits, TypeOK
<1>2. /\ group.open /\ claims[t] \subseteq Children \ Reported
      /\ Left(t) = Cardinality(Children \ (Reported \cup claims[t]))
      /\ Left(t) \in 0..Cardinality(Children)
  BY LeftCounts
<1>3. TxnTypes' /\ Others(t) /\ pc'[t] = "idle" /\ claims'[t] = {}
  BY <1>0, <1>1, EndsFacts
<1>4. /\ group' = [open |-> TRUE, remaining |-> Left(t)]
      /\ group'.open /\ group'.remaining = Left(t)
  <2>1. group \in [open : BOOLEAN, remaining : 0..Cardinality(Children)]
    BY <1>0 DEF TypeOK
  <2>2. QED BY <1>1, <1>2, <2>1
<1>5. Reported' = Reported \cup claims[t]
  BY <1>1, <1>2 DEF Reported
<1>6. EnterLocked' /\ parent' \in Parent /\ parent'.state = parent.state
      /\ parent'.runAt \in {parent.runAt, "now"}
  BY <1>3, EnterIsKept
<1>7. TypeOK'
  <2>1. result' \in [Children -> {"none", "told", "lost"}]
    BY <1>0, <1>1 DEF TypeOK
  <2>2. group' \in [open : BOOLEAN, remaining : 0..Cardinality(Children)]
    BY <1>2, <1>4
  <2>3. expired' \in BOOLEAN
    BY <1>0 DEF TypeOK
  <2>4. QED BY <1>1, <1>3, <1>6, <2>1, <2>2, <2>3 DEF TypeOK, TxnTypes
<1>8. ClaimsHeld'
  <2> SUFFICES ASSUME NEW u \in Reporters PROVE ClaimHeld(u)'
    BY DEF ClaimsHeld
  <2>1. CASE u = t
    BY <1>3, <2>1 DEF ClaimHeld
  <2>2. CASE u # t
    <3>1. /\ pc'[u] = pc[u] /\ claims'[u] = claims[u] /\ u \in Txns
          /\ claims[u] \subseteq Children /\ claims[u] \subseteq Rows
          /\ \A r \in Rows : lock[r] = u => lock'[r] = u
      BY <1>0, <1>3, <2>2 DEF Others, TypeOK, Rows
    <3>2. ClaimHeld(u)
      BY DEF WaitInv, ClaimsHeld
    <3>3. \A c \in claims[u] : c \notin claims[t]
      BY <1>0, <2>2, <3>2 DEF ClaimHeld
    <3>4. \A c \in claims[u] : lock'[c] = u /\ c \notin Reported'
      BY <1>5, <3>1, <3>2, <3>3 DEF ClaimHeld
    <3>5. pc[u] # "parent"
      BY <1>0, <2>2, <3>1, <3>2 DEF ClaimHeld
    <3>6. QED BY <3>1, <3>2, <3>4, <3>5 DEF ClaimHeld
  <2>3. QED BY <2>1, <2>2
<1>9. ClosedIsQuiet'
  BY <1>4 DEF ClosedIsQuiet
<1>10. RemainingCounts'
  BY <1>2, <1>4, <1>5 DEF RemainingCounts
<1>11. NoLostWakeup'
  BY <1>2, <1>4 DEF NoLostWakeup
<1>12. QED BY <1>6, <1>7, <1>8, <1>9, <1>10, <1>11 DEF WaitInv

LEMMA ReportKeeps ==
  ASSUME WaitInv, NEW t \in Reporters, ReportStep(t)
  PROVE  WaitInv'
<1>1. ClaimHeld(t)
  BY DEF WaitInv, ClaimsHeld
<1>2. CASE ReportCounts(t)
  <2>1. claims[t] # {} /\ Commits(t) /\ lock[Group] \in {None, t} /\ UNCHANGED expired
        /\ parent' = parent /\ Left(t) # 0
    BY <1>1, <1>2 DEF ReportCounts, Free, ClaimHeld
  <2>2. QED BY <2>1, CommitKeeps
<1>3. CASE ReportWakes(t)
  <2>1. claims[t] # {} /\ Commits(t) /\ lock[Group] \in {None, t} /\ UNCHANGED expired
        /\ parent' = Woken(t)
    BY <1>1, <1>3 DEF ReportWakes, ClaimHeld
  <2>2. parent'.runAt = "now"
    BY <2>1 DEF Woken, WaitInv, TypeOK, Parent
  <2>3. QED BY <2>1, <2>2, CommitKeeps
<1>4. QED BY <1>2, <1>3, ReportBeginsKeeps, ReportClaimsKeeps, ReportsNothingKeeps,
             ReportCountsLastKeeps DEF ReportStep

---------------------------------------------------------------------------
(* A victim of the deadlock detection rolls back. *)
LEMMA AbortKeeps ==
  ASSUME WaitInv, NEW t \in Txns, Aborts(t)
  PROVE  WaitInv'
<1>1. Ends(t) /\ UNCHANGED <<group, result, ended, expired>> /\ TypeOK
  BY DEF Aborts, WaitInv
<1>2. TxnTypes' /\ Others(t) /\ pc'[t] = "idle" /\ claims'[t] = {}
  BY <1>1, EndsFacts
<1>3. CASE t = Enter
  <2>1. pc[Enter] # "idle"
    <3> SUFFICES ASSUME pc[Enter] = "idle" PROVE FALSE
      OBVIOUS
    <3>1. PICK u \in Txns : u \in WaitsFor(Enter)
      BY <1>3 DEF Aborts, Circular
    <3>2. WaitsFor(Enter) = {}
      BY DEF WaitsFor
    <3>3. QED BY <3>1, <3>2
  <2>2. parent.state = "running" /\ parent.runAt = "now"
    BY <2>1 DEF WaitInv, EnterLocked
  <2>3. parent' = [state |-> "ending", runAt |-> "now"]
    <3>1. parent' = [parent EXCEPT !.state = "ending"]
      BY <1>3 DEF Aborts
    <3>2. QED BY <1>1, <2>2, <3>1 DEF TypeOK, Parent
  <2>4. TypeOK'
    BY <1>1, <1>2, <2>3 DEF TypeOK, TxnTypes, Parent
  <2>5. EnterLocked' /\ NoLostWakeup'
    BY <1>2, <1>3, <2>3 DEF EnterLocked, NoLostWakeup
  <2>6. \A u \in Reporters : u # t
    BY <1>3, NoneIsNoTxn
  <2>7. ClaimsHeld'
    BY <1>1, <1>2, <2>6, ClaimsOfOthers DEF ClaimsHeld
  <2>8. ClosedIsQuiet'
    BY <1>1, <2>2 DEF WaitInv, ClosedIsQuiet
  <2>9. QED BY <1>1, <2>4, <2>5, <2>7, <2>8, CountsKept DEF WaitInv
<1>4. CASE t \in Reporters
  <2>1. UNCHANGED <<parent, group, result, expired>> /\ ended' \subseteq Children
    BY <1>1, <1>4, NoneIsNoTxn DEF Aborts, TypeOK
  <2>2. ClaimHeld(t)'
    BY <1>2 DEF ClaimHeld
  <2>3. QED BY <1>2, <1>4, <2>1, <2>2, ReportWaits
<1>5. QED BY <1>3, <1>4 DEF Txns

---------------------------------------------------------------------------
LEMMA NextWait == WaitInv /\ [Next]_vars => WaitInv'
<1> SUFFICES ASSUME WaitInv, [Next]_vars PROVE WaitInv'
  OBVIOUS
<1>1. CASE EnterStep
  BY <1>1, EnterKeeps
<1>2. CASE ParentStep \/ \E c \in Children : ChildEndsUnheard(c)
  <2>1. QuietStep
    BY <1>2, ParentIsQuiet DEF WaitInv
  <2>2. QED BY <2>1, QuietKeeps
<1>3. CASE \E t \in Reporters : ReportStep(t)
  BY <1>3, ReportKeeps
<1>4. CASE \E t \in Txns : Aborts(t)
  BY <1>4, AbortKeeps
<1>5. CASE Terminated \/ UNCHANGED vars
  <2>1. QuietStep
    BY <1>5 DEF Terminated, vars, QuietStep, WaitInv, TypeOK
  <2>2. QED BY <2>1, QuietKeeps
<1>6. QED BY <1>1, <1>2, <1>3, <1>4, <1>5 DEF Next

LEMMA WaitHolds == Spec => []WaitInv
BY InitWait, NextWait, PTL DEF Spec

---------------------------------------------------------------------------
(* The counter stays at or above zero, as the CHECK of the table demands,  *)
(* and every variable within its type, whoever reports, sweeps and rolls   *)
(* back meanwhile.                                                         *)
THEOREM TypesHold == Spec => []TypeOK
<1>1. WaitInv => TypeOK
  BY DEF WaitInv
<1>2. QED BY <1>1, WaitHolds, PTL

(* While the group is open, its counter is the number of children without  *)
(* a result: no report or sweep of settleJob and sweepWaits counts a child *)
(* twice, or counts one and loses its result.                              *)
THEOREM RemainingIsExact == Spec => []RemainingCounts
<1>1. WaitInv => RemainingCounts
  BY DEF WaitInv
<1>2. QED BY <1>1, WaitHolds, PTL

(* A parent that enterWait has put to sleep has a report still to come, or *)
(* is due: no last report falls between its look at the group and its      *)
(* suspend, for any number of children and of sweeping workers.            *)
THEOREM WakeupsAreKept == Spec => []NoLostWakeup
<1>1. WaitInv => NoLostWakeup
  BY DEF WaitInv
<1>2. QED BY <1>1, WaitHolds, PTL
=============================================================================
