---------------------------- MODULE EnqueueProofs ----------------------------
(***************************************************************************)
(* Theorems of Enqueue, for any number of producers, keys, calls and       *)
(* items.                                                                  *)
(***************************************************************************)
EXTENDS Enqueue, FiniteSetTheorems, TLAPS

---------------------------------------------------------------------------
(* The rank of a number in a finite set of them. *)

LEMMA RankIsNat ==
  ASSUME NEW S, IsFiniteSet(S), NEW i \in S, S \subseteq Nat
  PROVE  Rank(S, i) \in 1..Cardinality(S)
<1> DEFINE low == {j \in S : j <= i}
<1>1. low \in SUBSET S /\ i \in low
  <2>1. i \in Nat
    OBVIOUS
  <2>2. QED BY <2>1
<1>2. IsFiniteSet(low) /\ Cardinality(low) <= Cardinality(S)
  BY <1>1, FS_Subset
<1>3. Cardinality(low) \in Nat /\ Cardinality(S) \in Nat
  BY <1>2, FS_CardinalityType
<1>4. Cardinality(low) # 0
  BY <1>1, <1>2, FS_EmptySet
<1>5. QED BY <1>2, <1>3, <1>4 DEF Rank

LEMMA RankGrows ==
  ASSUME NEW S, IsFiniteSet(S), S \subseteq Nat, NEW i \in S, NEW j \in S, i < j
  PROVE  Rank(S, i) < Rank(S, j)
<1> DEFINE low  == {k \in S : k <= i}
           high == {k \in S : k <= j}
<1>1. high \in SUBSET S
  OBVIOUS
<1>2. low \in SUBSET high
  <2> SUFFICES ASSUME NEW k \in low PROVE k \in high
    OBVIOUS
  <2>1. k \in Nat /\ i \in Nat /\ j \in Nat /\ k <= i
    OBVIOUS
  <2>2. k <= j
    BY <2>1
  <2>3. QED BY <2>2
<1>3. j \in high /\ j \notin low
  <2>1. i \in Nat /\ j \in Nat
    OBVIOUS
  <2>2. j <= j /\ ~(j <= i)
    BY <2>1
  <2>3. QED BY <2>2
<1>4. IsFiniteSet(high)
  BY <1>1, FS_Subset
<1>5. /\ Cardinality(low) <= Cardinality(high)
      /\ Cardinality(low) # Cardinality(high)
  BY <1>2, <1>3, <1>4, FS_Subset
<1>6. Cardinality(low) \in Nat /\ Cardinality(high) \in Nat
  BY <1>2, <1>4, FS_Subset, FS_CardinalityType
<1>7. QED BY <1>5, <1>6 DEF Rank

LEMMA RankTells ==
  ASSUME NEW S, IsFiniteSet(S), S \subseteq Nat, NEW i \in S, NEW j \in S,
         Rank(S, i) = Rank(S, j)
  PROVE  i = j
<1>1. Rank(S, i) \in Int /\ Rank(S, j) \in Int
  <2>1. Cardinality(S) \in Nat
    BY FS_CardinalityType
  <2>2. Rank(S, i) \in 1..Cardinality(S)
    BY RankIsNat
  <2>3. Rank(S, j) \in 1..Cardinality(S)
    BY RankIsNat
  <2>4. QED BY <2>1, <2>2, <2>3
<1>2. ~(i < j) /\ ~(j < i)
  <2>1. i < j => Rank(S, i) < Rank(S, j)
    BY RankGrows
  <2>2. j < i => Rank(S, j) < Rank(S, i)
    BY RankGrows
  <2>3. QED BY <1>1, <2>1, <2>2
<1>3. QED BY <1>2

LEMMA RankCovers ==
  ASSUME NEW S, IsFiniteSet(S), S \subseteq Nat, NEW n \in 1..Cardinality(S)
  PROVE  \E i \in S : Rank(S, i) = n
<1> DEFINE all == 1..Cardinality(S)
           f   == [i \in S |-> Rank(S, i)]
<1>1. Cardinality(S) \in Nat
  BY FS_CardinalityType
<1>2. IsFiniteSet(all) /\ Cardinality(all) = Cardinality(S)
  <2>1. 1 \in Int /\ Cardinality(S) \in Int
    BY <1>1
  <2>2. IsFiniteSet(all) /\ Cardinality(all) = IF 1 > Cardinality(S) THEN 0 ELSE Cardinality(S) - 1 + 1
    BY <2>1, FS_Interval
  <2>3. QED BY <1>1, <2>2
<1>3. f \in [S -> all]
  BY RankIsNat
<1>4. \A i, j \in S : f[i] = f[j] => i = j
  BY RankTells
<1>5. f \in Injection(S, all)
  BY <1>3, <1>4 DEF Injection, IsInjective
<1>6. f \in Surjection(S, all)
  BY <1>2, <1>5, FS_Injection
<1>7. PICK i \in S : f[i] = n
  BY <1>6 DEF Surjection
<1>8. QED BY <1>7

LEMMA LeastExists ==
  ASSUME NEW S, IsFiniteSet(S), S \subseteq Nat, S # {}
  PROVE  \E i \in S : \A j \in S : i <= j
<1>1. Cardinality(S) \in Nat /\ Cardinality(S) # 0
  BY FS_CardinalityType, FS_EmptySet
<1>2. PICK i \in S : Rank(S, i) = 1
  <2>1. 1 \in 1..Cardinality(S)
    BY <1>1
  <2>2. QED BY <2>1, RankCovers
<1>3. ASSUME NEW j \in S PROVE i <= j
  <2>1. Rank(S, j) \in 1..Cardinality(S)
    BY RankIsNat
  <2>2. ~(j < i)
    <3>1. j < i => Rank(S, j) < Rank(S, i)
      BY RankGrows
    <3>2. QED BY <1>1, <1>2, <2>1, <3>1
  <2>3. QED BY <2>2
<1>4. QED BY <1>3

(* Two sets of one size: the nth of one, for the nth of the other. *)
LEMMA RankFinds ==
  ASSUME NEW S, IsFiniteSet(S), S \subseteq Nat, NEW T, IsFiniteSet(T), T \subseteq Nat,
         Cardinality(T) = Cardinality(S), NEW i \in S
  PROVE  \E t \in T : Rank(T, t) = Rank(S, i)
BY RankIsNat, RankCovers

---------------------------------------------------------------------------
(* The inductive invariant: what a transaction has written it keeps locked *)
(* until it ends, so what its call will answer is in the rows; and a key's *)
(* committed row is the latest claim until that claim has expired.         *)

By     == Producers \cup {None}
KeyRec == [job : 0..MaxJobs, expires : Times]
JobRec == [state : {"none", "queued", "locked", "last", "gone"}, key : JobKeys \cup {None},
           content : Nat, maxAttempts : Nat, lane : Nat, runAt : Nat, tried : BOOLEAN]
Held(S) == [now : S, was : S, by : By]

Claimed(job) == [key : IdemKeys, job : job, at : 0..MaxClock, expires : Times]
Phases == {"idle", "open", "answered"}

Tables ==
  /\ requests \subseteq Calls
  /\ \A req \in requests : req.many \/ Len(req.items) = 1
  /\ clock \in 0..MaxClock
  /\ keys \in [IdemKeys -> Held(KeyRec)]
  /\ \A k \in IdemKeys : keys[k].now.expires <= clock + Ttl /\ keys[k].was.expires <= clock + Ttl
  /\ jobs \in [Ids -> Held(JobRec)]
  /\ claims \subseteq Claimed(Ids)
  /\ DOMAIN prod = Producers

Busy(p)  == prod[p].phase # "idle"
Items_(p) == DOMAIN prod[p].req.items
IdOrNone == (0..MaxJobs) \cup {None}

(* A call that was accepted, with a place for the id of each item. *)
Calling(p) ==
  /\ prod[p] \in [phase : Phases, req : Calls \cup {None}, now : 0..MaxClock, claimed : BOOLEAN,
                  ids : {prod[p].ids}, dup : {prod[p].dup}, claims : {prod[p].claims}]
  /\ ~Busy(p) => prod[p] = Idle
  /\ Busy(p) =>
       /\ prod[p].req \in requests /\ Accepted(prod[p].req) /\ prod[p].now <= clock
       /\ prod[p].ids \in [Items_(p) -> IdOrNone]
       /\ prod[p].dup \subseteq Items_(p) /\ prod[p].claims \subseteq Claimed(Items_(p))
  /\ prod[p].phase = "answered" => Todo(p) = {}
  /\ Busy(p) /\ ~Idempotent(prod[p].req) =>
       ~prod[p].claimed /\ prod[p].dup = {} /\ prod[p].claims = {}

(* The key of the item that is next, or of one that was a duplicate, is    *)
(* locked as the call found it.                                            *)
NextClaimed(p) ==
  prod[p].claimed =>
    /\ prod[p].phase = "open" /\ Todo(p) # {}
    /\ LET k == Item(p, First(p)).idem IN
       k # None /\ keys[k].by = p /\ keys[k].now.job = 0

DuplicatesHeld(p) ==
  \A i \in prod[p].dup :
    /\ prod[p].ids[i] \notin {None, 0}
    /\ LET k == Item(p, i).idem IN
       /\ k # None /\ keys[k].by = p
       /\ keys[k].now.job = prod[p].ids[i] /\ keys[k].now.expires > prod[p].now

(* A claim of the transaction is in its key's row, once its job is added. *)
Holding(p, x) ==
  /\ keys[x.key].by = p /\ x.at <= clock
  /\ prod[p].ids[x.job] # 0 =>
       keys[x.key].now.expires = x.expires /\ x.expires > prod[p].now
  /\ prod[p].ids[x.job] \notin {0, None} => keys[x.key].now.job = prod[p].ids[x.job]
  /\ prod[p].ids[x.job] = None =>
       prod[p].claimed /\ x.job = First(p) /\ x.key = Item(p, First(p)).idem

ClaimsHeld(p) == \A x \in prod[p].claims : Holding(p, x)

(* The row of an item that has its id, unless it joined whatever job had   *)
(* its key (unsafe_dedupe).                                                *)
Joins(req, i) == req.items[i].jobKey # None /\ ItemMode(req, i) = "unsafe_dedupe"

(* The lanes of the row that item i may be told: its own, and once the ids *)
(* are matched those of the items it may be mistaken for.                  *)
Lanes(p, i) ==
  {Item(p, i).lane} \cup
  IF prod[p].phase = "open" THEN {} ELSE {Item(p, j).lane : j \in Mistakable(p, i)}

Named(p, i) ==
  LET item == Item(p, i)
      id   == prod[p].ids[i] IN
  /\ jobs[id].by = p /\ jobs[id].now.state = "queued"
  /\ jobs[id].now.content = item.content /\ jobs[id].now.maxAttempts = Filled(item)
  /\ jobs[id].now.lane \in Lanes(p, i)
  /\ jobs[id].now.key = item.jobKey
  /\ \A j \in Items_(p) \ prod[p].dup : prod[p].ids[j] = id => j = i

NamesHeld(p) ==
  Busy(p) => \A i \in Items_(p) \ prod[p].dup :
    /\ prod[p].ids[i] = 0 => Item(p, i).jobKey # None
    /\ prod[p].ids[i] \notin {None, 0} /\ ~Joins(prod[p].req, i) => Named(p, i)

(* Until it has expired, a committed claim is the row of its key. *)
Latest(c) ==
  \/ c.expires <= clock
  \/ /\ keys[c.key].was = [job |-> c.job, expires |-> c.expires]
     /\ keys[c.key].now = keys[c.key].was

ClaimsLatest ==
  \A c \in claims :
    /\ Latest(c)
    /\ \A p \in Producers : \A x \in prod[p].claims : x.key = c.key => x.at >= c.expires

ProducerInv(p) ==
  Calling(p) /\ NextClaimed(p) /\ DuplicatesHeld(p) /\ ClaimsHeld(p) /\ NamesHeld(p)

EnqueueInv ==
  /\ Tables
  /\ \A p \in Producers : ProducerInv(p)
  /\ ClaimsLatest
  /\ OneJobPerClaim

---------------------------------------------------------------------------
(* Calls, items and the next item of a call *)

LEMMA Assumed ==
  /\ None \notin Producers /\ None \notin IdemKeys /\ None \notin JobKeys
  /\ None \notin Modes /\ None \notin Nat
  /\ Ttl \in Nat /\ Ttl # 0 /\ MaxClock \in Nat /\ MaxJobs \in Nat
BY EnqueueAssumption DEF EnqueueAssumption

LEMMA CallShape ==
  ASSUME NEW req \in Calls
  PROVE  /\ Len(req.items) \in Nat /\ DOMAIN req.items = 1..Len(req.items)
         /\ \A i \in DOMAIN req.items : req.items[i] \in Items
         /\ req.many \in BOOLEAN /\ req.tx \in BOOLEAN /\ req.mode \in Modes \cup {None}
<1>1. req.items \in Seq(Items) /\ req.many \in BOOLEAN /\ req.tx \in BOOLEAN
      /\ req.mode \in Modes \cup {None}
  BY DEF Calls
<1>2. PICK sq \in Seq(Items) : sq = req.items
  BY <1>1
<1>3. Len(sq) \in Nat /\ DOMAIN sq = 1..Len(sq) /\ \A i \in 1..Len(sq) : sq[i] \in Items
  OBVIOUS
<1>4. QED BY <1>1, <1>2, <1>3

(* A producer within a call, and the items of that call. *)
LEMMA BusyShape ==
  ASSUME Tables, NEW p \in Producers, Calling(p), Busy(p)
  PROVE  /\ prod[p].req \in Calls
         /\ \E n \in Nat : Items_(p) = 1..n
         /\ \A i \in Items_(p) : Item(p, i) \in Items
         /\ DOMAIN prod[p].ids = Items_(p)
         /\ \A i \in Items_(p) : prod[p].ids[i] \in IdOrNone
<1>1. prod[p].req \in Calls
  BY DEF Tables, Calling
<1>2. PICK req \in Calls : req = prod[p].req
  BY <1>1
<1>3. Len(req.items) \in Nat /\ DOMAIN req.items = 1..Len(req.items)
      /\ \A i \in DOMAIN req.items : req.items[i] \in Items
  BY CallShape
<1>4. QED BY <1>1, <1>2, <1>3 DEF Calling, Items_, Item

LEMMA NextItem ==
  ASSUME Tables, NEW p \in Producers, Calling(p), Busy(p), Todo(p) # {}
  PROVE  /\ First(p) \in Todo(p) /\ First(p) \in Items_(p)
         /\ \A i \in Todo(p) : i \in Items_(p) /\ prod[p].ids[i] = None
<1>1. PICK n \in Nat : Items_(p) = 1..n
  BY BusyShape
<1>2. Todo(p) \in SUBSET Items_(p) /\ \A i \in Todo(p) : prod[p].ids[i] = None
  BY BusyShape DEF Todo
<1>3. IsFiniteSet(1..n)
  BY FS_Interval
<1>4. IsFiniteSet(Todo(p)) /\ Todo(p) \subseteq Nat
  BY <1>1, <1>2, <1>3, FS_Subset
<1>5. \E i \in Todo(p) : \A j \in Todo(p) : i <= j
  BY <1>4, LeastExists
<1>6. First(p) \in Todo(p)
  BY <1>5 DEF First
<1>7. QED BY <1>2, <1>6

---------------------------------------------------------------------------
(* A step that leaves a producer alone, and the rows that it has locked. *)

LEMMA OthersHold ==
  ASSUME Tables, Tables', NEW p \in Producers, ProducerInv(p),
         prod'[p] = prod[p], requests' = requests, clock <= clock',
         \A k \in IdemKeys : keys[k].by = p => keys'[k] = keys[k],
         \A j \in Ids : jobs[j].by = p /\ jobs[j].now.state = "queued" => jobs'[j] = jobs[j]
  PROVE  ProducerInv(p)'
<1>1. /\ Todo(p)' = Todo(p) /\ First(p)' = First(p) /\ Items_(p)' = Items_(p)
      /\ Busy(p)' = Busy(p) /\ \A i : Item(p, i)' = Item(p, i) /\ Lanes(p, i)' = Lanes(p, i)
  <2>1. \A i : Item(p, i)' = Item(p, i)
    BY DEF Item
  <2>2. ASSUME NEW i PROVE Lanes(p, i)' = Lanes(p, i)
    <3>1. Alike(p, i)' = Alike(p, i)
      BY <2>1 DEF Alike
    <3>2. Mistakable(p, i)' = Mistakable(p, i)
      BY <2>1, <3>1 DEF Mistakable
    <3>3. QED BY <2>1, <3>2 DEF Lanes
  <2>3. QED BY <2>1, <2>2 DEF Todo, First, Items_, Busy
<1>2. Calling(p) /\ clock \in Nat /\ clock' \in Nat
  BY Assumed DEF ProducerInv, Tables
<1>3. Calling(p)'
  <2>1. ~Busy(p) => prod[p] = Idle
    BY <1>2 DEF Calling
  <2>2. Busy(p) => prod[p].now \in Nat /\ prod[p].now <= clock'
    BY <1>2, Assumed DEF Calling
  <2>3. QED BY <1>1, <1>2, <2>1, <2>2 DEF Calling
<1>4. CASE ~Busy(p)
  <2>1. prod[p] = Idle
    BY <1>2, <1>4 DEF Calling
  <2>2. prod'[p].claimed = FALSE /\ prod'[p].dup = {} /\ prod'[p].claims = {}
        /\ prod'[p].phase = "idle"
    BY <2>1 DEF Idle
  <2>3. QED
    BY <1>3, <2>2 DEF ProducerInv, NextClaimed, DuplicatesHeld, ClaimsHeld, NamesHeld, Busy
<1>5. CASE Busy(p)
  <2>1. \A i \in Items_(p) : Item(p, i).idem \in IdemKeys \cup {None}
    <3>1. \A i \in Items_(p) : Item(p, i) \in Items
      BY <1>2, <1>5, BusyShape
    <3>2. QED BY <3>1 DEF Items
  <2>2. NextClaimed(p)'
    <3> SUFFICES ASSUME prod[p].claimed PROVE NextClaimed(p)'
      BY DEF NextClaimed
    <3>1. /\ prod[p].phase = "open" /\ Todo(p) # {}
          /\ Item(p, First(p)).idem # None
          /\ keys[Item(p, First(p)).idem].by = p
          /\ keys[Item(p, First(p)).idem].now.job = 0
      BY DEF ProducerInv, NextClaimed
    <3>2. First(p) \in Items_(p)
      BY <1>2, <1>5, <3>1, NextItem
    <3>3. keys'[Item(p, First(p)).idem] = keys[Item(p, First(p)).idem]
      BY <2>1, <3>1, <3>2
    <3>4. QED BY <1>1, <3>1, <3>3 DEF NextClaimed
  <2>3. DuplicatesHeld(p)'
    <3> SUFFICES ASSUME NEW i \in prod[p].dup
                 PROVE  /\ prod[p].ids[i] \notin {None, 0}
                        /\ Item(p, i).idem # None
                        /\ keys'[Item(p, i).idem].by = p
                        /\ keys'[Item(p, i).idem].now.job = prod[p].ids[i]
                        /\ keys'[Item(p, i).idem].now.expires > prod[p].now
      BY <1>1 DEF DuplicatesHeld
    <3>1. i \in Items_(p)
      BY <1>2, <1>5 DEF Calling
    <3>2. /\ prod[p].ids[i] \notin {None, 0} /\ Item(p, i).idem # None
          /\ keys[Item(p, i).idem].by = p
          /\ keys[Item(p, i).idem].now.job = prod[p].ids[i]
          /\ keys[Item(p, i).idem].now.expires > prod[p].now
      BY DEF ProducerInv, DuplicatesHeld
    <3>3. QED BY <2>1, <3>1, <3>2
  <2>4. ClaimsHeld(p)'
    <3> SUFFICES ASSUME NEW x \in prod[p].claims PROVE Holding(p, x)'
      BY DEF ClaimsHeld
    <3>1. Holding(p, x)
      BY DEF ProducerInv, ClaimsHeld
    <3>2. x.key \in IdemKeys /\ x.at \in Nat
      BY <1>2, <1>5 DEF Calling, Claimed
    <3>3. keys'[x.key] = keys[x.key]
      BY <3>1, <3>2 DEF Holding
    <3>4. x.at <= clock'
      BY <1>2, <3>1, <3>2 DEF Holding
    <3>5. QED BY <1>1, <3>1, <3>3, <3>4 DEF Holding
  <2>5. NamesHeld(p)'
    <3> SUFFICES ASSUME NEW i \in Items_(p) \ prod[p].dup
                 PROVE  /\ prod[p].ids[i] = 0 => Item(p, i).jobKey # None
                        /\ prod[p].ids[i] \notin {None, 0} /\ ~Joins(prod[p].req, i) =>
                             Named(p, i)'
      BY <1>1 DEF NamesHeld
    <3>1. /\ prod[p].ids[i] = 0 => Item(p, i).jobKey # None
          /\ prod[p].ids[i] \notin {None, 0} /\ ~Joins(prod[p].req, i) => Named(p, i)
      BY <1>5 DEF ProducerInv, NamesHeld
    <3>2. ASSUME Named(p, i), prod[p].ids[i] \notin {None, 0}
          PROVE  Named(p, i)'
      <4>1. prod[p].ids[i] \in Ids
        <5>1. prod[p].ids[i] \in IdOrNone
          BY <1>2, <1>5, BusyShape
        <5>2. QED BY <3>2, <5>1, Assumed DEF IdOrNone, Ids
      <4>2. jobs'[prod[p].ids[i]] = jobs[prod[p].ids[i]]
        BY <3>2, <4>1 DEF Named
      <4>3. QED BY <1>1, <3>2, <4>2 DEF Named
    <3>3. QED BY <3>1, <3>2
  <2>6. QED BY <1>3, <2>2, <2>3, <2>4, <2>5 DEF ProducerInv
<1>6. QED BY <1>4, <1>5

LEMMA IdleHolds ==
  ASSUME Tables', NEW p \in Producers, prod'[p] = Idle
  PROVE  ProducerInv(p)'
<1>1. /\ prod'[p].phase = "idle" /\ prod'[p].claimed = FALSE /\ prod'[p].dup = {}
      /\ prod'[p].claims = {}
  BY DEF Idle
<1>2. Calling(p)'
  <2>1. Idle \in [phase : Phases, req : Calls \cup {None}, now : 0..MaxClock,
                  claimed : BOOLEAN, ids : {Idle.ids}, dup : {Idle.dup},
                  claims : {Idle.claims}]
    BY Assumed DEF Idle, Phases
  <2>2. QED BY <1>1, <2>1 DEF Calling, Busy
<1>3. QED
  BY <1>1, <1>2 DEF ProducerInv, NextClaimed, DuplicatesHeld, ClaimsHeld, NamesHeld, Busy

(* Rows as they are written, and as a transaction leaves them. *)
LEMMA RowFields ==
  ASSUME NEW S, NEW r \in S
  PROVE  /\ Row(r) \in Held(S)
         /\ Row(r).now = r /\ Row(r).was = r /\ Row(r).by = None
BY DEF Row, Held, By

LEMMA WrittenFields ==
  ASSUME NEW S, NEW r \in S, NEW p \in Producers, NEW row \in Held(S)
  PROVE  /\ Written(p, row, r) \in Held(S)
         /\ Written(p, row, r).now = r /\ Written(p, row, r).was = row.was
         /\ Written(p, row, r).by = p
BY DEF Written, Held, By

LEMMA HeldFields ==
  ASSUME NEW S, NEW row \in Held(S)
  PROVE  row.now \in S /\ row.was \in S /\ row.by \in By
BY DEF Held

(* Committed claims stay the latest as long as their keys' rows stay. *)
LEMMA ClaimsStay ==
  ASSUME Tables, Tables', ClaimsLatest, clock <= clock', claims' = claims,
         \A p \in Producers : prod'[p].claims \subseteq prod[p].claims,
         \A c \in claims : c.expires > clock =>
           keys'[c.key].now = keys[c.key].now /\ keys'[c.key].was = keys[c.key].was
  PROVE  ClaimsLatest'
<1>1. clock \in Nat /\ clock' \in Nat /\ \A c \in claims : c.expires \in Nat
  BY Assumed DEF Tables, Claimed, Times
<1>2. ASSUME NEW c \in claims PROVE Latest(c)'
  <2>1. Latest(c) /\ c.expires \in Nat
    BY <1>1 DEF ClaimsLatest
  <2>2. CASE c.expires <= clock
    <3>1. c.expires <= clock'
      BY <1>1, <2>1, <2>2
    <3>2. QED BY <3>1 DEF Latest
  <2>3. CASE c.expires > clock
    <3>1. /\ keys[c.key].was = [job |-> c.job, expires |-> c.expires]
          /\ keys[c.key].now = keys[c.key].was
      BY <1>1, <2>1, <2>3 DEF Latest
    <3>2. QED BY <2>3, <3>1 DEF Latest
  <2>4. QED BY <1>1, <2>1, <2>2, <2>3
<1>3. QED BY <1>2 DEF ClaimsLatest

---------------------------------------------------------------------------
(* The steps of time, of Graphile's workers and of the sweep *)

LEMMA TimePassesHolds ==
  ASSUME EnqueueInv, TimePasses
  PROVE  EnqueueInv'
<1>1. Tables /\ clock \in Nat /\ clock' = clock + 1 /\ clock < MaxClock
      /\ UNCHANGED <<requests, keys, jobs, prod, claims>>
  BY Assumed DEF EnqueueInv, Tables, TimePasses
<1>2. Tables'
  <2>1. clock' \in 0..MaxClock
    BY <1>1, Assumed
  <2>2. \A k \in IdemKeys : keys[k].now.expires \in Nat /\ keys[k].was.expires \in Nat
    <3>1. \A k \in IdemKeys : keys[k].now \in KeyRec /\ keys[k].was \in KeyRec
      BY <1>1, HeldFields DEF Tables
    <3>2. QED BY <3>1, Assumed DEF KeyRec, Times
  <2>3. \A k \in IdemKeys : keys[k].now.expires <= clock' + Ttl
                         /\ keys[k].was.expires <= clock' + Ttl
    <3> SUFFICES ASSUME NEW k \in IdemKeys
                 PROVE  keys[k].now.expires <= clock' + Ttl /\ keys[k].was.expires <= clock' + Ttl
      OBVIOUS
    <3>1. /\ keys[k].now.expires <= clock + Ttl /\ keys[k].was.expires <= clock + Ttl
          /\ keys[k].now.expires \in Nat /\ keys[k].was.expires \in Nat
      BY <1>1, <2>2 DEF Tables
    <3>2. QED BY <1>1, <3>1, Assumed
  <2>4. QED BY <1>1, <2>1, <2>3 DEF Tables
<1>3. ASSUME NEW p \in Producers PROVE ProducerInv(p)'
  <2>1. ProducerInv(p)
    BY DEF EnqueueInv
  <2>2. QED BY <1>1, <1>2, <2>1, OthersHold
<1>4. ClaimsLatest'
  BY <1>1, <1>2, ClaimsStay DEF EnqueueInv
<1>5. OneJobPerClaim'
  BY <1>1 DEF EnqueueInv, OneJobPerClaim
<1>6. QED BY <1>2, <1>3, <1>4, <1>5 DEF EnqueueInv

(* A worker takes no row that a transaction has locked. *)
LEMMA WorkerHolds ==
  ASSUME EnqueueInv, NEW j \in Ids, Fetch(j) \/ Retry(j) \/ End(j)
  PROVE  EnqueueInv'
<1>1. Tables /\ jobs \in [Ids -> Held(JobRec)] /\ jobs[j] \in Held(JobRec)
      /\ jobs[j].now \in JobRec
  BY HeldFields DEF EnqueueInv, Tables
<1>2. /\ jobs[j].by = None
      /\ \E r \in JobRec : jobs' = [jobs EXCEPT ![j] = Row(r)]
      /\ UNCHANGED <<requests, clock, keys, prod, claims>>
  <2>1. CASE Fetch(j)
    <3>1. Fetched(jobs[j].now) \in JobRec
      BY <1>1 DEF Fetched, JobRec
    <3>2. QED BY <2>1, <3>1 DEF Fetch, JobBecomes
  <2>2. CASE Retry(j)
    <3>1. [jobs[j].now EXCEPT !.state = "queued", !.tried = TRUE] \in JobRec
      BY <1>1 DEF JobRec
    <3>2. QED BY <2>2, <3>1 DEF Retry, JobBecomes
  <2>3. CASE End(j)
    <3>1. [NoJob EXCEPT !.state = "gone"] \in JobRec
      BY DEF NoJob, JobRec
    <3>2. QED BY <2>3, <3>1 DEF End, JobBecomes
  <2>4. QED BY <2>1, <2>2, <2>3
<1>3. PICK r \in JobRec : jobs' = [jobs EXCEPT ![j] = Row(r)]
  BY <1>2
<1>4. Tables'
  <2>1. jobs' \in [Ids -> Held(JobRec)]
    BY <1>1, <1>3, RowFields
  <2>2. QED BY <1>1, <1>2, <2>1 DEF Tables
<1>5. ASSUME NEW p \in Producers PROVE ProducerInv(p)'
  <2>1. ProducerInv(p)
    BY DEF EnqueueInv
  <2>2. \A i \in Ids : jobs[i].by = p => jobs'[i] = jobs[i]
    BY <1>1, <1>2, <1>3, Assumed
  <2>3. clock <= clock'
    BY <1>1, <1>2, Assumed DEF Tables
  <2>4. QED BY <1>1, <1>2, <1>4, <2>1, <2>2, <2>3, OthersHold
<1>6. ClaimsLatest'
  BY <1>2 DEF EnqueueInv, ClaimsLatest, Latest
<1>7. OneJobPerClaim'
  BY <1>2 DEF EnqueueInv, OneJobPerClaim
<1>8. QED BY <1>4, <1>5, <1>6, <1>7 DEF EnqueueInv

(* The sweep takes expired keys that no transaction has locked. *)
LEMMA PruneHolds ==
  ASSUME EnqueueInv, Prune
  PROVE  EnqueueInv'
<1>1. /\ Tables /\ keys \in [IdemKeys -> Held(KeyRec)] /\ clock \in Nat
      /\ UNCHANGED <<requests, clock, jobs, prod, claims>>
      /\ keys' = [k \in IdemKeys |->
           IF keys[k].by = None /\ Prunable(k) THEN Row(NoKey) ELSE keys[k]]
  BY Assumed DEF EnqueueInv, Tables, Prune
<1>2. NoKey \in KeyRec
  BY Assumed DEF NoKey, KeyRec, Times
<1>3. Row(NoKey) \in Held(KeyRec) /\ Row(NoKey).now = NoKey /\ Row(NoKey).was = NoKey
  BY <1>2, RowFields
<1>4. Tables'
  <2>1. keys' \in [IdemKeys -> Held(KeyRec)]
    BY <1>1, <1>3
  <2>2. \A k \in IdemKeys : keys'[k].now.expires <= clock + Ttl
                         /\ keys'[k].was.expires <= clock + Ttl
    <3>1. NoKey.expires <= clock + Ttl
      BY <1>1, Assumed DEF NoKey
    <3>2. QED BY <1>1, <1>3, <3>1 DEF Tables
  <2>3. QED BY <1>1, <2>1, <2>2 DEF Tables
<1>5. clock <= clock'
  BY <1>1
<1>6. ASSUME NEW p \in Producers PROVE ProducerInv(p)'
  <2>1. ProducerInv(p)
    BY DEF EnqueueInv
  <2>2. \A k \in IdemKeys : keys[k].by = p => keys'[k] = keys[k]
    BY <1>1, Assumed
  <2>3. QED BY <1>1, <1>4, <1>5, <2>1, <2>2, OthersHold
<1>7. ClaimsLatest'
  <2>1. ASSUME NEW c \in claims, c.expires > clock
        PROVE  keys'[c.key] = keys[c.key]
    <3>1. c.key \in IdemKeys /\ c.expires \in Nat
      BY <1>1, Assumed DEF Tables, Claimed, Times
    <3>2. keys[c.key].was = [job |-> c.job, expires |-> c.expires]
          /\ keys[c.key].now = keys[c.key].was
      BY <1>1, <2>1, <3>1 DEF EnqueueInv, ClaimsLatest, Latest
    <3>3. ~Prunable(c.key)
      BY <1>1, <2>1, <3>1, <3>2 DEF Prunable
    <3>4. QED BY <1>1, <3>1, <3>3
  <2>2. QED BY <1>1, <1>4, <1>5, <2>1, ClaimsStay DEF EnqueueInv
<1>8. OneJobPerClaim'
  BY <1>1 DEF EnqueueInv, OneJobPerClaim
<1>9. QED BY <1>4, <1>6, <1>7, <1>8 DEF EnqueueInv

---------------------------------------------------------------------------
(* The beginning and the end of a call's transaction *)

LEMMA BeginHolds ==
  ASSUME EnqueueInv, NEW p \in Producers, NEW req \in requests, Begin(p, req)
  PROVE  EnqueueInv'
<1>1. /\ Tables /\ clock \in Nat /\ req \in Calls /\ Accepted(req)
      /\ UNCHANGED <<requests, clock, keys, jobs, claims>>
  BY Assumed DEF EnqueueInv, Tables, Begin
<1>2. Tables'
  BY <1>1 DEF Tables, EnqueueInv, Begin
<1>3. clock <= clock'
  BY <1>1
<1>4. PICK s : s = [Idle EXCEPT !.phase = "open", !.req = req, !.now = clock,
                                !.ids = [i \in DOMAIN req.items |-> None]]
  OBVIOUS
<1>5. prod'[p] = s /\ \A q \in Producers \ {p} : prod'[q] = prod[q]
  BY <1>1, <1>4 DEF Begin, Tables
<1>6. /\ s.phase = "open" /\ s.req = req /\ s.now = clock /\ s.claimed = FALSE
      /\ s.ids = [i \in DOMAIN req.items |-> None] /\ s.dup = {} /\ s.claims = {}
  BY <1>4 DEF Idle
<1>7. s \in [phase : Phases, req : Calls \cup {None}, now : 0..MaxClock, claimed : BOOLEAN,
             ids : {s.ids}, dup : {s.dup}, claims : {s.claims}]
  BY <1>1, <1>4 DEF Idle, Phases, Tables
<1>8. ProducerInv(p)'
  <2>1. Calling(p)'
    BY <1>1, <1>5, <1>6, <1>7 DEF Calling, Busy, Items_, IdOrNone, EnqueueInv, Tables
  <2>2. NamesHeld(p)'
    <3>1. \A i \in Items_(p)' : prod'[p].ids[i] = None
      BY <1>5, <1>6 DEF Items_
    <3>2. None # 0
      BY Assumed
    <3>3. QED BY <3>1, <3>2 DEF NamesHeld
  <2>3. QED
    BY <1>5, <1>6, <2>1, <2>2 DEF ProducerInv, NextClaimed, DuplicatesHeld, ClaimsHeld
<1>9. ASSUME NEW q \in Producers \ {p} PROVE ProducerInv(q)'
  <2>1. ProducerInv(q)
    BY DEF EnqueueInv
  <2>2. QED BY <1>1, <1>2, <1>3, <1>5, <2>1, OthersHold
<1>10. ClaimsLatest'
  <2>1. \A q \in Producers : prod'[q].claims \subseteq prod[q].claims
    BY <1>5, <1>6
  <2>2. QED BY <1>1, <1>2, <1>3, <2>1, ClaimsStay DEF EnqueueInv
<1>11. OneJobPerClaim'
  BY <1>1 DEF EnqueueInv, OneJobPerClaim
<1>12. QED BY <1>2, <1>8, <1>9, <1>10, <1>11 DEF EnqueueInv

(* Both ends of a transaction unlock its rows, and only those. *)
LEMMA EndsHolds ==
  ASSUME EnqueueInv, NEW p \in Producers, NEW F, NEW G,
         F \in [IdemKeys -> KeyRec], G \in [Ids -> JobRec],
         \A k \in IdemKeys : F[k] \in {keys[k].now, keys[k].was},
         keys' = [k \in IdemKeys |-> IF keys[k].by = p THEN Row(F[k]) ELSE keys[k]],
         jobs' = [j \in Ids |-> IF jobs[j].by = p THEN Row(G[j]) ELSE jobs[j]],
         prod' = [prod EXCEPT ![p] = Idle], UNCHANGED <<requests, clock>>,
         claims' \subseteq Claimed(Ids)
  PROVE  /\ Tables'
         /\ \A q \in Producers : ProducerInv(q)'
<1>1. Tables /\ clock \in Nat /\ keys \in [IdemKeys -> Held(KeyRec)]
      /\ jobs \in [Ids -> Held(JobRec)] /\ DOMAIN prod = Producers
  BY Assumed DEF EnqueueInv, Tables
<1>2. \A k \in IdemKeys : Row(F[k]) \in Held(KeyRec) /\ Row(F[k]).now = F[k] /\ Row(F[k]).was = F[k]
  BY RowFields
<1>3. \A j \in Ids : Row(G[j]) \in Held(JobRec)
  BY RowFields
<1>4. Tables'
  <2>1. keys' \in [IdemKeys -> Held(KeyRec)]
    BY <1>1, <1>2
  <2>2. jobs' \in [Ids -> Held(JobRec)]
    BY <1>1, <1>3
  <2>3. \A k \in IdemKeys : keys'[k].now.expires <= clock + Ttl
                         /\ keys'[k].was.expires <= clock + Ttl
    BY <1>1, <1>2 DEF Tables
  <2>4. QED BY <1>1, <2>1, <2>2, <2>3 DEF Tables
<1>5. prod'[p] = Idle /\ \A q \in Producers \ {p} : prod'[q] = prod[q]
  BY <1>1
<1>6. ProducerInv(p)'
  BY <1>4, <1>5, IdleHolds
<1>7. ASSUME NEW q \in Producers \ {p} PROVE ProducerInv(q)'
  <2>1. ProducerInv(q)
    BY DEF EnqueueInv
  <2>2. \A k \in IdemKeys : keys[k].by = q => keys'[k] = keys[k]
    OBVIOUS
  <2>3. \A j \in Ids : jobs[j].by = q => jobs'[j] = jobs[j]
    OBVIOUS
  <2>4. clock <= clock'
    BY <1>1
  <2>5. QED BY <1>1, <1>4, <1>5, <2>1, <2>2, <2>3, <2>4, OthersHold
<1>8. QED BY <1>4, <1>6, <1>7

LEMMA RollbackHolds ==
  ASSUME EnqueueInv, NEW p \in Producers, Rollback(p)
  PROVE  EnqueueInv'
<1>0. clock \in Nat
  BY Assumed DEF EnqueueInv, Tables
<1>1. /\ Tables /\ clock \in Nat /\ DOMAIN prod = Producers
      /\ keys \in [IdemKeys -> Held(KeyRec)] /\ jobs \in [Ids -> Held(JobRec)]
      /\ keys' = [k \in IdemKeys |-> IF keys[k].by = p THEN Row(keys[k].was) ELSE keys[k]]
      /\ jobs' = [j \in Ids |-> IF jobs[j].by = p THEN Row(jobs[j].was) ELSE jobs[j]]
      /\ prod' = [prod EXCEPT ![p] = Idle]
      /\ UNCHANGED <<requests, clock, claims>>
  BY Assumed DEF EnqueueInv, Tables, Rollback, Ends
<1>2. PICK F : F = [k \in IdemKeys |-> keys[k].was]
  OBVIOUS
<1>3. PICK G : G = [j \in Ids |-> jobs[j].was]
  OBVIOUS
<1>4. F \in [IdemKeys -> KeyRec] /\ G \in [Ids -> JobRec]
  BY <1>1, <1>2, <1>3, HeldFields
<1>5. keys' = [k \in IdemKeys |-> IF keys[k].by = p THEN Row(F[k]) ELSE keys[k]]
  BY <1>1, <1>2
<1>6. jobs' = [j \in Ids |-> IF jobs[j].by = p THEN Row(G[j]) ELSE jobs[j]]
  BY <1>1, <1>3
<1>7. claims' \subseteq Claimed(Ids) /\ \A k \in IdemKeys : F[k] \in {keys[k].now, keys[k].was}
  BY <1>1, <1>2 DEF Tables
<1>8. Tables' /\ \A q \in Producers : ProducerInv(q)'
  <2>1. prod' = [prod EXCEPT ![p] = Idle] /\ UNCHANGED <<requests, clock>>
    BY <1>1
  <2>2. QED BY ONLY EnqueueInv, <1>4, <1>5, <1>6, <1>7, <2>1, EndsHolds
<1>9. ClaimsLatest'
  <2>1. clock <= clock'
    BY <1>1
  <2>2. \A q \in Producers : prod'[q].claims \subseteq prod[q].claims
    BY <1>1 DEF Idle
  <2>3. ASSUME NEW c \in claims, c.expires > clock
        PROVE  keys'[c.key].now = keys[c.key].now /\ keys'[c.key].was = keys[c.key].was
    <3>1. c.key \in IdemKeys /\ c.expires \in Nat
      BY <1>1, Assumed DEF Tables, Claimed, Times
    <3>2. keys[c.key].now = keys[c.key].was
      <4>1. Latest(c) /\ ~(c.expires <= clock)
        BY <1>0, <2>3, <3>1 DEF EnqueueInv, ClaimsLatest
      <4>2. QED BY <4>1 DEF Latest
    <3>3. keys[c.key].was \in KeyRec
      BY <1>1, <3>1, HeldFields
    <3>4. Row(keys[c.key].was).now = keys[c.key].was /\ Row(keys[c.key].was).was = keys[c.key].was
      BY <3>3, RowFields
    <3>5. QED BY <1>1, <3>1, <3>2, <3>4
  <2>4. QED BY <1>1, <1>8, <2>1, <2>2, <2>3, ClaimsStay DEF EnqueueInv
<1>10. OneJobPerClaim'
  BY <1>1 DEF EnqueueInv, OneJobPerClaim
<1>11. QED BY <1>8, <1>9, <1>10 DEF EnqueueInv

(* A commit records its claims: each is what the row of its key now has,   *)
(* made when every claim of that key before it had expired.                *)
LEMMA CommitHolds ==
  ASSUME EnqueueInv, NEW p \in Producers, Commit(p)
  PROVE  EnqueueInv'
<1>0. clock \in Nat
  BY Assumed DEF EnqueueInv, Tables
<1>1. /\ Tables /\ DOMAIN prod = Producers
      /\ keys \in [IdemKeys -> Held(KeyRec)] /\ jobs \in [Ids -> Held(JobRec)]
      /\ keys' = [k \in IdemKeys |-> IF keys[k].by = p THEN Row(keys[k].now) ELSE keys[k]]
      /\ jobs' = [j \in Ids |-> IF jobs[j].by = p THEN Row(jobs[j].now) ELSE jobs[j]]
      /\ prod' = [prod EXCEPT ![p] = Idle]
      /\ UNCHANGED <<requests, clock>>
  BY DEF EnqueueInv, Tables, Commit, Ends
<1>2. PICK F : F = [k \in IdemKeys |-> keys[k].now]
  OBVIOUS
<1>3. PICK G : G = [j \in Ids |-> jobs[j].now]
  OBVIOUS
<1>4. F \in [IdemKeys -> KeyRec] /\ G \in [Ids -> JobRec]
  BY <1>1, <1>2, <1>3, HeldFields
<1>5. keys' = [k \in IdemKeys |-> IF keys[k].by = p THEN Row(F[k]) ELSE keys[k]]
  BY <1>1, <1>2
<1>6. jobs' = [j \in Ids |-> IF jobs[j].by = p THEN Row(G[j]) ELSE jobs[j]]
  BY <1>1, <1>3
<1>7. \A k \in IdemKeys : F[k] \in {keys[k].now, keys[k].was}
  BY <1>2
<1>8. ASSUME NEW d \in claims' \ claims
      PROVE  \E x \in prod[p].claims :
               /\ d \in Claimed(Ids) /\ d.key = x.key /\ d.at = x.at /\ d.expires = x.expires
               /\ keys[d.key].by = p
               /\ keys[d.key].now = [job |-> d.job, expires |-> d.expires]
  <2>1. PICK x \in prod[p].claims : /\ prod[p].ids[x.job] # 0
                                    /\ d = [x EXCEPT !.job = prod[p].ids[x.job]]
    BY DEF Commit
  <2>2. Calling(p) /\ Busy(p) /\ Todo(p) = {}
    BY DEF Commit, EnqueueInv, ProducerInv, Calling, Busy
  <2>3. x \in Claimed(Items_(p))
    BY <2>1, <2>2 DEF Calling
  <2>4. x.job \in Items_(p) /\ x.key \in IdemKeys
    BY <2>3 DEF Claimed
  <2>5. prod[p].ids[x.job] \in IdOrNone /\ DOMAIN prod[p].ids = Items_(p)
    BY <1>1, <2>2, <2>4, BusyShape
  <2>6. prod[p].ids[x.job] \notin {0, None}
    BY <2>1, <2>2, <2>4, <2>5 DEF Todo
  <2>7. prod[p].ids[x.job] \in Ids
    BY <2>5, <2>6, Assumed DEF IdOrNone, Ids
  <2>8. d \in Claimed(Ids) /\ d.key = x.key /\ d.at = x.at /\ d.expires = x.expires
        /\ d.job = prod[p].ids[x.job]
    BY <2>1, <2>3, <2>7 DEF Claimed
  <2>9. Holding(p, x)
    BY <2>1 DEF EnqueueInv, ProducerInv, ClaimsHeld
  <2>10. /\ keys[d.key].by = p /\ keys[d.key].now.job = d.job
         /\ keys[d.key].now.expires = d.expires
    BY <2>6, <2>8, <2>9 DEF Holding
  <2>11. keys[d.key].now \in KeyRec
    BY <1>1, <2>4, <2>8, HeldFields
  <2>12. keys[d.key].now = [job |-> d.job, expires |-> d.expires]
    BY <2>10, <2>11 DEF KeyRec
  <2>13. QED BY <2>1, <2>8, <2>10, <2>12
<1>9. claims \subseteq claims' /\ claims \subseteq Claimed(Ids)
  BY DEF Commit, EnqueueInv, Tables
<1>10. claims' \subseteq Claimed(Ids)
  BY <1>8, <1>9
<1>11. Tables' /\ \A q \in Producers : ProducerInv(q)'
  <2>1. prod' = [prod EXCEPT ![p] = Idle] /\ UNCHANGED <<requests, clock>>
    BY <1>1
  <2>2. QED BY ONLY EnqueueInv, <1>4, <1>5, <1>6, <1>7, <1>10, <2>1, EndsHolds
<1>12. \A k \in IdemKeys : keys[k].by = p => keys'[k].now = keys[k].now /\ keys'[k].was = keys[k].now
  <2> SUFFICES ASSUME NEW k \in IdemKeys, keys[k].by = p
               PROVE  keys'[k].now = keys[k].now /\ keys'[k].was = keys[k].now
    OBVIOUS
  <2>1. keys[k].now \in KeyRec
    BY <1>1, HeldFields
  <2>2. Row(keys[k].now).now = keys[k].now /\ Row(keys[k].now).was = keys[k].now
    BY <2>1, RowFields
  <2>3. QED BY <1>1, <2>2
<1>13. ASSUME NEW c \in claims' PROVE Latest(c)'
  <2>1. CASE c \in claims
    <3>1. c.key \in IdemKeys /\ Latest(c) /\ clock' = clock
      BY <1>1, <1>9, <2>1 DEF EnqueueInv, ClaimsLatest, Claimed
    <3>2. CASE c.expires <= clock
      BY <3>1, <3>2 DEF Latest
    <3>3. CASE /\ keys[c.key].was = [job |-> c.job, expires |-> c.expires]
               /\ keys[c.key].now = keys[c.key].was
      <4>1. keys'[c.key].now = keys[c.key].now /\ keys'[c.key].was = keys[c.key].was
        BY <1>1, <1>12, <3>1, <3>3
      <4>2. QED BY <3>3, <4>1 DEF Latest
    <3>4. QED BY <3>1, <3>2, <3>3 DEF Latest
  <2>2. CASE c \notin claims
    <3>1. /\ c \in Claimed(Ids) /\ keys[c.key].by = p
          /\ keys[c.key].now = [job |-> c.job, expires |-> c.expires]
      BY <1>8, <2>2
    <3>2. c.key \in IdemKeys
      BY <3>1 DEF Claimed
    <3>3. QED BY <1>12, <3>1, <3>2 DEF Latest
  <2>3. QED BY <2>1, <2>2
<1>14. ASSUME NEW c \in claims', NEW q \in Producers, NEW x \in prod'[q].claims, x.key = c.key
       PROVE  x.at >= c.expires
  <2>1. q # p /\ x \in prod[q].claims
    BY <1>1 DEF Idle
  <2>2. CASE c \in claims
    BY <2>1, <2>2, <1>14 DEF EnqueueInv, ClaimsLatest
  <2>3. CASE c \notin claims
    <3>1. keys[c.key].by = p
      BY <1>8, <2>3
    <3>2. keys[x.key].by = q
      BY <2>1 DEF EnqueueInv, ProducerInv, ClaimsHeld, Holding
    <3>3. QED BY <1>14, <2>1, <3>1, <3>2
  <2>4. QED BY <2>2, <2>3
<1>15. ClaimsLatest'
  BY <1>13, <1>14 DEF ClaimsLatest
<1>16. OneJobPerClaim'
  <2>1. ASSUME NEW c \in claims' \ claims, NEW d \in claims, c.key = d.key
        PROVE  c.at >= d.expires
    <3>1. PICK x \in prod[p].claims : c.key = x.key /\ c.at = x.at
      BY <1>8
    <3>2. x.at >= d.expires
      BY <2>1, <3>1 DEF EnqueueInv, ClaimsLatest
    <3>3. QED BY <3>1, <3>2
  <2>2. ASSUME NEW c \in claims' \ claims, NEW d \in claims' \ claims, c.key = d.key
        PROVE  c.job = d.job
    <3>1. keys[c.key].now = [job |-> c.job, expires |-> c.expires]
      BY <1>8
    <3>2. keys[d.key].now = [job |-> d.job, expires |-> d.expires]
      BY <1>8
    <3>3. QED BY <2>2, <3>1, <3>2
  <2> SUFFICES ASSUME NEW c \in claims', NEW d \in claims', c.key = d.key, c.job # d.job
               PROVE  c.at >= d.expires \/ d.at >= c.expires
    BY DEF OneJobPerClaim
  <2>3. CASE c \in claims /\ d \in claims
    BY <2>3 DEF EnqueueInv, OneJobPerClaim
  <2>4. CASE c \in claims /\ d \notin claims
    BY <2>1, <2>4
  <2>5. CASE c \notin claims /\ d \in claims
    BY <2>1, <2>5
  <2>6. CASE c \notin claims /\ d \notin claims
    BY <2>2, <2>6
  <2>7. QED BY <2>3, <2>4, <2>5, <2>6
<1>17. QED BY <1>11, <1>15, <1>16 DEF EnqueueInv

---------------------------------------------------------------------------
(* A claim of the next item's idempotency key *)

NextKey(p) == Item(p, First(p)).idem
Locks(p, r) == keys' = [keys EXCEPT ![NextKey(p)] = Written(p, @, r)]
Leaves(p)   == DOMAIN prod' = Producers /\ \A q \in Producers \ {p} : prod'[q] = prod[q]

LEMMA ClaimsNext ==
  ASSUME EnqueueInv, NEW p \in Producers, Claim(p)
  PROVE  /\ Tables /\ ProducerInv(p) /\ Busy(p) /\ prod[p].phase = "open" /\ ~prod[p].claimed
         /\ First(p) \in Items_(p) /\ prod[p].ids[First(p)] = None
         /\ NextKey(p) \in IdemKeys /\ NextKey(p) # None
         /\ keys[NextKey(p)].by \in {None, p} /\ keys[NextKey(p)] \in Held(KeyRec)
         /\ Idempotent(prod[p].req)
         /\ \A x \in prod[p].claims : x.job \in Items_(p) /\ prod[p].ids[x.job] # None
<1>1. /\ Tables /\ ProducerInv(p) /\ prod[p].phase = "open" /\ Todo(p) # {} /\ ~prod[p].claimed
      /\ NextKey(p) # None /\ keys[NextKey(p)].by \in {None, p}
  BY DEF EnqueueInv, Claim, NextKey, Waited, Open
<1>2. Busy(p) /\ Calling(p)
  BY <1>1 DEF Busy, ProducerInv
<1>3. First(p) \in Items_(p) /\ prod[p].ids[First(p)] = None
  BY <1>1, <1>2, NextItem
<1>4. Item(p, First(p)) \in Items
  BY <1>1, <1>2, <1>3, BusyShape
<1>5. NextKey(p) \in IdemKeys
  BY <1>1, <1>4 DEF NextKey, Items
<1>6. Idempotent(prod[p].req)
  BY <1>1, <1>3 DEF Idempotent, NextKey, Item, Items_
<1>7. ASSUME NEW x \in prod[p].claims
      PROVE  x.job \in Items_(p) /\ prod[p].ids[x.job] # None
  <2>1. Holding(p, x)
    BY <1>1 DEF ProducerInv, ClaimsHeld
  <2>2. x.job \in Items_(p)
    BY <1>2 DEF Calling, Claimed
  <2>3. QED BY <1>1, <2>1, <2>2 DEF Holding
<1>8. keys[NextKey(p)] \in Held(KeyRec)
  BY <1>1, <1>5 DEF Tables
<1>9. QED BY <1>1, <1>2, <1>3, <1>5, <1>6, <1>7, <1>8

(* The row of the key is written: the other producers and the tables. *)
LEMMA ClaimLocks ==
  ASSUME EnqueueInv, NEW p \in Producers, Claim(p), NEW r \in KeyRec,
         r.expires <= clock + Ttl,
         Locks(p, r), Leaves(p)
  PROVE  /\ Tables'
         /\ \A q \in Producers \ {p} : ProducerInv(q)'
         /\ OneJobPerClaim'
         /\ keys'[NextKey(p)].now = r /\ keys'[NextKey(p)].was = keys[NextKey(p)].was
         /\ keys'[NextKey(p)].by = p
         /\ \A k \in IdemKeys \ {NextKey(p)} : keys'[k] = keys[k]
<1>1. /\ Tables /\ NextKey(p) \in IdemKeys /\ NextKey(p) # None
      /\ keys[NextKey(p)].by \in {None, p} /\ keys[NextKey(p)] \in Held(KeyRec)
  BY ClaimsNext
<1>2. /\ UNCHANGED <<requests, clock, jobs, claims>> /\ clock \in Nat
      /\ keys \in [IdemKeys -> Held(KeyRec)]
  BY <1>1, Assumed DEF Claim, Tables
<1>3. PICK w : w = Written(p, keys[NextKey(p)], r)
  OBVIOUS
<1>4. w \in Held(KeyRec) /\ w.now = r /\ w.was = keys[NextKey(p)].was /\ w.by = p
  BY <1>1, <1>3, WrittenFields
<1>5. keys' = [keys EXCEPT ![NextKey(p)] = w]
  BY <1>3 DEF Locks
<1>6. keys'[NextKey(p)] = w /\ \A k \in IdemKeys \ {NextKey(p)} : keys'[k] = keys[k]
  BY <1>1, <1>2, <1>5
<1>7. Tables'
  <2>1. keys' \in [IdemKeys -> Held(KeyRec)]
    BY <1>2, <1>4, <1>5
  <2>2. \A k \in IdemKeys : keys'[k].now.expires <= clock + Ttl
                         /\ keys'[k].was.expires <= clock + Ttl
    <3>1. \A k \in IdemKeys : keys[k].now.expires <= clock + Ttl
                           /\ keys[k].was.expires <= clock + Ttl
      BY <1>1 DEF Tables
    <3>2. QED BY <1>1, <1>4, <1>6, <3>1
  <2>3. QED BY <1>1, <1>2, <2>1, <2>2 DEF Tables, Leaves
<1>8. ASSUME NEW q \in Producers \ {p} PROVE ProducerInv(q)'
  <2>1. ProducerInv(q) /\ clock <= clock'
    BY <1>2 DEF EnqueueInv
  <2>2. \A k \in IdemKeys : keys[k].by = q => keys'[k] = keys[k]
    BY <1>1, <1>6, Assumed
  <2>3. prod'[q] = prod[q]
    BY DEF Leaves
  <2>4. QED BY <1>1, <1>2, <1>7, <2>1, <2>2, <2>3, OthersHold
<1>9. OneJobPerClaim'
  BY <1>2 DEF EnqueueInv, OneJobPerClaim
<1>10. QED BY <1>4, <1>6, <1>7, <1>8, <1>9

(* The key still has a job: the item's answer, as long as the key's row is *)
(* locked.                                                                 *)
LEMMA DuplicateHolds ==
  ASSUME EnqueueInv, NEW p \in Producers, Claim(p),
         Unexpired(NextKey(p), prod[p].now), keys[NextKey(p)].now.job # 0,
         keys' = [keys EXCEPT ![NextKey(p)] = Written(p, @, @.now)],
         prod' = [prod EXCEPT ![p].ids[First(p)] = keys[NextKey(p)].now.job,
                              ![p].dup = @ \cup {First(p)}]
  PROVE  EnqueueInv'
<1>1. /\ Tables /\ ProducerInv(p) /\ Busy(p) /\ prod[p].phase = "open" /\ ~prod[p].claimed
      /\ First(p) \in Items_(p) /\ prod[p].ids[First(p)] = None
      /\ NextKey(p) \in IdemKeys /\ NextKey(p) # None
      /\ keys[NextKey(p)].by \in {None, p} /\ keys[NextKey(p)] \in Held(KeyRec)
      /\ Idempotent(prod[p].req)
      /\ \A x \in prod[p].claims : x.job \in Items_(p) /\ prod[p].ids[x.job] # None
  BY ClaimsNext
<1>2. PICK r : r = keys[NextKey(p)].now
  OBVIOUS
<1>3. r \in KeyRec /\ r.job \in 1..MaxJobs /\ r.job # None /\ r.expires > prod[p].now
  <2>1. r \in KeyRec
    BY <1>1, <1>2, HeldFields
  <2>2. r.job # 0 /\ r.expires > prod[p].now
    BY <1>2 DEF Unexpired
  <2>3. QED BY <2>1, <2>2, Assumed DEF KeyRec
<1>4. PICK s : s = [prod[p] EXCEPT !.ids = [prod[p].ids EXCEPT ![First(p)] = r.job],
                                   !.dup = prod[p].dup \cup {First(p)}]
  OBVIOUS
<1>5. DOMAIN prod = Producers
  BY <1>1 DEF Tables
<1>6. prod' = [prod EXCEPT ![p] = s]
  BY <1>2, <1>4, <1>5
<1>7. prod'[p] = s /\ DOMAIN prod' = Producers /\ \A q \in Producers \ {p} : prod'[q] = prod[q]
  BY <1>5, <1>6
<1>8. /\ s \in [phase : Phases, req : Calls \cup {None}, now : 0..MaxClock, claimed : BOOLEAN,
                ids : {s.ids}, dup : {s.dup}, claims : {s.claims}]
      /\ s.phase = prod[p].phase /\ s.req = prod[p].req /\ s.now = prod[p].now
      /\ s.claimed = prod[p].claimed /\ s.claims = prod[p].claims
      /\ s.ids = [prod[p].ids EXCEPT ![First(p)] = r.job] /\ s.dup = prod[p].dup \cup {First(p)}
  BY <1>1, <1>4 DEF ProducerInv, Calling
<1>9. Locks(p, r) /\ Leaves(p) /\ r.expires <= clock + Ttl
  BY <1>1, <1>2, <1>7 DEF Tables, Locks, Leaves
<1>10. /\ Tables' /\ OneJobPerClaim'
       /\ \A q \in Producers \ {p} : ProducerInv(q)'
       /\ keys'[NextKey(p)].now = r /\ keys'[NextKey(p)].was = keys[NextKey(p)].was
       /\ keys'[NextKey(p)].by = p
       /\ \A k \in IdemKeys \ {NextKey(p)} : keys'[k] = keys[k]
  BY <1>3, <1>9, ClaimLocks
<1>11. \A k \in IdemKeys : keys'[k].now = keys[k].now /\ keys'[k].was = keys[k].was
                        /\ (keys[k].by = p => keys'[k].by = p)
  BY <1>2, <1>10
<1>12. /\ DOMAIN prod[p].ids = Items_(p) /\ \A i \in Items_(p) : prod[p].ids[i] \in IdOrNone
       /\ \A i \in Items_(p) : Item(p, i) \in Items
  BY <1>1, BusyShape DEF ProducerInv
<1>13. /\ s.ids[First(p)] = r.job /\ \A i \in Items_(p) \ {First(p)} : s.ids[i] = prod[p].ids[i]
       /\ s.ids \in [Items_(p) -> IdOrNone]
  <2>1. r.job \in IdOrNone
    BY <1>3 DEF IdOrNone
  <2>2. prod[p].ids \in [Items_(p) -> IdOrNone]
    BY <1>1 DEF ProducerInv, Calling
  <2>3. QED BY <1>1, <1>8, <2>1, <2>2
<1>14. /\ Items_(p)' = Items_(p) /\ \A i : Item(p, i)' = Item(p, i)
       /\ requests' = requests /\ clock' = clock /\ jobs' = jobs /\ claims' = claims
       /\ Busy(p)'
  <2>1. prod'[p].req = prod[p].req /\ prod'[p].phase = "open"
    BY <1>1, <1>7, <1>8
  <2>2. requests' = requests /\ clock' = clock /\ jobs' = jobs /\ claims' = claims
    BY DEF Claim
  <2>3. QED BY <2>1, <2>2 DEF Items_, Item, Busy
<1>15. Calling(p)'
  <2>1. /\ prod[p].req \in requests /\ Accepted(prod[p].req) /\ prod[p].now <= clock
        /\ prod[p].dup \subseteq Items_(p) /\ prod[p].claims \subseteq Claimed(Items_(p))
    BY <1>1 DEF ProducerInv, Calling
  <2>2. /\ s.req \in requests' /\ Accepted(s.req) /\ s.now <= clock'
        /\ s.ids \in [Items_(p)' -> IdOrNone]
        /\ s.dup \subseteq Items_(p)' /\ s.claims \subseteq Claimed(Items_(p)')
    BY <1>1, <1>8, <1>13, <1>14, <2>1
  <2>3. s.phase = "open" /\ Idempotent(s.req)
    BY <1>1, <1>8
  <2>4. QED BY <1>7, <1>8, <1>14, <2>2, <2>3 DEF Calling
<1>16. NextClaimed(p)'
  BY <1>1, <1>7, <1>8 DEF NextClaimed
<1>17. ASSUME NEW i \in s.dup
       PROVE  /\ s.ids[i] \notin {None, 0} /\ Item(p, i).idem # None
              /\ keys'[Item(p, i).idem].by = p
              /\ keys'[Item(p, i).idem].now.job = s.ids[i]
              /\ keys'[Item(p, i).idem].now.expires > s.now
  <2>1. CASE i = First(p)
    BY <1>1, <1>3, <1>8, <1>10, <1>13, <2>1 DEF NextKey
  <2>2. CASE i # First(p)
    <3>1. i \in prod[p].dup /\ i \in Items_(p)
      BY <1>1, <1>8, <2>2 DEF ProducerInv, Calling
    <3>2. /\ prod[p].ids[i] \notin {None, 0} /\ Item(p, i).idem # None
          /\ keys[Item(p, i).idem].by = p
          /\ keys[Item(p, i).idem].now.job = prod[p].ids[i]
          /\ keys[Item(p, i).idem].now.expires > prod[p].now
      BY <1>1, <3>1 DEF ProducerInv, DuplicatesHeld
    <3>3. Item(p, i).idem \in IdemKeys
      BY <1>12, <3>1, <3>2 DEF Items
    <3>4. QED BY <1>8, <1>11, <1>13, <2>2, <3>1, <3>2, <3>3
  <2>3. QED BY <2>1, <2>2
<1>18. DuplicatesHeld(p)'
  <2> SUFFICES ASSUME NEW i \in prod'[p].dup
               PROVE  /\ prod'[p].ids[i] \notin {None, 0} /\ Item(p, i)'.idem # None
                      /\ keys'[Item(p, i)'.idem].by = p
                      /\ keys'[Item(p, i)'.idem].now.job = prod'[p].ids[i]
                      /\ keys'[Item(p, i)'.idem].now.expires > prod'[p].now
    BY DEF DuplicatesHeld
  <2>1. Item(p, i)' = Item(p, i) /\ prod'[p] = s /\ i \in s.dup
    BY <1>7, <1>14
  <2>2. QED BY ONLY <1>17, <2>1
<1>19. ClaimsHeld(p)'
  <2> SUFFICES ASSUME NEW x \in prod[p].claims PROVE Holding(p, x)'
    BY <1>7, <1>8 DEF ClaimsHeld
  <2>1. Holding(p, x) /\ x.key \in IdemKeys /\ x.job \in Items_(p) /\ prod[p].ids[x.job] # None
    BY <1>1 DEF ProducerInv, ClaimsHeld, Calling, Claimed
  <2>2. x.job # First(p)
    BY <1>1, <2>1
  <2>3. s.ids[x.job] = prod[p].ids[x.job]
    BY <1>13, <2>1, <2>2
  <2>4. /\ prod'[p].ids[x.job] = prod[p].ids[x.job] /\ prod'[p].now = prod[p].now
        /\ keys'[x.key].now = keys[x.key].now /\ (keys[x.key].by = p => keys'[x.key].by = p)
    BY <1>7, <1>8, <1>11, <2>1, <2>3
  <2>5. QED BY <1>14, <2>1, <2>4 DEF Holding
<1>20. NamesHeld(p)'
  <2> SUFFICES ASSUME NEW i \in Items_(p) \ s.dup
               PROVE  /\ s.ids[i] = 0 => Item(p, i).jobKey # None
                      /\ s.ids[i] \notin {None, 0} /\ ~Joins(prod[p].req, i) => Named(p, i)'
    BY <1>7, <1>8, <1>14 DEF NamesHeld
  <2>1. i \in Items_(p) \ prod[p].dup /\ i # First(p)
    BY <1>8
  <2>2. /\ prod[p].ids[i] = 0 => Item(p, i).jobKey # None
        /\ prod[p].ids[i] \notin {None, 0} /\ ~Joins(prod[p].req, i) => Named(p, i)
    BY <1>1, <2>1 DEF ProducerInv, NamesHeld
  <2>3. s.ids[i] = prod[p].ids[i]
    BY <1>13, <2>1
  <2>4. ASSUME Named(p, i) PROVE Named(p, i)'
    <3>1. \A j \in Items_(p) \ s.dup : s.ids[j] = s.ids[i] => j = i
      <4> SUFFICES ASSUME NEW j \in Items_(p) \ s.dup, s.ids[j] = s.ids[i] PROVE j = i
        OBVIOUS
      <4>1. j \in Items_(p) \ prod[p].dup /\ s.ids[j] = prod[p].ids[j]
        BY <1>8, <1>13
      <4>2. QED BY <2>3, <2>4, <4>1 DEF Named
    <3>2. Lanes(p, i)' = Lanes(p, i)
      <4>1. prod[p].phase = "open" /\ prod'[p].phase = "open"
        BY <1>7, <1>8 DEF Claim
      <4>2. QED BY ONLY <1>14, <4>1 DEF Lanes
    <3>3. QED BY <1>7, <1>14, <2>3, <2>4, <3>1, <3>2 DEF Named
  <2>5. QED BY <2>2, <2>3, <2>4
<1>21. ClaimsLatest'
  <2>1. \A q \in Producers : prod'[q].claims \subseteq prod[q].claims
    BY <1>7, <1>8
  <2>2. \A c \in claims : c.key \in IdemKeys
    BY <1>1 DEF Tables, Claimed
  <2>3. clock <= clock'
    BY <1>1, <1>14, Assumed DEF Tables
  <2>4. QED BY <1>1, <1>10, <1>11, <1>14, <2>1, <2>2, <2>3, ClaimsStay DEF EnqueueInv
<1>22. QED
  <2>1. ProducerInv(p)'
    BY <1>15, <1>16, <1>18, <1>19, <1>20 DEF ProducerInv
  <2>2. QED BY <1>10, <1>21, <2>1 DEF EnqueueInv

(* The key has no job, or has expired: it is claimed for the item's job,   *)
(* and every claim of it before has expired.                               *)
Claiming(p, r) == [key |-> NextKey(p), job |-> First(p), at |-> clock, expires |-> r.expires]

LEMMA NewClaimHolds ==
  ASSUME EnqueueInv, NEW p \in Producers, Claim(p),
         ~(Unexpired(NextKey(p), prod[p].now) /\ keys[NextKey(p)].now.job # 0),
         Locks(p, Reclaimed(NextKey(p), prod[p].now)),
         prod' = [prod EXCEPT ![p].claimed = TRUE,
           ![p].claims = @ \cup {Claiming(p, Reclaimed(NextKey(p), prod[p].now))}]
  PROVE  EnqueueInv'
<1>1. /\ Tables /\ ProducerInv(p) /\ Busy(p) /\ prod[p].phase = "open" /\ ~prod[p].claimed
      /\ First(p) \in Items_(p) /\ prod[p].ids[First(p)] = None
      /\ NextKey(p) \in IdemKeys /\ NextKey(p) # None
      /\ keys[NextKey(p)].by \in {None, p} /\ keys[NextKey(p)] \in Held(KeyRec)
      /\ Idempotent(prod[p].req)
      /\ \A x \in prod[p].claims : x.job \in Items_(p) /\ prod[p].ids[x.job] # None
  BY ClaimsNext
<1>2. PICK r : r = Reclaimed(NextKey(p), prod[p].now)
  OBVIOUS
<1>3. /\ clock \in 0..MaxClock /\ prod[p].now \in 0..MaxClock /\ prod[p].now <= clock
      /\ keys[NextKey(p)].now \in KeyRec /\ keys[NextKey(p)].now.expires <= clock + Ttl
  BY <1>1, HeldFields DEF ProducerInv, Calling, Tables
<1>4. keys[NextKey(p)].now.expires \in Times
  BY <1>3 DEF KeyRec
<1>5. r.job = 0 /\ r.expires = IF Unexpired(NextKey(p), prod[p].now)
                               THEN keys[NextKey(p)].now.expires ELSE prod[p].now + Ttl
  BY <1>2 DEF Reclaimed
<1>6. r.expires \in Times /\ r.expires > prod[p].now /\ r.expires <= clock + Ttl
  <2>1. CASE Unexpired(NextKey(p), prod[p].now)
    <3>1. keys[NextKey(p)].now.expires > prod[p].now
      BY <2>1 DEF Unexpired
    <3>2. r.expires = keys[NextKey(p)].now.expires
      BY <1>5, <2>1
    <3>3. QED BY <1>3, <1>4, <3>1, <3>2
  <2>2. CASE ~Unexpired(NextKey(p), prod[p].now)
    <3>1. r.expires = prod[p].now + Ttl
      BY <1>5, <2>2
    <3>2. QED BY <1>3, <3>1, Assumed DEF Times
  <2>3. QED BY <2>1, <2>2
<1>7. r \in KeyRec
  <2>1. r = [job |-> r.job, expires |-> r.expires]
    BY <1>2 DEF Reclaimed
  <2>2. 0 \in 0..MaxJobs
    BY Assumed
  <2>3. QED BY <1>5, <1>6, <2>1, <2>2 DEF KeyRec
<1>8. PICK new : new = Claiming(p, r)
  OBVIOUS
<1>9. /\ new \in Claimed(Items_(p)) /\ new.key = NextKey(p) /\ new.job = First(p)
      /\ new.at = clock /\ new.expires = r.expires
  BY <1>1, <1>3, <1>6, <1>8 DEF Claiming, Claimed
<1>10. PICK s : s = [prod[p] EXCEPT !.claimed = TRUE, !.claims = prod[p].claims \cup {new}]
  OBVIOUS
<1>11. prod'[p] = s /\ Leaves(p)
  <2>1. DOMAIN prod = Producers
    BY <1>1 DEF Tables
  <2>2. prod' = [prod EXCEPT ![p] = s]
    BY <1>2, <1>8, <1>10, <2>1
  <2>3. QED BY <2>1, <2>2 DEF Leaves
<1>12. /\ s \in [phase : Phases, req : Calls \cup {None}, now : 0..MaxClock, claimed : BOOLEAN,
                 ids : {s.ids}, dup : {s.dup}, claims : {s.claims}]
       /\ s.phase = prod[p].phase /\ s.req = prod[p].req /\ s.now = prod[p].now
       /\ s.claimed = TRUE /\ s.claims = prod[p].claims \cup {new}
       /\ s.ids = prod[p].ids /\ s.dup = prod[p].dup
  BY <1>1, <1>10 DEF ProducerInv, Calling
<1>13. /\ Tables' /\ OneJobPerClaim'
       /\ \A q \in Producers \ {p} : ProducerInv(q)'
       /\ keys'[NextKey(p)].now = r /\ keys'[NextKey(p)].was = keys[NextKey(p)].was
       /\ keys'[NextKey(p)].by = p
       /\ \A k \in IdemKeys \ {NextKey(p)} : keys'[k] = keys[k]
  BY <1>2, <1>6, <1>7, <1>11, ClaimLocks
<1>14. /\ Items_(p)' = Items_(p) /\ \A i : Item(p, i)' = Item(p, i)
       /\ Todo(p)' = Todo(p) /\ First(p)' = First(p) /\ Busy(p)'
  BY ONLY <1>1, <1>11, <1>12 DEF Items_, Item, Todo, First, Busy
<1>15. requests' = requests /\ clock' = clock /\ jobs' = jobs /\ claims' = claims
  BY DEF Claim
<1>16. Calling(p)'
  <2>1. /\ prod[p].req \in requests /\ Accepted(prod[p].req) /\ prod[p].now <= clock
        /\ prod[p].ids \in [Items_(p) -> IdOrNone]
        /\ prod[p].dup \subseteq Items_(p) /\ prod[p].claims \subseteq Claimed(Items_(p))
    BY <1>1 DEF ProducerInv, Calling
  <2>2. /\ s.req \in requests' /\ Accepted(s.req) /\ s.now <= clock'
        /\ s.ids \in [Items_(p)' -> IdOrNone]
        /\ s.dup \subseteq Items_(p)' /\ s.claims \subseteq Claimed(Items_(p)')
    BY ONLY <1>9, <1>12, <1>14, <1>15, <2>1
  <2>3. s.phase = "open" /\ Idempotent(s.req)
    BY <1>1, <1>12
  <2>4. QED BY ONLY <1>11, <1>12, <1>14, <2>2, <2>3 DEF Calling
<1>17. NextClaimed(p)'
  <2>1. Todo(p) # {}
    BY DEF Claim
  <2>2. Item(p, First(p))' = Item(p, First(p))
    BY <1>14
  <2>3. prod'[p].phase = "open" /\ keys'[NextKey(p)].now.job = 0
    BY <1>1, <1>5, <1>11, <1>12, <1>13
  <2>4. QED BY ONLY <1>1, <1>13, <1>14, <2>1, <2>2, <2>3 DEF NextClaimed, NextKey
<1>18. ASSUME NEW i \in prod[p].dup
       PROVE  /\ prod[p].ids[i] \notin {None, 0} /\ Item(p, i).idem # None
              /\ keys'[Item(p, i).idem].by = p
              /\ keys'[Item(p, i).idem].now.job = prod[p].ids[i]
              /\ keys'[Item(p, i).idem].now.expires > prod[p].now
  <2>1. /\ prod[p].ids[i] \notin {None, 0} /\ Item(p, i).idem # None
        /\ keys[Item(p, i).idem].by = p
        /\ keys[Item(p, i).idem].now.job = prod[p].ids[i]
        /\ keys[Item(p, i).idem].now.expires > prod[p].now
    BY <1>1 DEF ProducerInv, DuplicatesHeld
  <2>2. i \in Items_(p)
    BY <1>1 DEF ProducerInv, Calling
  <2>3. Item(p, i) \in Items
    BY <1>1, <2>2, BusyShape DEF ProducerInv
  <2>4. Item(p, i).idem \in IdemKeys
    BY <2>1, <2>3 DEF Items
  <2>5. Item(p, i).idem # NextKey(p)
    BY <2>1 DEF Unexpired
  <2>6. QED BY <1>13, <2>1, <2>4, <2>5
<1>19. DuplicatesHeld(p)'
  <2> SUFFICES ASSUME NEW i \in prod'[p].dup
               PROVE  /\ prod'[p].ids[i] \notin {None, 0} /\ Item(p, i)'.idem # None
                      /\ keys'[Item(p, i)'.idem].by = p
                      /\ keys'[Item(p, i)'.idem].now.job = prod'[p].ids[i]
                      /\ keys'[Item(p, i)'.idem].now.expires > prod'[p].now
    BY DEF DuplicatesHeld
  <2>1. Item(p, i)' = Item(p, i) /\ i \in prod[p].dup /\ prod'[p].ids = prod[p].ids
        /\ prod'[p].now = prod[p].now
    BY <1>11, <1>12, <1>14
  <2>2. QED BY ONLY <1>18, <2>1
<1>20. ASSUME NEW x \in prod[p].claims PROVE Holding(p, x)'
  <2>1. /\ Holding(p, x) /\ x.key \in IdemKeys /\ x.job \in Items_(p)
        /\ prod[p].ids[x.job] # None
    BY <1>1 DEF ProducerInv, ClaimsHeld, Calling, Claimed
  <2>2. prod'[p].ids = prod[p].ids /\ prod'[p].now = prod[p].now
    BY <1>11, <1>12
  <2>3. CASE x.key = NextKey(p)
    <3>1. prod[p].ids[x.job] = 0
      <4>1. prod[p].ids[x.job] # 0 => /\ keys[NextKey(p)].now.job # 0
                                      /\ keys[NextKey(p)].now.expires > prod[p].now
        BY <2>1, <2>3 DEF Holding
      <4>2. QED BY <4>1 DEF Unexpired
    <3>2. keys'[x.key].by = p
      BY <1>13, <2>3
    <3>3. QED BY ONLY <1>15, <2>1, <2>2, <3>1, <3>2 DEF Holding
  <2>4. CASE x.key # NextKey(p)
    <3>1. keys'[x.key] = keys[x.key]
      BY <1>13, <2>1, <2>4
    <3>2. QED BY ONLY <1>15, <2>1, <2>2, <3>1 DEF Holding
  <2>5. QED BY <2>3, <2>4
<1>21. Holding(p, new)'
  <2>1. /\ prod'[p].ids[new.job] = None /\ prod'[p].now = prod[p].now /\ prod'[p].claimed
        /\ keys'[new.key].by = p /\ keys'[new.key].now = r
    BY <1>1, <1>9, <1>11, <1>12, <1>13
  <2>2. new.job = First(p)' /\ new.key = Item(p, First(p))'.idem /\ new.at <= clock'
    BY <1>3, <1>9, <1>14, <1>15, Assumed DEF NextKey
  <2>3. new.expires = r.expires /\ r.expires > prod[p].now
    BY <1>6, <1>9
  <2>4. QED BY ONLY <2>1, <2>2, <2>3 DEF Holding
<1>22. ClaimsHeld(p)'
  <2>1. prod'[p].claims = prod[p].claims \cup {new}
    BY <1>11, <1>12
  <2>2. QED BY ONLY <1>20, <1>21, <2>1 DEF ClaimsHeld
<1>23. NamesHeld(p)'
  <2>1. NamesHeld(p)
    BY <1>1 DEF ProducerInv
  <2>2. prod'[p].ids = prod[p].ids /\ prod'[p].dup = prod[p].dup /\ prod'[p].req = prod[p].req
    BY <1>11, <1>12
  <2>3. \A i : Lanes(p, i)' = Lanes(p, i)
    <3>1. prod[p].phase = "open" /\ prod'[p].phase = "open"
      BY <1>11, <1>12 DEF Claim
    <3>2. QED BY ONLY <1>14, <3>1 DEF Lanes
  <2>4. QED BY ONLY <1>1, <1>14, <1>15, <2>1, <2>2, <2>3 DEF NamesHeld, Named
<1>24. ASSUME NEW c \in claims
       PROVE  /\ Latest(c)'
              /\ c.key = NextKey(p) => c.expires <= clock
  <2>1. c.key \in IdemKeys /\ c.job # 0 /\ c.expires \in Nat /\ Latest(c)
    BY <1>1, Assumed DEF Tables, Claimed, Times, Ids, EnqueueInv, ClaimsLatest
  <2>2. CASE c.key = NextKey(p)
    <3>1. c.expires <= clock
      <4> SUFFICES ASSUME ~(c.expires <= clock) PROVE FALSE
        OBVIOUS
      <4>1. keys[NextKey(p)].now = [job |-> c.job, expires |-> c.expires]
        BY <2>1, <2>2 DEF Latest
      <4>2. keys[NextKey(p)].now.job # 0 /\ keys[NextKey(p)].now.expires > prod[p].now
        BY <1>3, <2>1, <4>1, Assumed
      <4>3. QED BY <4>2 DEF Unexpired
    <3>2. QED BY ONLY <1>15, <3>1 DEF Latest
  <2>3. CASE c.key # NextKey(p)
    <3>1. keys'[c.key] = keys[c.key]
      BY <1>13, <2>1, <2>3
    <3>2. QED BY ONLY <1>15, <2>1, <2>3, <3>1 DEF Latest
  <2>4. QED BY <2>2, <2>3
<1>25. ASSUME NEW c \in claims, NEW q \in Producers, NEW x \in prod'[q].claims, x.key = c.key
       PROVE  x.at >= c.expires
  <2>1. CASE x \in prod[q].claims
    BY <1>25, <2>1 DEF EnqueueInv, ClaimsLatest
  <2>2. CASE x \notin prod[q].claims
    <3>1. q = p
      BY <1>11, <2>2 DEF Leaves
    <3>2. x = new
      BY <1>11, <1>12, <2>2, <3>1
    <3>3. c.expires <= clock /\ c.expires \in Nat /\ x.at = clock
      BY <1>1, <1>9, <1>24, <1>25, <3>2, Assumed DEF Tables, Claimed, Times
    <3>4. QED BY <1>3, <3>3
  <2>3. QED BY <2>1, <2>2
<1>26. ClaimsLatest'
  BY ONLY <1>15, <1>24, <1>25 DEF ClaimsLatest
<1>27. QED
  <2>1. ProducerInv(p)'
    BY <1>16, <1>17, <1>19, <1>22, <1>23 DEF ProducerInv
  <2>2. QED BY <1>13, <1>26, <2>1 DEF EnqueueInv

LEMMA ClaimHolds ==
  ASSUME EnqueueInv, NEW p \in Producers, Claim(p)
  PROVE  EnqueueInv'
<1>1. CASE /\ Unexpired(NextKey(p), prod[p].now) /\ keys[NextKey(p)].now.job # 0
           /\ keys' = [keys EXCEPT ![NextKey(p)] = Written(p, @, @.now)]
           /\ prod' = [prod EXCEPT ![p].ids[First(p)] = keys[NextKey(p)].now.job,
                                   ![p].dup = @ \cup {First(p)}]
  BY <1>1, DuplicateHolds
<1>2. CASE /\ ~(Unexpired(NextKey(p), prod[p].now) /\ keys[NextKey(p)].now.job # 0)
           /\ Locks(p, Reclaimed(NextKey(p), prod[p].now))
           /\ prod' = [prod EXCEPT ![p].claimed = TRUE,
                ![p].claims = @ \cup {Claiming(p, Reclaimed(NextKey(p), prod[p].now))}]
  BY <1>2, NewClaimHolds
<1>3. QED BY <1>1, <1>2 DEF Claim, Locks, Claiming, NextKey

---------------------------------------------------------------------------
(* An item's job is added *)

(* What add_job does to the rows: to the row that it answers, and to no    *)
(* other queued row that a transaction has written.                        *)
LEMMA AddsRow ==
  ASSUME Tables, NEW p \in Producers, NEW item \in Items, NEW mode, NEW id \in 0..MaxJobs,
         Adds(p, item, mode, id)
  PROVE  /\ jobs' \in [Ids -> Held(JobRec)]
         /\ id = 0 => item.jobKey # None
         /\ id # 0 => /\ id \in Ids
                      /\ \/ jobs[id].now.state = "none"
                         \/ /\ item.jobKey # None /\ jobs[id].now.key = item.jobKey
                            /\ jobs[id].by \in {None, p}
         /\ id # 0 /\ ~(item.jobKey # None /\ mode = "unsafe_dedupe") =>
              /\ jobs'[id].by = p /\ jobs'[id].now.state = "queued"
              /\ jobs'[id].now.content = item.content
              /\ jobs'[id].now.maxAttempts = Filled(item) /\ jobs'[id].now.lane = item.lane
              /\ jobs'[id].now.key = item.jobKey
         /\ \A j \in Ids : j # id /\ jobs[j].by # None /\ jobs[j].now.state = "queued" =>
              jobs'[j] = jobs[j]
<1> DEFINE k == item.jobKey
<1>1. /\ jobs \in [Ids -> Held(JobRec)] /\ \A j \in Ids : jobs[j] \in Held(JobRec)
      /\ \A j \in Ids : jobs[j].now \in JobRec
  BY HeldFields DEF Tables
<1>2. id # 0 => id \in Ids
  BY Assumed DEF Ids
<1>3. PICK new : new = Added(item)
  OBVIOUS
<1>4. /\ new \in JobRec /\ new.state = "queued" /\ new.content = item.content
      /\ new.maxAttempts = Filled(item) /\ new.lane = item.lane /\ new.key = k
  <2>1. Filled(item) \in Nat
    BY DEF Filled, Items
  <2>2. QED BY <1>3, <2>1 DEF Added, Items, JobRec
<1>5. \A row \in Held(JobRec) : \A r \in JobRec :
        /\ Written(p, row, r) \in Held(JobRec) /\ Written(p, row, r).now = r
        /\ Written(p, row, r).by = p
  BY WrittenFields
<1>6. \/ id # 0 /\ Unused(id) /\ jobs' = [jobs EXCEPT ![id] = Written(p, @, new)]
      \/ \E j \in Ids :
           /\ k # None /\ jobs[j].now.key = k /\ jobs[j].by \in {None, p}
           /\ \/ /\ mode = "unsafe_dedupe" /\ id = j
                 /\ jobs' = [jobs EXCEPT ![j] = Written(p, @, @.now)]
              \/ /\ mode # "unsafe_dedupe" /\ jobs[j].now.state = "queued" /\ id = j
                 /\ jobs' = [jobs EXCEPT ![j] = Written(p, @, Replaced(@.now, item, mode))]
              \/ /\ jobs[j].by = None /\ id = 0 /\ jobs[j].now.state = "queued"
                 /\ jobs' = [jobs EXCEPT ![j] = Row(Fetched(@.now))]
              \/ /\ jobs[j].now.state = "locked" /\ id # 0 /\ Unused(id)
                 /\ jobs' = [jobs EXCEPT
                      ![j]  = Written(p, @, [@.now EXCEPT !.key = None, !.state = "last"]),
                      ![id] = Written(p, @, new)]
  BY <1>3 DEF Adds, RowsOf, Open
<1>7. CASE id # 0 /\ Unused(id) /\ jobs' = [jobs EXCEPT ![id] = Written(p, @, new)]
  <2>1. jobs[id].now.state = "none" /\ id \in Ids
    BY <1>2, <1>7 DEF Unused
  <2>2. PICK w : w = Written(p, jobs[id], new)
    OBVIOUS
  <2>3. w \in Held(JobRec) /\ w.now = new /\ w.by = p
    BY <1>1, <1>4, <1>5, <2>1, <2>2
  <2>4. jobs' = [jobs EXCEPT ![id] = w]
    BY <1>7, <2>2
  <2>5. jobs' \in [Ids -> Held(JobRec)] /\ jobs'[id] = w
        /\ \A j \in Ids \ {id} : jobs'[j] = jobs[j]
    BY <1>1, <2>1, <2>3, <2>4
  <2>6. QED BY ONLY <1>4, <1>7, <2>1, <2>3, <2>5
<1>8. ASSUME NEW j \in Ids, k # None, jobs[j].now.key = k, jobs[j].by \in {None, p},
             mode = "unsafe_dedupe", id = j,
             jobs' = [jobs EXCEPT ![j] = Written(p, @, @.now)]
      PROVE  /\ jobs' \in [Ids -> Held(JobRec)]
             /\ \A i \in Ids \ {j} : jobs'[i] = jobs[i]
  <2>1. PICK w : w = Written(p, jobs[j], jobs[j].now)
    OBVIOUS
  <2>2. w \in Held(JobRec) /\ jobs' = [jobs EXCEPT ![j] = w]
    BY <1>1, <1>5, <1>8, <2>1
  <2>3. QED BY ONLY <1>1, <2>2, j \in Ids
<1>9. ASSUME NEW j \in Ids, id = j,
             jobs' = [jobs EXCEPT ![j] = Written(p, @, Replaced(@.now, item, mode))]
      PROVE  /\ jobs' \in [Ids -> Held(JobRec)]
             /\ jobs'[j].by = p /\ jobs'[j].now.state = "queued"
             /\ jobs'[j].now.content = item.content
             /\ jobs'[j].now.maxAttempts = Filled(item) /\ jobs'[j].now.lane = item.lane
             /\ jobs'[j].now.key = item.jobKey
             /\ \A i \in Ids \ {j} : jobs'[i] = jobs[i]
  <2>1. PICK r : r = Replaced(jobs[j].now, item, mode)
    OBVIOUS
  <2>2. /\ r \in JobRec /\ r.state = "queued" /\ r.content = item.content
        /\ r.maxAttempts = Filled(item) /\ r.lane = item.lane /\ r.key = k
    <3>1. jobs[j].now.runAt \in Nat /\ item.runAt \in Nat
      BY <1>1 DEF JobRec, Items
    <3>2. PICK at \in Nat : r = [new EXCEPT !.runAt = at]
      <4>1. PICK at : at = IF mode = "preserve_run_at" /\ ~jobs[j].now.tried
                           THEN jobs[j].now.runAt ELSE new.runAt
        OBVIOUS
      <4>2. new.runAt = item.runAt
        BY <1>3 DEF Added
      <4>3. at \in Nat
        BY <3>1, <4>1, <4>2
      <4>4. r = [new EXCEPT !.runAt = at]
        BY <1>3, <2>1, <4>1 DEF Replaced
      <4>5. QED BY <4>3, <4>4
    <3>3. QED BY <1>4, <3>2 DEF JobRec
  <2>3. PICK w : w = Written(p, jobs[j], r)
    OBVIOUS
  <2>4. w \in Held(JobRec) /\ w.now = r /\ w.by = p
    BY <1>1, <1>5, <2>2, <2>3
  <2>5. jobs' = [jobs EXCEPT ![j] = w]
    BY <1>9, <2>1, <2>3
  <2>6. jobs' \in [Ids -> Held(JobRec)] /\ jobs'[j] = w /\ \A i \in Ids \ {j} : jobs'[i] = jobs[i]
    BY ONLY <1>1, <2>4, <2>5, j \in Ids
  <2>7. QED BY ONLY <2>2, <2>4, <2>6
<1>10. ASSUME NEW j \in Ids, jobs' = [jobs EXCEPT ![j] = Row(Fetched(@.now))]
       PROVE  /\ jobs' \in [Ids -> Held(JobRec)]
              /\ \A i \in Ids \ {j} : jobs'[i] = jobs[i]
  <2>1. PICK w : w = Row(Fetched(jobs[j].now))
    OBVIOUS
  <2>2. Fetched(jobs[j].now) \in JobRec
    BY <1>1 DEF Fetched, JobRec
  <2>3. w \in Held(JobRec) /\ jobs' = [jobs EXCEPT ![j] = w]
    BY <1>10, <2>1, <2>2, RowFields
  <2>4. QED BY ONLY <1>1, <2>3, j \in Ids
<1>11. ASSUME NEW j \in Ids, jobs[j].now.state = "locked", id # 0, Unused(id),
              jobs' = [jobs EXCEPT
                ![j]  = Written(p, @, [@.now EXCEPT !.key = None, !.state = "last"]),
                ![id] = Written(p, @, new)]
       PROVE  /\ jobs' \in [Ids -> Held(JobRec)]
              /\ jobs[id].now.state = "none"
              /\ jobs'[id].by = p /\ jobs'[id].now = new
              /\ \A i \in Ids \ {j, id} : jobs'[i] = jobs[i]
  <2>1. jobs[id].now.state = "none" /\ id \in Ids /\ id # j
    BY <1>2, <1>11 DEF Unused
  <2>2. PICK v : v = Written(p, jobs[j], [jobs[j].now EXCEPT !.key = None, !.state = "last"])
    OBVIOUS
  <2>3. [jobs[j].now EXCEPT !.key = None, !.state = "last"] \in JobRec
    BY <1>1 DEF JobRec
  <2>4. PICK w : w = Written(p, jobs[id], new)
    OBVIOUS
  <2>5. v \in Held(JobRec) /\ w \in Held(JobRec) /\ w.by = p /\ w.now = new
    BY <1>1, <1>4, <1>5, <2>1, <2>2, <2>3, <2>4
  <2>6. jobs' = [[jobs EXCEPT ![j] = v] EXCEPT ![id] = w]
    BY <1>1, <1>11, <2>1, <2>2, <2>4
  <2>7. QED BY ONLY <1>1, <2>1, <2>5, <2>6, j \in Ids
<1> HIDE DEF k
<1>12. QED
  <2>1. CASE \E j \in Ids : k # None /\ jobs[j].now.key = k /\ jobs[j].by \in {None, p}
               /\ mode = "unsafe_dedupe" /\ id = j
               /\ jobs' = [jobs EXCEPT ![j] = Written(p, @, @.now)]
    BY <1>2, <1>8, <2>1 DEF k
  <2>2. CASE \E j \in Ids : k # None /\ jobs[j].now.key = k /\ jobs[j].by \in {None, p} /\ id = j
               /\ jobs' = [jobs EXCEPT ![j] = Written(p, @, Replaced(@.now, item, mode))]
    BY <1>2, <1>9, <2>2 DEF k
  <2>3. CASE \E j \in Ids : k # None /\ jobs[j].by = None /\ id = 0
               /\ jobs' = [jobs EXCEPT ![j] = Row(Fetched(@.now))]
    BY <1>10, <2>3 DEF k
  <2>4. CASE \E j \in Ids : jobs[j].now.state = "locked" /\ id # 0 /\ Unused(id)
               /\ jobs' = [jobs EXCEPT
                    ![j]  = Written(p, @, [@.now EXCEPT !.key = None, !.state = "last"]),
                    ![id] = Written(p, @, new)]
    <3>1. PICK j \in Ids : /\ jobs[j].now.state = "locked"
                           /\ jobs' \in [Ids -> Held(JobRec)] /\ jobs[id].now.state = "none"
                           /\ jobs'[id].by = p /\ jobs'[id].now = new
                           /\ \A i \in Ids \ {j, id} : jobs'[i] = jobs[i]
      BY <1>11, <2>4
    <3>2. QED BY <1>2, <1>4, <2>4, <3>1 DEF k
  <2>5. QED BY <1>6, <1>7, <2>1, <2>2, <2>3, <2>4 DEF k

(* A call of one item, and the job keys of a batch. *)
LEMMA OneItem ==
  ASSUME Tables, NEW p \in Producers, Calling(p), Busy(p), ~prod[p].req.many,
         NEW i \in Items_(p), NEW j \in Items_(p)
  PROVE  i = j
<1>1. PICK req \in requests : req = prod[p].req /\ req \in Calls
  BY DEF Calling, Tables
<1>2. Len(req.items) = 1 /\ DOMAIN req.items = 1..Len(req.items)
  BY <1>1, CallShape DEF Tables
<1>3. Items_(p) = 1..1
  BY <1>1, <1>2 DEF Items_
<1>4. QED BY <1>3

LEMMA JoinsAlone ==
  ASSUME NEW req, NEW i, Joins(req, i)
  PROVE  ~req.many
BY DEF Joins, ItemMode

LEMMA KeysTell ==
  ASSUME Tables, NEW p \in Producers, Calling(p), Busy(p),
         NEW i \in Items_(p), NEW j \in Items_(p),
         Item(p, i).jobKey # None, Item(p, j).jobKey = Item(p, i).jobKey
  PROVE  i = j
<1>1. CASE ~prod[p].req.many
  BY <1>1, OneItem
<1>2. CASE prod[p].req.many
  BY <1>2 DEF Calling, Accepted, Keyed, Item, Items_
<1>3. QED BY <1>1, <1>2

LEMMA AddHolds ==
  ASSUME EnqueueInv, NEW p \in Producers, Add(p)
  PROVE  EnqueueInv'
<1>1. /\ Tables /\ ProducerInv(p) /\ Calling(p) /\ Busy(p) /\ prod[p].phase = "open"
      /\ Todo(p) # {} /\ clock \in Nat
      /\ requests' = requests /\ clock' = clock /\ claims' = claims
  BY Assumed DEF EnqueueInv, ProducerInv, Busy, Add, Tables
<1>2. PICK i \in Ready(p), id \in 0..MaxJobs :
        /\ prod[p].claimed <=> Item(p, i).idem # None
        /\ Adds(p, Item(p, i), ItemMode(prod[p].req, i), id)
        /\ prod' = [prod EXCEPT ![p].ids[i] = id, ![p].claimed = FALSE]
        /\ keys' = IF prod[p].claimed THEN [keys EXCEPT ![Item(p, i).idem].now.job = id] ELSE keys
  BY DEF Add
<1>3. /\ i \in Items_(p) /\ prod[p].ids[i] = None /\ Item(p, i) \in Items
      /\ DOMAIN prod[p].ids = Items_(p) /\ \A j \in Items_(p) : prod[p].ids[j] \in IdOrNone
  <2>1. i \in Todo(p)
    BY <1>1, <1>2, NextItem DEF Ready
  <2>2. i \in Items_(p) /\ prod[p].ids[i] = None
    BY <1>1, <2>1, NextItem
  <2>3. QED BY <1>1, <2>2, BusyShape
<1>4. prod[p].claimed =>
        /\ i = First(p) /\ NextKey(p) # None /\ NextKey(p) \in IdemKeys
        /\ keys[NextKey(p)].by = p /\ keys[NextKey(p)].now.job = 0
  <2> SUFFICES ASSUME prod[p].claimed
               PROVE  /\ i = First(p) /\ NextKey(p) # None /\ NextKey(p) \in IdemKeys
                      /\ keys[NextKey(p)].by = p /\ keys[NextKey(p)].now.job = 0
    OBVIOUS
  <2>1. Idempotent(prod[p].req)
    BY <1>1 DEF Calling
  <2>2. i = First(p)
    BY <1>2, <2>1 DEF Ready
  <2>3. NextKey(p) # None /\ keys[NextKey(p)].by = p /\ keys[NextKey(p)].now.job = 0
    BY <1>1 DEF ProducerInv, NextClaimed, NextKey
  <2>4. NextKey(p) \in IdemKeys
    BY <1>3, <2>2, <2>3 DEF NextKey, Items
  <2>5. QED BY <2>2, <2>3, <2>4
<1>5. keys \in [IdemKeys -> Held(KeyRec)] /\ \A k \in IdemKeys : keys[k] \in Held(KeyRec)
  BY <1>1 DEF Tables
<1>6. /\ keys' \in [IdemKeys -> Held(KeyRec)]
      /\ \A k \in IdemKeys :
           /\ keys'[k].by = keys[k].by /\ keys'[k].was = keys[k].was
           /\ keys'[k].now.expires = keys[k].now.expires
           /\ keys[k].by # p \/ keys[k].now.job # 0 => keys'[k] = keys[k]
      /\ prod[p].claimed => keys'[NextKey(p)].now.job = id
  <2>1. CASE ~prod[p].claimed
    <3>1. keys' = keys
      BY <1>2, <2>1
    <3>2. QED BY <1>5, <2>1, <3>1
  <2>2. CASE prod[p].claimed
    <3>1. PICK k \in IdemKeys : k = NextKey(p)
      BY <1>4, <2>2
    <3>2. PICK r : r = [keys[k].now EXCEPT !.job = id]
      OBVIOUS
    <3>3. keys[k].now \in KeyRec
      BY <1>5, HeldFields
    <3>4. r \in KeyRec /\ r.job = id /\ r.expires = keys[k].now.expires
      BY <3>2, <3>3 DEF KeyRec
    <3>5. PICK w : w = [keys[k] EXCEPT !.now = r]
      OBVIOUS
    <3>6. w \in Held(KeyRec) /\ w.now = r /\ w.was = keys[k].was /\ w.by = keys[k].by
      BY <1>5, <3>4, <3>5 DEF Held
    <3>7. keys' = [keys EXCEPT ![k] = w]
      <4>1. k = Item(p, i).idem
        BY <1>4, <2>2, <3>1 DEF NextKey
      <4>2. QED BY <1>2, <1>5, <2>2, <3>2, <3>5, <4>1
    <3>8. keys' \in [IdemKeys -> Held(KeyRec)] /\ keys'[k] = w
          /\ \A l \in IdemKeys \ {k} : keys'[l] = keys[l]
      BY ONLY <1>5, <3>6, <3>7, k \in IdemKeys
    <3>9. keys[k].by = p /\ keys[k].now.job = 0
      BY <1>4, <2>2, <3>1
    <3>10. QED BY ONLY <3>1, <3>4, <3>6, <3>8, <3>9
  <2>3. QED BY <2>1, <2>2
<1>7. PICK s : s = [prod[p] EXCEPT !.ids = [prod[p].ids EXCEPT ![i] = id], !.claimed = FALSE]
  OBVIOUS
<1>8. prod'[p] = s /\ DOMAIN prod' = Producers /\ \A q \in Producers \ {p} : prod'[q] = prod[q]
  <2>1. DOMAIN prod = Producers
    BY <1>1 DEF Tables
  <2>2. prod' = [prod EXCEPT ![p] = s]
    BY <1>2, <1>7, <2>1
  <2>3. QED BY ONLY <2>1, <2>2, p \in Producers
<1>9. /\ s \in [phase : Phases, req : Calls \cup {None}, now : 0..MaxClock, claimed : BOOLEAN,
                ids : {s.ids}, dup : {s.dup}, claims : {s.claims}]
      /\ s.phase = prod[p].phase /\ s.req = prod[p].req /\ s.now = prod[p].now
      /\ s.claimed = FALSE /\ s.claims = prod[p].claims
      /\ s.ids = [prod[p].ids EXCEPT ![i] = id] /\ s.dup = prod[p].dup
  BY <1>1, <1>7 DEF Calling
<1>10. /\ s.ids[i] = id /\ \A j \in Items_(p) \ {i} : s.ids[j] = prod[p].ids[j]
       /\ s.ids \in [Items_(p) -> IdOrNone]
  <2>1. id \in IdOrNone
    BY DEF IdOrNone
  <2>2. prod[p].ids \in [Items_(p) -> IdOrNone]
    BY <1>1 DEF Calling
  <2>3. QED BY ONLY <1>3, <1>9, <2>1, <2>2
<1>11. /\ Items_(p)' = Items_(p) /\ (\A j : Item(p, j)' = Item(p, j)) /\ Busy(p)'
  BY ONLY <1>1, <1>8, <1>9 DEF Items_, Item, Busy
<1>12. /\ jobs' \in [Ids -> Held(JobRec)]
       /\ id = 0 => Item(p, i).jobKey # None
       /\ id # 0 => /\ id \in Ids
                    /\ \/ jobs[id].now.state = "none"
                       \/ /\ Item(p, i).jobKey # None /\ jobs[id].now.key = Item(p, i).jobKey
                          /\ jobs[id].by \in {None, p}
       /\ id # 0 /\ ~Joins(prod[p].req, i) =>
            /\ jobs'[id].by = p /\ jobs'[id].now.state = "queued"
            /\ jobs'[id].now.content = Item(p, i).content
            /\ jobs'[id].now.maxAttempts = Filled(Item(p, i))
            /\ jobs'[id].now.lane = Item(p, i).lane
            /\ jobs'[id].now.key = Item(p, i).jobKey
       /\ \A j \in Ids : j # id /\ jobs[j].by # None /\ jobs[j].now.state = "queued" =>
            jobs'[j] = jobs[j]
  <2>1. PICK item \in Items : item = Item(p, i)
    BY <1>3
  <2>2. PICK mode : mode = ItemMode(prod[p].req, i)
    OBVIOUS
  <2>3. Adds(p, item, mode, id)
    BY <1>2, <2>1, <2>2
  <2>4. Joins(prod[p].req, i) <=> item.jobKey # None /\ mode = "unsafe_dedupe"
    BY <2>1, <2>2 DEF Joins, Item
  <2>5. QED BY ONLY <1>1, <2>1, <2>3, <2>4, AddsRow, p \in Producers, id \in 0..MaxJobs
<1>13. Tables'
  <2>1. \A k \in IdemKeys : keys'[k].now.expires <= clock' + Ttl
                         /\ keys'[k].was.expires <= clock' + Ttl
    BY ONLY <1>1, <1>6 DEF Tables
  <2>2. QED BY ONLY <1>1, <1>6, <1>8, <1>12, <2>1 DEF Tables
<1>14. ASSUME NEW q \in Producers \ {p} PROVE ProducerInv(q)'
  <2>1. ProducerInv(q) /\ clock <= clock' /\ prod'[q] = prod[q]
    BY <1>1, <1>8 DEF EnqueueInv
  <2>2. \A k \in IdemKeys : keys[k].by = q => keys'[k] = keys[k]
    BY <1>6
  <2>3. \A j \in Ids : jobs[j].by = q /\ jobs[j].now.state = "queued" => jobs'[j] = jobs[j]
    <3> SUFFICES ASSUME NEW j \in Ids, jobs[j].by = q, jobs[j].now.state = "queued"
                 PROVE  jobs'[j] = jobs[j]
      OBVIOUS
    <3>1. q # None
      BY Assumed
    <3>2. j # id
      BY <1>12, <3>1, Assumed DEF Ids
    <3>3. QED BY <1>12, <3>1, <3>2
  <2>4. QED BY ONLY <1>1, <1>13, <2>1, <2>2, <2>3, OthersHold, q \in Producers
<1>15. Calling(p)'
  <2>1. /\ prod[p].req \in requests /\ Accepted(prod[p].req) /\ prod[p].now <= clock
        /\ prod[p].dup \subseteq Items_(p) /\ prod[p].claims \subseteq Claimed(Items_(p))
        /\ ~Idempotent(prod[p].req) => prod[p].dup = {} /\ prod[p].claims = {}
    BY <1>1 DEF Calling
  <2>2. /\ s.req \in requests' /\ Accepted(s.req) /\ s.now <= clock'
        /\ s.ids \in [Items_(p)' -> IdOrNone]
        /\ s.dup \subseteq Items_(p)' /\ s.claims \subseteq Claimed(Items_(p)')
        /\ ~Idempotent(s.req) => s.dup = {} /\ s.claims = {}
        /\ s.phase = "open" /\ s.claimed = FALSE
    BY ONLY <1>1, <1>9, <1>10, <1>11, <2>1
  <2>3. QED BY ONLY <1>8, <1>9, <1>11, <2>2 DEF Calling
<1>16. NextClaimed(p)'
  <2>1. prod'[p].claimed = FALSE
    BY <1>8, <1>9
  <2>2. QED BY ONLY <2>1 DEF NextClaimed
<1>17. DuplicatesHeld(p)'
  <2> SUFFICES ASSUME NEW j \in prod'[p].dup
               PROVE  /\ prod'[p].ids[j] \notin {None, 0} /\ Item(p, j)'.idem # None
                      /\ keys'[Item(p, j)'.idem].by = p
                      /\ keys'[Item(p, j)'.idem].now.job = prod'[p].ids[j]
                      /\ keys'[Item(p, j)'.idem].now.expires > prod'[p].now
    BY DEF DuplicatesHeld
  <2>1. j \in prod[p].dup /\ j \in Items_(p) /\ Item(p, j)' = Item(p, j)
    BY <1>1, <1>8, <1>9, <1>11 DEF Calling
  <2>2. /\ prod[p].ids[j] \notin {None, 0} /\ Item(p, j).idem # None
        /\ keys[Item(p, j).idem].by = p
        /\ keys[Item(p, j).idem].now.job = prod[p].ids[j]
        /\ keys[Item(p, j).idem].now.expires > prod[p].now
    BY <1>1, <2>1 DEF ProducerInv, DuplicatesHeld
  <2>3. Item(p, j) \in Items
    BY <1>1, <2>1, BusyShape
  <2>4. Item(p, j).idem \in IdemKeys
    BY <2>2, <2>3 DEF Items
  <2>5. keys'[Item(p, j).idem] = keys[Item(p, j).idem]
    BY <1>6, <2>2, <2>4
  <2>6. prod'[p].ids[j] = prod[p].ids[j] /\ prod'[p].now = prod[p].now
    BY <1>3, <1>8, <1>9, <1>10, <2>1, <2>2
  <2>7. QED BY ONLY <2>1, <2>2, <2>5, <2>6
<1>18. ASSUME NEW x \in prod[p].claims PROVE Holding(p, x)'
  <2>1. Holding(p, x) /\ x.key \in IdemKeys /\ x.job \in Items_(p) /\ x.at <= clock
    BY <1>1 DEF ProducerInv, ClaimsHeld, Holding, Calling, Claimed
  <2>2. prod'[p].ids = s.ids /\ prod'[p].now = prod[p].now
    BY <1>8, <1>9
  <2>3. keys'[x.key].by = p /\ keys'[x.key].now.expires = keys[x.key].now.expires
    BY <1>6, <2>1 DEF Holding
  <2>4. CASE prod[p].ids[x.job] = None
    <3>1. prod[p].claimed /\ x.job = i /\ x.key = NextKey(p)
      BY <1>4, <2>1, <2>4 DEF Holding, NextKey
    <3>2. s.ids[x.job] = id /\ keys'[x.key].now.job = id /\ id # None
      BY <1>6, <1>10, <3>1, Assumed
    <3>3. keys[x.key].now.expires = x.expires /\ x.expires > prod[p].now
      BY <2>1, <2>4, Assumed DEF Holding
    <3>4. QED BY ONLY <1>1, <2>1, <2>2, <2>3, <3>2, <3>3 DEF Holding
  <2>5. CASE prod[p].ids[x.job] # None
    <3>1. s.ids[x.job] = prod[p].ids[x.job]
      BY <1>3, <1>10, <2>1, <2>5
    <3>2. prod[p].ids[x.job] # 0 => keys'[x.key] = keys[x.key]
      BY <1>6, <2>1, <2>5 DEF Holding
    <3>3. QED BY ONLY <1>1, <2>1, <2>2, <2>3, <2>5, <3>1, <3>2 DEF Holding
  <2>6. QED BY <2>4, <2>5
<1>19. ClaimsHeld(p)'
  <2>1. prod'[p].claims = prod[p].claims
    BY <1>8, <1>9
  <2>2. QED BY ONLY <1>18, <2>1 DEF ClaimsHeld
<1>20. NamesHeld(p)
  BY <1>1 DEF ProducerInv
<1>21. ASSUME NEW j \in Items_(p) \ prod[p].dup, j # i, id # 0, prod[p].ids[j] = id
       PROVE  FALSE
  <2>1. ~Joins(prod[p].req, j)
    BY <1>1, <1>3, <1>21, JoinsAlone, OneItem
  <2>2. id # None
    BY Assumed
  <2>3. Named(p, j)
    BY <1>1, <1>20, <1>21, <2>1, <2>2 DEF NamesHeld
  <2>4. /\ jobs[id].now.state = "queued" /\ jobs[id].now.key = Item(p, j).jobKey
    BY <1>21, <2>3 DEF Named
  <2>5. Item(p, i).jobKey # None /\ Item(p, j).jobKey = Item(p, i).jobKey
    BY <1>12, <1>21, <2>4
  <2>6. i = j
    BY <1>1, <1>3, <1>21, <2>5, KeysTell
  <2>7. QED BY <1>21, <2>6
<1>22. ASSUME NEW j \in Items_(p) \ prod[p].dup
       PROVE  /\ s.ids[j] = 0 => Item(p, j).jobKey # None
              /\ s.ids[j] \notin {None, 0} /\ ~Joins(prod[p].req, j) =>
                   /\ jobs'[s.ids[j]].by = p /\ jobs'[s.ids[j]].now.state = "queued"
                   /\ jobs'[s.ids[j]].now.content = Item(p, j).content
                   /\ jobs'[s.ids[j]].now.maxAttempts = Filled(Item(p, j))
                   /\ jobs'[s.ids[j]].now.lane = Item(p, j).lane
                   /\ jobs'[s.ids[j]].now.key = Item(p, j).jobKey
                   /\ \A l \in Items_(p) \ prod[p].dup : s.ids[l] = s.ids[j] => l = j
  <2>1. CASE j = i
    <3>1. s.ids[j] = id
      BY <1>10, <2>1
    <3>2. ASSUME id # 0, NEW l \in Items_(p) \ prod[p].dup, s.ids[l] = id
          PROVE  l = i
      BY <1>10, <1>21, <3>2
    <3>3. QED BY ONLY <1>12, <2>1, <3>1, <3>2
  <2>2. CASE j # i
    <3>1. s.ids[j] = prod[p].ids[j]
      BY <1>10, <2>2
    <3>2. /\ prod[p].ids[j] = 0 => Item(p, j).jobKey # None
          /\ prod[p].ids[j] \notin {None, 0} /\ ~Joins(prod[p].req, j) => Named(p, j)
      BY <1>1, <1>20 DEF NamesHeld
    <3> SUFFICES ASSUME prod[p].ids[j] \notin {None, 0}, ~Joins(prod[p].req, j)
                 PROVE  /\ jobs'[s.ids[j]].by = p /\ jobs'[s.ids[j]].now.state = "queued"
                        /\ jobs'[s.ids[j]].now.content = Item(p, j).content
                        /\ jobs'[s.ids[j]].now.maxAttempts = Filled(Item(p, j))
                        /\ jobs'[s.ids[j]].now.lane = Item(p, j).lane
                        /\ jobs'[s.ids[j]].now.key = Item(p, j).jobKey
                        /\ \A l \in Items_(p) \ prod[p].dup : s.ids[l] = s.ids[j] => l = j
      BY <3>1, <3>2
    <3>3. Named(p, j)
      BY <3>2
    <3>4. prod[p].ids[j] \in Ids
      BY <1>3, Assumed DEF IdOrNone, Ids
    <3>5. prod[p].ids[j] # id
      BY <1>21, <2>2
    <3>6. /\ jobs[prod[p].ids[j]].by = p /\ jobs[prod[p].ids[j]].now.state = "queued"
          /\ jobs[prod[p].ids[j]].now.content = Item(p, j).content
          /\ jobs[prod[p].ids[j]].now.maxAttempts = Filled(Item(p, j))
          /\ jobs[prod[p].ids[j]].now.lane = Item(p, j).lane
          /\ jobs[prod[p].ids[j]].now.key = Item(p, j).jobKey
          /\ \A l \in Items_(p) \ prod[p].dup : prod[p].ids[l] = prod[p].ids[j] => l = j
      <4>1. prod[p].phase = "open"
        BY DEF Add
      <4>2. QED BY ONLY <3>3, <4>1 DEF Named, Lanes
    <3>7. jobs'[prod[p].ids[j]] = jobs[prod[p].ids[j]]
      BY <1>12, <3>4, <3>5, <3>6, Assumed
    <3>8. \A l \in Items_(p) \ prod[p].dup : s.ids[l] = s.ids[j] => l = j
      BY <1>10, <3>1, <3>5, <3>6
    <3>9. QED BY <3>1, <3>6, <3>7, <3>8
  <2>3. QED BY <2>1, <2>2
<1>23. NamesHeld(p)'
  <2> SUFFICES ASSUME NEW j \in Items_(p)' \ prod'[p].dup
               PROVE  /\ prod'[p].ids[j] = 0 => Item(p, j)'.jobKey # None
                      /\ prod'[p].ids[j] \notin {None, 0} /\ ~Joins(prod'[p].req, j) =>
                           Named(p, j)'
    BY DEF NamesHeld
  <2>1. /\ Items_(p)' = Items_(p) /\ Item(p, j)' = Item(p, j) /\ prod'[p].ids = s.ids
        /\ prod'[p].dup = prod[p].dup /\ prod'[p].req = prod[p].req
    BY <1>8, <1>9, <1>11
  <2>2. Item(p, j)'.lane \in Lanes(p, j)'
    BY DEF Lanes
  <2>3. QED BY ONLY <1>22, <2>1, <2>2, j \in Items_(p)' \ prod'[p].dup DEF Named
<1>24. ClaimsLatest'
  <2>1. \A q \in Producers : prod'[q].claims \subseteq prod[q].claims
    BY <1>8, <1>9
  <2>2. ASSUME NEW c \in claims, c.expires > clock
        PROVE  keys'[c.key].now = keys[c.key].now /\ keys'[c.key].was = keys[c.key].was
    <3>1. c.key \in IdemKeys /\ c.job # 0 /\ c.expires \in Nat /\ Latest(c)
      BY <1>1, Assumed DEF Tables, Claimed, Times, Ids, EnqueueInv, ClaimsLatest
    <3>2. keys[c.key].now.job = c.job
      BY <1>1, <2>2, <3>1 DEF Latest
    <3>3. QED BY <1>6, <3>1, <3>2
  <2>3. ClaimsLatest /\ clock <= clock'
    BY <1>1 DEF EnqueueInv
  <2>4. QED BY ONLY <1>1, <1>13, <2>1, <2>2, <2>3, ClaimsStay
<1>25. OneJobPerClaim'
  BY <1>1 DEF EnqueueInv, OneJobPerClaim
<1>26. QED
  <2>1. ProducerInv(p)'
    BY <1>15, <1>16, <1>17, <1>19, <1>23 DEF ProducerInv
  <2>2. QED BY <1>13, <1>14, <1>24, <1>25, <2>1 DEF EnqueueInv

---------------------------------------------------------------------------
(* The answer of a call *)

(* Items without a job key have a row each. *)
LEMMA UnkeyedNamed ==
  ASSUME Tables, NEW p \in Producers, Calling(p), Busy(p), NamesHeld(p), Todo(p) = {},
         NEW i \in Items_(p), i \notin prod[p].dup, Item(p, i).jobKey = None
  PROVE  Named(p, i) /\ prod[p].ids[i] \in Ids
<1>1. prod[p].ids[i] \in IdOrNone /\ prod[p].ids[i] # None
  BY BusyShape DEF Todo
<1>2. prod[p].ids[i] # 0 /\ ~Joins(prod[p].req, i)
  BY DEF NamesHeld, Joins, Item
<1>3. Named(p, i)
  BY <1>1, <1>2 DEF NamesHeld
<1>4. prod[p].ids[i] \in Ids
  BY <1>1, <1>2, Assumed DEF IdOrNone, Ids
<1>5. QED BY <1>3, <1>4

RowsAlike(p, i) == {prod[p].ids[j] : j \in Alike(p, i)}

(* The id that is matched to an unkeyed item is that of an item of the     *)
(* same content, which has its rank among the ids.                         *)
LEMMA MatchedByRank ==
  ASSUME Tables, NEW p \in Producers, Calling(p), Busy(p), NamesHeld(p), Todo(p) = {},
         prod[p].dup = {}, NEW i \in Items_(p), Item(p, i).jobKey = None
  PROVE  \E j \in Alike(p, i) :
           /\ Matched(p, i) = prod[p].ids[j]
           /\ Rank(RowsAlike(p, i), prod[p].ids[j]) = Rank(Alike(p, i), i)
<1> DEFINE S == Alike(p, i)
           T == RowsAlike(p, i)
<1>1. PICK n \in Nat : Items_(p) = 1..n
  BY BusyShape
<1>2. DOMAIN prod[p].ids = Items_(p)
  BY BusyShape
<1>3. S \in SUBSET Items_(p) /\ i \in S /\ \A j \in S : Item(p, j).jobKey = None
  BY <1>2 DEF Alike
<1>4. IsFiniteSet(S) /\ S \subseteq Nat
  <2>1. IsFiniteSet(1..n)
    BY FS_Interval
  <2>2. QED BY <1>1, <1>3, <2>1, FS_Subset
<1>5. \A j \in S : Named(p, j) /\ prod[p].ids[j] \in Ids
  BY <1>3, UnkeyedNamed
<1>6. \A j, l \in S : prod[p].ids[j] = prod[p].ids[l] => j = l
  BY <1>3, <1>5 DEF Named
<1>7. IsFiniteSet(T) /\ Cardinality(T) = Cardinality(S) /\ T \subseteq Nat
  <2>1. PICK f : f = [j \in S |-> prod[p].ids[j]]
    OBVIOUS
  <2>2. f \in [S -> T]
    BY <2>1 DEF RowsAlike
  <2>3. \A t \in T : \E j \in S : f[j] = t
    BY <2>1 DEF RowsAlike
  <2>4. \A j, l \in S : f[j] = f[l] => j = l
    BY <1>6, <2>1
  <2>5. f \in Bijection(S, T)
    BY <2>2, <2>3, <2>4 DEF Bijection, Injection, Surjection, IsInjective
  <2>6. ExistsBijection(S, T)
    BY <2>5 DEF ExistsBijection
  <2>7. IsFiniteSet(T) /\ Cardinality(T) = Cardinality(S)
    BY <1>4, <2>6, FS_Bijection
  <2>8. T \subseteq Nat
    BY <1>5 DEF RowsAlike, Ids
  <2>9. QED BY <2>7, <2>8
<1>8. \E t \in T : Rank(T, t) = Rank(S, i)
  BY <1>3, <1>4, <1>7, RankFinds
<1>9. Matched(p, i) = CHOOSE id \in T : Rank(T, id) = Rank(S, i)
  BY DEF Matched, RowsAlike
<1>10. Matched(p, i) \in T /\ Rank(T, Matched(p, i)) = Rank(S, i)
  BY <1>8, <1>9
<1>11. PICK j \in S : Matched(p, i) = prod[p].ids[j]
  BY <1>10 DEF RowsAlike
<1>12. QED BY <1>10, <1>11

Told(p, i) == {Item(p, i).lane} \cup {Item(p, j).lane : j \in Mistakable(p, i)}

(* The rows of the answer are those of the items, each of one item. *)
LEMMA MatchedNames ==
  ASSUME Tables, NEW p \in Producers, Calling(p), Busy(p), NamesHeld(p), Todo(p) = {},
         prod[p].phase = "open", prod[p].dup = {}, ~Idempotent(prod[p].req),
         NEW i \in Items_(p)
  PROVE  /\ Matched(p, i) \in IdOrNone \ {None}
         /\ Matched(p, i) = 0 => Item(p, i).jobKey # None
         /\ Matched(p, i) # 0 /\ ~Joins(prod[p].req, i) =>
              /\ jobs[Matched(p, i)].by = p /\ jobs[Matched(p, i)].now.state = "queued"
              /\ jobs[Matched(p, i)].now.content = Item(p, i).content
              /\ jobs[Matched(p, i)].now.maxAttempts = Filled(Item(p, i))
              /\ jobs[Matched(p, i)].now.lane \in Told(p, i)
              /\ jobs[Matched(p, i)].now.key = Item(p, i).jobKey
              /\ \A j \in Items_(p) : Matched(p, j) = Matched(p, i) => j = i
<1>1. \A j \in Items_(p) : prod[p].ids[j] \in IdOrNone \ {None}
  BY BusyShape DEF Todo
<1>2. \A j \in Items_(p) : Item(p, j).jobKey # None => Matched(p, j) = prod[p].ids[j]
  BY DEF Matched
<1>3. \A j \in Items_(p) : Item(p, j).jobKey = None => Named(p, j) /\ prod[p].ids[j] \in Ids
  BY UnkeyedNamed
<1>4. DOMAIN prod[p].ids = Items_(p)
  BY BusyShape
<1>5. CASE Item(p, i).jobKey # None
  <2>1. Matched(p, i) = prod[p].ids[i]
    BY <1>2, <1>5
  <2> SUFFICES ASSUME prod[p].ids[i] # 0, ~Joins(prod[p].req, i)
               PROVE  /\ Named(p, i)
                      /\ \A j \in Items_(p) : Matched(p, j) = Matched(p, i) => j = i
    <3>1. Named(p, i) => jobs[prod[p].ids[i]].now.lane \in Told(p, i)
      BY DEF Named, Lanes, Told
    <3>2. QED BY <1>1, <1>5, <2>1, <3>1 DEF Named
  <2>2. Named(p, i)
    BY <1>1 DEF NamesHeld
  <2>3. ASSUME NEW j \in Items_(p), Matched(p, j) = Matched(p, i) PROVE j = i
    <3>1. PICK l \in Items_(p) : Matched(p, j) = prod[p].ids[l]
                              /\ (Item(p, j).jobKey # None => l = j)
                              /\ (Item(p, j).jobKey = None => Item(p, l).jobKey = None)
      <4>1. CASE Item(p, j).jobKey # None
        BY <1>2, <4>1
      <4>2. CASE Item(p, j).jobKey = None
        <5>1. PICK l \in Alike(p, j) : Matched(p, j) = prod[p].ids[l]
          BY <4>2, MatchedByRank
        <5>2. l \in Items_(p) /\ Item(p, l).jobKey = None
          BY <1>4, <5>1 DEF Alike
        <5>3. QED BY <4>2, <5>1, <5>2
      <4>3. QED BY <4>1, <4>2
    <3>2. l = i
      BY <2>1, <2>2, <2>3, <3>1 DEF Named
    <3>3. QED BY <1>5, <3>1, <3>2
  <2>4. QED BY <2>2, <2>3
<1>6. CASE Item(p, i).jobKey = None
  <2>1. PICK l \in Alike(p, i) :
          /\ Matched(p, i) = prod[p].ids[l]
          /\ Rank(RowsAlike(p, i), prod[p].ids[l]) = Rank(Alike(p, i), i)
    BY <1>6, MatchedByRank
  <2>2. /\ l \in Items_(p) /\ Item(p, l).jobKey = None
        /\ Content(Item(p, l)) = Content(Item(p, i))
    BY <1>4 DEF Alike
  <2>3. Named(p, l) /\ prod[p].ids[l] \in Ids
    BY <1>3, <2>2
  <2>4. Item(p, l).content = Item(p, i).content /\ Filled(Item(p, l)) = Filled(Item(p, i))
    BY <2>2 DEF Content
  <2>5. Item(p, l).lane \in Told(p, i)
    <3>1. CASE Given(Item(p, l)) # Given(Item(p, i))
      <4>1. l \in Mistakable(p, i)
        BY <1>6, <2>1, <3>1 DEF Mistakable
      <4>2. QED BY <4>1 DEF Told
    <3>2. CASE Given(Item(p, l)) = Given(Item(p, i)) /\ prod[p].req.many
      <4>1. Distinguishable(prod[p].req.items)
        BY <3>2 DEF Calling, Accepted
      <4>2. Item(p, l).lane = Item(p, i).lane
        BY <1>6, <2>2, <3>2, <4>1 DEF Distinguishable, Item, Items_
      <4>3. QED BY <4>2 DEF Told
    <3>3. CASE ~prod[p].req.many
      <4>1. l = i
        BY <2>2, <3>3, OneItem
      <4>2. QED BY <4>1 DEF Told
    <3>4. QED BY <3>1, <3>2, <3>3
  <2>6. ASSUME NEW j \in Items_(p), Matched(p, j) = Matched(p, i) PROVE j = i
    <3>1. CASE Item(p, j).jobKey # None
      <4>1. prod[p].ids[j] = prod[p].ids[l]
        BY <1>2, <2>1, <2>6, <3>1
      <4>2. j = l
        BY <2>3, <4>1 DEF Named
      <4>3. QED BY <2>2, <3>1, <4>2
    <3>2. CASE Item(p, j).jobKey = None
      <4>1. PICK m \in Alike(p, j) :
              /\ Matched(p, j) = prod[p].ids[m]
              /\ Rank(RowsAlike(p, j), prod[p].ids[m]) = Rank(Alike(p, j), j)
        BY <3>2, MatchedByRank
      <4>2. m \in Items_(p) /\ Content(Item(p, m)) = Content(Item(p, j))
        BY <1>4 DEF Alike
      <4>3. m = l
        BY <2>1, <2>3, <2>6, <4>1, <4>2 DEF Named
      <4>4. Content(Item(p, j)) = Content(Item(p, i))
        BY <2>2, <4>2, <4>3
      <4>5. Alike(p, j) = Alike(p, i)
        BY <4>4 DEF Alike
      <4>6. Rank(Alike(p, i), j) = Rank(Alike(p, i), i)
        BY <2>1, <4>1, <4>3, <4>5 DEF RowsAlike
      <4>7. i \in Alike(p, i) /\ j \in Alike(p, i)
        BY <1>4, <1>6, <3>2, <4>4 DEF Alike
      <4>8. IsFiniteSet(Alike(p, i)) /\ Alike(p, i) \subseteq Nat
        <5>1. PICK n \in Nat : Items_(p) = 1..n
          BY BusyShape
        <5>2. IsFiniteSet(1..n) /\ Alike(p, i) \in SUBSET (1..n)
          BY <1>4, <5>1, FS_Interval DEF Alike
        <5>3. QED BY <5>2, FS_Subset
      <4>9. QED BY <4>6, <4>7, <4>8, RankTells
    <3>3. QED BY <3>1, <3>2
  <2>7. /\ jobs[Matched(p, i)].by = p /\ jobs[Matched(p, i)].now.state = "queued"
        /\ jobs[Matched(p, i)].now.content = Item(p, i).content
        /\ jobs[Matched(p, i)].now.maxAttempts = Filled(Item(p, i))
        /\ jobs[Matched(p, i)].now.lane \in Told(p, i)
        /\ jobs[Matched(p, i)].now.key = Item(p, i).jobKey
    <3>1. jobs[prod[p].ids[l]].now.lane = Item(p, l).lane
      BY ONLY <2>3, prod[p].phase = "open" DEF Named, Lanes
    <3>2. QED BY <1>6, <2>1, <2>2, <2>3, <2>4, <2>5, <3>1 DEF Named
  <2>8. Matched(p, i) \in IdOrNone \ {None} /\ Matched(p, i) # 0
    BY <1>1, <2>1, <2>2, <2>3 DEF Ids
  <2>9. QED BY <2>6, <2>7, <2>8
<1>7. QED BY <1>5, <1>6

LEMMA AnswerHolds ==
  ASSUME EnqueueInv, NEW p \in Producers, Answer(p)
  PROVE  EnqueueInv'
<1>1. /\ Tables /\ ProducerInv(p) /\ Calling(p) /\ Busy(p) /\ NamesHeld(p) /\ Todo(p) = {}
      /\ clock \in Nat /\ UNCHANGED <<requests, clock, keys, jobs, claims>>
  BY Assumed DEF EnqueueInv, ProducerInv, Busy, Answer, Tables
<1>2. ~prod[p].claimed /\ prod[p].phase = "open"
  BY <1>1 DEF ProducerInv, NextClaimed, Answer
<1>3. PICK ids : ids = IF Idempotent(prod[p].req) THEN prod[p].ids
                       ELSE [i \in DOMAIN prod[p].ids |-> Matched(p, i)]
  OBVIOUS
<1>4. PICK s : s = [prod[p] EXCEPT !.phase = "answered", !.ids = ids]
  OBVIOUS
<1>5. prod'[p] = s /\ DOMAIN prod' = Producers /\ \A q \in Producers \ {p} : prod'[q] = prod[q]
  <2>1. DOMAIN prod = Producers
    BY <1>1 DEF Tables
  <2>2. prod' = [prod EXCEPT ![p] = s]
    BY <1>3, <1>4, <2>1 DEF Answer
  <2>3. QED BY ONLY <2>1, <2>2, p \in Producers
<1>6. /\ s \in [phase : Phases, req : Calls \cup {None}, now : 0..MaxClock, claimed : BOOLEAN,
                ids : {s.ids}, dup : {s.dup}, claims : {s.claims}]
      /\ s.phase = "answered" /\ s.req = prod[p].req /\ s.now = prod[p].now
      /\ s.claimed = prod[p].claimed /\ s.claims = prod[p].claims
      /\ s.ids = ids /\ s.dup = prod[p].dup
  BY <1>1, <1>4 DEF Calling, Phases
<1>7. ~Idempotent(prod[p].req) => prod[p].dup = {} /\ prod[p].claims = {}
  BY <1>1 DEF Calling
<1>8. DOMAIN prod[p].ids = Items_(p) /\ \A i \in Items_(p) : prod[p].ids[i] \in IdOrNone \ {None}
  BY <1>1, BusyShape DEF Todo
<1>9. /\ ids \in [Items_(p) -> IdOrNone] /\ \A i \in Items_(p) : ids[i] # None
      /\ prod[p].dup # {} \/ prod[p].claims # {} => ids = prod[p].ids
  <2>1. CASE Idempotent(prod[p].req)
    <3>1. ids = prod[p].ids
      BY <1>3, <2>1
    <3>2. prod[p].ids \in [Items_(p) -> IdOrNone]
      BY <1>1 DEF Calling
    <3>3. QED BY <1>8, <3>1, <3>2
  <2>2. CASE ~Idempotent(prod[p].req)
    <3>1. ids = [i \in Items_(p) |-> Matched(p, i)]
      BY <1>3, <1>8, <2>2
    <3>2. \A i \in Items_(p) : Matched(p, i) \in IdOrNone \ {None}
      BY <1>1, <1>2, <1>7, <2>2, MatchedNames
    <3>3. QED BY <1>7, <2>2, <3>1, <3>2
  <2>3. QED BY <2>1, <2>2
<1>10. ASSUME NEW i \in Items_(p) \ prod[p].dup
       PROVE  /\ ids[i] = 0 => Item(p, i).jobKey # None
              /\ ids[i] \notin {None, 0} /\ ~Joins(prod[p].req, i) =>
                   /\ jobs[ids[i]].by = p /\ jobs[ids[i]].now.state = "queued"
                   /\ jobs[ids[i]].now.content = Item(p, i).content
                   /\ jobs[ids[i]].now.maxAttempts = Filled(Item(p, i))
                   /\ jobs[ids[i]].now.lane \in Told(p, i)
                   /\ jobs[ids[i]].now.key = Item(p, i).jobKey
                   /\ \A j \in Items_(p) \ prod[p].dup : ids[j] = ids[i] => j = i
  <2>1. CASE Idempotent(prod[p].req)
    <3>1. ids = prod[p].ids
      BY <1>3, <2>1
    <3>2. Lanes(p, i) \subseteq Told(p, i)
      BY DEF Lanes, Told
    <3>3. QED BY <1>1, <3>1, <3>2 DEF NamesHeld, Named
  <2>2. CASE ~Idempotent(prod[p].req)
    <3>1. \A j \in Items_(p) : ids[j] = Matched(p, j)
      BY <1>3, <1>8, <2>2
    <3>2. prod[p].dup = {} /\ ids[i] = Matched(p, i)
      BY <1>7, <2>2, <3>1
    <3>3. /\ Matched(p, i) = 0 => Item(p, i).jobKey # None
          /\ Matched(p, i) # 0 /\ ~Joins(prod[p].req, i) =>
               /\ jobs[Matched(p, i)].by = p /\ jobs[Matched(p, i)].now.state = "queued"
               /\ jobs[Matched(p, i)].now.content = Item(p, i).content
               /\ jobs[Matched(p, i)].now.maxAttempts = Filled(Item(p, i))
               /\ jobs[Matched(p, i)].now.lane \in Told(p, i)
               /\ jobs[Matched(p, i)].now.key = Item(p, i).jobKey
               /\ \A j \in Items_(p) : Matched(p, j) = Matched(p, i) => j = i
      BY <1>1, <1>2, <2>2, <3>2, MatchedNames
    <3>4. QED BY ONLY <3>1, <3>2, <3>3
  <2>3. QED BY <2>1, <2>2
<1>11. /\ Items_(p)' = Items_(p) /\ (\A i : Item(p, i)' = Item(p, i)) /\ Busy(p)'
       /\ Todo(p)' = {}
  <2>1. prod'[p].req = prod[p].req /\ prod'[p].phase = "answered" /\ prod'[p].ids = ids
    BY <1>5, <1>6
  <2>2. {i \in DOMAIN ids : ids[i] = None} = {}
    BY <1>9
  <2>3. QED BY ONLY <2>1, <2>2 DEF Items_, Item, Busy, Todo
<1>12. Tables'
  BY ONLY <1>1, <1>5 DEF Tables
<1>13. ASSUME NEW q \in Producers \ {p} PROVE ProducerInv(q)'
  <2>1. ProducerInv(q) /\ clock <= clock' /\ prod'[q] = prod[q]
    BY <1>1, <1>5 DEF EnqueueInv
  <2>2. QED BY ONLY <1>1, <1>12, <2>1, OthersHold, q \in Producers
<1>14. Calling(p)'
  <2>1. /\ prod[p].req \in requests /\ Accepted(prod[p].req) /\ prod[p].now <= clock
        /\ prod[p].dup \subseteq Items_(p) /\ prod[p].claims \subseteq Claimed(Items_(p))
    BY <1>1 DEF Calling
  <2>2. /\ s.req \in requests' /\ Accepted(s.req) /\ s.now <= clock'
        /\ s.ids \in [Items_(p)' -> IdOrNone]
        /\ s.dup \subseteq Items_(p)' /\ s.claims \subseteq Claimed(Items_(p)')
        /\ ~Idempotent(s.req) => ~s.claimed /\ s.dup = {} /\ s.claims = {}
    BY ONLY <1>1, <1>2, <1>6, <1>7, <1>9, <1>11, <2>1
  <2>3. QED BY ONLY <1>5, <1>6, <1>11, <2>2 DEF Calling
<1>15. NextClaimed(p)'
  <2>1. ~prod'[p].claimed
    BY <1>2, <1>5, <1>6
  <2>2. QED BY ONLY <2>1 DEF NextClaimed
<1>16. DuplicatesHeld(p)'
  <2> SUFFICES ASSUME NEW i \in prod'[p].dup
               PROVE  /\ prod'[p].ids[i] \notin {None, 0} /\ Item(p, i)'.idem # None
                      /\ keys'[Item(p, i)'.idem].by = p
                      /\ keys'[Item(p, i)'.idem].now.job = prod'[p].ids[i]
                      /\ keys'[Item(p, i)'.idem].now.expires > prod'[p].now
    BY DEF DuplicatesHeld
  <2>1. /\ i \in prod[p].dup /\ Item(p, i)' = Item(p, i) /\ prod'[p].ids = prod[p].ids
        /\ prod'[p].now = prod[p].now /\ keys' = keys
    BY <1>1, <1>5, <1>6, <1>9, <1>11
  <2>2. DuplicatesHeld(p)
    BY <1>1 DEF ProducerInv
  <2>3. QED BY ONLY <2>1, <2>2 DEF DuplicatesHeld
<1>17. ClaimsHeld(p)'
  <2> SUFFICES ASSUME NEW x \in prod'[p].claims PROVE Holding(p, x)'
    BY DEF ClaimsHeld
  <2>1. /\ x \in prod[p].claims /\ prod'[p].ids = prod[p].ids /\ prod'[p].now = prod[p].now
        /\ keys' = keys /\ clock' = clock
    BY <1>1, <1>5, <1>6, <1>9
  <2>2. Holding(p, x) /\ x.job \in Items_(p)
    BY <1>1, <2>1 DEF ProducerInv, ClaimsHeld, Calling, Claimed
  <2>3. prod[p].ids[x.job] # None
    BY <1>8, <2>2
  <2>4. QED BY ONLY <2>1, <2>2, <2>3 DEF Holding
<1>18. NamesHeld(p)'
  <2> SUFFICES ASSUME NEW i \in Items_(p)' \ prod'[p].dup
               PROVE  /\ prod'[p].ids[i] = 0 => Item(p, i)'.jobKey # None
                      /\ prod'[p].ids[i] \notin {None, 0} /\ ~Joins(prod'[p].req, i) =>
                           Named(p, i)'
    BY DEF NamesHeld
  <2>1. /\ Items_(p)' = Items_(p) /\ Item(p, i)' = Item(p, i) /\ prod'[p].ids = ids
        /\ prod'[p].dup = prod[p].dup /\ prod'[p].req = prod[p].req /\ jobs' = jobs
    BY <1>1, <1>5, <1>6, <1>11
  <2>2. Lanes(p, i)' = Told(p, i)
    <3>1. prod'[p].phase = "answered" /\ DOMAIN prod'[p].ids = DOMAIN prod[p].ids
      BY <1>5, <1>6, <1>8, <1>9
    <3>2. Alike(p, i)' = Alike(p, i)
      BY ONLY <1>11, <3>1 DEF Alike
    <3>3. Mistakable(p, i)' = Mistakable(p, i)
      BY ONLY <1>11, <2>1, <3>2 DEF Mistakable
    <3>4. QED BY ONLY <1>11, <3>1, <3>3 DEF Lanes, Told
  <2>3. QED BY ONLY <1>10, <2>1, <2>2, i \in Items_(p)' \ prod'[p].dup DEF Named
<1>19. ClaimsLatest'
  <2>1. \A q \in Producers : prod'[q].claims \subseteq prod[q].claims
    BY <1>5, <1>6
  <2>2. ClaimsLatest /\ clock <= clock'
    BY <1>1 DEF EnqueueInv
  <2>3. QED BY ONLY <1>1, <1>12, <2>1, <2>2, ClaimsStay
<1>20. OneJobPerClaim'
  BY <1>1 DEF EnqueueInv, OneJobPerClaim
<1>21. QED
  <2>1. ProducerInv(p)'
    BY <1>14, <1>15, <1>16, <1>17, <1>18 DEF ProducerInv
  <2>2. QED BY <1>12, <1>13, <1>19, <1>20, <2>1 DEF EnqueueInv

---------------------------------------------------------------------------
(* Every state of a behaviour *)

LEMMA InitHolds == Init => EnqueueInv
<1> SUFFICES ASSUME Init PROVE EnqueueInv
  OBVIOUS
<1>1. Row(NoKey) \in Held(KeyRec) /\ Row(NoKey).now = NoKey /\ Row(NoKey).was = NoKey
  <2>1. NoKey \in KeyRec
    BY Assumed DEF NoKey, KeyRec, Times
  <2>2. QED BY <2>1, RowFields
<1>2. Row(NoJob) \in Held(JobRec)
  <2>1. NoJob \in JobRec
    BY DEF NoJob, JobRec
  <2>2. QED BY <2>1, RowFields
<1>3. Tables
  <2>1. requests \subseteq Calls /\ \A req \in requests : req.many \/ Len(req.items) = 1
    BY EnqueueAssumption DEF EnqueueAssumption, Init
  <2>2. clock \in 0..MaxClock /\ clock = 0
    BY Assumed DEF Init
  <2>3. keys \in [IdemKeys -> Held(KeyRec)]
    BY <1>1 DEF Init
  <2>4. \A k \in IdemKeys : keys[k].now.expires <= clock + Ttl /\ keys[k].was.expires <= clock + Ttl
    BY <1>1, <2>2, Assumed DEF Init, NoKey
  <2>5. jobs \in [Ids -> Held(JobRec)]
    BY <1>2 DEF Init
  <2>6. claims \subseteq Claimed(Ids) /\ DOMAIN prod = Producers
    BY DEF Init
  <2>7. QED BY <2>1, <2>2, <2>3, <2>4, <2>5, <2>6 DEF Tables
<1>4. ASSUME NEW p \in Producers PROVE ProducerInv(p)
  <2>1. prod[p] = Idle
    BY DEF Init
  <2>2. /\ prod[p].phase = "idle" /\ prod[p].claimed = FALSE /\ prod[p].dup = {}
        /\ prod[p].claims = {}
    BY <2>1 DEF Idle
  <2>3. Idle \in [phase : Phases, req : Calls \cup {None}, now : 0..MaxClock,
                  claimed : BOOLEAN, ids : {Idle.ids}, dup : {Idle.dup},
                  claims : {Idle.claims}]
    BY Assumed DEF Idle, Phases
  <2>4. Calling(p)
    BY <2>1, <2>2, <2>3 DEF Calling, Busy
  <2>5. QED
    BY <2>2, <2>4 DEF ProducerInv, NextClaimed, DuplicatesHeld, ClaimsHeld, NamesHeld, Busy
<1>5. ClaimsLatest /\ OneJobPerClaim
  BY DEF Init, ClaimsLatest, OneJobPerClaim
<1>6. QED BY <1>3, <1>4, <1>5 DEF EnqueueInv

LEMMA NextHolds == EnqueueInv /\ [Next]_vars => EnqueueInv'
<1> SUFFICES ASSUME EnqueueInv, [Next]_vars PROVE EnqueueInv'
  OBVIOUS
<1>1. CASE TimePasses
  BY <1>1, TimePassesHolds
<1>2. CASE Prune
  BY <1>2, PruneHolds
<1>3. CASE \E j \in Ids : Fetch(j) \/ Retry(j) \/ End(j)
  BY <1>3, WorkerHolds
<1>4. ASSUME NEW p \in Producers, NEW req \in requests, Begin(p, req) PROVE EnqueueInv'
  BY <1>4, BeginHolds
<1>5. ASSUME NEW p \in Producers,
             Claim(p) \/ Add(p) \/ Answer(p) \/ Commit(p) \/ Rollback(p)
      PROVE  EnqueueInv'
  BY <1>5, ClaimHolds, AddHolds, AnswerHolds, CommitHolds, RollbackHolds
<1>6. CASE UNCHANGED vars
  <2>1. UNCHANGED <<requests, clock, keys, jobs, prod, claims>>
    BY <1>6 DEF vars
  <2>2. Tables'
    BY <2>1 DEF EnqueueInv, Tables
  <2>3. ASSUME NEW p \in Producers PROVE ProducerInv(p)'
    <3>1. Tables /\ ProducerInv(p) /\ clock <= clock'
      BY <2>1, Assumed DEF EnqueueInv, Tables
    <3>2. QED BY ONLY <2>1, <2>2, <3>1, OthersHold, p \in Producers
  <2>4. ClaimsLatest' /\ OneJobPerClaim'
    BY <2>1 DEF EnqueueInv, ClaimsLatest, Latest, OneJobPerClaim
  <2>5. QED BY <2>2, <2>3, <2>4 DEF EnqueueInv
<1>7. QED BY <1>1, <1>2, <1>3, <1>4, <1>5, <1>6 DEF Next

LEMMA InvariantHolds == Spec => []EnqueueInv
BY InitHolds, NextHolds, PTL DEF Spec

---------------------------------------------------------------------------
(* Theorems *)

(* TypeOK: whatever producers, workers, the sweep and time do, the tables  *)
(* and the calls keep their types, and no key expires later than a TTL     *)
(* from now.                                                               *)
THEOREM TypesHold == Spec => []TypeOK
<1>1. EnqueueInv => TypeOK
  <2> SUFFICES ASSUME EnqueueInv PROVE TypeOK
    OBVIOUS
  <2>1. Tables
    BY DEF EnqueueInv
  <2>2. ASSUME NEW k \in IdemKeys
        PROVE  /\ {keys[k].now, keys[k].was} \subseteq [job : 0..MaxJobs, expires : Times]
               /\ keys[k].by \in Producers \cup {None} /\ keys[k].now.expires <= clock + Ttl
    <3>1. keys[k] \in Held(KeyRec)
      BY <2>1 DEF Tables
    <3>2. keys[k].now \in KeyRec /\ keys[k].was \in KeyRec /\ keys[k].by \in By
      BY <3>1, HeldFields
    <3>3. QED BY <2>1, <3>2 DEF Tables, KeyRec, By
  <2>3. ASSUME NEW j \in Ids
        PROVE  /\ {jobs[j].now.state, jobs[j].was.state} \subseteq
                    {"none", "queued", "locked", "last", "gone"}
               /\ jobs[j].by \in Producers \cup {None}
    <3>1. jobs[j] \in Held(JobRec)
      BY <2>1 DEF Tables
    <3>2. jobs[j].now \in JobRec /\ jobs[j].was \in JobRec /\ jobs[j].by \in By
      BY <3>1, HeldFields
    <3>3. QED BY <3>2 DEF JobRec, By
  <2>4. ASSUME NEW p \in Producers
        PROVE  /\ prod[p].phase \in {"idle", "open", "answered"}
               /\ \A i \in DOMAIN prod[p].ids : prod[p].ids[i] \in (0..MaxJobs) \cup {None}
    <3>1. Calling(p)
      BY DEF EnqueueInv, ProducerInv
    <3>2. prod[p].phase \in Phases
      BY <3>1 DEF Calling
    <3>3. CASE Busy(p)
      BY <2>1, <3>1, <3>2, <3>3, BusyShape DEF IdOrNone, Phases
    <3>4. CASE ~Busy(p)
      <4>1. prod[p] = Idle
        BY <3>1, <3>4 DEF Calling
      <4>2. DOMAIN prod[p].ids = {}
        BY <4>1 DEF Idle
      <4>3. QED BY <3>2, <4>2 DEF Phases
    <3>5. QED BY <3>3, <3>4
  <2>5. QED BY <2>1, <2>2, <2>3, <2>4 DEF TypeOK, Tables
<1>2. QED BY <1>1, InvariantHolds, PTL

(* OneJobPerClaim: a claim that is committed stays the row of its key      *)
(* until it has expired, so no later claim of the key is made before.      *)
THEOREM KeysClaimOneJob == Spec => []OneJobPerClaim
BY InvariantHolds, PTL DEF EnqueueInv

(* RepliesNameTheirJobs: the rows of a call stay locked until it ends, and *)
(* matching ids to items by their rank is one to one; only items that spell  *)
(* a default out and leave it out may be told each other's lanes.          *)
THEOREM RepliesAreTheirs == Spec => []RepliesNameTheirJobs
<1>1. EnqueueInv => RepliesNameTheirJobs
  <2> SUFFICES ASSUME EnqueueInv, NEW p \in Producers, prod[p].phase = "answered",
                      NEW i \in DOMAIN prod[p].ids
               PROVE  IF i \in prod[p].dup THEN keys[Item(p, i).idem].now.job = prod[p].ids[i]
                      ELSE prod[p].ids[i] # 0 /\ ModeOf(prod[p].req, i) # "unsafe_dedupe" =>
                        /\ jobs[prod[p].ids[i]].now.content = Item(p, i).content
                        /\ jobs[prod[p].ids[i]].now.maxAttempts = Filled(Item(p, i))
                        /\ jobs[prod[p].ids[i]].now.lane \in
                             {Item(p, i).lane} \cup {Item(p, j).lane : j \in Mistakable(p, i)}
                        /\ jobs[prod[p].ids[i]].now.key = Item(p, i).jobKey
                        /\ \A j \in DOMAIN prod[p].ids \ prod[p].dup :
                             prod[p].ids[j] = prod[p].ids[i] => j = i
    BY DEF RepliesNameTheirJobs
  <2>1. Tables /\ ProducerInv(p) /\ Calling(p) /\ Busy(p) /\ NamesHeld(p) /\ Todo(p) = {}
    BY DEF EnqueueInv, ProducerInv, Calling, Busy
  <2>2. DOMAIN prod[p].ids = Items_(p) /\ prod[p].ids[i] # None
    BY <2>1, BusyShape DEF Todo
  <2>3. CASE i \in prod[p].dup
    BY <2>1, <2>3 DEF ProducerInv, DuplicatesHeld
  <2>4. CASE i \notin prod[p].dup /\ prod[p].ids[i] # 0
             /\ ModeOf(prod[p].req, i) # "unsafe_dedupe"
    <3>1. ~Joins(prod[p].req, i)
      BY <2>4 DEF Joins, ItemMode
    <3>2. Named(p, i)
      BY <2>1, <2>2, <2>4, <3>1 DEF NamesHeld
    <3>3. Lanes(p, i) = {Item(p, i).lane} \cup {Item(p, j).lane : j \in Mistakable(p, i)}
      BY DEF Lanes
    <3>4. QED BY <2>2, <2>4, <3>2, <3>3 DEF Named
  <2>5. QED BY <2>3, <2>4
<1>2. QED BY <1>1, InvariantHolds, PTL

(* What a queued job's run_at may not do in a step. *)
RunAtStays(p, j) ==
  /\ prod[p].phase = "open" /\ prod'[p].phase = "open"
  /\ prod[p].ids # prod'[p].ids
  /\ \A i \in Keyed(prod[p].req) : ModeOf(prod[p].req, i) = "preserve_run_at"
  /\ jobs[j].now.state = "queued" /\ ~jobs[j].now.tried /\ jobs'[j].now.state = "queued"
  => jobs'[j].now.runAt = jobs[j].now.runAt

(* Whatever statement the call becomes, its keyed items are added with     *)
(* preserve_run_at.                                                        *)
LEMMA PreservingItems ==
  ASSUME Tables, NEW p \in Producers, Calling(p), Busy(p), NEW i \in Items_(p),
         Item(p, i).jobKey # None,
         \A j \in Keyed(prod[p].req) : ModeOf(prod[p].req, j) = "preserve_run_at"
  PROVE  ItemMode(prod[p].req, i) = "preserve_run_at"
<1>1. i \in Keyed(prod[p].req)
  BY DEF Keyed, Items_, Item
<1>2. BatchModes(prod[p].req) = {"preserve_run_at"}
  BY <1>1 DEF BatchModes
<1>3. QED BY <1>1, <1>2 DEF ItemMode, PreserveRunAt

LEMMA AddKeepsRunAt ==
  ASSUME EnqueueInv, NEW p \in Producers, Add(p), NEW j \in Ids,
         \A i \in Keyed(prod[p].req) : ModeOf(prod[p].req, i) = "preserve_run_at",
         jobs[j].now.state = "queued", ~jobs[j].now.tried, jobs'[j].now.state = "queued"
  PROVE  jobs'[j].now.runAt = jobs[j].now.runAt
<1>1. Tables /\ Calling(p) /\ Busy(p) /\ Todo(p) # {}
  BY DEF EnqueueInv, ProducerInv, Busy, Add
<1>2. PICK i \in Ready(p), id \in 0..MaxJobs : Adds(p, Item(p, i), ItemMode(prod[p].req, i), id)
  BY DEF Add
<1>3. i \in Items_(p) /\ Item(p, i) \in Items
  <2>1. i \in Items_(p)
    BY <1>1, <1>2, NextItem DEF Ready
  <2>2. QED BY <1>1, <2>1, BusyShape
<1>4. PICK item \in Items : item = Item(p, i)
  BY <1>3
<1>5. PICK mode : mode = ItemMode(prod[p].req, i)
  OBVIOUS
<1>6. item.jobKey # None => mode = "preserve_run_at"
  BY <1>1, <1>3, <1>4, <1>5, PreservingItems
<1>7. /\ jobs \in [Ids -> Held(JobRec)] /\ jobs[j] \in Held(JobRec) /\ jobs[j].now \in JobRec
  BY <1>1, HeldFields DEF Tables
<1>8. \/ id # 0 /\ Unused(id) /\ jobs' = [jobs EXCEPT ![id] = Written(p, @, Added(item))]
      \/ \E l \in Ids :
           /\ item.jobKey # None
           /\ \/ jobs' = [jobs EXCEPT ![l] = Written(p, @, @.now)]
              \/ jobs' = [jobs EXCEPT ![l] = Written(p, @, Replaced(@.now, item, mode))]
              \/ jobs' = [jobs EXCEPT ![l] = Row(Fetched(@.now))]
              \/ /\ jobs[l].now.state = "locked" /\ id # 0 /\ Unused(id)
                 /\ jobs' = [jobs EXCEPT
                      ![l]  = Written(p, @, [@.now EXCEPT !.key = None, !.state = "last"]),
                      ![id] = Written(p, @, Added(item))]
  BY <1>2, <1>4, <1>5 DEF Adds, RowsOf
<1>9. Unused(id) => id # j
  BY DEF Unused
<1>10. CASE id # 0 /\ Unused(id) /\ jobs' = [jobs EXCEPT ![id] = Written(p, @, Added(item))]
  BY <1>7, <1>9, <1>10
<1>11. ASSUME NEW l \in Ids, jobs' = [jobs EXCEPT ![l] = Written(p, @, @.now)]
       PROVE  jobs'[j].now.runAt = jobs[j].now.runAt
  <2>1. Written(p, jobs[j], jobs[j].now).now = jobs[j].now
    BY <1>7, WrittenFields
  <2>2. QED BY <1>7, <1>11, <2>1
<1>12. ASSUME NEW l \in Ids, item.jobKey # None,
              jobs' = [jobs EXCEPT ![l] = Written(p, @, Replaced(@.now, item, mode))]
       PROVE  jobs'[j].now.runAt = jobs[j].now.runAt
  <2>1. PICK r : r = Replaced(jobs[j].now, item, mode)
    OBVIOUS
  <2>2. r.runAt = jobs[j].now.runAt
    BY <1>6, <1>12, <2>1 DEF Replaced, Added
  <2>3. PICK w : w = Written(p, jobs[j], r)
    OBVIOUS
  <2>4. w.now = r
    BY <1>7, <2>3 DEF Written, Held
  <2>5. CASE l = j
    <3>1. jobs' = [jobs EXCEPT ![j] = w]
      BY <1>12, <2>1, <2>3, <2>5
    <3>2. jobs'[j] = w
      BY <1>7, <3>1
    <3>3. QED BY <2>2, <2>4, <3>2
  <2>6. CASE l # j
    BY <1>7, <1>12, <2>6
  <2>7. QED BY <2>5, <2>6
<1>13. ASSUME NEW l \in Ids, jobs' = [jobs EXCEPT ![l] = Row(Fetched(@.now))]
       PROVE  jobs'[j].now.runAt = jobs[j].now.runAt
  <2>1. CASE l = j
    <3>1. Row(Fetched(jobs[j].now)).now.state = "locked"
      BY <1>7 DEF Row, Fetched, JobRec
    <3>2. jobs'[j] = Row(Fetched(jobs[j].now))
      BY <1>7, <1>13, <2>1
    <3>3. QED BY <3>1, <3>2
  <2>2. CASE l # j
    BY <1>7, <1>13, <2>2
  <2>3. QED BY <2>1, <2>2
<1>14. ASSUME NEW l \in Ids, jobs[l].now.state = "locked", id # 0, Unused(id),
              jobs' = [jobs EXCEPT
                ![l]  = Written(p, @, [@.now EXCEPT !.key = None, !.state = "last"]),
                ![id] = Written(p, @, Added(item))]
       PROVE  jobs'[j].now.runAt = jobs[j].now.runAt
  <2>1. j # l /\ j # id
    BY <1>9, <1>14
  <2>2. jobs'[j] = jobs[j]
    BY <1>7, <1>14, <2>1
  <2>3. QED BY <2>2
<1>15. QED BY <1>8, <1>10, <1>11, <1>12, <1>13, <1>14

LEMMA RunAtStep ==
  ASSUME EnqueueInv, Next, NEW p \in Producers, NEW j \in Ids
  PROVE  RunAtStays(p, j)
<1> SUFFICES ASSUME prod[p].phase = "open", prod'[p].phase = "open", prod[p].ids # prod'[p].ids,
                    \A i \in Keyed(prod[p].req) : ModeOf(prod[p].req, i) = "preserve_run_at",
                    jobs[j].now.state = "queued", ~jobs[j].now.tried,
                    jobs'[j].now.state = "queued"
             PROVE  jobs'[j].now.runAt = jobs[j].now.runAt
  BY DEF RunAtStays
<1>1. DOMAIN prod = Producers
  BY DEF EnqueueInv, Tables
<1>2. CASE TimePasses \/ Prune \/ \E l \in Ids : Fetch(l) \/ Retry(l) \/ End(l)
  BY <1>2 DEF TimePasses, Prune, Fetch, Retry, End, JobBecomes
<1>3. ASSUME NEW q \in Producers, NEW req \in requests, Begin(q, req)
      PROVE  jobs'[j].now.runAt = jobs[j].now.runAt
  BY <1>3 DEF Begin
<1>4. ASSUME NEW q \in Producers, Claim(q) \/ Answer(q)
      PROVE  jobs'[j].now.runAt = jobs[j].now.runAt
  BY <1>4 DEF Claim, Answer
<1>5. ASSUME NEW q \in Producers, Commit(q) \/ Rollback(q)
      PROVE  FALSE
  <2>1. prod' = [prod EXCEPT ![q] = Idle]
    BY <1>5 DEF Commit, Rollback, Ends
  <2>2. QED BY <1>1, <2>1 DEF Idle
<1>6. ASSUME NEW q \in Producers, Add(q)
      PROVE  jobs'[j].now.runAt = jobs[j].now.runAt
  <2>1. q = p
    <3>1. \A x \in Producers \ {q} : prod'[x] = prod[x]
      BY <1>1, <1>6 DEF Add
    <3>2. QED BY <3>1
  <2>2. QED BY <1>6, <2>1, AddKeepsRunAt
<1>7. QED BY <1>2, <1>3, <1>4, <1>5, <1>6 DEF Next

(* RunAtPreserved: of the statements of a call, only the replacement of a  *)
(* row writes its run_at, and preserve_run_at keeps that of an untried one.*)
THEOREM RunAtIsPreserved == Spec => RunAtPreserved
<1>1. EnqueueInv /\ [Next]_vars =>
        [\A p \in Producers, j \in Ids :
           LET before == jobs[j].now
               after  == jobs'[j].now IN
           /\ prod[p].phase = "open" /\ prod'[p].phase = "open"
           /\ prod[p].ids # prod'[p].ids
           /\ \A i \in Keyed(prod[p].req) : ModeOf(prod[p].req, i) = "preserve_run_at"
           /\ before.state = "queued" /\ ~before.tried /\ after.state = "queued"
           => after.runAt = before.runAt]_vars
  BY RunAtStep DEF RunAtStays
<1>2. QED BY <1>1, InvariantHolds, PTL DEF Spec, RunAtPreserved
=============================================================================
