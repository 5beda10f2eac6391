------------------------------ MODULE Enqueue ------------------------------
(***************************************************************************)
(* Producers enqueue jobs: create-job.ts resolves what a call asks for,    *)
(* enqueue-sql.ts runs it as add_job, as one add_jobs whose rows come in   *)
(* any order, or, with idempotency keys, item by item in bgw_add_jobs, and *)
(* the call returns or joins the application's transaction (prisma.ts).    *)
(* Rows written by an open transaction are locked; now() is its beginning. *)
(***************************************************************************)
EXTENDS Naturals, Sequences, FiniteSets

CONSTANTS
  Producers,  \* connections that enqueue
  None,       \* no key, no mode, no producer
  IdemKeys,   \* idempotency keys, of one queue
  JobKeys,    \* job keys
  Workloads,  \* sets of calls, one of which the producers make
  TxMode,     \* the transactionalJobKeyMode option
  Ttl,        \* the TTL of an idempotency key
  MaxClock,   \* bound: how far time runs
  MaxJobs     \* bound: rows of _private_jobs

Modes == {"replace", "preserve_run_at", "unsafe_dedupe"}

(* An item of a call, with the options derived from it, and a call.        *)
(* maxAttempts stands for every option that may be left out (None).        *)
Items == [idem : IdemKeys \cup {None}, jobKey : JobKeys \cup {None},
          mode : Modes \cup {None}, content : Nat, maxAttempts : Nat \cup {None},
          lane : Nat, runAt : Nat]
Calls == [items : Seq(Items), many : BOOLEAN, tx : BOOLEAN, mode : Modes \cup {None}]

ASSUME EnqueueAssumption ==
  /\ None \notin Producers \cup IdemKeys \cup JobKeys \cup Modes \cup Nat
  /\ \A w \in Workloads : w \subseteq Calls
  /\ \A w \in Workloads : \A req \in w : req.many \/ Len(req.items) = 1
  /\ TxMode \in Modes \cup {None}
  /\ Ttl \in Nat \ {0} /\ MaxClock \in Nat /\ MaxJobs \in Nat

VARIABLES
  requests, \* the calls that producers make
  clock,   \* PostgreSQL's time
  keys,    \* bgw_idempotency_keys: each row as written, as committed, and its locker
  jobs,    \* _private_jobs, likewise
  prod,    \* the call and the transaction of each producer
  claims   \* history: the committed claims of idempotency keys

vars == <<requests, clock, keys, jobs, prod, claims>>

Ids   == 1..MaxJobs
Times == 0..(MaxClock + Ttl)

NoKey == [job |-> 0, expires |-> 0]   \* expires is 0: no row
NoJob == [state |-> "none", key |-> None, content |-> 0, maxAttempts |-> 0, lane |-> 0,
          runAt |-> 0, tried |-> FALSE]
Idle  == [phase |-> "idle", req |-> None, now |-> 0, claimed |-> FALSE,
          ids |-> <<>>, dup |-> {}, claims |-> {}]

Row(r)       == [now |-> r, was |-> r, by |-> None]
Written(p, row, r) == [row EXCEPT !.now = r, !.by = p]
Open(p, row) == row.by \in {None, p}

---------------------------------------------------------------------------
(* create-job.ts: what a call resolves to. *)

Keyed(req) == {i \in DOMAIN req.items : req.items[i].jobKey # None}

(* The mode an item was given: by the call, derived from the item, or the  *)
(* default of transactions.                                                *)
ModeOf(req, i) ==
  LET m == req.items[i].mode IN
  CASE req.mode # None -> req.mode
    [] req.mode = None /\ m # None -> m
    [] req.mode = None /\ m = None /\ req.tx /\ ~req.many /\ TxMode # None -> TxMode
    [] OTHER -> "replace"

BatchModes(req) == {ModeOf(req, i) : i \in Keyed(req)}
PreserveRunAt(req) == BatchModes(req) = {"preserve_run_at"}
Idempotent(req) == \E i \in DOMAIN req.items : req.items[i].idem # None

(* The options of an item as its call gave them, and as SQL fills them in: *)
(* 25 given and left out are two of the former and one of the latter.      *)
Filled(item)  == IF item.maxAttempts = None THEN 25 ELSE item.maxAttempts
Given(item)   == <<item.content, item.maxAttempts, item.runAt>>
Content(item) == <<item.content, Filled(item), item.runAt>>

(* Variant: specs that differ only by their lane are not told apart. *)
Distinguishable_Never(items) == TRUE

(* assertDistinguishable: unkeyed specs given alike agree on their lane. *)
Distinguishable(items) ==
  \A i, j \in DOMAIN items :
    /\ items[i].jobKey = None /\ items[j].jobKey = None
    /\ Given(items[i]) = Given(items[j])
    => items[i].lane = items[j].lane

(* createJobs: one mode that add_jobs knows for all keyed items, each key once. *)
Accepted(req) ==
  req.many =>
    /\ req.mode = None
    /\ BatchModes(req) \in {{}, {"replace"}, {"preserve_run_at"}}
    /\ \A i, j \in Keyed(req) : req.items[i].jobKey = req.items[j].jobKey => i = j
    /\ Idempotent(req) \/ Distinguishable(req.items)

(* Variant: the idempotent path forgets the batch's mode. *)
ItemMode_Lost(req, i) == IF req.many THEN "replace" ELSE ModeOf(req, i)

(* withBatchKeyMode: the mode an item is added with. *)
ItemMode(req, i) ==
  IF req.many THEN IF PreserveRunAt(req) THEN "preserve_run_at" ELSE "replace"
  ELSE ModeOf(req, i)

---------------------------------------------------------------------------
Init ==
  /\ requests \in Workloads
  /\ clock = 0
  /\ keys = [k \in IdemKeys |-> Row(NoKey)]
  /\ jobs = [j \in Ids |-> Row(NoJob)]
  /\ prod = [p \in Producers |-> Idle]
  /\ claims = {}

(* Only idempotency keys depend on time. *)
TimePasses ==
  /\ clock < MaxClock /\ \E req \in requests : Idempotent(req)
  /\ clock' = clock + 1
  /\ UNCHANGED <<requests, keys, jobs, prod, claims>>

---------------------------------------------------------------------------
(* Graphile's workers.  Jobs without a job key are not run here: no call   *)
(* reads them again.                                                       *)

JobBecomes(j, r) ==
  /\ jobs' = [jobs EXCEPT ![j] = Row(r)]
  /\ UNCHANGED <<requests, clock, keys, prod, claims>>

Fetched(r) == [r EXCEPT !.state = "locked"]

Fetch(j) ==
  /\ jobs[j].by = None /\ jobs[j].now.state = "queued" /\ jobs[j].now.key # None
  /\ JobBecomes(j, Fetched(jobs[j].now))

Retry(j) ==
  /\ jobs[j].by = None /\ jobs[j].now.state = "locked"
  /\ JobBecomes(j, [jobs[j].now EXCEPT !.state = "queued", !.tried = TRUE])

End(j) ==
  /\ jobs[j].by = None /\ jobs[j].now.state \in {"locked", "last"}
  /\ JobBecomes(j, [NoJob EXCEPT !.state = "gone"])

---------------------------------------------------------------------------
(* Graphile's add_job, and one row of add_jobs *)

(* The row of a job key, as p may see it once it need not wait.            *)
RowsOf(k)  == {j \in Ids : k \in {jobs[j].now.key, jobs[j].was.key} /\ k # None}
(* Ids come from a sequence: the next one.                                 *)
Unused(id) == jobs[id].now.state = "none" /\ \A j \in 1..id-1 : jobs[j].now.state # "none"
Added(item) == [state |-> "queued", key |-> item.jobKey, content |-> item.content,
                maxAttempts |-> Filled(item), lane |-> item.lane, runAt |-> item.runAt,
                tried |-> FALSE]

(* A job not yet tried keeps its run_at if the mode says so. *)
Replaced(row, item, mode) ==
  [Added(item) EXCEPT !.runAt = IF mode = "preserve_run_at" /\ ~row.tried
                                THEN row.runAt ELSE @]

(* p adds an item and gets id: a new row, the row of its key, or, when     *)
(* that is fetched halfway through, none (0).  A running job loses its key *)
(* and its retries to the new row.                                         *)
Adds(p, item, mode, id) ==
  LET held == {j \in RowsOf(item.jobKey) : jobs[j].now.key = item.jobKey} IN
  /\ \A j \in RowsOf(item.jobKey) : Open(p, jobs[j])
  /\ \/ /\ held = {} /\ id # 0 /\ Unused(id)
        /\ jobs' = [jobs EXCEPT ![id] = Written(p, @, Added(item))]
     \/ \E j \in held :
        /\ mode = "unsafe_dedupe" /\ id = j
        /\ jobs' = [jobs EXCEPT ![j] = Written(p, @, @.now)]
     \/ \E j \in held :
        /\ mode # "unsafe_dedupe" /\ jobs[j].now.state = "queued"
        /\ \/ id = j /\ jobs' = [jobs EXCEPT ![j] = Written(p, @, Replaced(@.now, item, mode))]
           \/ id = 0 /\ jobs[j].by = None /\ jobs' = [jobs EXCEPT ![j] = Row(Fetched(@.now))]
     \/ \E j \in held :
        /\ mode # "unsafe_dedupe" /\ jobs[j].now.state = "locked" /\ id # 0 /\ Unused(id)
        /\ jobs' = [jobs EXCEPT
             ![j]  = Written(p, @, [@.now EXCEPT !.key = None, !.state = "last"]),
             ![id] = Written(p, @, Added(item))]

---------------------------------------------------------------------------
(* A call's statement *)

Item(p, i) == prod[p].req.items[i]
Todo(p)    == {i \in DOMAIN prod[p].ids : prod[p].ids[i] = None}
First(p)   == CHOOSE i \in Todo(p) : \A j \in Todo(p) : i <= j

Begin(p, req) ==
  /\ prod[p].phase = "idle" /\ Accepted(req)
  /\ prod' = [prod EXCEPT ![p] = [Idle EXCEPT !.phase = "open", !.req = req,
       !.now = clock, !.ids = [i \in DOMAIN req.items |-> None]]]
  /\ UNCHANGED <<requests, clock, keys, jobs, claims>>

(* Variant: a claim does not wait for the one that is not committed yet. *)
Waited_Never(p, k) == TRUE

(* INSERT ... ON CONFLICT waits for another claim of the key. *)
Waited(p, k) == Open(p, keys[k])

Unexpired(k, t) == keys[k].now.expires > t

(* Variant: a claim adds its TTL to what the key had. *)
Reclaimed_Added(k, t) == [job |-> 0, expires |-> keys[k].now.expires + t + Ttl]

(* An unexpired key without a job keeps its expiry; an expired one starts over. *)
Reclaimed(k, t) ==
  [job |-> 0, expires |-> IF Unexpired(k, t) THEN keys[k].now.expires ELSE t + Ttl]

(* bgw_add_jobs, the next item: its key still holds a job, which is the    *)
(* answer, or is claimed for the job that is added next.                   *)
Claim(p) ==
  LET k == Item(p, First(p)).idem
      t == prod[p].now IN
  /\ prod[p].phase = "open" /\ Todo(p) # {} /\ ~prod[p].claimed
  /\ k # None /\ Waited(p, k)
  /\ \/ /\ Unexpired(k, t) /\ keys[k].now.job # 0
        /\ keys' = [keys EXCEPT ![k] = Written(p, @, @.now)]
        /\ prod' = [prod EXCEPT ![p].ids[First(p)] = keys[k].now.job, ![p].dup = @ \cup {First(p)}]
     \/ /\ ~(Unexpired(k, t) /\ keys[k].now.job # 0)
        /\ keys' = [keys EXCEPT ![k] = Written(p, @, Reclaimed(k, t))]
        /\ prod' = [prod EXCEPT ![p].claimed = TRUE,
             ![p].claims = @ \cup {[key |-> k, job |-> First(p), at |-> clock,
                                    expires |-> Reclaimed(k, t).expires]}]
  /\ UNCHANGED <<requests, clock, jobs, claims>>

(* bgw_add_jobs adds its items in order, add_jobs in any. *)
Ready(p) == IF Idempotent(prod[p].req) THEN {First(p)} ELSE Todo(p)

Add(p) ==
  /\ prod[p].phase = "open" /\ Todo(p) # {}
  /\ \E i \in Ready(p), id \in 0..MaxJobs :
     /\ prod[p].claimed <=> Item(p, i).idem # None
     /\ Adds(p, Item(p, i), ItemMode(prod[p].req, i), id)
     /\ prod' = [prod EXCEPT ![p].ids[i] = id, ![p].claimed = FALSE]
     /\ keys' = IF prod[p].claimed THEN [keys EXCEPT ![Item(p, i).idem].now.job = id] ELSE keys
  /\ UNCHANGED <<requests, clock, claims>>

(* Rows are told by their job key, the others by content, the nth of them  *)
(* by id for the nth item of that content.                                 *)
Rank(S, i) == Cardinality({j \in S : j <= i})
Alike(p, i) == {j \in DOMAIN prod[p].ids :
                  Item(p, j).jobKey = None /\ Content(Item(p, j)) = Content(Item(p, i))}
Matched(p, i) ==
  IF Item(p, i).jobKey # None THEN prod[p].ids[i]
  ELSE LET rows == {prod[p].ids[j] : j \in Alike(p, i)}
       IN CHOOSE id \in rows : Rank(rows, id) = Rank(Alike(p, i), i)

Answer(p) ==
  /\ prod[p].phase = "open" /\ Todo(p) = {}
  /\ prod' = [prod EXCEPT ![p].phase = "answered",
       ![p].ids = IF Idempotent(prod[p].req) THEN @ ELSE [i \in DOMAIN @ |-> Matched(p, i)]]
  /\ UNCHANGED <<requests, clock, keys, jobs, claims>>

(* EnqueueCountError: in a transaction, an id is missing; outside, a row,  *)
(* and bgw_add_jobs returns one for every item.                            *)
Missing(p)       == 0 \in {prod[p].ids[i] : i \in DOMAIN prod[p].ids}
TxCounted(p)     == ~Missing(p)
ClientCounted(p) == Missing(p) => Idempotent(prod[p].req)
Counted(p)       == IF prod[p].req.tx THEN TxCounted(p) ELSE ClientCounted(p)

Ends(p, Final(_)) ==
  /\ keys' = [k \in IdemKeys |-> IF keys[k].by = p THEN Row(Final(keys[k])) ELSE keys[k]]
  /\ jobs' = [j \in Ids |-> IF jobs[j].by = p THEN Row(Final(jobs[j])) ELSE jobs[j]]
  /\ prod' = [prod EXCEPT ![p] = Idle]
  /\ UNCHANGED <<requests, clock>>

(* COMMIT, whether its reply arrives or is lost. *)
Commit(p) ==
  /\ prod[p].phase = "answered" /\ Counted(p)
  /\ Ends(p, LAMBDA row : row.now)
  /\ claims' = claims \cup {[c EXCEPT !.job = prod[p].ids[c.job]] : c \in
                             {x \in prod[p].claims : prod[p].ids[x.job] # 0}}

(* The call fails or is aborted by PostgreSQL, or its application rolls back. *)
Rollback(p) ==
  /\ prod[p].phase # "idle"
  /\ Ends(p, LAMBDA row : row.was)
  /\ UNCHANGED claims

Prunable(k) == keys[k].now.expires <= clock

(* pruneIdempotencyKeys, skipping locked rows. *)
Prune ==
  /\ \E k \in IdemKeys : keys[k].by = None /\ Prunable(k) /\ keys[k].now # NoKey
  /\ keys' = [k \in IdemKeys |->
       IF keys[k].by = None /\ Prunable(k) THEN Row(NoKey) ELSE keys[k]]
  /\ UNCHANGED <<requests, clock, jobs, prod, claims>>

Next ==
  \/ TimePasses \/ Prune
  \/ \E j \in Ids : Fetch(j) \/ Retry(j) \/ End(j)
  \/ \E p \in Producers :
       \/ \E req \in requests : Begin(p, req)
       \/ Claim(p) \/ Add(p) \/ Answer(p) \/ Commit(p) \/ Rollback(p)

Spec == Init /\ [][Next]_vars

---------------------------------------------------------------------------
TypeOK ==
  /\ clock \in 0..MaxClock
  /\ \A k \in IdemKeys :
       /\ {keys[k].now, keys[k].was} \subseteq [job : 0..MaxJobs, expires : Times]
       /\ keys[k].by \in Producers \cup {None} /\ keys[k].now.expires <= clock + Ttl
  /\ \A j \in Ids :
       /\ {jobs[j].now.state, jobs[j].was.state} \subseteq
            {"none", "queued", "locked", "last", "gone"}
       /\ jobs[j].by \in Producers \cup {None}
  /\ \A p \in Producers :
       /\ prod[p].phase \in {"idle", "open", "answered"}
       /\ \A i \in DOMAIN prod[p].ids : prod[p].ids[i] \in (0..MaxJobs) \cup {None}

(* One job per claim of an idempotency key: of two jobs that calls with    *)
(* one key created, the later was claimed when the earlier's TTL, counted  *)
(* from the beginning of its transaction, had passed - however producers   *)
(* overlap, roll back, retry after a lost reply, and the sweep prunes.     *)
OneJobPerClaim ==
  \A c, d \in claims :
    c.key = d.key /\ c.job # d.job => c.at >= d.expires \/ d.at >= c.expires

(* The unkeyed items of one add_jobs call that its SQL takes for item i    *)
(* although assertDistinguishable told them apart: a default is filled in. *)
Mistakable(p, i) ==
  {j \in Alike(p, i) : /\ Item(p, i).jobKey = None /\ ~Idempotent(prod[p].req)
                       /\ Given(Item(p, j)) # Given(Item(p, i))}

(* Every id a call answers names a job of its own item, in the order of    *)
(* the items, whatever order Graphile adds and returns rows in, and no job *)
(* twice; an id that deduplicated names the job its key is recorded for.   *)
(* Except for the lane (task and queue) of unkeyed items of one addJobs    *)
(* that spell a default out and leave it out: enqueue-sql.ts:221-227       *)
(* compares options as given, 78-81 matches them filled in, so such items  *)
(* may be answered with each other's jobs - but with nobody else's.        *)
RepliesNameTheirJobs ==
  \A p \in Producers : prod[p].phase = "answered" =>
    \A i \in DOMAIN prod[p].ids :
      LET item == Item(p, i)
          id   == prod[p].ids[i] IN
      IF i \in prod[p].dup THEN keys[item.idem].now.job = id
      ELSE id # 0 /\ ModeOf(prod[p].req, i) # "unsafe_dedupe" =>
             /\ jobs[id].now.content = item.content
             /\ jobs[id].now.maxAttempts = Filled(item)
             /\ jobs[id].now.lane \in {item.lane} \cup {Item(p, j).lane : j \in Mistakable(p, i)}
             /\ jobs[id].now.key = item.jobKey
             /\ \A j \in DOMAIN prod[p].ids \ prod[p].dup : prod[p].ids[j] = id => j = i

(* A call whose keyed items ask to preserve run_at moves the run_at of no    *)
(* job that waits for its first attempt, whichever statement it becomes.   *)
RunAtPreserved ==
  [][\A p \in Producers, j \in Ids :
       LET before == jobs[j].now
           after  == jobs'[j].now IN
       /\ prod[p].phase = "open" /\ prod'[p].phase = "open"
       /\ prod[p].ids # prod'[p].ids
       /\ \A i \in Keyed(prod[p].req) : ModeOf(prod[p].req, i) = "preserve_run_at"
       /\ before.state = "queued" /\ ~before.tried /\ after.state = "queued"
       => after.runAt = before.runAt]_vars
=============================================================================
