----------------------------- MODULE MCEnqueue -----------------------------
(* Small instances of Enqueue. *)
EXTENDS Enqueue, TLC

CONSTANTS p, q, a, b, jk

Plain(content, lane) == [idem |-> None, jobKey |-> None, mode |-> None,
                         content |-> content, maxAttempts |-> None, lane |-> lane, runAt |-> 1]
Once(key, content) == [Plain(content, 1) EXCEPT !.idem = key]
Spelled(item) == [item EXCEPT !.maxAttempts = 25]  \* the default, given
KeyedAt(item, at)  == [item EXCEPT !.jobKey = jk, !.runAt = at]
Preserving(item)   == [item EXCEPT !.mode = "preserve_run_at"]

One(item)   == [items |-> <<item>>, many |-> FALSE, tx |-> FALSE, mode |-> None]
InTx(req)   == [req EXCEPT !.tx = TRUE]
Many(items) == [items |-> items, many |-> TRUE, tx |-> FALSE, mode |-> None]

Idempotent_ == {One(Once(a, 1)), InTx(Many(<<Once(a, 1), Once(b, 2)>>)),
                Many(<<Once(b, 2), Once(a, 1)>>)}
Batches == {Many(<<Plain(1, 1), Plain(2, 2), Plain(1, 1)>>),
            Many(<<Plain(1, 1), Plain(1, 2)>>),
            Many(<<Plain(1, 1), Spelled(Plain(1, 2))>>)}
Replacing == {One(KeyedAt(Plain(1, 1), 1)), InTx(One(KeyedAt(Plain(2, 1), 2))),
              Many(<<Preserving(KeyedAt(Plain(3, 1), 3)), Plain(2, 2)>>),
              [One(KeyedAt(Plain(4, 1), 1)) EXCEPT !.mode = "unsafe_dedupe"]}
Both      == {One(KeyedAt(Plain(1, 1), 1)),
              Many(<<Preserving(KeyedAt(Once(a, 2), 2)), Plain(2, 2)>>)}
Asked == {Idempotent_, Batches, Replacing, Both}
ProducerSymmetry == Permutations(Producers)
=============================================================================
