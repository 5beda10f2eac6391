---------------------------- MODULE MCWorkerPool ----------------------------
(* Small instances of WorkerPool. *)
EXTENDS WorkerPool

CONSTANTS primary, other
=============================================================================
