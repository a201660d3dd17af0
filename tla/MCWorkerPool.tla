---------------------------- MODULE MCWorkerPool ----------------------------
(* WorkerPool with two workers, two callers and three tasks: two workers can   *)
(* race for one task, two notifications can be in flight at once, and a task   *)
(* can be queued while both workers are busy.                                  *)
EXTENDS WorkerPool
=============================================================================
