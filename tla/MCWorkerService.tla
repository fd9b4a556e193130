-------------------------- MODULE MCWorkerService --------------------------
(* Two coroutines of one process and one of another, on one job.           *)
EXTENDS WorkerService, TLC

CONSTANTS j1, t1, t2, t3, w1, w2

MCOwnerOf == (t1 :> w1) @@ (t2 :> w1) @@ (t3 :> w2)

MCSymmetry == Permutations({t1, t2})
=============================================================================
