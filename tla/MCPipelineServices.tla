------------------------- MODULE MCPipelineServices -------------------------
(* Request coroutines of two processes, one of which may run the unified   *)
(* service, two downstream coroutines, one job.                            *)
EXTENDS PipelineServices, TLC

CONSTANTS j1, t1, t2, t3, w1, w2, d1, d2

MCTwoOwners == (t1 :> w1) @@ (t2 :> w2)
MCThreeTasks == (t1 :> w1) @@ (t2 :> w2) @@ (t3 :> w2)
MCOneOwner == (t1 :> w1)

MCSymmetry == Permutations(DTasks)
=============================================================================
