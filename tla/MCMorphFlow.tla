---------------------------- MODULE MCMorphFlow ----------------------------
(* A switch between architectures under way: an inference worker of mode C *)
(* and a unified worker of mode A read the request topic, a downstream     *)
(* worker the downstream topic.  One job.                                  *)
EXTENDS MorphFlow, TLC

CONSTANTS j1, t1, t2, w1, w2, d1

MCOwnerOf == (t1 :> w1) @@ (t2 :> w2)
MCRoleOf == (t1 :> "inference") @@ (t2 :> "unified") @@ (d1 :> "downstream")
MCModeOf == (t1 :> "C") @@ (t2 :> "A") @@ (d1 :> "C")
MCBackoff == (1 :> 1) @@ (2 :> 2)

\* The instances meet what the theorem on OneTroubleIsSurvived asks for: the
\* roles read their topics, and the backoffs add up to more than a lease of 2.
MCSums == 0 :> 0 @@ 1 :> 1 @@ 2 :> 3
ASSUME InstanceAssumption == RolesRead /\ Sums(MCSums) /\ MCSums[RetryMax] > 2
=============================================================================
