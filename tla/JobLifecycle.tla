---------------------------- MODULE JobLifecycle ----------------------------
(***************************************************************************)
(* What the job handlers promise to a client that polls a job: it sees the *)
(* job start (each start is a new attempt), fail and start again, and      *)
(* finish once, for good.  Tasks, leases, clocks, messages and crashes are *)
(* not visible here.                                                       *)
(*                                                                         *)
(* A job finishes with the result of one of its attempts: in Spec it is    *)
(* the latest attempt, which the fenced handler of architectures A and B   *)
(* implements; in WeakSpec any attempt, which is what is left in C and BC, *)
(* where the downstream handler writes the status without fencing.         *)
(***************************************************************************)
EXTENDS Naturals

CONSTANT Jobs

VARIABLES
    status,    \* what GET /jobs/{job_id} reports
    attempt,   \* how often the job was started
    result     \* the attempt whose result is reported, 0 for none

lvars == <<status, attempt, result>>

LInit ==
    /\ status = [j \in Jobs |-> "PENDING"]
    /\ attempt = [j \in Jobs |-> 0]
    /\ result = [j \in Jobs |-> 0]

Start(j) ==
    /\ status[j] # "SUCCESS"
    /\ status' = [status EXCEPT ![j] = "PROCESSING"]
    /\ attempt' = [attempt EXCEPT ![j] = @ + 1]
    /\ UNCHANGED result

Fail(j) ==
    /\ status[j] = "PROCESSING"
    /\ status' = [status EXCEPT ![j] = "FAILED"]
    /\ UNCHANGED <<attempt, result>>

Finish(j, a) ==
    /\ status[j] = "PROCESSING"
    /\ status' = [status EXCEPT ![j] = "SUCCESS"]
    /\ result' = [result EXCEPT ![j] = a]
    /\ UNCHANGED attempt

LNext == \E j \in Jobs : Start(j) \/ Fail(j) \/ Finish(j, attempt[j])

WeakNext ==
    \E j \in Jobs : \/ Start(j) \/ Fail(j)
                    \/ \E a \in 1..attempt[j] : Finish(j, a)

Spec == LInit /\ [][LNext]_lvars

WeakSpec == LInit /\ [][WeakNext]_lvars
=============================================================================
