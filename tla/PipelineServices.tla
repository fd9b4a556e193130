-------------------------- MODULE PipelineServices --------------------------
(***************************************************************************)
(* The two-stage pipeline of architectures C and BC (app/application/      *)
(* pipeline_services.py): InferencePipelineService claims a job, runs the  *)
(* inference and, in one transaction, logs it and inserts the downstream   *)
(* message into the outbox; DownstreamPipelineService handles that message *)
(* and writes the job's final status, without lease and without fencing.   *)
(*                                                                         *)
(* As in WorkerService, tasks are coroutines, deliveries may be repeated,  *)
(* late or reordered, a transaction may fail or commit without its caller  *)
(* learning of it, and a process may stop anywhere.  The downstream topic  *)
(* is the set of messages ever inserted: the outbox publishes each at      *)
(* least once and the runner redelivers and retries it.                    *)
(* The event log is kept as a count per event type.                        *)
(*                                                                         *)
(* Architectures are switched while messages are under way, and every mode *)
(* reads the same request topic in the same group (roles.py), so both      *)
(* kinds of handler may meet on one row: the tasks in Unified run          *)
(* WorkerService (module WorkerService), the others the inference service. *)
(***************************************************************************)
EXTENDS JobStore

CONSTANTS
    Jobs,
    Tasks,           \* coroutines that handle requests
    Unified,         \* those of them that run WorkerService
    DTasks,          \* coroutines of downstream workers
    OwnerOf,         \* the process a task of Tasks runs in
    LeaseSeconds,
    MaxEpoch,        \* bound: claims per job
    MaxClock,        \* bound: real time
    MaxDeliveries,   \* bound: downstream deliveries
    MaxFaults        \* bound: crashes and database errors

ASSUME OwnerAssumption == OwnerOf \in [Tasks -> Workers]
ASSUME UnifiedAssumption == Unified \subseteq Tasks
ASSUME LeaseAssumption == LeaseSeconds \in Nat \ {0}
ASSUME BoundAssumption ==
    /\ MaxEpoch \in Nat /\ MaxClock \in Nat
    /\ MaxDeliveries \in Nat /\ MaxFaults \in Nat

VARIABLES
    clock,
    row,             \* the jobs table
    events,          \* job_events: how many of each type
    outbox,          \* downstream messages: the attempts that produced them
    pc, job, lease, ret, claimedAt,   \* request tasks, as in WorkerService
    lost,            \* history: attempts whose task is gone without a result
    dpc, djob, dattempt, dret,        \* downstream tasks: control, message
    deliveries,      \* downstream deliveries so far
    faults           \* crashes and database errors so far

iVars == <<pc, job, lease, ret, claimedAt>>
dVars == <<dpc, djob, dattempt, dret, deliveries>>
vars == <<clock, row, events, outbox, iVars, lost, dVars, faults>>

STARTED == "PROCESSING_STARTED"
INFERRED == "INFERENCE_COMPLETED"
COMPLETED == "DOWNSTREAM_COMPLETED"
PROCESSED == "PROCESSING_COMPLETED"
EventType == {STARTED, INFERRED, COMPLETED, PROCESSED, FAILED}

Holding(t) == pc[t] \in {"working", "failing"}

Init ==
    /\ clock = 0
    /\ row = [j \in Jobs |-> NewRow]
    /\ events = [j \in Jobs |-> [e \in EventType |-> 0]]
    /\ outbox = [j \in Jobs |-> {}]
    /\ pc = [t \in Tasks |-> "idle"]
    /\ job \in [Tasks -> Jobs]
    /\ lease = [t \in Tasks |-> NULL]
    /\ ret = [t \in Tasks |-> "none"]
    /\ claimedAt = [t \in Tasks |-> 0]
    /\ lost = [j \in Jobs |-> {}]
    /\ dpc = [d \in DTasks |-> "idle"]
    /\ djob \in [DTasks -> Jobs]
    /\ dattempt = [d \in DTasks |-> NULL]
    /\ dret = [d \in DTasks |-> "none"]
    /\ deliveries = 0
    /\ faults = 0

Fault == faults < MaxFaults /\ faults' = faults + 1

Add(j, e) == events' = [events EXCEPT ![j][e] = @ + 1]

Return_(t, r) ==
    /\ pc' = [pc EXCEPT ![t] = "idle"]
    /\ ret' = [ret EXCEPT ![t] = r]
    /\ claimedAt' = [claimedAt EXCEPT ![t] = 0]

DReturn(d, r) ==
    /\ dpc' = [dpc EXCEPT ![d] = "idle"]
    /\ dret' = [dret EXCEPT ![d] = r]

-----------------------------------------------------------------------------
(* The claim, the same in both services.                                   *)

\* The caller's clock is taken to be exact: WorkerService has the same claim
\* with skewed readings, here they would only move the moment of a takeover.
ClaimCommitted(t, j) ==
    /\ pc[t] = "idle"
    /\ row[j].epoch < MaxEpoch
    /\ Claimable(row[j], clock)
    /\ row' = [row EXCEPT ![j] = Claimed(@, OwnerOf[t], clock, LeaseSeconds)]
    /\ Add(j, STARTED)
    /\ job' = [job EXCEPT ![t] = j]

Claim(t, j) ==
    /\ ClaimCommitted(t, j)
    /\ pc' = [pc EXCEPT ![t] = "working"]
    /\ lease' = [lease EXCEPT ![t] = row[j].epoch + 1]
    /\ ret' = [ret EXCEPT ![t] = "none"]
    /\ claimedAt' = [claimedAt EXCEPT ![t] = clock]
    /\ UNCHANGED <<clock, outbox, lost, dVars, faults>>

ClaimReplyLost(t, j) ==
    /\ ClaimCommitted(t, j)
    /\ Return_(t, "raised")
    /\ lease' = [lease EXCEPT ![t] = NULL]
    /\ lost' = [lost EXCEPT ![j] = @ \cup {row[j].epoch + 1}]
    /\ Fault
    /\ UNCHANGED <<clock, outbox, dVars>>

\* The claim, or the read after it, raises without effect.
ClaimError(t, j) ==
    /\ pc[t] \in {"idle", "refused"}
    /\ pc[t] = "refused" => job[t] = j
    /\ Return_(t, "raised")
    /\ job' = [job EXCEPT ![t] = j]
    /\ lease' = [lease EXCEPT ![t] = NULL]
    /\ Fault
    /\ UNCHANGED <<clock, row, events, outbox, lost, dVars>>

\* lease is None: roll back; the job is read again in a new transaction.
ClaimRefused(t, j) ==
    /\ pc[t] = "idle"
    /\ ~Claimable(row[j], clock)
    /\ pc' = [pc EXCEPT ![t] = "refused"]
    /\ job' = [job EXCEPT ![t] = j]
    /\ lease' = [lease EXCEPT ![t] = NULL]
    /\ ret' = [ret EXCEPT ![t] = "none"]
    /\ UNCHANGED <<clock, row, events, outbox, claimedAt, lost, dVars, faults>>

\* Wrong variant: any refused delivery is taken for a finished job.
Wrong_AckRefused(t) ==
    /\ pc[t] = "refused"
    /\ Return_(t, "ack")
    /\ UNCHANGED <<clock, row, events, outbox, job, lease, lost, dVars, faults>>

ReadRefused(t) ==
    /\ pc[t] = "refused"
    /\ Return_(t, IF row[job[t]].status = SUCCESS THEN "ack" ELSE "retry")
    /\ UNCHANGED <<clock, row, events, outbox, job, lease, lost, dVars, faults>>

-----------------------------------------------------------------------------
(* The processor, the transaction with its result, and the except block.   *)

\* The processor or the hand-over transaction raises, without effect.
InferenceRaises(t) ==
    /\ pc[t] = "working"
    /\ pc' = [pc EXCEPT ![t] = "failing"]
    /\ UNCHANGED <<clock, row, events, outbox, job, lease, ret, claimedAt,
                   lost, dVars, faults>>

\* Wrong variant: the event is logged, the outbox row is forgotten.
Wrong_NoOutboxRow(t) ==
    /\ pc[t] = "working" /\ t \notin Unified
    /\ Add(job[t], INFERRED)
    /\ UNCHANGED <<row, outbox>>

\* Event log and outbox row in one transaction.  It neither looks at the
\* lease nor writes the row: the job stays PROCESSING under the lease.
HandOver(t) ==
    /\ pc[t] = "working" /\ t \notin Unified
    /\ Add(job[t], INFERRED)
    /\ outbox' = [outbox EXCEPT ![job[t]] = @ \cup {lease[t]}]
    /\ UNCHANGED row

Infer(t) ==
    /\ HandOver(t)
    /\ Return_(t, "ack")
    /\ UNCHANGED <<clock, job, lease, lost, dVars, faults>>

\* The hand-over is committed but commit() raises: the except block follows.
InferReplyLost(t) ==
    /\ HandOver(t)
    /\ pc' = [pc EXCEPT ![t] = "failing"]
    /\ Fault
    /\ UNCHANGED <<clock, job, lease, ret, claimedAt, lost, dVars>>

Owns(t, target) ==
    /\ MayBecome(row[job[t]], target)
    /\ Fence(row[job[t]], OwnerOf[t], lease[t])

\* WorkerService: the fenced SUCCESS update.
CompleteCommitted(t) ==
    /\ pc[t] = "working" /\ t \in Unified
    /\ Owns(t, SUCCESS)
    /\ row' = [row EXCEPT ![job[t]] = Released(Succeeded(@, lease[t]))]
    /\ Add(job[t], PROCESSED)

\* Committed; a lost reply leads into the except block.
Complete(t) ==
    /\ CompleteCommitted(t)
    /\ \/ Return_(t, "ack") /\ UNCHANGED faults
       \/ /\ pc' = [pc EXCEPT ![t] = "failing"]
          /\ Fault
          /\ UNCHANGED <<ret, claimedAt>>
    /\ UNCHANGED <<clock, outbox, job, lease, lost, dVars>>

\* The UPDATE matches no row: the result is dropped, the message acknowledged.
CompleteFenced(t) ==
    /\ pc[t] = "working" /\ t \in Unified
    /\ ~Owns(t, SUCCESS)
    /\ Return_(t, "ack")
    /\ UNCHANGED <<clock, row, events, outbox, job, lease, lost, dVars, faults>>

\* The fenced FAILED update, after which the reply may be lost.
MarkFailed(t) ==
    /\ pc[t] = "failing"
    /\ Owns(t, FAILED)
    /\ row' = [row EXCEPT ![job[t]] = Released(Failed(@, lease[t]))]
    /\ Add(job[t], FAILED)
    /\ \/ Return_(t, "retry") /\ UNCHANGED faults
       \/ Return_(t, "raised") /\ Fault
    /\ UNCHANGED <<clock, outbox, job, lease, lost, dVars>>

\* Fenced out: roll back and ask for a retry.
MarkFailedFenced(t) ==
    /\ pc[t] = "failing"
    /\ ~Owns(t, FAILED)
    /\ Return_(t, "retry")
    /\ UNCHANGED <<clock, row, events, outbox, job, lease, lost, dVars, faults>>

\* The except block itself raises without effect.
MarkFailedError(t) ==
    /\ pc[t] = "failing"
    /\ Return_(t, "raised")
    /\ lost' = [lost EXCEPT ![job[t]] = @ \cup {lease[t]}]
    /\ Fault
    /\ UNCHANGED <<clock, row, events, outbox, job, lease, dVars>>

-----------------------------------------------------------------------------
(* DownstreamPipelineService.handle_event on the message of attempt a.     *)

\* The first read: a finished job is acknowledged; an exception here is
\* inside the try block as well.
DRead(d, j, a) ==
    /\ dpc[d] = "idle"
    /\ deliveries < MaxDeliveries
    /\ a \in outbox[j]
    /\ deliveries' = deliveries + 1
    /\ djob' = [djob EXCEPT ![d] = j]
    /\ dattempt' = [dattempt EXCEPT ![d] = a]
    /\ \/ /\ row[j].status = SUCCESS
          /\ DReturn(d, "ack")
          /\ UNCHANGED faults
       \/ /\ row[j].status # SUCCESS
          /\ dpc' = [dpc EXCEPT ![d] = "working"]
          /\ dret' = [dret EXCEPT ![d] = "none"]
          /\ UNCHANGED faults
       \/ /\ dpc' = [dpc EXCEPT ![d] = "failing"]
          /\ dret' = [dret EXCEPT ![d] = "none"]
          /\ Fault
    /\ UNCHANGED <<clock, row, events, outbox, iVars, lost>>

DProcessRaises(d) ==
    /\ dpc[d] = "working"
    /\ dpc' = [dpc EXCEPT ![d] = "failing"]
    /\ UNCHANGED <<clock, row, events, outbox, iVars, lost, djob, dattempt,
                   dret, deliveries, faults>>

\* update_status without fencing, its result ignored.
UpdateIfAllowed(d, target, new) ==
    row' = [row EXCEPT ![djob[d]] = IF MayBecome(@, target) THEN new ELSE @]

DCompleteCommitted(d) ==
    /\ dpc[d] = "working"
    /\ UpdateIfAllowed(d, SUCCESS, Succeeded(row[djob[d]], dattempt[d]))
    /\ Add(djob[d], COMPLETED)
    /\ UNCHANGED <<clock, outbox, iVars, lost, djob, dattempt, deliveries>>

DComplete(d) ==
    /\ DCompleteCommitted(d)
    /\ DReturn(d, "ack")
    /\ UNCHANGED faults

DCompleteReplyLost(d) ==
    /\ DCompleteCommitted(d)
    /\ dpc' = [dpc EXCEPT ![d] = "failing"]
    /\ Fault
    /\ UNCHANGED dret

\* The except block: unfenced, the lease columns stay.  The reply may be
\* lost.
DMarkFailed(d) ==
    /\ dpc[d] = "failing"
    /\ UpdateIfAllowed(d, FAILED, Failed(row[djob[d]], dattempt[d]))
    /\ Add(djob[d], FAILED)
    /\ \/ DReturn(d, "retry") /\ UNCHANGED faults
       \/ DReturn(d, "raised") /\ Fault
    /\ UNCHANGED <<clock, outbox, iVars, lost, djob, dattempt, deliveries>>

DMarkFailedError(d) ==
    /\ dpc[d] = "failing"
    /\ DReturn(d, "raised")
    /\ Fault
    /\ UNCHANGED <<clock, row, events, outbox, iVars, lost, djob, dattempt,
                   deliveries>>

-----------------------------------------------------------------------------
\* A process stops; the attempts of its tasks are lost.
Crash(w) ==
    /\ \E t \in Tasks : OwnerOf[t] = w /\ pc[t] # "dead"
    /\ pc' = [t \in Tasks |-> IF OwnerOf[t] = w THEN "dead" ELSE pc[t]]
    /\ lease' = [t \in Tasks |-> IF OwnerOf[t] = w THEN NULL ELSE lease[t]]
    /\ ret' = [t \in Tasks |-> IF OwnerOf[t] = w THEN "none" ELSE ret[t]]
    /\ claimedAt' = [t \in Tasks |-> IF OwnerOf[t] = w THEN 0 ELSE claimedAt[t]]
    /\ lost' = [j \in Jobs |-> lost[j] \cup
                   {lease[t] : t \in {u \in Tasks : /\ OwnerOf[u] = w
                                                    /\ Holding(u) /\ job[u] = j}}]
    /\ Fault
    /\ UNCHANGED <<clock, row, events, outbox, job, dVars>>

\* A downstream process stops: its message will be delivered again.
DCrash(d) ==
    /\ dpc[d] # "idle"
    /\ DReturn(d, "none")
    /\ Fault
    /\ UNCHANGED <<clock, row, events, outbox, iVars, lost, djob, dattempt,
                   deliveries>>

Tick ==
    /\ clock < MaxClock
    /\ clock' = clock + 1
    /\ UNCHANGED <<row, events, outbox, iVars, lost, dVars, faults>>

Request(t) ==
    \/ \E j \in Jobs : \/ Claim(t, j) \/ ClaimReplyLost(t, j)
                       \/ ClaimError(t, j) \/ ClaimRefused(t, j)
    \/ ReadRefused(t) \/ InferenceRaises(t)
    \/ Infer(t) \/ InferReplyLost(t)
    \/ Complete(t) \/ CompleteFenced(t)
    \/ MarkFailed(t) \/ MarkFailedFenced(t) \/ MarkFailedError(t)

Downstream(d) ==
    \/ \E j \in Jobs : \E a \in outbox[j] : DRead(d, j, a)
    \/ DProcessRaises(d)
    \/ DComplete(d) \/ DCompleteReplyLost(d)
    \/ DMarkFailed(d) \/ DMarkFailedError(d)
    \/ DCrash(d)

Next ==
    \/ \E t \in Tasks : Request(t)
    \/ \E d \in DTasks : Downstream(d)
    \/ \E w \in Workers : Crash(w)
    \/ Tick

Spec == Init /\ [][Next]_vars

-----------------------------------------------------------------------------
(* Properties.                                                             *)

\* Every variable has its type.
TypeOK ==
    /\ clock \in Nat
    /\ row \in [Jobs -> Row]
    /\ events \in [Jobs -> [EventType -> Nat]]
    /\ outbox \in [Jobs -> SUBSET Nat]
    /\ pc \in [Tasks -> {"idle", "refused", "working", "failing", "dead"}]
    /\ job \in [Tasks -> Jobs]
    /\ lease \in [Tasks -> Nat]
    /\ ret \in [Tasks -> {"none", "ack", "retry", "raised"}]
    /\ claimedAt \in [Tasks -> Nat]
    /\ lost \in [Jobs -> SUBSET Nat]
    /\ dpc \in [DTasks -> {"idle", "working", "failing"}]
    /\ djob \in [DTasks -> Jobs]
    /\ dattempt \in [DTasks -> Nat]
    /\ dret \in [DTasks -> {"none", "ack", "retry", "raised"}]
    /\ deliveries \in Nat
    /\ faults \in Nat

\* A job that is PROCESSING is in somebody's hands: a task works on the
\* newest attempt, or the downstream message of that attempt is in the
\* outbox, or the attempt ended in a crash or in a transaction whose caller
\* never learned its fate, and waits for its lease to expire.
NoSilentLoss ==
    \A j \in Jobs : row[j].status = PROCESSING =>
        \/ \E t \in Tasks : Holding(t) /\ job[t] = j /\ lease[t] = row[j].epoch
        \/ row[j].epoch \in outbox[j]
        \/ row[j].epoch \in lost[j]

\* An acknowledged request is done, or its downstream message is committed,
\* or it lost the job: to a later attempt or, in a mixed deployment, to the
\* unfenced FAILED of another attempt's downstream message.
AckedIsHandedOver ==
    \A t \in Tasks : ret[t] = "ack" =>
        \/ row[job[t]].status = SUCCESS
        \/ lease[t] \in outbox[job[t]]
        \/ /\ t \in Unified
           /\ \/ lease[t] < row[job[t]].epoch
              \/ row[job[t]].status = FAILED /\ row[job[t]].error \in outbox[job[t]]

\* A job succeeds only with a committed result, and with one only: either of
\* an inference whose downstream step ran, or of the fenced handler's latest
\* attempt, even when deliveries of several attempts and services race.
ResultWasCommitted ==
    \A j \in Jobs : row[j].status = SUCCESS =>
        /\ row[j].error = NULL
        /\ \/ row[j].result \in outbox[j] /\ events[j][COMPLETED] > 0
           \/ /\ row[j].result = row[j].epoch
              /\ events[j][PROCESSED] = 1
              /\ row[j].owner = NoOwner

Lifecycle == INSTANCE JobLifecycle WITH
    status  <- [j \in Jobs |-> row[j].status],
    attempt <- [j \in Jobs |-> row[j].epoch],
    result  <- [j \in Jobs |-> row[j].result]

\* A client that polls a job sees a life of JobLifecycle, with the result of
\* some attempt: unfenced downstream writes, late handlers and the mixture of
\* services during a switch never take a finished job back, finish one that
\* is not being processed, or report a result nobody produced.
ImplementsWeakLifecycle == Lifecycle!WeakSpec

\* What the documentation says of a retry: when the downstream handler
\* reports success, the job is SUCCESS, also after an earlier failure.
DownstreamAckedIsSuccess ==
    \A d \in DTasks : dret[d] = "ack" => row[djob[d]].status = SUCCESS

\* What the documentation says of the lease: as long as it lives, no second
\* inference worker gets the job.
ExclusiveWithinLease ==
    \A t, u \in Tasks :
        (Holding(t) /\ Holding(u) /\ job[t] = job[u] /\ lease[t] < lease[u])
            => claimedAt[t] + LeaseSeconds < clock
=============================================================================
