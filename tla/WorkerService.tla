--------------------------- MODULE WorkerService ---------------------------
(***************************************************************************)
(* WorkerService.handle_event (app/application/worker_service.py), the     *)
(* job handler of architectures A and B, run by any number of coroutines   *)
(* of any number of worker processes against one jobs table.               *)
(*                                                                         *)
(* A task is one coroutine that calls handle_event: the runner starts one  *)
(* per polled partition, so the tasks of a process run concurrently and    *)
(* share the process's worker_id (OwnerOf).  Deliveries are unrestricted:  *)
(* an idle task may be handed any job at any time, which covers duplicate, *)
(* late and repeated messages.  Every database transaction may commit,     *)
(* fail without effect, or commit and still raise to the caller (the       *)
(* connection is lost before the reply).  A process may stop at any point; *)
(* a cancelled coroutine does the same, as `except Exception` does not     *)
(* catch CancelledError.                                                   *)
(*                                                                         *)
(* clock is real time; a worker compares leases with its own clock, read   *)
(* before the UPDATE waits for the row, so a reading is off by at most     *)
(* MaxSkew in either direction.                                            *)
(***************************************************************************)
EXTENDS JobStore, Sequences

CONSTANTS
    Jobs,
    Tasks,
    OwnerOf,       \* the process a task runs in
    LeaseSeconds,  \* worker_processing_ttl_seconds, 1800 by default
    MaxSkew,       \* error of a clock reading used in a claim
    MaxEpoch,      \* bound: claims per job
    MaxClock       \* bound: real time

ASSUME OwnerAssumption == OwnerOf \in [Tasks -> Workers]
ASSUME LeaseAssumption == LeaseSeconds \in Nat \ {0}
ASSUME SkewAssumption == MaxSkew \in Nat
ASSUME BoundAssumption == MaxEpoch \in Nat /\ MaxClock \in Nat

VARIABLES
    clock,
    row,           \* the jobs table
    log,           \* the job_events table, per job in insertion order
    pc,            \* control point of each task
    job,           \* local job_id
    lease,         \* local lease.epoch, NULL when there is none
    ret,           \* how the last call of handle_event ended
    claimedAt      \* history: real time of the task's claim

vars == <<clock, row, log, pc, job, lease, ret, claimedAt>>
locals == <<pc, job, lease, ret, claimedAt>>

STARTED == "PROCESSING_STARTED"
COMPLETED == "PROCESSING_COMPLETED"

\* A job event: its type and the attempt that wrote it.
Event == [type : {STARTED, COMPLETED, FAILED}, attempt : Nat]

\* Control points: idle (no call under way), refused (claim found no row,
\* before the second read), working (the claim is committed: processing or
\* writing the result), failing (in the except block), dead.
Control == {"idle", "refused", "working", "failing", "dead"}

\* ack: (True, None); retry: (False, reason); raised: an exception left
\* handle_event; none: the call is still running.
Return == {"none", "ack", "retry", "raised"}

\* A task that believes it owns its job.
Holding(t) == pc[t] \in {"working", "failing"}

Init ==
    /\ clock = 0
    /\ row = [j \in Jobs |-> NewRow]
    /\ log = [j \in Jobs |-> <<>>]
    /\ pc = [t \in Tasks |-> "idle"]
    /\ job \in [Tasks -> Jobs]
    /\ lease = [t \in Tasks |-> NULL]
    /\ ret = [t \in Tasks |-> "none"]
    /\ claimedAt = [t \in Tasks |-> 0]

\* The values datetime.now(UTC) may have when a claim is made.
Readings == {n \in 0..(clock + MaxSkew) : clock <= n + MaxSkew}

\* The task returns r from (or raises out of) handle_event.
Return_(t, r) ==
    /\ pc' = [pc EXCEPT ![t] = "idle"]
    /\ ret' = [ret EXCEPT ![t] = r]
    /\ claimedAt' = [claimedAt EXCEPT ![t] = 0]

\* One committed transaction on job j: its new row and one event.
Commit(j, newRow, type, attempt) ==
    /\ row' = [row EXCEPT ![j] = newRow]
    /\ log' = [log EXCEPT ![j] = Append(@, [type |-> type, attempt |-> attempt])]

-----------------------------------------------------------------------------
(* The claim transaction.                                                  *)

ClaimCommitted(t, j, now) ==
    /\ pc[t] = "idle"
    /\ row[j].epoch < MaxEpoch
    /\ Claimable(row[j], now)
    /\ Commit(j, Claimed(row[j], OwnerOf[t], now, LeaseSeconds),
              STARTED, row[j].epoch + 1)

\* Claimed: go on to process.
Claim(t, j) ==
    /\ \E now \in Readings : ClaimCommitted(t, j, now)
    /\ pc' = [pc EXCEPT ![t] = "working"]
    /\ job' = [job EXCEPT ![t] = j]
    /\ lease' = [lease EXCEPT ![t] = row[j].epoch + 1]
    /\ ret' = [ret EXCEPT ![t] = "none"]
    /\ claimedAt' = [claimedAt EXCEPT ![t] = clock]
    /\ UNCHANGED clock

\* The claim is committed but commit() raises: nobody processes the job
\* although its lease is alive.
ClaimReplyLost(t, j) ==
    /\ \E now \in Readings : ClaimCommitted(t, j, now)
    /\ Return_(t, "raised")
    /\ job' = [job EXCEPT ![t] = j]
    /\ lease' = [lease EXCEPT ![t] = NULL]
    /\ UNCHANGED clock

\* The claim transaction raises and leaves no trace.
ClaimError(t, j) ==
    /\ pc[t] = "idle"
    /\ Return_(t, "raised")
    /\ job' = [job EXCEPT ![t] = j]
    /\ lease' = [lease EXCEPT ![t] = NULL]
    /\ UNCHANGED <<clock, row, log>>

\* lease is None: roll back; the job is read again in a new transaction.
ClaimRefused(t, j) ==
    /\ pc[t] = "idle"
    /\ \E now \in Readings : ~Claimable(row[j], now)
    /\ pc' = [pc EXCEPT ![t] = "refused"]
    /\ job' = [job EXCEPT ![t] = j]
    /\ lease' = [lease EXCEPT ![t] = NULL]
    /\ ret' = [ret EXCEPT ![t] = "none"]
    /\ UNCHANGED <<clock, row, log, claimedAt>>

\* Wrong variant: any refused delivery is taken for a finished job.
Wrong_AckRefused(t) ==
    /\ pc[t] = "refused"
    /\ Return_(t, "ack")
    /\ UNCHANGED <<clock, row, log, job, lease>>

\* The second read: SUCCESS is acknowledged, anything else is LEASE_HELD.
\* The job exists: its row was committed with the message that names it.
ReadRefused(t) ==
    /\ pc[t] = "refused"
    /\ \/ /\ row[job[t]].status = SUCCESS
          /\ Return_(t, "ack")
       \/ /\ row[job[t]].status # SUCCESS
          /\ Return_(t, "retry")
       \/ Return_(t, "raised")
    /\ UNCHANGED <<clock, row, log, job, lease>>

-----------------------------------------------------------------------------
(* Processing, and the transaction that records its result.                *)

\* The processor raises, or the result transaction raises without effect:
\* either way control enters the except block.
ProcessRaises(t) ==
    /\ pc[t] = "working"
    /\ pc' = [pc EXCEPT ![t] = "failing"]
    /\ UNCHANGED <<clock, row, log, job, lease, ret, claimedAt>>

\* The WHERE clause of both result statements.
Owns(t, target) ==
    /\ MayBecome(row[job[t]], target)
    /\ Fence(row[job[t]], OwnerOf[t], lease[t])

CompleteCommitted(t) ==
    /\ pc[t] = "working"
    /\ Owns(t, SUCCESS)
    /\ Commit(job[t], Released(Succeeded(row[job[t]], lease[t])),
              COMPLETED, lease[t])

Complete(t) ==
    /\ CompleteCommitted(t)
    /\ Return_(t, "ack")
    /\ UNCHANGED <<clock, job, lease>>

\* Committed, but commit() raises inside the try block.
CompleteReplyLost(t) ==
    /\ CompleteCommitted(t)
    /\ pc' = [pc EXCEPT ![t] = "failing"]
    /\ UNCHANGED <<clock, job, lease, ret, claimedAt>>

\* The lease was taken over: roll back and leave the job to its new owner.
CompleteFenced(t) ==
    /\ pc[t] = "working"
    /\ ~Owns(t, SUCCESS)
    /\ Return_(t, "ack")
    /\ UNCHANGED <<clock, row, log, job, lease>>

-----------------------------------------------------------------------------
(* The except block.                                                       *)

MarkFailedCommitted(t) ==
    /\ pc[t] = "failing"
    /\ Owns(t, FAILED)
    /\ Commit(job[t], Released(Failed(row[job[t]], lease[t])),
              FAILED, lease[t])

MarkFailed(t) ==
    /\ MarkFailedCommitted(t)
    /\ Return_(t, "retry")
    /\ UNCHANGED <<clock, job, lease>>

MarkFailedReplyLost(t) ==
    /\ MarkFailedCommitted(t)
    /\ Return_(t, "raised")
    /\ UNCHANGED <<clock, job, lease>>

MarkFailedFenced(t) ==
    /\ pc[t] = "failing"
    /\ ~Owns(t, FAILED)
    /\ Return_(t, "retry")
    /\ UNCHANGED <<clock, row, log, job, lease>>

MarkFailedError(t) ==
    /\ pc[t] = "failing"
    /\ Return_(t, "raised")
    /\ UNCHANGED <<clock, row, log, job, lease>>

-----------------------------------------------------------------------------
\* A process stops: its coroutines and their locals go, its rows and leases
\* stay.  The next process has a worker_id of its own, that is, it is another worker.
Crash(w) ==
    /\ \E t \in Tasks : OwnerOf[t] = w /\ pc[t] # "dead"
    /\ pc' = [t \in Tasks |-> IF OwnerOf[t] = w THEN "dead" ELSE pc[t]]
    /\ lease' = [t \in Tasks |-> IF OwnerOf[t] = w THEN NULL ELSE lease[t]]
    /\ ret' = [t \in Tasks |-> IF OwnerOf[t] = w THEN "none" ELSE ret[t]]
    /\ claimedAt' = [t \in Tasks |-> IF OwnerOf[t] = w THEN 0 ELSE claimedAt[t]]
    /\ UNCHANGED <<clock, row, log, job>>

Tick ==
    /\ clock < MaxClock
    /\ clock' = clock + 1
    /\ UNCHANGED <<row, log, locals>>

HandleEvent(t) ==
    \/ \E j \in Jobs : \/ Claim(t, j) \/ ClaimReplyLost(t, j)
                       \/ ClaimError(t, j) \/ ClaimRefused(t, j)
    \/ ReadRefused(t)
    \/ ProcessRaises(t)
    \/ Complete(t) \/ CompleteReplyLost(t) \/ CompleteFenced(t)
    \/ MarkFailed(t) \/ MarkFailedReplyLost(t)
    \/ MarkFailedFenced(t) \/ MarkFailedError(t)

Next ==
    \/ \E t \in Tasks : HandleEvent(t)
    \/ \E w \in Workers : Crash(w)
    \/ Tick

Spec == Init /\ [][Next]_vars

-----------------------------------------------------------------------------
(* Properties.                                                             *)

\* Every variable has its type.
TypeOK ==
    /\ clock \in Nat
    /\ row \in [Jobs -> Row]
    /\ log \in [Jobs -> Seq(Event)]
    /\ pc \in [Tasks -> Control]
    /\ job \in [Tasks -> Jobs]
    /\ lease \in [Tasks -> Nat]
    /\ ret \in [Tasks -> Return]
    /\ claimedAt \in [Tasks -> Nat]

\* Two tasks hold the same job only after the lease of the earlier of the
\* two has run out: nobody is robbed of a job before LeaseSeconds have
\* passed, up to the two clock readings involved (claim_for_processing).
ExclusiveWithinLease ==
    \A t, u \in Tasks :
        (Holding(t) /\ Holding(u) /\ job[t] = job[u] /\ lease[t] < lease[u])
            => claimedAt[t] + LeaseSeconds < clock + 2 * MaxSkew

\* No two tasks ever hold the same job under the same fencing token, not
\* even two coroutines of one process, which share the owner id.
TokensDiffer ==
    \A t, u \in Tasks :
        (t # u /\ Holding(t) /\ Holding(u) /\ job[t] = job[u])
            => lease[t] # lease[u]

\* A job is SUCCESS only with the result of its latest attempt, no error
\* and no lease; the result of a robbed attempt is never the one kept.
ResultOfLatestAttempt ==
    \A j \in Jobs :
        /\ row[j].status = SUCCESS =>
              /\ row[j].result = row[j].epoch
              /\ row[j].error = NULL
              /\ row[j].owner = NoOwner /\ row[j].expires = NULL
        /\ row[j].status # SUCCESS => row[j].result = NULL

\* The status the latest event of a job stands for.
StatusAfter(type) ==
    CASE type = STARTED   -> PROCESSING
      [] type = COMPLETED -> SUCCESS
      [] type = FAILED    -> FAILED

\* The event log and the row always tell the same story: the last event is
\* the one of the row's status, written by the row's epoch, and a completion
\* is logged once, as the last event of all.
LogAgreesWithRow ==
    \A j \in Jobs :
        /\ log[j] = <<>> => row[j].status = PENDING
        /\ log[j] # <<>> =>
              /\ row[j].status = StatusAfter(log[j][Len(log[j])].type)
              /\ row[j].epoch = log[j][Len(log[j])].attempt
        /\ \A i \in 1..Len(log[j]) :
              log[j][i].type = COMPLETED => i = Len(log[j])

\* A delivery is acknowledged only if the job is done or a later attempt has
\* taken it over, never because of an error or of somebody's live lease.
AckedIsDoneOrSuperseded ==
    \A t \in Tasks :
        ret[t] = "ack" =>
            \/ row[job[t]].status = SUCCESS
            \/ lease[t] # NULL /\ lease[t] < row[job[t]].epoch

\* SUCCESS is the end: no late, repeated or failing handler ever touches the
\* row or the log of a finished job again.
SuccessIsFinal ==
    [][\A j \in Jobs : row[j].status = SUCCESS =>
           row'[j] = row[j] /\ log'[j] = log[j]]_vars

-----------------------------------------------------------------------------
(* The abstract specification this module implements.                      *)

Lifecycle == INSTANCE JobLifecycle WITH
    status  <- [j \in Jobs |-> row[j].status],
    attempt <- [j \in Jobs |-> row[j].epoch],
    result  <- [j \in Jobs |-> row[j].result]

\* Whatever tasks, clocks and crashes do, a client that polls a job sees a
\* life of JobLifecycle: starts and failures, then at most one success, with
\* the result of the latest attempt, after which nothing changes.
ImplementsLifecycle == Lifecycle!Spec

-----------------------------------------------------------------------------
(* The inductive invariant behind the properties above.                    *)

\* A holder's token was handed out, so it is at most the row's epoch.
LeaseHandedOut ==
    \A t \in Tasks :
        Holding(t) => 1 <= lease[t] /\ lease[t] <= row[job[t]].epoch

\* The holder of the newest token is the row's owner, under a lease that is
\* at least LeaseSeconds long but for the clock error; or it has recorded its
\* success and does not know it (the reply to the commit was lost).
NewestHolderOwns ==
    \A t \in Tasks :
        (Holding(t) /\ lease[t] = row[job[t]].epoch) =>
            \/ /\ row[job[t]].status = PROCESSING
               /\ row[job[t]].owner = OwnerOf[t]
               /\ claimedAt[t] + LeaseSeconds <= row[job[t]].expires + MaxSkew
            \/ pc[t] = "failing" /\ row[job[t]].status = SUCCESS

\* Whoever holds an older token was robbed after its lease had run out.
RobbedAfterExpiry ==
    \A t \in Tasks :
        (Holding(t) /\ lease[t] < row[job[t]].epoch) =>
            claimedAt[t] + LeaseSeconds < clock + 2 * MaxSkew

\* PROCESSING rows always carry a lease: "lease_expires_at IS NULL" in the
\* takeover condition never applies in this architecture.
ProcessingIsLeased ==
    \A j \in Jobs : row[j].status = PROCESSING => row[j].expires # NULL

IInv ==
    /\ TypeOK
    /\ LeaseHandedOut
    /\ TokensDiffer
    /\ NewestHolderOwns
    /\ RobbedAfterExpiry
    /\ ProcessingIsLeased
    /\ ResultOfLatestAttempt
    /\ LogAgreesWithRow
    /\ AckedIsDoneOrSuperseded
=============================================================================
