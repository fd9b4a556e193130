------------------------------ MODULE JobStore ------------------------------
(***************************************************************************)
(* The conditional UPDATE statements of SqlAlchemyJobRepository on one     *)
(* row of the jobs table, and the transition table they are guarded by     *)
(* (app/domain/models.py, app/adapters/db/repositories.py).  A statement   *)
(* is a guard on the row (the WHERE clause) and the row it leaves behind   *)
(* (the SET clause).  PostgreSQL serialises two UPDATEs of the same row    *)
(* and evaluates the WHERE clause again after waiting for the row lock, so *)
(* guard and new row form one atomic step of the services' modules.        *)
(*                                                                         *)
(* Data abstraction: a result or an error message is the number of the     *)
(* attempt (the lease epoch) that produced it; request payloads, retry     *)
(* counters of the row and timestamps other than the lease are left out.   *)
(***************************************************************************)
EXTENDS Naturals

CONSTANTS
    Workers,       \* worker ids: one per process, shared by its coroutines
    NoOwner        \* SQL NULL in the lease_owner column

ASSUME NoOwnerAssumption == NoOwner \notin Workers

\* SQL NULL of the numeric columns.  No attempt has number 0 and no lease
\* expires at time 0, so 0 is free.
NULL == 0

PENDING == "PENDING"
PROCESSING == "PROCESSING"
SUCCESS == "SUCCESS"
FAILED == "FAILED"

JobStatus == {PENDING, PROCESSING, SUCCESS, FAILED}

Row == [status  : JobStatus,
        owner   : Workers \cup {NoOwner},
        expires : Nat,
        epoch   : Nat,
        result  : Nat,
        error   : Nat]

\* The row that SqlAlchemyJobRepository.add inserts for a new job.
NewRow == [status |-> PENDING, owner |-> NoOwner, expires |-> NULL,
           epoch |-> 0, result |-> NULL, error |-> NULL]

-----------------------------------------------------------------------------
(* Deliberately wrong variants, used to show that the properties notice.   *)

\* Wrong variant: a FAILED write may overwrite SUCCESS.
Wrong_FailOverSuccess(target) ==
    CASE target = PROCESSING -> {PENDING, FAILED, PROCESSING}
      [] target = SUCCESS    -> {PROCESSING}
      [] target = FAILED     -> {PENDING, PROCESSING, SUCCESS}
      [] OTHER               -> {}

\* Wrong variant: the lease is not looked at.
Wrong_ClaimLiveLease(r, now) == r.status # SUCCESS

\* Wrong variant: a finished job may be claimed again.
Wrong_ClaimAnything(r, now) ==
    \/ r.status # PROCESSING
    \/ r.expires < now

\* Wrong variant: a claim does not advance the fencing token.
Wrong_KeepEpoch(r, owner, now, lease) ==
    [r EXCEPT !.status = PROCESSING, !.owner = owner, !.expires = now + lease]

\* Wrong variant: the fence compares the owner but not the epoch.
Wrong_OwnerOnly(r, owner, epoch) == r.owner = owner

\* Wrong variant: the error of an earlier attempt stays.
Wrong_NoErrorReset(r, result) ==
    [r EXCEPT !.status = SUCCESS, !.result = result]

\* Wrong variant: the owner is cleared to something that is not NULL.
Wrong_ReleaseToZero(r) == [r EXCEPT !.owner = 0, !.expires = 0]

-----------------------------------------------------------------------------
\* ALLOWED_TRANSITIONS, indexed by the target status.
allowed_source_statuses(target) ==
    CASE target = PROCESSING -> {PENDING, FAILED, PROCESSING}
      [] target = SUCCESS    -> {PROCESSING}
      [] target = FAILED     -> {PENDING, PROCESSING}
      [] OTHER               -> {}

-----------------------------------------------------------------------------
\* WHERE clause of claim_for_processing: not started, failed, or PROCESSING
\* under a lease that is absent or, at the caller's clock reading, over.
Claimable(r, now) ==
    \/ r.status \in {PENDING, FAILED}
    \/ /\ r.status = PROCESSING
       /\ r.expires = NULL \/ r.expires < now

\* SET clause of claim_for_processing.  The new epoch is the fencing token.
Claimed(r, owner, now, lease) ==
    [status |-> PROCESSING, owner |-> owner, expires |-> now + lease,
     epoch |-> r.epoch + 1, result |-> r.result, error |-> r.error]

\* The fencing conditions update_status adds when it is given an owner and
\* an epoch.
Fence(r, owner, epoch) == r.owner = owner /\ r.epoch = epoch

\* The condition update_status always has: the status may become target.
MayBecome(r, target) == r.status \in allowed_source_statuses(target)

\* SET clause of update_status(SUCCESS, result, clear_error = True).
Succeeded(r, result) ==
    [status |-> SUCCESS, owner |-> r.owner, expires |-> r.expires,
     epoch |-> r.epoch, result |-> result, error |-> NULL]

\* SET clause of update_status(FAILED, error).
Failed(r, error) ==
    [status |-> FAILED, owner |-> r.owner, expires |-> r.expires,
     epoch |-> r.epoch, result |-> r.result, error |-> error]

\* What release_lease = True adds to the SET clause.
Released(r) ==
    [status |-> r.status, owner |-> NoOwner, expires |-> NULL,
     epoch |-> r.epoch, result |-> r.result, error |-> r.error]
=============================================================================
