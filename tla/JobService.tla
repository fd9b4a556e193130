----------------------------- MODULE JobService -----------------------------
(***************************************************************************)
(* Job creation: JobService.create_job (app/application/job_service.py)    *)
(* over the Redis idempotency records of                                   *)
(* app/adapters/cache/redis_idempotency.py and the jobs table.             *)
(*                                                                         *)
(* Requests are concurrent HTTP requests that carry the same               *)
(* Idempotency-Key: requests with different keys, or with none (the        *)
(* service then makes up a key), share no record.  Whatever interrupts a   *)
(* request (an exception of Redis or of the database, the death of the API *)
(* process) is a fault that ends it before or after the call it was making *)
(* took effect; the client may send it again.  A job id is the number of   *)
(* its reservation.  Time is what remains of each TTL.                     *)
(***************************************************************************)
EXTENDS Naturals, FiniteSets

CONSTANTS
    Requests,
    ProcessingTtl,    \* processing_ttl_seconds
    Ttl,              \* ttl_seconds
    SlowRequests,     \* may a request outlive its reservation?
    MaxFaults         \* bound: interruptions

ASSUME RequestsAssumption == IsFiniteSet(Requests)
ASSUME TtlAssumption ==
    /\ ProcessingTtl \in Nat \ {0} /\ Ttl \in Nat \ {0}
    /\ ProcessingTtl <= Ttl
ASSUME BoundAssumption == SlowRequests \in BOOLEAN /\ MaxFaults \in Nat

NONE == 0

\* Every reservation uses a new id; a request reserves once, and once more
\* after each interruption.
Jobs == 1..(Cardinality(Requests) + MaxFaults)

Record == [status : {"PROCESSING", "COMPLETED"}, job : Jobs, ttl : 1..Ttl]
NoRecord == [status |-> "NONE"]

VARIABLES
    redis,         \* the record idem:req:{key}
    jobs,          \* committed jobs, each with its event and outbox row
    reservations,  \* job ids handed to Redis so far
    pc,            \* control point of each request
    job,           \* the job id the request works with
    faults,
    fresh,         \* history: what remains of ProcessingTtl since an id was reserved
    promise,       \* history: what remains of Ttl since a first job was created
    repeat,        \* history: the request arrived while the promise held
    duplicates,    \* history: jobs created by such requests
    late           \* history: a reservation expired under a running request

historyVars == <<fresh, promise, repeat, duplicates, late>>
vars == <<redis, jobs, reservations, pc, job, faults, historyVars>>

Init ==
    /\ redis = NoRecord
    /\ jobs = {}
    /\ reservations = 0
    /\ pc = [q \in Requests |-> "start"]
    /\ job = [q \in Requests |-> NONE]
    /\ faults = 0
    /\ fresh = [j \in Jobs |-> 0]
    /\ promise = 0
    /\ repeat = [q \in Requests |-> FALSE]
    /\ duplicates = {}
    /\ late = FALSE

Goto(q, control) == pc' = [pc EXCEPT ![q] = control]
Held == redis # NoRecord

-----------------------------------------------------------------------------
(* The calls that change Redis or the database.                            *)

\* Wrong variant: SET without NX.
Wrong_ReserveAnyway(q) ==
    /\ reservations < Cardinality(Requests) + MaxFaults
    /\ reservations' = reservations + 1
    /\ job' = [job EXCEPT ![q] = reservations']
    /\ redis' = [status |-> "PROCESSING", job |-> reservations', ttl |-> ProcessingTtl]
    /\ fresh' = [fresh EXCEPT ![reservations'] = ProcessingTtl]

\* SET NX EX of a record for a new id.
reserve_request(q) ==
    /\ ~Held
    /\ reservations' = reservations + 1
    /\ job' = [job EXCEPT ![q] = reservations']
    /\ redis' = [status |-> "PROCESSING", job |-> reservations', ttl |-> ProcessingTtl]
    /\ fresh' = [fresh EXCEPT ![reservations'] = ProcessingTtl]

\* The transaction that adds the job, its event and its outbox message.
AddJob(q) ==
    /\ jobs' = jobs \cup {job[q]}
    /\ promise' = IF promise = 0 THEN Ttl ELSE promise
    /\ duplicates' = IF repeat[q] THEN duplicates \cup {job[q]} ELSE duplicates

\* Wrong variant: the completed record keeps the short TTL.
Wrong_CompleteShort(q) ==
    redis' = [status |-> "COMPLETED", job |-> job[q], ttl |-> ProcessingTtl]

\* SET EX, whatever the key holds by now.
complete_request(q) ==
    redis' = [status |-> "COMPLETED", job |-> job[q], ttl |-> Ttl]

-----------------------------------------------------------------------------
(* create_job, one action per await.                                       *)

\* The request arrives and reads the key's record.
Lookup(q) ==
    /\ pc[q] = "start"
    /\ Goto(q, IF Held THEN "fetch" ELSE "reserve")
    /\ job' = [job EXCEPT ![q] = IF Held THEN redis.job ELSE NONE]
    /\ repeat' = [repeat EXCEPT ![q] = promise > 0]
    /\ UNCHANGED <<redis, jobs, reservations, faults, fresh, promise,
                   duplicates, late>>

Reserve(q) ==
    /\ pc[q] = "reserve"
    /\ \/ reserve_request(q) /\ Goto(q, "insert")
       \/ /\ Held
          /\ Goto(q, "relookup")
          /\ UNCHANGED <<redis, reservations, job, fresh>>
    /\ UNCHANGED <<jobs, faults, promise, repeat, duplicates, late>>

\* The reservation was refused; the record that refused it may be gone.
Relookup(q) ==
    /\ pc[q] = "relookup"
    /\ Goto(q, IF Held THEN "fetch" ELSE "failed")
    /\ job' = [job EXCEPT ![q] = IF Held THEN redis.job ELSE NONE]
    /\ UNCHANGED <<redis, jobs, reservations, faults, historyVars>>

\* Wrong variant: the id is returned without looking for the job.
Wrong_FetchUnchecked(q) ==
    /\ pc[q] = "fetch"
    /\ Goto(q, "done")
    /\ UNCHANGED <<redis, jobs, reservations, job, faults, historyVars>>

\* The job the record names is returned, if it exists.
Fetch(q) ==
    /\ pc[q] = "fetch"
    /\ Goto(q, IF job[q] \in jobs THEN "done" ELSE "failed")
    /\ UNCHANGED <<redis, jobs, reservations, job, faults, historyVars>>

Insert(q) ==
    /\ pc[q] = "insert"
    /\ AddJob(q)
    /\ Goto(q, "complete")
    /\ UNCHANGED <<redis, reservations, job, faults, fresh, repeat, late>>

Complete(q) ==
    /\ pc[q] = "complete"
    /\ complete_request(q)
    /\ Goto(q, "done")
    /\ UNCHANGED <<jobs, reservations, job, faults, historyVars>>

\* The request is interrupted in the middle of a call.
Interrupted(q) ==
    /\ pc[q] \notin {"done", "failed"}
    /\ faults < MaxFaults
    /\ faults' = faults + 1
    /\ Goto(q, "failed")
    /\ \/ UNCHANGED <<redis, jobs, reservations, job, historyVars>>
       \/ /\ pc[q] = "reserve" /\ reserve_request(q)
          /\ UNCHANGED <<jobs, promise, repeat, duplicates, late>>
       \/ /\ pc[q] = "insert" /\ AddJob(q)
          /\ UNCHANGED <<redis, reservations, job, fresh, repeat, late>>
       \/ /\ pc[q] = "complete" /\ complete_request(q)
          /\ UNCHANGED <<jobs, reservations, job, historyVars>>

\* The client sends the request again, as the API specification tells it to.
Retry(q) ==
    /\ pc[q] = "failed"
    /\ Goto(q, "start")
    /\ UNCHANGED <<redis, jobs, reservations, job, faults, historyVars>>

-----------------------------------------------------------------------------
(* Time.                                                                   *)

Less(n) == IF n = 0 THEN 0 ELSE n - 1

\* Wrong variant: SET without EX.
Wrong_NeverExpires == IF Held THEN [redis EXCEPT !.ttl = IF @ = 1 THEN 1 ELSE @ - 1]
                              ELSE NoRecord

\* Wrong variant: a record survives the end of its TTL.
Wrong_ExpiresLate == IF Held THEN [redis EXCEPT !.ttl = Less(@)] ELSE NoRecord

\* The record one unit of time later; Redis drops it when its TTL ends.
Aged == IF Held /\ redis.ttl > 1 THEN [redis EXCEPT !.ttl = @ - 1] ELSE NoRecord

\* A request still has to store the job of the reservation that expires.
ExpiresUnderRequest ==
    /\ Held /\ redis.ttl = 1 /\ redis.status = "PROCESSING"
    /\ \E q \in Requests : pc[q] \in {"insert", "complete"} /\ job[q] = redis.job

Tick ==
    /\ Held \/ promise > 0 \/ \E j \in Jobs : fresh[j] > 0
    /\ ExpiresUnderRequest => SlowRequests
    /\ redis' = Aged
    /\ fresh' = [j \in Jobs |-> Less(fresh[j])]
    /\ promise' = Less(promise)
    /\ late' = (late \/ ExpiresUnderRequest)
    /\ UNCHANGED <<jobs, reservations, pc, job, faults, repeat, duplicates>>

Step(q) ==
    Lookup(q) \/ Reserve(q) \/ Relookup(q) \/ Fetch(q) \/ Insert(q) \/ Complete(q)

Next ==
    \/ \E q \in Requests : Step(q) \/ Interrupted(q) \/ Retry(q)
    \/ Tick

Spec == Init /\ [][Next]_vars

\* The event loop runs every request, clients repeat what failed, time passes.
FairSpec ==
    /\ Spec
    /\ \A q \in Requests : WF_vars(Step(q)) /\ WF_vars(Retry(q))
    /\ WF_vars(Tick)

-----------------------------------------------------------------------------
(* Properties.                                                             *)

\* Every variable has its type.
TypeOK ==
    /\ redis \in Record \cup {NoRecord}
    /\ jobs \in SUBSET Jobs
    /\ reservations \in 0..Cardinality(Jobs)
    /\ pc \in [Requests -> {"start", "reserve", "relookup", "fetch", "insert",
                            "complete", "done", "failed"}]
    /\ job \in [Requests -> Jobs \cup {NONE}]
    /\ faults \in 0..MaxFaults
    /\ fresh \in [Jobs -> 0..ProcessingTtl]
    /\ promise \in 0..Ttl
    /\ repeat \in [Requests -> BOOLEAN]
    /\ duplicates \in SUBSET Jobs
    /\ late \in BOOLEAN

\* An accepted request was answered with a job that is in the database, with
\* its outbox message: the id a client polls for is never a mere reservation.
ReplyIsCommitted == \A q \in Requests : pc[q] = "done" => job[q] \in jobs

\* Two ids are never reserved within ProcessingTtl of one another, whatever
\* the requests do in between: SET NX is what keeps concurrent requests apart.
ReservationsApart ==
    \A i, j \in Jobs : i # j => fresh[i] = 0 \/ fresh[j] = 0

\* A repeated request creates a second job within Ttl of the first only after
\* an interruption, or when some request outlived its reservation.
DuplicatesNeedAFault == duplicates # {} => faults > 0 \/ late

\* No lock is permanent: a client that repeats its request is in the end
\* answered, even when the request that reserved the key died.
EventuallyAccepted == \A q \in Requests : <>(pc[q] = "done")

\* What the API specification promises: within the key's validity a repeated
\* request creates no new job.
RepeatMakesNoJob == duplicates = {}

\* What it promises further: a request with a known key is answered with the
\* first job's id, not with an error, as long as nothing is interrupted.
RepeatIsAnswered == faults = 0 /\ ~late => \A q \in Requests : pc[q] # "failed"
=============================================================================
