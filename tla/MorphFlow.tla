----------------------------- MODULE MorphFlow -----------------------------
(***************************************************************************)
(* The whole path of a job: the request topic, the handlers of             *)
(* PipelineServices, their retry topics, the downstream topic and the      *)
(* dead-letter topic, put together as roles.py and runner.py do.           *)
(*                                                                         *)
(* PipelineServices leaves deliveries open; here a handler is called only  *)
(* with a message that some topic of its role holds and that is due, and   *)
(* what becomes of the message is decided by how the handler returned.     *)
(* What the modules Runner and OutboxRelay establish is used: a message    *)
(* stays until it is dealt with, and every committed outbox row is         *)
(* published.  Partitions and offsets are abstracted: a topic is a set of  *)
(* messages, any of which may be read next.                                *)
(***************************************************************************)
EXTENDS PipelineServices

CONSTANTS
    RoleOf,          \* worker_role of each task
    ModeOf,          \* architecture_mode of each task
    RetryMax,        \* retry_max_count
    Backoff,         \* the delay before each of the RetryMax retries
    NoMessage

VARIABLES
    topics,          \* the messages of all topics but the dead-letter topic
    dlq,             \* the dead-letter topic
    held,            \* the message each coroutine handles
    published        \* outbox rows the relays are done with

mVars == <<topics, dlq, held, published>>
allVars == <<vars, mVars>>

Request_ == "request-topic"
RetryRequest == "retry-request-topic"
DownstreamTopic == "downstream-topic"
RetryDownstream == "retry-downstream-topic"

\* attempt is 0 in a request and names the inference attempt in a downstream
\* message.
Message == [topic : {Request_, RetryRequest, DownstreamTopic, RetryDownstream},
            job : Jobs, attempt : 0..MaxEpoch, count : 0..RetryMax, due : Nat]

-----------------------------------------------------------------------------
(* roles.py.                                                               *)

\* The service build_worker_role gives to a role; unknown roles are unified.
build_worker_role(role, mode) ==
    IF mode \in {"C", "BC"} /\ role \in {"inference", "downstream"}
      THEN role ELSE "unified"

\* Wrong variant: inference reads a topic of its own, which nobody writes.
Wrong_OwnTopic(role) ==
    CASE role = "unified" -> Request_ [] role = "inference" -> "inference-topic"
      [] OTHER -> DownstreamTopic

resolve_worker_topic(role) ==
    IF role \in {"unified", "inference"} THEN Request_ ELSE DownstreamTopic

resolve_worker_retry_topic(role) ==
    IF role = "downstream" THEN RetryDownstream ELSE RetryRequest

ASSUME RoleAssumption ==
    \A t \in Tasks \cup DTasks :
        build_worker_role(RoleOf[t], ModeOf[t]) =
            IF t \in DTasks THEN "downstream"
            ELSE IF t \in Unified THEN "unified" ELSE "inference"
ASSUME RetryAssumption == Backoff \in [1..RetryMax -> Nat] /\ RetryMax \in Nat
ASSUME MessageAssumption == NoMessage \notin Message

-----------------------------------------------------------------------------
MInit ==
    /\ Init
    /\ topics = {}
    /\ dlq = {}
    /\ held = [t \in Tasks \cup DTasks |-> NoMessage]
    /\ published = {}

\* A relay publishes a committed outbox row: the request that JobService
\* inserted with the job (attempt 0), always to the request topic, or the
\* downstream message of an inference.
Relay(j, a) ==
    /\ <<j, a>> \notin published
    /\ a = 0 \/ a \in outbox[j]
    /\ topics' = topics \cup
          {[topic |-> IF a = 0 THEN Request_ ELSE DownstreamTopic,
            job |-> j, attempt |-> a, count |-> 0, due |-> 0]}
    /\ published' = published \cup {<<j, a>>}
    /\ UNCHANGED <<vars, dlq, held>>

\* Wrong variant: the offset is committed before the message is handled.
Wrong_CommitFirst(t, m) ==
    /\ held[t] = NoMessage
    /\ m \in topics
    /\ m.topic \in {resolve_worker_topic(RoleOf[t]),
                    resolve_worker_retry_topic(RoleOf[t])}
    /\ m.due <= clock
    /\ held' = [held EXCEPT ![t] = m]
    /\ topics' = topics \ {m}
    /\ UNCHANGED <<dlq, published>>

\* The runner hands a due message of the role's topics to a free coroutine.
\* Within a group a message is with one consumer.
Handed(t, m) ==
    /\ held[t] = NoMessage
    /\ m \in topics
    /\ m.topic \in {resolve_worker_topic(RoleOf[t]),
                    resolve_worker_retry_topic(RoleOf[t])}
    /\ m.due <= clock
    /\ \A u \in DOMAIN held : held[u] # m
    /\ held' = [held EXCEPT ![t] = m]
    /\ UNCHANGED <<topics, dlq, published>>

Deliver(t) ==
    \E m \in topics :
        /\ Handed(t, m)
        /\ \/ Claim(t, m.job) \/ ClaimReplyLost(t, m.job)
           \/ ClaimError(t, m.job) \/ ClaimRefused(t, m.job)

DDeliver(d) ==
    \E m \in topics : Handed(d, m) /\ DRead(d, m.job, m.attempt)

\* The rest of handle_event.
Handle(t) ==
    /\ held[t] # NoMessage
    /\ \/ ReadRefused(t) \/ InferenceRaises(t)
       \/ pc[t] = "refused" /\ ClaimError(t, job[t])
       \/ Infer(t) \/ InferReplyLost(t) \/ Complete(t) \/ CompleteFenced(t)
       \/ MarkFailed(t) \/ MarkFailedFenced(t) \/ MarkFailedError(t)
    /\ UNCHANGED mVars

DHandle(d) ==
    /\ held[d] # NoMessage
    /\ \/ DProcessRaises(d)
       \/ DComplete(d) \/ DCompleteReplyLost(d)
       \/ DMarkFailed(d) \/ DMarkFailedError(d)
    /\ UNCHANGED mVars

\* Wrong variant: one retry too few.
Wrong_DropLast(t, m) == m.count + 1 < RetryMax

RetriesLeft(t, m) == m.count < RetryMax

\* _handle_message after handle_event returned r.
Settled(t, m, r) ==
    CASE r = "ack" -> topics \ {m}
      [] r = "retry" /\ RetriesLeft(t, m) ->
            (topics \ {m}) \cup
            {[m EXCEPT !.topic = resolve_worker_retry_topic(RoleOf[t]),
                       !.count = m.count + 1, !.due = clock + Backoff[m.count + 1]]}
      [] r = "retry" /\ ~RetriesLeft(t, m) -> topics \ {m}
      [] r = "raised" -> topics

\* The coroutine is back from handle_event, which ended with r.
Returned(t, r) ==
    /\ held[t] # NoMessage
    /\ IF t \in DTasks THEN dpc[t] = "idle" /\ dret[t] = r
                       ELSE pc[t] = "idle" /\ ret[t] = r

\* The message is acknowledged, passed on to the retry topic or to the
\* dead-letter topic, or read again.  When its offset is not committed (the
\* worker stops, or loses the partition), it comes back in any case.
Settle(t) ==
    /\ \E r \in {"ack", "retry", "raised"} :
          /\ Returned(t, r)
          /\ \/ topics' = Settled(t, held[t], r) /\ UNCHANGED faults
             \/ topics' = Settled(t, held[t], r) \cup {held[t]} /\ Fault
          /\ dlq' = IF r = "retry" /\ ~RetriesLeft(t, held[t])
                      THEN dlq \cup {held[t]} ELSE dlq
    /\ held' = [held EXCEPT ![t] = NoMessage]
    /\ UNCHANGED <<clock, row, events, outbox, iVars, lost, dVars, published>>

\* A process stops: its messages will be delivered again.
MCrash(w) ==
    /\ Crash(w)
    /\ held' = [t \in DOMAIN held |->
                  IF t \in {u \in Tasks : OwnerOf[u] = w}
                    THEN NoMessage ELSE held[t]]
    /\ UNCHANGED <<topics, dlq, published>>

MDCrash(d) ==
    /\ DCrash(d)
    /\ held' = [held EXCEPT ![d] = NoMessage]
    /\ UNCHANGED <<topics, dlq, published>>

\* Once MaxClock has passed, time stands still unless a retry waits for it.
MTick ==
    /\ clock < MaxClock \/ \E m \in topics : m.due > clock
    /\ clock' = clock + 1
    /\ UNCHANGED <<row, events, outbox, iVars, lost, dVars, faults, mVars>>

Relays == \E j \in Jobs : \E a \in 0..MaxEpoch : Relay(j, a)

MNext ==
    \/ Relays
    \/ \E t \in Tasks : Deliver(t) \/ Handle(t)
    \/ \E d \in DTasks : DDeliver(d) \/ DHandle(d) \/ MDCrash(d)
    \/ \E t \in Tasks \cup DTasks : Settle(t)
    \/ \E w \in Workers : MCrash(w)
    \/ MTick

\* Relays poll for ever, the runner reads on, a handler that has started
\* returns, and time passes (modules Runner, OutboxRelay).
MSpec ==
    /\ MInit /\ [][MNext]_allVars
    /\ WF_allVars(Relays) /\ WF_allVars(MTick)
    /\ \A t \in Tasks : WF_allVars(Deliver(t)) /\ WF_allVars(Handle(t))
    /\ \A d \in DTasks : WF_allVars(DDeliver(d)) /\ WF_allVars(DHandle(d))
    /\ \A t \in Tasks \cup DTasks : WF_allVars(Settle(t))

-----------------------------------------------------------------------------
(* Properties.                                                             *)

\* The topics hold messages, and a coroutine holds one of them.
MTypeOK ==
    /\ TypeOK
    /\ topics \subseteq Message /\ dlq \subseteq Message
    /\ held \in [Tasks \cup DTasks -> topics \cup {NoMessage}]
    /\ published \subseteq Jobs \X (0..MaxEpoch)

\* Some message will still bring the job to a handler.
Reachable(j) ==
    \/ \E m \in topics : m.job = j
    \/ <<j, 0>> \notin published
    \/ \E a \in outbox[j] : <<j, a>> \notin published

\* What the documentation says of the lease: the job of a crashed worker is
\* taken back once its lease is over.  It takes a message to do that.
ExpiredIsReclaimed ==
    \A j \in Jobs :
        (row[j].status = PROCESSING /\ row[j].expires < clock) => Reachable(j)

\* Failed attempts of the job, crashes, database errors and lost commits.  A
\* fault may itself be what fails an attempt (a lost reply leads into the
\* except block): when the attempt that failed last had been handed over, the
\* fault and the failure are one trouble.
Troubles(j) ==
    IF faults > 0 /\ events[j][FAILED] > 0 /\ row[j].error \in outbox[j]
      THEN faults + events[j][FAILED] - 1
      ELSE faults + events[j][FAILED]

\* The request messages of a job.
Requests(j) == {m \in topics : m.job = j /\ m.attempt = 0}

\* The tasks of Tasks read the request topic: no worker of role downstream is
\* deployed in mode A or B, where it would run WorkerService.
RolesRead == \A t \in Tasks : RoleOf[t] \in {"unified", "inference"}

\* f[n] is the sum of the first n backoffs.
Sums(f) ==
    /\ f \in [0..RetryMax -> Nat] /\ f[0] = 0
    /\ \A n \in 1..RetryMax : f[n] = f[n - 1] + Backoff[n]

\* When the backoffs together outlast the lease, a job survives any one
\* trouble: until it is finished or failed a message of it is in a topic or an
\* outbox row of it is unpublished, across roles, retries and a mode switch.
OneTroubleIsSurvived ==
    \A j \in Jobs :
        (row[j].status \in {PENDING, PROCESSING} /\ Troubles(j) <= 1) => Reachable(j)

\* With at most one trouble every job is done in the end; the exception is a
\* FAILED row of an attempt that had been handed over and whose request is
\* gone: the downstream message does not repair it, and nothing claims it.
EventuallyDone ==
    \A j \in Jobs :
        <>(\/ row[j].status = SUCCESS
           \/ Troubles(j) > 1
           \/ row[j].status = FAILED /\ row[j].error \in outbox[j] /\ Requests(j) = {})
=============================================================================
