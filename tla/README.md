# Verification of morphflow

TLA+ models of the asynchronous job pipeline in `app/`: how a job is created
once, how its messages leave the database, how workers consume, retry and
dead-letter them, and how concurrent workers share one jobs table. TLC checks
the models on small instances, including that they implement two abstract
specifications; TLAPS proves every safety property and the three refinements
for every instance of the models, and the survival of a single failure for
every deployment whose retries outlast its leases.

## The system

A client posts a job to the API. The API stores the job, an event and an
*outbox* row in one PostgreSQL transaction; *relays* (one in every process)
publish outbox rows to Kafka; *workers* consume them and write the result to
the jobs table. Failed messages go to a retry topic with a due time, and after
`retry_max_count` retries to a dead-letter topic. Architectures A and B have
one worker stage, C and BC an inference stage and a downstream stage.

| Component | State | Operations | Interacts by |
|---|---|---|---|
| Job store (`domain/models.py`, `adapters/db/repositories.py`) | `jobs` rows: status, lease owner, expiry, epoch, result, error; `job_events` | `add`, `claim_for_processing`, `update_status`, `get` (`renew_lease` has no caller) | conditional UPDATEs |
| Worker service (`application/worker_service.py`) | one lease per running coroutine | `handle_event`: claim, process, record | job store |
| Inference and downstream services (`application/pipeline_services.py`) | the same, and none downstream | two `handle_event`s | job store, outbox |
| Outbox and relay (`adapters/messaging/outbox_relay.py`) | `outbox_messages`, the relay's batch | `drain_once`, `start`, `stop` | table locks, Kafka |
| Consume loop (`workers/runner.py`) | positions, committed offsets, paused partitions | poll, `_consume_partition`, `_handle_message`, commit | Kafka and its group protocol, `handle_event` |
| Roles (`workers/roles.py`) | none | `build_worker_role`, `resolve_worker_topic`, `..._retry_topic`, `..._group_id` | decide which service reads which topics |
| Job creation (`application/job_service.py`, `adapters/cache/redis_idempotency.py`) | one Redis record per key, with TTL | `create_job` | Redis, job store, outbox |
| GPU simulator (`adapters/processing/gpu_simulator.py`) | batch queue, flush task, futures | `process` | called by the services |

What is hard here: coroutines of one process share an owner id; a lease may be
taken over while its holder still works; a commit may succeed and raise; a
process may stop between any two transactions; Kafka takes no part in database
transactions; a batch may fail in the middle; a consumer may lose its
partitions while it works on them; two architectures share the request topic
while one is switched to the other; retries and leases run on different
clocks; a TTL may end under a running request. `PROJECT.json` lists these
hazards line by line with the properties that watch them.

What makes each component correct:

* job store and services: a job is held by one worker at a time as far as
  leases can guarantee it, the outcome of the newest attempt is the one that
  is kept, SUCCESS is final, an acknowledged message needs no further work;
* outbox: published means in Kafka, in Kafka means committed, and everything
  committed gets there;
* consume loop: no offset is committed past a message that was not dealt
  with, every pause ends, every message is settled, across rebalances;
* the whole path: a single failure or crash does not strand a job;
* job creation: replies name committed jobs, one key makes one job;
* GPU simulator: every queued item is in one batch of one flush task, every
  call returns, the concurrency limit neither leaks nor grows.

## Modules

| Module | Models |
|---|---|
| `JobLifecycle` | abstract: what a client that polls a job may see |
| `Delivery` | abstract: at-least-once delivery with counted, delayed retries |
| `JobStore` | the WHERE and SET clauses of the job repository as operators on one row, and the transition table |
| `WorkerService` | `WorkerService.handle_event` by many coroutines of many processes |
| `PipelineServices` | inference, downstream and unified handlers over one jobs table |
| `OutboxRelay` | outbox rows, inserting transactions, relays, Kafka's acceptance |
| `Runner` | the consume loops of the processes of one consumer group |
| `MorphFlow` | the path of a job through outbox, topics, roles, handlers, retries and dead letters |
| `JobService` | `create_job` over the Redis record of one idempotency key |
| `GpuSimulator` | concurrent calls of `process`, the batch queue and its flush task |
| `...Proofs` | TLAPS proofs about the module of that name |
| `MC*` | constants and symmetry for TLC |

`JobStore` is shared by `WorkerService` and `PipelineServices` through
EXTENDS; `MorphFlow` extends `PipelineServices` and calls its actions, and
`MorphFlowProofs` builds on `PipelineServicesProofs` in the same way.
`WorkerService` and `PipelineServices` instantiate `JobLifecycle`, `Runner`
instantiates `Delivery`, each with a refinement mapping. The definitions named
`Wrong_...` are plausible bugs; the entries under "mutants" in `PROJECT.json`
name the property that notices each of them.

### Correspondence to the code

*One action is one atomic effect.* A database transaction is one action: a
conditional UPDATE is atomic under PostgreSQL's row locks, and the rest of a
transaction becomes visible with its commit. Every transaction has up to three
outcomes: it commits (`Complete`), it raises without effect
(`ProcessRaises`, `MarkFailedError`), or it commits and raises all the same
because the reply is lost (`CompleteReplyLost`); control then goes where the
Python code sends it.

*Data.* A result or an error message is the number of the attempt that
produced it. Payloads, trace ids, metrics and log text are left out. In
`PipelineServices` the event log is a count per type, in `WorkerService` the
sequence itself, since a property is about its order.

*`WorkerService`.* `pc` follows `handle_event`: idle, refused (after the
rollback at line 52, before the second read at line 53), working (from line 75
to the result transaction), failing (the except block), dead. `lease[t]` is
the local `lease.epoch`. `Readings` is the set of values `datetime.now(UTC)`
can have when real time is `clock`. Deliveries are unrestricted, which covers
every order of redelivery.

*`PipelineServices`.* Inference tasks as above; `HandOver` is the unfenced
transaction that logs the inference and inserts the outbox row. A downstream
task takes any message inserted so far, any number of times. `lost` remembers
attempts whose worker disappeared. The tasks in `Unified` run `WorkerService`:
all modes read the request topic in one group (`roles.py`), so both handlers
meet on one row while the architecture is switched. A claim reads the exact
time here; the skew of the workers' clocks at `repositories.py` line 124 is the
subject of `WorkerService`. The properties of the run `pipeline` do not speak of
time, but those of `MorphFlow` weigh a lease against the backoffs of its
retries, so the run `morphflow` and the theorem `OneTroubleSurvived` rest on
synchronised clocks, the premise of
`docs/decisions/ADR-0009-db-lease-fencing-token.md` line 74.

*`OutboxRelay`.* `Insert` allocates an id, `CommitInsert` makes it visible, so
ids can become visible out of order. `txn[r]` says that the relay's
transaction is alive and holds its row locks; after `LoseConnection` the relay
goes on publishing until it uses the session again. `older` remembers which
smaller ids were committed when a row was.

*`Runner`.* `owner`, `position` and `paused` are the assignment and the state
of the client of a partition's owner; `phase`, `paused_until` and `co` are what
`run_worker` and its coroutines keep. `commit_offset` is the return value of
`_consume_partition` (0 for None), `retry_at` the header value computed before
a retry is published. `Poll` chooses how many messages of each unpaused
partition `getmany` returns. The result of `handle_event` is a free choice of
success, failure and exception, except for the ids in `poison`, on which it
always raises. `run_worker` installs no rebalance listener, so a rebalance
(`Assign`, `Rebalance`) changes only the client: positions go to the committed
offsets, nothing is paused, and the Python side finds out when `seek`,
`resume` or `commit` names a partition it no longer has, which raises and ends
the process. This behaviour of aiokafka is external; one consequence is that a
coroutine that outlives the loss and return of its partition may commit an
older offset than was committed before. `ImplementsDelivery` allows that (the
messages are delivered again), `NothingSkipped` shows that nothing is lost by
it. When one coroutine raises, `asyncio.gather` does not cancel the others: they
run on while the `finally` block closes the clients (lines 347-353). `Stop` ends
them with the process. What they do before the publisher is closed they could
also have done before the exception, which is an order the model has; after it
a call of `handle_event` may still succeed, but nothing can be published and
nobody commits an offset, so the message is delivered again. `HeaderAssumption` says what producers write: messages of the main topic
carry no retry headers, those of the retry topic name their role. A count in a
header is not trusted: whatever is at or above the limit goes to the
dead-letter topic, in `Runner` and in `Delivery`.

*`MorphFlow`.* A topic is a set of messages, of which any may be read next; a
coroutine holds one message from `Deliver` to `Settle`. `Settled` is
`_handle_message` after `handle_event` returned. What `Runner` and
`OutboxRelay` establish is used and not modelled again: a message stays until
it is dealt with, a committed row is published. The role and mode of every
task are constants; `RoleAssumption` ties them to `build_worker_role`.
`Troubles` counts what went wrong with a job: faults (crashes, errors and lost
replies of the database, lost offsets) and failed attempts. A fault can itself
make an attempt fail: when the reply to a hand-over is lost
(`pipeline_services.py` line 106), the except block follows and marks the job
FAILED (lines 110-135), and so it does when a read of the downstream service raises.
The two count as one trouble, so a single lost commit is never excused.

*`JobService`.* All requests carry the same key: requests with other keys use
other records. `Interrupted` covers exceptions of Redis and of the database
and the death of the API process, before and after the effect of the call in
progress. TTLs count down, so no clock has to be bounded.

External pieces (crashes, time, expiry of Redis keys, loss of a connection,
the client's retry) are marked as such in the map.

*`GpuSimulator`.* `pc` is where a call of `process` stands, `task` where a flush
task stands; a task is named by a number and `flush_task` is the one
`_batch_flush_task` refers to, dead or alive. Code between two awaits is one
action, so the lock needs no state. `Bad` are payloads on which
`_resolve_latency_ms` or `_build_result` raises (a `content` without a length,
for instance); `orphans` is a history variable, the items of batches whose
task died.

## Runs

| Run | Instance | Shows |
|---|---|---|
| `worker_service` | 2 coroutines of one process and 1 of another, 1 job, lease 3, skew 1, 3 claims, time to 5 | the seven properties of `WorkerService`, and `JobLifecycle` |
| `pipeline` | 2 inference coroutines, 1 unified, 2 downstream, 2 claims, 3 deliveries, 1 fault | no silent loss between the stages; SUCCESS is final and carries a committed result (the weak form of `JobLifecycle`) |
| `pipeline_retry` | 1 of each, 2 deliveries, no fault | **violation**: a successful downstream retry leaves the job FAILED |
| `pipeline_lease` | 2 inference workers, 1 downstream coroutine, no fault | **violation**: an unfenced FAILED write opens a live lease |
| `outbox` | 2 relays, 4 rows of which the third is never accepted, batch 2, 1 fault, fair | safety and order of the outbox; every committed row before the third is published |
| `runner` | 2 processes, 1 main partition (2 messages, the second may always raise), 1 retry partition (1 message of another role), 1 retry, batch 2, time to 1, 1 fault or rebalance, fair | `Delivery`, nothing skipped, pauses end, messages are settled |
| `morphflow` | an inference worker in mode C, a unified one in mode A, a downstream one, 1 job, 2 retries after 1 and 2, lease 2, 1 fault, fair | one trouble of any kind is survived; the job is finished, except when it failed after its hand-over and no request is left to repeat it |
| `morphflow_lease_held` | the same with lease 4 and time to 5 | **violation**: LEASE_HELD uses up the retries, the job of a crashed worker is never taken back |
| `job_service` | 3 requests, processing TTL 1, TTL 2, 1 fault, slow requests allowed, fair | safety of job creation; no permanent lock |
| `job_service_duplicate` | 2 requests, 1 fault, no slow request | **violation**: a second job within the key's validity |
| `job_service_concurrent` | 2 requests, no fault | **violation**: a concurrent repetition gets an error |
| `gpu_simulator` | 4 calls, 1 bad, batches of 2, concurrency 2, batching on and off, fair | no item lost or run twice, no permit lost, every call returns unless its batch died, the queue recovers |

Why the bounds are enough: a takeover of a takeover needs three claims; two
siblings and a stranger are all the relations two coroutines can have; lease 3
with skew 1 leaves times at which a lease is alive for every clock, for some
and for none. Two relays with a batch of two and four rows let batches
overlap, split and be refilled, and leave rows on both sides of the one that is
never accepted. One retry with two messages reaches the retry, the deferral
behind a message that is due, and the dead letter; two processes and one
rebalance reach a coroutine whose partition moved away, moved back, or stayed
while its position was reset. In `runner` a failure whose retry would be due
after `MaxClock` is not explored. In `morphflow` the troubles that count are
unlimited failures of handlers and one fault; `MaxEpoch` and `MaxDeliveries`
are larger than two retries and one repetition can use up. A processing TTL
smaller than the TTL keeps the two expiries apart. The clock, claim, delivery
and fault bounds are constants of the modules, named as bounds, and appear as
guards.

`CHECK_DEADLOCK FALSE` is set where the system may come to rest: all processes
dead (`WorkerService`), all rows published, all messages settled, all requests
answered, all calls returned. The idle polling of the real processes is
stuttering there.

Fairness. `outbox`: each relay's `_loop` keeps calling `drain_once`,
open transactions of a service end, a stopped process is restarted by its
supervisor. `runner`: the event loop runs every coroutine of the gather, the
loop commits and polls, a stopped process is restarted, the group deals out
what nobody owns, time passes; strong fairness for polling a given partition,
since `getmany` serves the partitions that have data in turn and an always
raising message in one of them must not starve the others. `morphflow`: relays
publish, a due message is read, a handler that has started returns, time
passes: what the other two runs establish. `job_service`: running requests
make progress, clients repeat what failed (as the API specification asks),
time passes. `gpu_simulator`: the event loop runs every coroutine that can
run; nobody has to call. Faults are never fair and their number is finite. A
row that Kafka refuses for ever and a message on which the handler always
raises are modelled, and the liveness properties say how far each of them
reaches: everything in front of it gets through.

### Disagreements with the documentation

The five violation runs are findings in `PROJECT.json`, each with the quoted
line. In short: the downstream stage ignores the outcome of its conditional
update and writes unfenced; a live lease is reported as a failure and uses up
the retries long before it expires (defaults: 1 + 2 + 4 s against 1800 s), so
nothing is left to take the job back; the reservation of a key lives shorter
than its promised validity and is visible before the job it names.

Met while modelling, without a run of their own:

* `README.md` line 134 of the repository says that stopping a batch at its
  first failure keeps the order of messages. It does so within one relay;
  `OvertakesOnlySkippedRows` states what holds with several: a row may overtake
  those that another relay had locked.
* `docs/architecture/runtime.md` line 122 still describes whole-batch commits,
  while `run_worker` commits the handled prefix of each partition, which is
  what `Runner` models.
* `docs/architecture/runtime.md` line 121 and `docs/architecture/data.md` line
  60 say that a publication that fails after the commit leaves the job PENDING.
  That was so before the outbox of ADR-0010; `risks-technical-debt.md` lists it
  as resolved (lines 67-69), and `EventuallyPublished` shows how far it is.
* For an unknown `worker_role`, `build_worker_role` logs a fallback to the
  unified role, but `resolve_worker_topic` gives such a worker the downstream
  topic; and a downstream role in modes A and B runs `WorkerService` on the
  downstream topic. Neither is part of a supported deployment;
  `build_worker_role` and `resolve_worker_topic` in `MorphFlow` show both.

`GpuSimulator` shows one behaviour no document speaks of: a payload that raises
inside a batch of several ends the flush task, the other callers of that batch
never get an answer, and queued items wait until another call starts a task.
`EventuallyReturns` states exactly how far this reaches.

## Proofs

The eight `...Proofs` modules are checked by TLAPS. Their theorems hold for any
sets of jobs, workers, coroutines, relays, requests, partitions and messages,
any batch sizes, leases, TTLs and backoffs, and any number of faults. They
cover every safety property that a passing run checks.

| Module | Theorems | State |
|---|---|---|
| `WorkerServiceProofs` | `TypeCorrect`, `LeaseExclusion`, `FencingTokensUnique`, `NewestResultKept`, `LogAgreement`, `AckSafety`, `SuccessFinality`, `LifecycleRefinement` | all safety properties of `WorkerService`, and that it implements `JobLifecycle` |
| `PipelineServicesProofs` | `PipelineTypeCorrect`, `NothingLostSilently`, `AcksAreSafe`, `ResultsAreCommitted`, `PipelineTokensUnique`, `WeakLifecycleRefinement` | the same for three handlers on one table, and the weak form of `JobLifecycle` |
| `MorphFlowProofs` | `MorphFlowTypeCorrect`, `ServicesAtWork`, `LivesAtWork`, `OneTroubleSurvived` | the services' properties where topics and retries drive them; one trouble strands no job |
| `OutboxRelayProofs` | `OutboxTypeCorrect`, `PublishedRowsAreAccepted`, `OnlyCommittedRowsAreSent`, `BatchesApart`, `OnceWithoutFaults`, `OrderIsKept` | published is accepted, accepted is committed, exactly once without faults, order |
| `RunnerProofs` | `RunnerTypeCorrect`, `LoopSkipsNothing`, `PausesEnd`, `NothingIsReadAgain`, `DeliveryRefinement` | nothing is skipped, and the loop implements `Delivery` |
| `JobServiceProofs` | `CreationTypeCorrect`, `RepliesAreCommitted`, `ReservationsKeepApart`, `OneJobPerKey` | replies name committed jobs, one job per key unless a request is interrupted or slow |
| `GpuSimulatorProofs` | `SimulatorTypeCorrect`, `OneFlushTask`, `NoPermitLost`, `CallersAreHeld`, `CallsFindAFlusher` | one flush task, no lost permit, no lost caller |
| `JobStoreProofs` | lemmas only | what the UPDATE statements and the transition table allow |

Each of the seven others also has the theorem that its inductive invariant
holds (`InductiveInvariant`, `PInvariance`, `MInvariance`, ...).

The assumptions are the ASSUMEs of the modules, which TLC evaluates on every
run: worker ids and the absent owner differ, every task has a worker, leases
and batch sizes are positive, bounds are naturals, calls and requests are
finitely many, a reservation's TTL is not longer than that of a completed
record, retry headers are as the producers write them. `OneTroubleSurvived`
has two hypotheses more, both about the deployment. `RolesRead`: no worker of
role downstream runs in mode A or B (see "Disagreements" above), where it
would hand downstream messages to `WorkerService`. `BackoffsOutlastLease`: the
sum of the backoffs is larger than the lease. The second is what the finding
`morphflow_lease_held` shows to be necessary, and what the defaults of the
repository violate; `InstanceAssumption` in `MCMorphFlow` shows that the
checked instance meets both.

Every inductive invariant was checked with TLC on the instance of its run
before it was proved.

### `WorkerService`

`LeaseExclusion` speaks of two holders and needs to know what each holder's row
looks like, which is what `IInv` adds:

* `LeaseHandedOut`: a holder's token is between 1 and the row's epoch;
* `NewestHolderOwns`: the holder of the newest token is the row's owner, and
  the row's expiry is no earlier than its claim time plus the lease, less the
  clock error; or it has recorded its success and does not know it, the case
  that the lost commit reply adds;
* `RobbedAfterExpiry`: whoever holds an older token was robbed after expiry;
* `ProcessingIsLeased`: a PROCESSING row has an expiry, so the
  `lease_expires_at IS NULL` branch of the takeover condition is not taken;
* the properties themselves.

The proof has one lemma per kind of step: a claim (`ClaimKeepsIInv`,
`ClaimReplyLostKeepsIInv`, both from `ClaimFacts`: after a claim all earlier
holders have older tokens and expired leases), a fenced write
(`RecordKeepsIInv`, from `OwnerIsNewest`: whoever passes the fence holds the
newest token), and the steps that write nothing (`NoWriteKeepsIInv`;
`FencedOutIsRobbed` justifies the acknowledgement of a fenced-out worker).

`LifecycleRefinement` maps a row to its status, epoch and result. From `IInv`,
a claim is a `Start` (only a row that is not SUCCESS is claimable), a fenced
success is a `Finish` with the latest attempt, a fenced failure is a `Fail`,
and every other step leaves the rows alone.

### `PipelineServices`

`PInv` adds that a downstream message names an attempt that was handed out and
that a downstream task has such a message (`MessagesAreIssued`); that the task
with the newest token owns a PROCESSING row, and finds a FAILED one only when a
downstream message failed it (`NewestHolderOwns`, the one way in which an
unfenced write reaches a fenced handler); and that a job that is not SUCCESS
was never completed by the fenced handler (`StatusHasHistory`), without which
the uniqueness of the completion event is not inductive. `NotOwning` draws the
consequence: a fenced-out task with the newest token was not robbed silently.

### `MorphFlow`

`MInv` adds to `PInv` that a message is with one coroutine, and `ErrorsKnown`
(in `PipelineServicesProofs`): the error of a row is that of an attempt that was
handed out, and nobody works on that attempt any more unless it has been handed
over. Since the composition makes a service take only its own steps
(`ServiceSteps`), the theorems on the services carry over. `ErrorsKept` follows
from `ErrorsKnown`: an attempt that has failed is not handed over afterwards.
That is what the count of troubles needs, which looks at the row's last error:
once it is above one, it stays there (`TroublesGrow`).

`OneTroubleSurvived` rests on `TInv`, in two layers. `Ground` holds whatever
happens: messages are known (requests were published, downstream messages stem
from a hand-over), coroutines hold the message they handle, a lease ends at
most one lease length from now, and a downstream message is given up only when
its job is finished, failed or claimed again, so a job that was handed over has
its message under way. On top of it, per job:

* `Untroubled`: while nothing went wrong with the request (`Quiet`: no fault,
  and no failure but one after the hand-over) it was delivered at most once,
  and its handler works on the job or is done with it;
* `CalmJob`: with at most one trouble the job still has one request message,
  whose handler has the newest token. While the row waits for a lease whose
  holder is gone, the delays that the message has behind it reach far enough
  (`Outlasts`): its due time plus the lease is at least the lease's expiry plus
  the sum of the backoffs so far. Each retry adds its backoff to both sides
  (`RetryOutlasts`), and a message that is refused on its last retry would have
  been due after the expiry (in `DeliverKeepsTInv`), since the backoffs add up
  to more than the lease. So the message is not dropped before the lease ends.

The step lemmas look at the coroutine that takes the step (`Sound`, `Fresh`,
`LocalCalm`) and show that other jobs are not concerned (`Unconcerned`).

### `OutboxRelay`

`OInv` adds the contents of a relay's batch at each point of `drain_once`
(`BatchesAreSound`), that without a fault whatever Kafka has is marked or on
the list of a relay that will mark it (`NothingIsForgotten`), and that the
older rows of a row in a batch are in Kafka, in the batch or locked elsewhere
(`OlderRowsAreKnown`): the order property says this only for rows already sent.

### `Runner`

`RInv` says of every place that remembers an offset (the committed offset, a
coroutine's cursor and commit offset, the client's position) that everything
behind it was dealt with, or is still in the hands of the owner's coroutine;
coroutines are covered also after their partition moved away. The sets `Safe`
and `Owed` only grow (`Grows`), whoever publishes. Before the first fault the
places agree (`InStep`), which `NothingIsReadAgain` needs.
`DeliveryRefinement` maps the consume loop to `Delivery`: a copy is open from
the moment it is in the log until it is behind the committed offset;
`CommitDelivers`, `SuccessDelivers` and `RepublishedDelivers` map the steps
that matter, all others stutter.

### `JobService`

`JInv` adds that the record lives as long as a fresh reservation
(`FreshIsHeld`), and for as long as nothing was interrupted or slow: the record
is the reservation of the one request that has it in hand, it lives as long as
the promise to the client, and a repetition never gets as far as a
reservation. `ReservationsAreFew` bounds the job ids by a cardinality argument.

### `GpuSimulator`

`GInv` adds that the queue has no repetition and holds only waiting callers,
that a batch's callers have left the queue, and that every waiting caller is in
one of the two. `PermitsConserved` counts sleepers against the semaphore.

### Only model-checked

Liveness (`EventuallyPublished`, `EventuallySettled`, `EventuallyDone`,
`EventuallyAccepted`, `EventuallyReturns`): fairness and ENABLED are beyond
this prover. The properties of the violation runs are refuted, not proved.

## Not modelled

Stateless processors, topic creation at start-up, HTTP routing, health checks,
start-up and shutdown wiring, telemetry, migrations, deployment. `renew_lease`
is implemented in the repository but called by no handler. `PROJECT.json`
gives the reason for each part.

## Plan

Done: `JobStore`, `WorkerService`, `PipelineServices`, `OutboxRelay`, `Runner`
with rebalancing, `JobService`, `GpuSimulator`, the composition `MorphFlow`, the
abstract specifications `JobLifecycle` and `Delivery`; all safety properties and
refinements proved.

Left, in this order:

1. `JobLifecycle` and `Delivery`: what the abstract specifications promise by
   themselves (a finished job stays finished, a message ends handled or
   buried), as theorems that carry over to what implements them.
2. `MorphFlow`: that more than one trouble is survived when the retries are
   long enough, a bound in terms of `RetryMax`; TLC should decide first which
   form holds.
3. `JobService`: the exact window in which an interrupted request permits a
   second job.
