---------------------------- MODULE GpuSimulator ----------------------------
(***************************************************************************)
(* GpuInferenceSimulator (app/adapters/processing/gpu_simulator.py): the   *)
(* processor behind the services.  Calls of process either run on their    *)
(* own under a semaphore or are collected into batches by a flush task     *)
(* that is started on demand.                                              *)
(*                                                                         *)
(* Everything runs on one event loop: code between two awaits is atomic,   *)
(* and so the asyncio.Lock, whose sections contain no await, is never      *)
(* contended and needs no state.  Bad items are payloads on which          *)
(* _resolve_latency_ms, _should_fail or _build_result raises.              *)
(***************************************************************************)
EXTENDS Naturals, SequencesExt

CONSTANTS
    Items,            \* calls of process
    Bad,
    MaxConcurrency,
    BatchSize

ASSUME ItemAssumption == IsFiniteSet(Items) /\ Bad \subseteq Items
ASSUME SizeAssumption == MaxConcurrency \in Nat \ {0} /\ BatchSize \in Nat \ {0}

\* Flush tasks: each is started by the call of some item.
Tasks == 1..Cardinality(Items)
NoTask == 0

VARIABLES
    batch_enabled,  \* configuration
    pc,             \* control point of each call
    future,         \* the future of a queued item
    queue,          \* _batch_queue
    event,          \* _batch_event is set
    flush_task,     \* _batch_flush_task
    task,           \* control point of each flush task
    batch,          \* the items a flush task runs
    permits,        \* value of the semaphore
    orphans         \* history: items of a batch whose task died

vars == <<batch_enabled, pc, future, queue, event, flush_task, task, batch,
          permits, orphans>>
batchVars == <<future, queue, event, flush_task, task, batch, orphans>>

Init ==
    /\ batch_enabled \in BOOLEAN
    /\ pc = [i \in Items |-> "idle"]
    /\ future = [i \in Items |-> "none"]
    /\ queue = <<>>
    /\ event = FALSE
    /\ flush_task = NoTask
    /\ task = [k \in Tasks |-> "unused"]
    /\ batch = [k \in Tasks |-> <<>>]
    /\ permits = MaxConcurrency
    /\ orphans = {}

Alive(k) == task[k] \in {"wait", "acquire", "sleep"}
Outcome == {"result", "exception"}

\* Wrong variant: the semaphore is not given back.
Wrong_LeakPermit == permits

\* Wrong variant: a permit too many is given back.
Wrong_TwoPermits == permits + 2

\* async with gives the semaphore back on every way out.
Released == permits + 1

-----------------------------------------------------------------------------
(* process without batching: _run_single in the caller.                    *)

Call(i) ==
    /\ ~batch_enabled
    /\ pc[i] = "idle"
    /\ pc' = [pc EXCEPT ![i] = "acquire"]
    /\ UNCHANGED <<batch_enabled, permits, batchVars>>

\* The semaphore is taken; the call sleeps, or a bad payload raises at once
\* and the semaphore is given back.
Acquire(i) ==
    /\ pc[i] = "acquire"
    /\ permits > 0
    /\ \/ pc' = [pc EXCEPT ![i] = "sleep"] /\ permits' = permits - 1
       \/ i \in Bad /\ pc' = [pc EXCEPT ![i] = "exception"] /\ UNCHANGED permits
    /\ UNCHANGED <<batch_enabled, batchVars>>

\* The sleep is over: a result, or an exception.
Finish(i) ==
    /\ pc[i] = "sleep"
    /\ \E o \in Outcome : /\ i \in Bad => o = "exception"
                          /\ pc' = [pc EXCEPT ![i] = o]
    /\ permits' = Released
    /\ UNCHANGED <<batch_enabled, batchVars>>

-----------------------------------------------------------------------------
(* process with batching.                                                  *)

\* Wrong variant: the task that died is taken for a running one.
Wrong_NoDoneCheck == flush_task = NoTask

\* Wrong variant: a flush task is started by every call.
Wrong_AlwaysStart == TRUE

\* No flush task, or one that has ended.
NeedsTask == ~\E k \in Tasks : flush_task = k /\ Alive(k)

\* Queue the item, start a flush task if none runs, wake it at BatchSize.
_enqueue_and_wait(i) ==
    /\ batch_enabled
    /\ pc[i] = "idle"
    /\ pc' = [pc EXCEPT ![i] = "await"]
    /\ future' = [future EXCEPT ![i] = "pending"]
    /\ queue' = Append(queue, i)
    /\ \/ /\ NeedsTask
          /\ \E k \in Tasks : /\ task[k] = "unused"
                              /\ \A l \in 1..(k - 1) : task[l] # "unused"
                              /\ task' = [task EXCEPT ![k] = "wait"]
                              /\ flush_task' = k
       \/ ~NeedsTask /\ UNCHANGED <<task, flush_task>>
    /\ event' = (event \/ Len(queue') >= BatchSize)
    /\ UNCHANGED <<batch_enabled, batch, permits, orphans>>

\* The future is resolved: the caller goes on with it.
Await(i) ==
    /\ pc[i] = "await"
    /\ future[i] # "pending"
    /\ pc' = [pc EXCEPT ![i] = future[i]]
    /\ UNCHANGED <<batch_enabled, permits, batchVars>>

\* Wrong variant: the whole queue is dropped when a batch is taken.
Wrong_Rest == <<>>

\* What stays in the queue when a batch is taken.
Rest == SubSeq(queue, BatchSize + 1, Len(queue))

\* The flush task wakes up, by the event or by the timeout, and takes a
\* batch.
TakeBatch(k) ==
    /\ task[k] = "wait"
    /\ queue # <<>>
    /\ batch' = [batch EXCEPT ![k] = SubSeq(queue, 1,
                    IF Len(queue) < BatchSize THEN Len(queue) ELSE BatchSize)]
    /\ queue' = Rest
    /\ event' = (Len(queue') >= BatchSize)
    /\ task' = [task EXCEPT ![k] = "acquire"]
    /\ UNCHANGED <<batch_enabled, pc, future, flush_task, permits, orphans>>

\* Nothing to do: the task retires.
Retire(k) ==
    /\ task[k] = "wait"
    /\ queue = <<>>
    /\ event' = FALSE
    /\ flush_task' = NoTask
    /\ task' = [task EXCEPT ![k] = "done"]
    /\ UNCHANGED <<batch_enabled, pc, future, queue, batch, permits, orphans>>

\* The futures of the items in S are resolved, to an exception for a bad
\* item and either way for the others.
Resolve(S) ==
    \E o \in [S -> Outcome] :
        /\ \A i \in S \cap Bad : o[i] = "exception"
        /\ future' = [i \in Items |-> IF i \in S THEN o[i] ELSE future[i]]

\* An exception leaves _run_batch and ends the flush task; flush_task still
\* refers to it, and the futures of the items in S stay as they are.
Die(k, S) ==
    /\ task' = [task EXCEPT ![k] = "done"]
    /\ batch' = [batch EXCEPT ![k] = <<>>]
    /\ orphans' = orphans \cup S

\* The batch takes the semaphore once and sleeps.  With several items a bad
\* payload may raise before the sleep.
BatchAcquire(k) ==
    /\ task[k] = "acquire"
    /\ permits > 0
    /\ \/ /\ permits' = permits - 1
          /\ task' = [task EXCEPT ![k] = "sleep"]
          /\ UNCHANGED <<batch, orphans>>
       \/ /\ Len(batch[k]) > 1
          /\ ToSet(batch[k]) \cap Bad # {}
          /\ Die(k, ToSet(batch[k]))
          /\ UNCHANGED permits
    /\ UNCHANGED <<batch_enabled, pc, future, queue, event, flush_task>>

\* Every item is resolved.  A batch of one reports what its payload raises
\* through the future; in a larger one the bad items must have met a
\* simulated failure, which comes before _build_result.
BatchFinish(k) ==
    /\ task[k] = "sleep"
    /\ Resolve(ToSet(batch[k]))
    /\ permits' = Released
    /\ task' = [task EXCEPT ![k] = "wait"]
    /\ batch' = [batch EXCEPT ![k] = <<>>]
    /\ UNCHANGED <<batch_enabled, pc, queue, event, flush_task, orphans>>

\* Finishing a larger batch raises at a bad item: the items before it are
\* resolved, the others are not.
BatchRaises(k) ==
    /\ task[k] = "sleep"
    /\ Len(batch[k]) > 1
    /\ \E n \in 1..Len(batch[k]) :
          /\ batch[k][n] \in Bad
          /\ Resolve(ToSet(SubSeq(batch[k], 1, n - 1)))
          /\ Die(k, ToSet(SubSeq(batch[k], n, Len(batch[k]))))
    /\ permits' = Released
    /\ UNCHANGED <<batch_enabled, pc, queue, event, flush_task>>

-----------------------------------------------------------------------------
Caller(i) == Acquire(i) \/ Finish(i) \/ Await(i)

Flusher(k) ==
    \/ TakeBatch(k) \/ Retire(k) \/ BatchAcquire(k)
    \/ BatchFinish(k) \/ BatchRaises(k)

Next ==
    \/ \E i \in Items : Call(i) \/ _enqueue_and_wait(i) \/ Caller(i)
    \/ \E k \in Tasks : Flusher(k)

Spec == Init /\ [][Next]_vars

\* The event loop runs whatever can run; nobody is obliged to call process.
FairSpec ==
    /\ Spec
    /\ \A i \in Items : WF_vars(Caller(i))
    /\ \A k \in Tasks : WF_vars(Flusher(k))

-----------------------------------------------------------------------------
(* Properties.                                                             *)

\* Every variable has its type.
TypeOK ==
    /\ batch_enabled \in BOOLEAN
    /\ pc \in [Items -> {"idle", "acquire", "sleep", "await"} \cup Outcome]
    /\ future \in [Items -> {"none", "pending"} \cup Outcome]
    /\ queue \in Seq(Items)
    /\ event \in BOOLEAN
    /\ flush_task \in Tasks \cup {NoTask}
    /\ task \in [Tasks -> {"unused", "wait", "acquire", "sleep", "done"}]
    /\ batch \in [Tasks -> Seq(Items)]
    /\ permits \in 0..MaxConcurrency
    /\ orphans \in SUBSET Items

\* Every caller that waits for a future is in exactly one place from which
\* it will be resolved, the queue or the batch of a live task, unless its
\* batch died: no interleaving of calls, wake-ups and retiring tasks loses
\* an item or puts it into two batches.
PendingIsHeld ==
    \A i \in Items : (pc[i] = "await" /\ future[i] = "pending" /\ i \notin orphans) =>
        Cardinality({n \in 1..Len(queue) : queue[n] = i})
          + Cardinality({k \in Tasks : Alive(k) /\ i \in ToSet(batch[k])}) = 1

\* At most one flush task is alive, and it is the one _batch_flush_task
\* names: two of them would run batches of one queue side by side.
OneFlusher == \A k \in Tasks : Alive(k) => flush_task = k

\* A call always leaves a live flush task behind, also when the last one died
\* with its batch: the queue is never handed to a task that has ended.
CallFindsFlusher ==
    [][\A i \in Items : (pc[i] = "idle" /\ pc'[i] = "await") =>
          \E k \in Tasks : Alive(k)']_vars

\* The semaphore loses no permit, even when a batch dies in the middle.
PermitsConserved ==
    permits + Cardinality({i \in Items : pc[i] = "sleep"})
            + Cardinality({k \in Tasks : task[k] = "sleep"}) = MaxConcurrency

\* The item is in the queue and no task is there to take it: what a task that
\* dies leaves behind, until the next call.
Stranded(i) == i \in ToSet(queue) /\ ~\E k \in Tasks : Alive(k)

\* Every call of process comes back, with a result or an exception, unless its
\* batch, or the task that was to take it, died on a bad item.  Once the bad
\* items are over, a queue with a live flush task is served to the last item,
\* the ones that were stranded behind a dead task included.
EventuallyReturns ==
    \A i \in Items :
        /\ pc[i] # "idle" ~> (pc[i] \in Outcome \/ i \in orphans \/ Stranded(i))
        /\ (/\ pc[i] = "await" /\ i \notin orphans
            /\ \A b \in Bad : pc[b] \in Outcome \/ b \in orphans
            /\ \E k \in Tasks : Alive(k))
               ~> pc[i] \in Outcome
=============================================================================
