------------------------- MODULE GpuSimulatorProofs -------------------------
(***************************************************************************)
(* Proofs about GpuSimulator for any finite set of calls, any set of bad   *)
(* payloads, any batch size and any number of permits.                     *)
(***************************************************************************)
EXTENDS GpuSimulator, FiniteSetTheorems, SequenceTheorems, TLAPS

\* A caller whose future nobody has resolved.
Waiting(i) == pc[i] = "await" /\ future[i] = "pending"

\* The queue holds each waiting caller at most once.
QueueIsSound ==
    /\ \A m \in 1..Len(queue) : Waiting(queue[m])
    /\ \A m, n \in 1..Len(queue) : queue[m] = queue[n] => m = n

\* The batch of a live task is of waiting callers that have left the queue; a
\* task that has not taken a batch, or has ended, has none.
BatchesAreSound ==
    \A k \in Tasks : /\ Alive(k) => \A i \in ToSet(batch[k]) :
                                        Waiting(i) /\ i \notin ToSet(queue)
                     /\ task[k] \notin {"acquire", "sleep"} => batch[k] = <<>>

\* A waiting caller is in the queue, in a batch of a live task, or an orphan.
WaitingIsHeld ==
    \A i \in Items : Waiting(i) /\ i \notin orphans =>
        i \in ToSet(queue) \/ \E k \in Tasks : Alive(k) /\ i \in ToSet(batch[k])

\* A caller that awaits its future has one.
FutureExists == \A i \in Items : pc[i] = "await" => future[i] # "none"

\* The inductive invariant.
GInv ==
    /\ TypeOK
    /\ PermitsConserved
    /\ OneFlusher
    /\ FutureExists
    /\ QueueIsSound
    /\ BatchesAreSound
    /\ WaitingIsHeld

-----------------------------------------------------------------------------
(* Lemmas about the operators.                                             *)

\* Those of S that sleep and thus hold a permit.
Asleep(S, control) == {x \in S : control[x] = "sleep"}

\* There are finitely many flush tasks.
LEMMA TasksFinite == IsFiniteSet(Tasks) /\ NoTask \notin Tasks
  <1>1. Cardinality(Items) \in Nat
    BY ItemAssumption, FS_CardinalityType
  <1>2. IsFiniteSet(1..Cardinality(Items))
    BY <1>1, FS_Interval
  <1>3. QED
    BY <1>1, <1>2 DEF Tasks, NoTask

\* How the number of sleepers follows one control point.
LEMMA AsleepCount ==
    ASSUME NEW S, IsFiniteSet(S), NEW f, NEW g, NEW x \in S, NEW c,
           g[x] = c, \A y \in S \ {x} : g[y] = f[y]
    PROVE  /\ Cardinality(Asleep(S, f)) \in Nat /\ Cardinality(Asleep(S, g)) \in Nat
           /\ f[x] # "sleep" /\ c = "sleep"
                 => Cardinality(Asleep(S, g)) = Cardinality(Asleep(S, f)) + 1
           /\ f[x] = "sleep" /\ c # "sleep"
                 => Cardinality(Asleep(S, g)) = Cardinality(Asleep(S, f)) - 1
           /\ f[x] # "sleep" /\ c # "sleep"
                 => Cardinality(Asleep(S, g)) = Cardinality(Asleep(S, f))
  <1> DEFINE A == Asleep(S, f)
             B == Asleep(S, g)
  <1>1. A \in SUBSET S /\ B \in SUBSET S
    BY DEF Asleep
  <1>2. IsFiniteSet(A) /\ IsFiniteSet(B)
    BY <1>1, FS_Subset
  <1>3. Cardinality(A) \in Nat /\ Cardinality(B) \in Nat
    BY <1>2, FS_CardinalityType
  <1>4. x \in A <=> f[x] = "sleep"
    BY DEF Asleep
  <1>5. c = "sleep" => B = A \cup {x}
    BY DEF Asleep
  <1>6. c # "sleep" => B = A \ {x}
    BY DEF Asleep
  <1> HIDE DEF A, B
  <1>7. Cardinality(A \cup {x}) = IF x \in A THEN Cardinality(A) ELSE Cardinality(A) + 1
    BY <1>2, FS_AddElement
  <1>8. Cardinality(A \ {x}) = IF x \in A THEN Cardinality(A) - 1 ELSE Cardinality(A)
    BY <1>2, FS_RemoveElement
  <1>9. QED
    BY <1>3, <1>4, <1>5, <1>6, <1>7, <1>8 DEF A, B

\* Nothing but x changes its control point.
OnlyMoves(S, x, f, g) == \A y \in S \ {x} : g[y] = f[y]

\* What holds of the semaphore when one control point enters or leaves the
\* sleep, or does neither: p and q are its value before and after.
SemaphoreStep(before, after, p, q) ==
    \/ before # "sleep" /\ after # "sleep" /\ q = p
    \/ before # "sleep" /\ after = "sleep" /\ p > 0 /\ q = p - 1
    \/ before = "sleep" /\ after # "sleep" /\ q = p + 1

\* The permits that are free or held by those of S.
PermitsAmong(S, control, p) == p + Cardinality(Asleep(S, control))

\* Such a step keeps the sum of the permits and the sleepers.
LEMMA SumKept ==
    ASSUME NEW S, IsFiniteSet(S), NEW f, NEW g, NEW x \in S,
           OnlyMoves(S, x, f, g),
           NEW p, p \in Nat, NEW q, SemaphoreStep(f[x], g[x], p, q)
    PROVE  /\ q \in Nat
           /\ PermitsAmong(S, g, q) = PermitsAmong(S, f, p)
  <1> DEFINE c == g[x]
  <1>1. /\ Cardinality(Asleep(S, f)) \in Nat /\ Cardinality(Asleep(S, g)) \in Nat
        /\ f[x] # "sleep" /\ c = "sleep"
              => Cardinality(Asleep(S, g)) = Cardinality(Asleep(S, f)) + 1
        /\ f[x] = "sleep" /\ c # "sleep"
              => Cardinality(Asleep(S, g)) = Cardinality(Asleep(S, f)) - 1
        /\ f[x] # "sleep" /\ c # "sleep"
              => Cardinality(Asleep(S, g)) = Cardinality(Asleep(S, f))
    <2>1. Cardinality(Asleep(S, f)) \in Nat
      BY AsleepCount DEF OnlyMoves
    <2>2. Cardinality(Asleep(S, g)) \in Nat
      BY AsleepCount DEF OnlyMoves
    <2>3. f[x] # "sleep" /\ c = "sleep"
              => Cardinality(Asleep(S, g)) = Cardinality(Asleep(S, f)) + 1
      BY AsleepCount DEF OnlyMoves
    <2>4. f[x] = "sleep" /\ c # "sleep"
              => Cardinality(Asleep(S, g)) = Cardinality(Asleep(S, f)) - 1
      BY AsleepCount DEF OnlyMoves
    <2>5. f[x] # "sleep" /\ c # "sleep"
              => Cardinality(Asleep(S, g)) = Cardinality(Asleep(S, f))
      BY AsleepCount DEF OnlyMoves
    <2>6. QED
      BY <2>1, <2>2, <2>3, <2>4, <2>5
  <1>2. QED
    BY <1>1 DEF SemaphoreStep, PermitsAmong

\* The sleeping callers and tasks can be counted.
LEMMA SleepersCounted ==
    /\ IsFiniteSet(Items) /\ IsFiniteSet(Tasks)
    /\ \A f : /\ Cardinality(Asleep(Items, f)) \in Nat
              /\ Cardinality(Asleep(Tasks, f)) \in Nat
  <1>1. ASSUME NEW f, NEW S, IsFiniteSet(S)  PROVE Cardinality(Asleep(S, f)) \in Nat
    <2>1. Asleep(S, f) \in SUBSET S
      BY DEF Asleep
    <2>2. IsFiniteSet(Asleep(S, f))
      BY <1>1, <2>1, FS_Subset
    <2>3. QED
      BY <2>2, FS_CardinalityType
  <1>2. IsFiniteSet(Items) /\ IsFiniteSet(Tasks)
    BY ItemAssumption, TasksFinite
  <1>3. QED
    BY <1>1, <1>2

\* A caller's step and the semaphore.
LEMMA CallerPermits ==
    ASSUME TypeOK, PermitsConserved, NEW i \in Items,
           OnlyMoves(Items, i, pc, pc'), task' = task,
           SemaphoreStep(pc[i], pc'[i], permits, permits')
    PROVE  PermitsConserved' /\ permits' \in 0..MaxConcurrency
  <1>1. permits \in Nat
    BY SizeAssumption DEF TypeOK
  <1>2. IsFiniteSet(Items)
    BY SleepersCounted
  <1>3. /\ permits' \in Nat
        /\ permits' + Cardinality(Asleep(Items, pc')) = permits + Cardinality(Asleep(Items, pc))
    <2>1. permits' \in Nat
      BY <1>1, <1>2, SumKept
    <2>2. PermitsAmong(Items, pc', permits') = PermitsAmong(Items, pc, permits)
      BY <1>1, <1>2, SumKept
    <2>3. QED
      BY <2>1, <2>2 DEF PermitsAmong
  <1>4. permits + Cardinality(Asleep(Items, pc)) + Cardinality(Asleep(Tasks, task))
          = MaxConcurrency
    BY DEF PermitsConserved, Asleep
  <1>5. /\ Cardinality(Asleep(Items, pc)) \in Nat /\ Cardinality(Asleep(Items, pc')) \in Nat
        /\ Cardinality(Asleep(Tasks, task)) \in Nat
    BY SleepersCounted
  <1>6. permits' + Cardinality(Asleep(Items, pc')) + Cardinality(Asleep(Tasks, task))
          = MaxConcurrency
    BY <1>1, <1>3, <1>4, <1>5
  <1>7. permits' \in 0..MaxConcurrency
    BY <1>3, <1>5, <1>6, SizeAssumption
  <1>8. QED
    BY <1>6, <1>7 DEF PermitsConserved, Asleep

\* A flush task's step and the semaphore.
LEMMA FlusherPermits ==
    ASSUME TypeOK, PermitsConserved, NEW k \in Tasks,
           OnlyMoves(Tasks, k, task, task'), pc' = pc,
           SemaphoreStep(task[k], task'[k], permits, permits')
    PROVE  PermitsConserved' /\ permits' \in 0..MaxConcurrency
  <1>1. permits \in Nat
    BY SizeAssumption DEF TypeOK
  <1>2. IsFiniteSet(Tasks)
    BY SleepersCounted
  <1>3. /\ permits' \in Nat
        /\ permits' + Cardinality(Asleep(Tasks, task')) = permits + Cardinality(Asleep(Tasks, task))
    <2>1. permits' \in Nat
      BY <1>1, <1>2, SumKept
    <2>2. PermitsAmong(Tasks, task', permits') = PermitsAmong(Tasks, task, permits)
      BY <1>1, <1>2, SumKept
    <2>3. QED
      BY <2>1, <2>2 DEF PermitsAmong
  <1>4. permits + Cardinality(Asleep(Items, pc)) + Cardinality(Asleep(Tasks, task))
          = MaxConcurrency
    BY DEF PermitsConserved, Asleep
  <1>5. /\ Cardinality(Asleep(Tasks, task)) \in Nat /\ Cardinality(Asleep(Tasks, task')) \in Nat
        /\ Cardinality(Asleep(Items, pc)) \in Nat
    BY SleepersCounted
  <1>6. permits' + Cardinality(Asleep(Items, pc)) + Cardinality(Asleep(Tasks, task'))
          = MaxConcurrency
    BY <1>1, <1>3, <1>4, <1>5
  <1>7. permits' \in 0..MaxConcurrency
    BY <1>3, <1>5, <1>6, SizeAssumption
  <1>8. QED
    BY <1>6, <1>7 DEF PermitsConserved, Asleep

\* The elements of a sequence of calls.
LEMMA Elements ==
    ASSUME NEW s \in Seq(Items)
    PROVE  /\ ToSet(s) = {s[n] : n \in 1..Len(s)}
           /\ ToSet(s) \in SUBSET Items
           /\ \A n \in 1..Len(s) : s[n] \in Items
           /\ Len(s) \in Nat
  BY DEF ToSet

-----------------------------------------------------------------------------
(* GInv is inductive.                                                      *)

\* A simulator that has been called by nobody satisfies the invariant.
LEMMA InitGInv == Init => GInv
  <1> SUFFICES ASSUME Init PROVE GInv
    OBVIOUS
  <1>1. TypeOK
    <2>1. queue \in Seq(Items) /\ batch \in [Tasks -> Seq(Items)]
      BY DEF Init
    <2>2. permits \in 0..MaxConcurrency
      BY SizeAssumption DEF Init
    <2>3. QED
      BY <2>1, <2>2 DEF Init, TypeOK
  <1>2. PermitsConserved
    <2>1. {i \in Items : pc[i] = "sleep"} = {} /\ {k \in Tasks : task[k] = "sleep"} = {}
      BY DEF Init
    <2>2. Cardinality({}) = 0
      BY FS_EmptySet
    <2>3. QED
      <3>1. permits = MaxConcurrency /\ permits + 0 + 0 = permits
        BY SizeAssumption DEF Init
      <3>2. QED
        BY <2>1, <2>2, <3>1 DEF PermitsConserved
  <1>3. OneFlusher /\ FutureExists
    BY DEF Init, OneFlusher, FutureExists, Alive
  <1>4. QueueIsSound /\ BatchesAreSound /\ WaitingIsHeld
    BY DEF Init, QueueIsSound, BatchesAreSound, WaitingIsHeld, Waiting, Alive
  <1>5. QED
    BY <1>1, <1>2, <1>3, <1>4 DEF GInv

\* A step that leaves the queue, the tasks and the waiting callers alone.
LEMMA HoldersKept ==
    ASSUME GInv, TypeOK', UNCHANGED batchVars, \A j \in Items : Waiting(j)' <=> Waiting(j)
    PROVE  OneFlusher' /\ QueueIsSound' /\ BatchesAreSound' /\ WaitingIsHeld'
  <1> USE DEF GInv, batchVars
  <1>1. queue \in Seq(Items) /\ batch \in [Tasks -> Seq(Items)]
    BY DEF TypeOK
  <1>2. OneFlusher'
    BY DEF OneFlusher, Alive
  <1>3. QueueIsSound'
    <2>1. \A m \in 1..Len(queue) : Waiting(queue[m])'
      BY <1>1, Elements DEF QueueIsSound
    <2>2. QED
      BY <2>1 DEF QueueIsSound, Waiting
  <1>4. BatchesAreSound'
    <2>1. \A k \in Tasks : ToSet(batch[k]) \in SUBSET Items
      BY <1>1, Elements
    <2>2. QED
      BY <2>1 DEF BatchesAreSound, Alive
  <1>5. WaitingIsHeld'
    BY DEF WaitingIsHeld, Alive
  <1>6. QED
    BY <1>2, <1>3, <1>4, <1>5

\* The steps of a call that do not touch the queue.
LEMMA LocalKeepsGInv ==
    ASSUME GInv, NEW i \in Items, Call(i) \/ Caller(i)
    PROVE  GInv'
  <1> USE DEF GInv
  <1>1. /\ UNCHANGED <<batch_enabled, batchVars>>
        /\ \E c \in {"acquire", "sleep"} \cup Outcome :
              /\ pc' = [pc EXCEPT ![i] = c]
              /\ SemaphoreStep(pc[i], c, permits, permits')
        /\ Waiting(i) => FALSE
    <2>1. CASE Call(i)
      <3>1. pc' = [pc EXCEPT ![i] = "acquire"] /\ SemaphoreStep(pc[i], "acquire", permits, permits')
        BY <2>1 DEF Call, SemaphoreStep
      <3>2. QED
        BY <2>1, <3>1 DEF Call, Waiting
    <2>2. CASE Acquire(i)
      BY <2>2 DEF Acquire, SemaphoreStep, Waiting, Outcome
    <2>3. CASE Finish(i)
      BY <2>3 DEF Finish, SemaphoreStep, Waiting, Outcome, Released
    <2>4. CASE Await(i)
      <3>1. future[i] \in Outcome
        BY <2>4 DEF Await, FutureExists, TypeOK
      <3>2. QED
        BY <2>4, <3>1 DEF Await, SemaphoreStep, Waiting, Outcome
    <2>5. QED
      BY <2>1, <2>2, <2>3, <2>4 DEF Caller
  <1>2. PICK c \in {"acquire", "sleep"} \cup Outcome :
              /\ pc' = [pc EXCEPT ![i] = c]
              /\ SemaphoreStep(pc[i], c, permits, permits')
    BY <1>1
  <1>3. pc'[i] = c /\ OnlyMoves(Items, i, pc, pc') /\ task' = task
    BY <1>1, <1>2 DEF TypeOK, OnlyMoves, batchVars
  <1>4. PermitsConserved' /\ permits' \in 0..MaxConcurrency
    <2>1. SemaphoreStep(pc[i], pc'[i], permits, permits')
      BY <1>2, <1>3
    <2>2. QED
      BY <1>3, <2>1, CallerPermits
  <1>5. TypeOK'
    BY <1>1, <1>2, <1>4 DEF TypeOK, batchVars
  <1>6. c # "await"
    BY DEF Outcome
  <1>7. \A j \in Items : Waiting(j)' <=> Waiting(j)
    BY <1>1, <1>3, <1>6 DEF Waiting, OnlyMoves, batchVars
  <1>8. FutureExists'
    BY <1>1, <1>3, <1>6 DEF FutureExists, OnlyMoves, batchVars
  <1>9. OneFlusher' /\ QueueIsSound' /\ BatchesAreSound' /\ WaitingIsHeld'
    BY <1>1, <1>5, <1>7, HoldersKept
  <1>10. QED
    BY <1>4, <1>5, <1>8, <1>9

\* process with batching: the call was idle, so it is in no batch and not in
\* the queue yet, and a task is started only when none is alive.
LEMMA EnqueueKeepsGInv ==
    ASSUME GInv, NEW i \in Items, _enqueue_and_wait(i)
    PROVE  GInv'
  <1> USE DEF GInv
  <1>1. /\ pc[i] = "idle" /\ pc' = [pc EXCEPT ![i] = "await"]
        /\ future' = [future EXCEPT ![i] = "pending"] /\ queue' = Append(queue, i)
        /\ UNCHANGED <<batch_enabled, batch, permits, orphans>>
    BY DEF _enqueue_and_wait
  <1>2. /\ queue \in Seq(Items) /\ batch \in [Tasks -> Seq(Items)]
        /\ pc'[i] = "await" /\ future'[i] = "pending"
        /\ \A j \in Items \ {i} : pc'[j] = pc[j] /\ future'[j] = future[j]
    BY <1>1 DEF TypeOK
  <1>3. /\ queue' \in Seq(Items) /\ Len(queue) \in Nat /\ Len(queue') = Len(queue) + 1
        /\ \A m \in 1..Len(queue) : queue'[m] = queue[m] /\ queue[m] \in Items
        /\ queue'[Len(queue) + 1] = i
    BY <1>1, <1>2
  <1>4. ToSet(queue') = ToSet(queue) \cup {i}
    <2>1. /\ ToSet(queue) = {queue[n] : n \in 1..Len(queue)}
          /\ ToSet(queue') = {queue'[n] : n \in 1..Len(queue')}
      BY <1>2, <1>3, Elements
    <2>2. 1..Len(queue') = (1..Len(queue)) \cup {Len(queue) + 1}
      BY <1>3
    <2>3. QED
      BY <1>3, <2>1, <2>2
  <1>5. \A j \in Items : Waiting(j)' <=> Waiting(j) \/ j = i
    BY <1>2 DEF Waiting
  <1>6. ~Waiting(i)
    BY <1>1 DEF Waiting
  <1>7. /\ \A k \in Tasks : Alive(k) => Alive(k)'
        /\ \A k \in Tasks : Alive(k)' => Alive(k) \/ batch[k] = <<>>
        /\ \A k \in Tasks : task[k] \in {"acquire", "sleep"} => task'[k] = task[k]
        /\ \A k \in Tasks : task'[k] = "sleep" <=> task[k] = "sleep"
        /\ task' \in [Tasks -> {"unused", "wait", "acquire", "sleep", "done"}]
        /\ flush_task' \in Tasks \cup {NoTask}
        /\ OneFlusher'
    <2>1. CASE NeedsTask
      <3>1. PICK k \in Tasks : task[k] = "unused" /\ task' = [task EXCEPT ![k] = "wait"]
                               /\ flush_task' = k
        BY <2>1 DEF _enqueue_and_wait
      <3>2. \A l \in Tasks : ~Alive(l)
        BY <2>1 DEF NeedsTask, OneFlusher
      <3>3. batch[k] = <<>>
        BY <3>1 DEF BatchesAreSound
      <3>4. task'[k] = "wait" /\ \A l \in Tasks \ {k} : task'[l] = task[l]
        BY <3>1 DEF TypeOK
      <3>5. OneFlusher'
        BY <3>1, <3>2, <3>4 DEF OneFlusher, Alive
      <3>6. task' \in [Tasks -> {"unused", "wait", "acquire", "sleep", "done"}]
        BY <3>1 DEF TypeOK
      <3>7. QED
        BY <3>1, <3>2, <3>3, <3>4, <3>5, <3>6 DEF Alive
    <2>2. CASE ~NeedsTask
      <3>1. task' = task /\ flush_task' = flush_task
        BY <2>2 DEF _enqueue_and_wait
      <3>2. QED
        BY <3>1 DEF TypeOK, OneFlusher, Alive
    <2>3. QED
      BY <2>1, <2>2
  <1>8. TypeOK'
    <2>1. event' \in BOOLEAN
      BY DEF _enqueue_and_wait, TypeOK
    <2>2. pc' \in [Items -> {"idle", "acquire", "sleep", "await"} \cup Outcome]
          /\ future' \in [Items -> {"none", "pending"} \cup Outcome]
      BY <1>1 DEF TypeOK
    <2>3. QED
      BY <1>1, <1>3, <1>7, <2>1, <2>2 DEF TypeOK
  <1>9. PermitsConserved'
    <2>1. /\ {j \in Items : pc'[j] = "sleep"} = {j \in Items : pc[j] = "sleep"}
          /\ {k \in Tasks : task'[k] = "sleep"} = {k \in Tasks : task[k] = "sleep"}
      BY <1>1, <1>2, <1>7
    <2>2. QED
      BY <1>1, <2>1 DEF PermitsConserved
  <1>10. FutureExists'
    BY <1>2 DEF FutureExists
  <1>11. QueueIsSound'
    <2>1. \A m \in 1..Len(queue) : queue'[m] # i
      BY <1>3, <1>6 DEF QueueIsSound
    <2>2. \A m \in 1..Len(queue') : m \in 1..Len(queue) \/ m = Len(queue) + 1
      BY <1>3
    <2>3. ASSUME NEW m \in 1..Len(queue')
          PROVE  pc'[queue'[m]] = "await" /\ future'[queue'[m]] = "pending"
      <3>1. CASE m \in 1..Len(queue)
        <4>1. queue'[m] \in Items \ {i} /\ Waiting(queue'[m])
          BY <1>3, <2>1, <3>1 DEF QueueIsSound
        <4>2. QED
          BY <1>2, <4>1 DEF Waiting
      <3>2. CASE m = Len(queue) + 1
        BY <1>2, <1>3, <3>2
      <3>3. QED
        BY <2>2, <3>1, <3>2
    <2>4. ASSUME NEW m \in 1..Len(queue'), NEW n \in 1..Len(queue'), queue'[m] = queue'[n]
          PROVE  m = n
      BY <1>3, <2>1, <2>2, <2>4 DEF QueueIsSound
    <2>5. QED
      BY <2>3, <2>4 DEF QueueIsSound, Waiting
  <1>12. BatchesAreSound'
    <2> SUFFICES ASSUME NEW k \in Tasks
                 PROVE  /\ Alive(k)' => \A j \in ToSet(batch[k]) :
                                           Waiting(j)' /\ j \notin ToSet(queue')
                        /\ task'[k] \notin {"acquire", "sleep"} => batch[k] = <<>>
      BY <1>1 DEF BatchesAreSound, Waiting, Alive
    <2>1. task'[k] \notin {"acquire", "sleep"} => batch[k] = <<>>
      BY <1>7 DEF BatchesAreSound
    <2>2. ASSUME Alive(k)', NEW j \in ToSet(batch[k])
          PROVE  Waiting(j)' /\ j \notin ToSet(queue')
      <3>1. j \in Items /\ batch[k] # <<>>
        BY <1>2, Elements DEF ToSet
      <3>2. Alive(k)
        BY <1>7, <2>2, <3>1
      <3>3. QED
        BY <1>4, <1>5, <1>6, <3>1, <3>2 DEF BatchesAreSound
    <2>3. QED
      BY <2>1, <2>2
  <1>13. WaitingIsHeld'
    BY <1>1, <1>4, <1>5, <1>7 DEF WaitingIsHeld
  <1>14. QED
    BY <1>7, <1>8, <1>9, <1>10, <1>11, <1>12, <1>13

\* A sequence of calls cut after n elements.
LEMMA Cut ==
    ASSUME NEW s \in Seq(Items), NEW n \in 0..Len(s)
    PROVE  /\ SubSeq(s, 1, n) \in Seq(Items)
           /\ SubSeq(s, n + 1, Len(s)) \in Seq(Items)
           /\ Len(SubSeq(s, n + 1, Len(s))) = Len(s) - n
           /\ \A m \in 1..(Len(s) - n) : SubSeq(s, n + 1, Len(s))[m] = s[m + n]
           /\ ToSet(s) = ToSet(SubSeq(s, 1, n)) \cup ToSet(SubSeq(s, n + 1, Len(s)))
           /\ (\A l, m \in 1..Len(s) : s[l] = s[m] => l = m)
                => ToSet(SubSeq(s, 1, n)) \cap ToSet(SubSeq(s, n + 1, Len(s))) = {}
  <1> DEFINE a == SubSeq(s, 1, n)
             b == SubSeq(s, n + 1, Len(s))
  <1>1. /\ Len(s) \in Nat /\ n \in Nat /\ n <= Len(s) /\ n + 1 \in Int
        /\ \A i \in 1..Len(s) : s[i] \in Items
    BY Elements
  <1>2. \A i \in 1..n : s[i] \in Items
    BY <1>1
  <1>3. \A i \in (n + 1)..Len(s) : s[i] \in Items
    BY <1>1
  <1>4. /\ a \in Seq(Items) /\ Len(a) = n
        /\ \A i \in 1..n : a[i] = s[i]
    <2>1. /\ a \in Seq(Items)
          /\ Len(a) = IF 1 <= n THEN n - 1 + 1 ELSE 0
          /\ \A i \in 1..(n - 1 + 1) : a[i] = s[1 + i - 1]
      BY <1>1, <1>2, SubSeqProperties
    <2> HIDE DEF a
    <2>2. QED
      BY <1>1, <2>1
  <1>5. /\ b \in Seq(Items) /\ Len(b) = Len(s) - n
        /\ \A i \in 1..(Len(s) - n) : b[i] = s[i + n]
    <2>1. /\ b \in Seq(Items)
          /\ Len(b) = IF n + 1 <= Len(s) THEN Len(s) - (n + 1) + 1 ELSE 0
          /\ \A i \in 1..(Len(s) - (n + 1) + 1) : b[i] = s[n + 1 + i - 1]
      BY <1>1, <1>3, SubSeqProperties
    <2> HIDE DEF b
    <2>2. QED
      BY <1>1, <2>1
  <1> HIDE DEF a, b
  <1>6. /\ ToSet(s) = {s[i] : i \in 1..Len(s)}
        /\ ToSet(a) = {a[i] : i \in 1..Len(a)}
        /\ ToSet(b) = {b[i] : i \in 1..Len(b)}
    BY <1>4, <1>5, Elements
  <1>7. ToSet(a) = {s[i] : i \in 1..n}
    BY <1>4, <1>6
  <1>8. ToSet(b) = {s[i] : i \in (n + 1)..Len(s)}
    <2>1. \A x \in ToSet(b) : x \in {s[i] : i \in (n + 1)..Len(s)}
      <3> TAKE x \in ToSet(b)
      <3>1. PICK i \in 1..Len(b) : x = b[i]
        BY <1>6
      <3>2. x = s[i + n] /\ i + n \in (n + 1)..Len(s)
        BY <1>1, <1>5, <3>1
      <3>3. QED
        BY <3>2
    <2>2. ASSUME NEW i \in (n + 1)..Len(s)  PROVE s[i] \in ToSet(b)
      <3>1. i - n \in 1..Len(b) /\ (i - n) + n = i
        BY <1>1, <1>5
      <3>2. b[i - n] = s[i]
        BY <1>5, <3>1
      <3>3. QED
        BY <1>6, <3>1, <3>2
    <2>3. QED
      BY <2>1, <2>2
  <1>9. ToSet(s) = ToSet(a) \cup ToSet(b)
    <2>1. 1..Len(s) = (1..n) \cup ((n + 1)..Len(s))
      BY <1>1
    <2>2. QED
      BY <1>6, <1>7, <1>8, <2>1
  <1>10. (\A l, m \in 1..Len(s) : s[l] = s[m] => l = m) => ToSet(a) \cap ToSet(b) = {}
    <2> SUFFICES ASSUME \A l, m \in 1..Len(s) : s[l] = s[m] => l = m,
                        NEW x \in ToSet(a) \cap ToSet(b)
                 PROVE  FALSE
      OBVIOUS
    <2>1. PICK l \in 1..n : x = s[l]
      BY <1>7
    <2>2. PICK m \in (n + 1)..Len(s) : x = s[m]
      BY <1>8
    <2>3. l \in 1..Len(s) /\ m \in 1..Len(s) /\ l # m
      BY <1>1
    <2>4. QED
      BY <2>1, <2>2, <2>3
  <1>11. QED
    BY <1>4, <1>5, <1>9, <1>10 DEF a, b

\* The flush task takes a batch off the front of the queue.
LEMMA TakeKeepsGInv ==
    ASSUME GInv, NEW k \in Tasks, TakeBatch(k)
    PROVE  GInv'
  <1> USE DEF GInv
  <1> DEFINE n == IF Len(queue) < BatchSize THEN Len(queue) ELSE BatchSize
             a == SubSeq(queue, 1, n)
  <1>1. /\ task[k] = "wait" /\ task' = [task EXCEPT ![k] = "acquire"]
        /\ batch' = [batch EXCEPT ![k] = a] /\ queue' = Rest
        /\ UNCHANGED <<batch_enabled, pc, future, flush_task, permits, orphans>>
    BY DEF TakeBatch
  <1>2. /\ queue \in Seq(Items) /\ batch \in [Tasks -> Seq(Items)] /\ Len(queue) \in Nat
        /\ BatchSize \in Nat
    BY SizeAssumption, Elements DEF TypeOK
  <1>3. n \in 0..Len(queue)
    BY <1>2
  <1>4. Rest = SubSeq(queue, n + 1, Len(queue))
    <2>1. CASE Len(queue) < BatchSize
      <3>1. n = Len(queue) /\ Len(queue) < n + 1 /\ Len(queue) < BatchSize + 1
            /\ n + 1 \in Int /\ BatchSize + 1 \in Int /\ Len(queue) \in Int
        BY <1>2, <2>1
      <3>2. Rest = <<>>
        BY <3>1, SubSeqEmpty DEF Rest
      <3>3. SubSeq(queue, n + 1, Len(queue)) = <<>>
        BY <3>1, SubSeqEmpty
      <3>4. QED
        BY <3>2, <3>3
    <2>2. CASE ~(Len(queue) < BatchSize)
      BY <2>2 DEF Rest
    <2>3. QED
      BY <2>1, <2>2
  <1> HIDE DEF n
  <1>5. /\ a \in Seq(Items) /\ queue' \in Seq(Items) /\ Len(queue') = Len(queue) - n
        /\ \A m \in 1..(Len(queue) - n) : queue'[m] = queue[m + n]
        /\ ToSet(queue) = ToSet(a) \cup ToSet(queue')
        /\ ToSet(a) \cap ToSet(queue') = {}
    <2>1. \A l, m \in 1..Len(queue) : queue[l] = queue[m] => l = m
      BY DEF QueueIsSound
    <2>2. QED
      BY <1>1, <1>2, <1>3, <1>4, <2>1, Cut
  <1> HIDE DEF a
  <1>6. /\ batch'[k] = a /\ task'[k] = "acquire"
        /\ \A l \in Tasks \ {k} : task'[l] = task[l] /\ batch'[l] = batch[l] /\ ~Alive(l)
    BY <1>1, <1>2 DEF TypeOK, OneFlusher, Alive
  <1>7. PermitsConserved' /\ permits' \in 0..MaxConcurrency
    <2>1. OnlyMoves(Tasks, k, task, task') /\ SemaphoreStep(task[k], task'[k], permits, permits')
      BY <1>1, <1>6 DEF OnlyMoves, SemaphoreStep
    <2>2. QED
      BY <1>1, <2>1, FlusherPermits
  <1>8. TypeOK'
    <2>1. event' \in BOOLEAN
      BY DEF TakeBatch
    <2>2. QED
      BY <1>1, <1>5, <1>7, <2>1 DEF TypeOK
  <1>9. OneFlusher' /\ FutureExists'
    BY <1>1, <1>6 DEF OneFlusher, FutureExists, Alive
  <1>10. \A j \in Items : Waiting(j)' <=> Waiting(j)
    BY <1>1 DEF Waiting
  <1>11. ToSet(queue) \in SUBSET Items /\ \A j \in ToSet(queue) : Waiting(j)
    <2>1. ToSet(queue) = {queue[m] : m \in 1..Len(queue)} /\ ToSet(queue) \in SUBSET Items
      BY <1>2, Elements
    <2>2. QED
      BY <2>1 DEF QueueIsSound
  <1>12. QueueIsSound'
    <2>1. \A m \in 1..Len(queue') : m + n \in 1..Len(queue) /\ queue'[m] = queue[m + n]
      BY <1>2, <1>3, <1>5
    <2>2. \A m \in 1..Len(queue') : pc'[queue'[m]] = "await" /\ future'[queue'[m]] = "pending"
      BY <1>1, <2>1 DEF QueueIsSound, Waiting
    <2>3. \A l, m \in 1..Len(queue') : l + n = m + n => l = m
      BY <1>3, <1>5, <1>2
    <2>4. \A l, m \in 1..Len(queue') : queue'[l] = queue'[m] => l = m
      BY <2>1, <2>3 DEF QueueIsSound
    <2>5. QED
      BY <2>2, <2>4 DEF QueueIsSound, Waiting
  <1>13. BatchesAreSound'
    <2>1. \A j \in ToSet(a) : Waiting(j)' /\ j \notin ToSet(queue')
      BY <1>5, <1>10, <1>11
    <2>2. QED
      BY <1>6, <2>1 DEF BatchesAreSound, Alive, Waiting
  <1>14. WaitingIsHeld'
    <2>1. batch[k] = <<>> /\ ToSet(batch[k]) = {} /\ Alive(k)'
      BY <1>1, <1>6 DEF BatchesAreSound, ToSet, Alive
    <2>2. QED
      BY <1>1, <1>5, <1>6, <1>10, <2>1 DEF WaitingIsHeld
  <1>15. QED
    BY <1>7, <1>8, <1>9, <1>12, <1>13, <1>14

\* The flush task retires, or takes the semaphore for its batch.
LEMMA TaskKeepsGInv ==
    ASSUME GInv, NEW k \in Tasks,
           \/ Retire(k)
           \/ BatchAcquire(k) /\ task' = [task EXCEPT ![k] = "sleep"]
    PROVE  GInv'
  <1> USE DEF GInv
  <1>1. /\ UNCHANGED <<batch_enabled, pc, future, queue, batch, orphans>>
        /\ \E c \in {"done", "sleep"} :
              /\ task' = [task EXCEPT ![k] = c]
              /\ SemaphoreStep(task[k], c, permits, permits')
              /\ c = "done" => queue = <<>> /\ batch[k] = <<>> /\ flush_task' = NoTask
              /\ c = "sleep" => task[k] = "acquire" /\ flush_task' = flush_task
        /\ event' \in BOOLEAN /\ flush_task' \in Tasks \cup {NoTask} /\ Alive(k)
    <2>1. CASE Retire(k)
      <3>1. batch[k] = <<>>
        BY <2>1 DEF Retire, BatchesAreSound
      <3>2. SemaphoreStep(task[k], "done", permits, permits')
        BY <2>1 DEF Retire, SemaphoreStep
      <3>3. QED
        BY <2>1, <3>1, <3>2 DEF Retire, Alive
    <2>2. CASE BatchAcquire(k) /\ task' = [task EXCEPT ![k] = "sleep"]
      <3>1. task[k] = "acquire" /\ permits > 0 /\ task'[k] = "sleep"
        BY <2>2 DEF BatchAcquire, TypeOK
      <3>2. task' # [task EXCEPT ![k] = "done"]
        BY <3>1 DEF TypeOK
      <3>3. permits' = permits - 1 /\ UNCHANGED <<batch, orphans>>
        BY <2>2, <3>2 DEF BatchAcquire, Die
      <3>4. SemaphoreStep(task[k], "sleep", permits, permits')
        BY <3>1, <3>3 DEF SemaphoreStep
      <3>5. QED
        BY <2>2, <3>1, <3>3, <3>4 DEF BatchAcquire, TypeOK, Alive
    <2>3. QED
      BY <2>1, <2>2
  <1>2. PICK c \in {"done", "sleep"} :
              /\ task' = [task EXCEPT ![k] = c]
              /\ SemaphoreStep(task[k], c, permits, permits')
              /\ c = "done" => queue = <<>> /\ batch[k] = <<>> /\ flush_task' = NoTask
              /\ c = "sleep" => task[k] = "acquire" /\ flush_task' = flush_task
    BY <1>1
  <1>3. task'[k] = c /\ \A l \in Tasks \ {k} : task'[l] = task[l] /\ ~Alive(l)
    BY <1>1, <1>2 DEF TypeOK, OneFlusher
  <1>4. PermitsConserved' /\ permits' \in 0..MaxConcurrency
    <2>1. OnlyMoves(Tasks, k, task, task') /\ SemaphoreStep(task[k], task'[k], permits, permits')
      BY <1>2, <1>3 DEF OnlyMoves
    <2>2. QED
      BY <1>1, <2>1, FlusherPermits
  <1>5. TypeOK'
    BY <1>1, <1>2, <1>4 DEF TypeOK
  <1>6. OneFlusher' /\ FutureExists'
    BY <1>1, <1>2, <1>3 DEF OneFlusher, FutureExists, Alive
  <1>7. QueueIsSound' /\ BatchesAreSound'
    BY <1>1, <1>2, <1>3 DEF QueueIsSound, BatchesAreSound, Waiting, Alive
  <1>8. WaitingIsHeld'
    <2>1. CASE c = "done"
      <3>1. ToSet(queue) = {} /\ ToSet(batch[k]) = {}
        BY <1>2, <2>1 DEF ToSet
      <3>2. QED
        BY <1>1, <1>3, <3>1 DEF WaitingIsHeld, Waiting
    <2>2. CASE c = "sleep"
      BY <1>1, <1>3, <2>2 DEF WaitingIsHeld, Waiting, Alive
    <2>3. QED
      BY <2>1, <2>2
  <1>9. QED
    BY <1>4, <1>5, <1>6, <1>7, <1>8

\* A batch ends: the futures of S are resolved and the others of its items,
\* those of D, are orphans.
LEMMA EndBatchKeepsGInv ==
    ASSUME GInv, NEW k \in Tasks, task[k] \in {"acquire", "sleep"},
           NEW c \in {"wait", "done"}, task' = [task EXCEPT ![k] = c],
           batch' = [batch EXCEPT ![k] = <<>>],
           SemaphoreStep(task[k], c, permits, permits'),
           NEW S, NEW D, S \subseteq ToSet(batch[k]), D \subseteq Items,
           ToSet(batch[k]) \subseteq S \cup D, orphans' = orphans \cup D,
           future' \in [Items -> {"none", "pending"} \cup Outcome],
           \A i \in Items : IF i \in S THEN future'[i] \in Outcome
                                       ELSE future'[i] = future[i],
           UNCHANGED <<batch_enabled, pc, queue, event, flush_task>>
    PROVE  GInv'
  <1> USE DEF GInv
  <1>1. /\ Alive(k) /\ task'[k] = c /\ batch'[k] = <<>>
        /\ \A l \in Tasks \ {k} : task'[l] = task[l] /\ batch'[l] = batch[l] /\ ~Alive(l)
    BY DEF TypeOK, OneFlusher, Alive
  <1>2. /\ queue \in Seq(Items) /\ ToSet(queue) = {queue[m] : m \in 1..Len(queue)}
        /\ ToSet(queue) \in SUBSET Items /\ ToSet(batch[k]) \in SUBSET Items
    <2>1. queue \in Seq(Items) /\ batch[k] \in Seq(Items)
      BY DEF TypeOK
    <2>2. QED
      BY <2>1, Elements
  <1>3. PermitsConserved' /\ permits' \in 0..MaxConcurrency
    <2>1. OnlyMoves(Tasks, k, task, task') /\ SemaphoreStep(task[k], task'[k], permits, permits')
      BY <1>1 DEF OnlyMoves
    <2>2. QED
      BY <2>1, FlusherPermits
  <1>4. TypeOK'
    <2>1. batch' \in [Tasks -> Seq(Items)]
      BY DEF TypeOK
    <2>2. QED
      BY <1>3, <2>1 DEF TypeOK
  <1>5. OneFlusher'
    BY <1>1 DEF OneFlusher, Alive
  <1>6. FutureExists'
    BY DEF FutureExists, Outcome
  <1>7. \A i \in Items : Waiting(i)' <=> Waiting(i) /\ i \notin S
    BY DEF Waiting, Outcome
  <1>8. \A i \in ToSet(queue) : i \notin S
    BY <1>1 DEF BatchesAreSound
  <1>9. QueueIsSound'
    <2>1. \A m \in 1..Len(queue) : queue[m] \in Items \ S /\ Waiting(queue[m])
      BY <1>2, <1>8 DEF QueueIsSound
    <2>2. \A m \in 1..Len(queue) : pc'[queue[m]] = "await" /\ future'[queue[m]] = "pending"
      BY <2>1 DEF Waiting
    <2>3. QED
      BY <2>2 DEF QueueIsSound, Waiting
  <1>10. BatchesAreSound'
    <2>1. ToSet(<<>>) = {}
      BY DEF ToSet
    <2>2. QED
      BY <1>1, <2>1 DEF BatchesAreSound, Alive
  <1>11. WaitingIsHeld'
    BY <1>1, <1>7 DEF WaitingIsHeld
  <1>12. QED
    BY <1>3, <1>4, <1>5, <1>6, <1>9, <1>10, <1>11

\* What resolving the futures of S leaves.
LEMMA Resolved ==
    ASSUME TypeOK, NEW S, Resolve(S)
    PROVE  /\ future' \in [Items -> {"none", "pending"} \cup Outcome]
           /\ \A i \in Items : IF i \in S THEN future'[i] \in Outcome
                                          ELSE future'[i] = future[i]
  <1>1. PICK o \in [S -> Outcome] :
            future' = [i \in Items |-> IF i \in S THEN o[i] ELSE future[i]]
    BY DEF Resolve
  <1>2. QED
    BY <1>1 DEF TypeOK

\* The ways a batch ends.
LEMMA BatchKeepsGInv ==
    ASSUME GInv, NEW k \in Tasks, BatchAcquire(k) \/ BatchFinish(k) \/ BatchRaises(k)
    PROVE  GInv'
  <1> USE DEF GInv
  <1>1. batch[k] \in Seq(Items) /\ ToSet(batch[k]) \in SUBSET Items /\ Len(batch[k]) \in Nat
    <2>1. batch[k] \in Seq(Items)
      BY DEF TypeOK
    <2>2. QED
      BY <2>1, Elements
  <1>2. CASE BatchAcquire(k) /\ task' = [task EXCEPT ![k] = "sleep"]
    BY <1>2, TaskKeepsGInv
  <1>3. CASE BatchAcquire(k) /\ task' # [task EXCEPT ![k] = "sleep"]
    <2>1. /\ task[k] = "acquire" /\ Die(k, ToSet(batch[k])) /\ permits' = permits
          /\ UNCHANGED <<batch_enabled, pc, future, queue, event, flush_task>>
      BY <1>3 DEF BatchAcquire
    <2>2. SemaphoreStep(task[k], "done", permits, permits')
      BY <2>1 DEF SemaphoreStep
    <2> DEFINE S == {}
               D == ToSet(batch[k])
    <2>3. /\ future' \in [Items -> {"none", "pending"} \cup Outcome]
          /\ \A i \in Items : IF i \in S THEN future'[i] \in Outcome
                                         ELSE future'[i] = future[i]
      BY <2>1 DEF TypeOK
    <2>4. S \subseteq ToSet(batch[k]) /\ D \subseteq Items /\ ToSet(batch[k]) \subseteq S \cup D
      BY <1>1
    <2>5. /\ task' = [task EXCEPT ![k] = "done"] /\ batch' = [batch EXCEPT ![k] = <<>>]
          /\ orphans' = orphans \cup D
      BY <2>1 DEF Die
    <2> HIDE DEF S, D
    <2>6. QED
      BY <2>1, <2>2, <2>3, <2>4, <2>5, EndBatchKeepsGInv
  <1>4. CASE BatchFinish(k)
    <2>1. /\ task[k] = "sleep" /\ Resolve(ToSet(batch[k])) /\ permits' = permits + 1
          /\ task' = [task EXCEPT ![k] = "wait"] /\ batch' = [batch EXCEPT ![k] = <<>>]
          /\ UNCHANGED <<batch_enabled, pc, queue, event, flush_task, orphans>>
      BY <1>4 DEF BatchFinish, Released
    <2>2. SemaphoreStep(task[k], "wait", permits, permits')
      BY <2>1 DEF SemaphoreStep
    <2> DEFINE S == ToSet(batch[k])
               D == {}
    <2>3. /\ future' \in [Items -> {"none", "pending"} \cup Outcome]
          /\ \A i \in Items : IF i \in S THEN future'[i] \in Outcome
                                         ELSE future'[i] = future[i]
      BY <2>1, Resolved
    <2>4. /\ S \subseteq ToSet(batch[k]) /\ D \subseteq Items
          /\ ToSet(batch[k]) \subseteq S \cup D /\ orphans' = orphans \cup D
      BY <2>1
    <2> HIDE DEF S, D
    <2>5. QED
      BY <2>1, <2>2, <2>3, <2>4, EndBatchKeepsGInv
  <1>5. CASE BatchRaises(k)
    <2>1. /\ task[k] = "sleep" /\ permits' = permits + 1
          /\ UNCHANGED <<batch_enabled, pc, queue, event, flush_task>>
      BY <1>5 DEF BatchRaises, Released
    <2>2. PICK n \in 1..Len(batch[k]) :
              /\ Resolve(ToSet(SubSeq(batch[k], 1, n - 1)))
              /\ Die(k, ToSet(SubSeq(batch[k], n, Len(batch[k]))))
      BY <1>5 DEF BatchRaises
    <2> DEFINE S == ToSet(SubSeq(batch[k], 1, n - 1))
               D == ToSet(SubSeq(batch[k], n, Len(batch[k])))
    <2>3. n - 1 \in 0..Len(batch[k]) /\ (n - 1) + 1 = n
      BY <1>1
    <2>4. ToSet(batch[k]) = S \cup D
      <3> DEFINE m == n - 1
      <3>1. m \in 0..Len(batch[k]) /\ m + 1 = n
        BY <2>3
      <3> HIDE DEF m
      <3>2. ToSet(batch[k]) = ToSet(SubSeq(batch[k], 1, m))
                                \cup ToSet(SubSeq(batch[k], m + 1, Len(batch[k])))
        BY <1>1, <3>1, Cut
      <3>3. QED
        BY <3>1, <3>2 DEF m
    <2>5. SemaphoreStep(task[k], "done", permits, permits')
      BY <2>1 DEF SemaphoreStep
    <2>6. /\ future' \in [Items -> {"none", "pending"} \cup Outcome]
          /\ \A i \in Items : IF i \in S THEN future'[i] \in Outcome
                                         ELSE future'[i] = future[i]
      BY <2>2, Resolved
    <2>7. /\ task' = [task EXCEPT ![k] = "done"] /\ batch' = [batch EXCEPT ![k] = <<>>]
          /\ orphans' = orphans \cup D
      BY <2>2 DEF Die
    <2> HIDE DEF S, D
    <2>8. S \subseteq ToSet(batch[k]) /\ D \subseteq Items /\ ToSet(batch[k]) \subseteq S \cup D
      BY <1>1, <2>4
    <2>9. QED
      BY <2>1, <2>5, <2>6, <2>7, <2>8, EndBatchKeepsGInv
  <1>6. QED
    BY <1>2, <1>3, <1>4, <1>5

\* Every step of a caller, a flusher or a batch keeps the invariant.
LEMMA NextGInv == GInv /\ [Next]_vars => GInv'
  <1> SUFFICES ASSUME GInv, [Next]_vars PROVE GInv'
    OBVIOUS
  <1>1. ASSUME NEW i \in Items, Call(i) \/ Caller(i)  PROVE GInv'
    BY <1>1, LocalKeepsGInv
  <1>2. ASSUME NEW i \in Items, _enqueue_and_wait(i)  PROVE GInv'
    BY <1>2, EnqueueKeepsGInv
  <1>3. ASSUME NEW k \in Tasks, TakeBatch(k)  PROVE GInv'
    BY <1>3, TakeKeepsGInv
  <1>4. ASSUME NEW k \in Tasks, Retire(k)  PROVE GInv'
    BY <1>4, TaskKeepsGInv
  <1>5. ASSUME NEW k \in Tasks, BatchAcquire(k) \/ BatchFinish(k) \/ BatchRaises(k)  PROVE GInv'
    BY <1>5, BatchKeepsGInv
  <1>6. CASE UNCHANGED vars
    BY <1>6 DEF vars, GInv, TypeOK, PermitsConserved, OneFlusher, FutureExists, QueueIsSound,
                BatchesAreSound, WaitingIsHeld, Waiting, Alive
  <1>7. QED
    BY <1>1, <1>2, <1>3, <1>4, <1>5, <1>6 DEF Next, Flusher

-----------------------------------------------------------------------------
(* The theorems.                                                           *)

\* The inductive invariant holds in every reachable state of the simulator.
THEOREM GInvariance == Spec => []GInv
  BY InitGInv, NextGInv, PTL DEF Spec

\* Every variable of the simulator keeps its type; the semaphore in
\* particular stays between zero and its initial value.
THEOREM SimulatorTypeCorrect == Spec => []TypeOK
  BY GInvariance, PTL DEF GInv

\* At most one flush task is alive, the one _batch_flush_task names.
THEOREM OneFlushTask == Spec => []OneFlusher
  BY GInvariance, PTL DEF GInv

\* async with never loses or invents a permit, also when a batch dies.
THEOREM NoPermitLost == Spec => []PermitsConserved
  BY GInvariance, PTL DEF GInv

\* A caller that waits is in the queue once or in the batch of one live task,
\* never in both and never in neither, unless its batch died.
THEOREM CallersAreHeld == Spec => []PendingIsHeld
  <1>1. GInv => PendingIsHeld
    <2> SUFFICES ASSUME GInv, NEW i \in Items, Waiting(i), i \notin orphans
                 PROVE  Cardinality({n \in 1..Len(queue) : queue[n] = i})
                          + Cardinality({k \in Tasks : Alive(k) /\ i \in ToSet(batch[k])}) = 1
      BY DEF PendingIsHeld, Waiting
    <2> DEFINE Q == {n \in 1..Len(queue) : queue[n] = i}
               B == {k \in Tasks : Alive(k) /\ i \in ToSet(batch[k])}
    <2>1. queue \in Seq(Items) /\ ToSet(queue) = {queue[n] : n \in 1..Len(queue)}
      <3>1. queue \in Seq(Items)
        BY DEF GInv, TypeOK
      <3>2. QED
        BY <3>1, Elements
    <2>2. Cardinality({}) = 0 /\ \A x : Cardinality({x}) = 1
      BY FS_EmptySet, FS_Singleton
    <2>3. CASE i \in ToSet(queue)
      <3>1. PICK n \in 1..Len(queue) : queue[n] = i
        BY <2>1, <2>3
      <3>2. Q = {n}
        BY <3>1 DEF GInv, QueueIsSound
      <3>3. B = {}
        BY <2>3 DEF GInv, BatchesAreSound
      <3>4. Cardinality(Q) = 1 /\ Cardinality(B) = 0
        BY <2>2, <3>2, <3>3
      <3>5. QED
        BY <3>4
    <2>4. CASE i \notin ToSet(queue)
      <3>1. PICK k \in Tasks : Alive(k) /\ i \in ToSet(batch[k])
        BY <2>4 DEF GInv, WaitingIsHeld
      <3>2. B = {k}
        BY <3>1 DEF GInv, OneFlusher
      <3>3. Q = {}
        BY <2>1, <2>4
      <3>4. Cardinality(Q) = 0 /\ Cardinality(B) = 1
        BY <2>2, <3>2, <3>3
      <3>5. QED
        BY <3>4
    <2>5. QED
      BY <2>3, <2>4
  <1>2. QED
    BY <1>1, GInvariance, PTL

\* A call that queues its item leaves a live flush task behind.
THEOREM CallsFindAFlusher == Spec => CallFindsFlusher
  <1> DEFINE A == \A i \in Items : (pc[i] = "idle" /\ pc'[i] = "await") =>
                      \E k \in Tasks : Alive(k)'
  <1>1. GInv /\ [Next]_vars => [A]_vars
    <2> SUFFICES ASSUME GInv, Next, NEW i \in Items, pc[i] = "idle", pc'[i] = "await"
                 PROVE  \E k \in Tasks : Alive(k)'
      BY DEF vars
    <2>1. pc \in [Items -> {"idle", "acquire", "sleep", "await"} \cup Outcome]
          /\ task \in [Tasks -> {"unused", "wait", "acquire", "sleep", "done"}]
      BY DEF GInv, TypeOK
    <2>2. ~\E k \in Tasks : Flusher(k)
      BY DEF Flusher, TakeBatch, Retire, BatchAcquire, BatchFinish, BatchRaises
    <2>3. ASSUME NEW j \in Items, Call(j) \/ Caller(j)  PROVE FALSE
      <3>1. CASE j = i
        BY <2>1, <2>3, <3>1 DEF Call, Caller, Acquire, Finish, Await
      <3>2. CASE j # i
        BY <2>1, <2>3, <3>2 DEF Call, Caller, Acquire, Finish, Await
      <3>3. QED
        BY <3>1, <3>2
    <2>4. PICK j \in Items : _enqueue_and_wait(j)
      BY <2>2, <2>3 DEF Next
    <2>5. CASE NeedsTask
      <3>1. PICK k \in Tasks : task' = [task EXCEPT ![k] = "wait"]
        BY <2>4, <2>5 DEF _enqueue_and_wait
      <3>2. QED
        BY <2>1, <3>1 DEF Alive
    <2>6. CASE ~NeedsTask
      <3>1. task' = task
        BY <2>4, <2>6 DEF _enqueue_and_wait
      <3>2. QED
        BY <2>6, <3>1 DEF NeedsTask, Alive
    <2>7. QED
      BY <2>5, <2>6
  <1>2. QED
    BY <1>1, GInvariance, PTL DEF Spec, CallFindsFlusher
=============================================================================
