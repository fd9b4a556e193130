-------------------------- MODULE MorphFlowProofs --------------------------
(***************************************************************************)
(* Proofs about MorphFlow for any number of jobs, processes and coroutines *)
(* of the three services, any retry policy and any number of faults.       *)
(***************************************************************************)
EXTENDS MorphFlow, PipelineServicesProofs

AllTasks == Tasks \cup DTasks

\* Within a group a message is with one coroutine.
HeldApart ==
    \A t, u \in AllTasks : held[t] # NoMessage /\ held[t] = held[u] => t = u

\* The services keep their invariant, and the topics theirs.
MInv == PInv /\ ErrorsKnown /\ MTypeOK /\ HeldApart

-----------------------------------------------------------------------------
(* The steps of the composition.                                           *)

\* A step that leaves tables and tasks alone keeps the services' invariant.
LEMMA ElsewhereKeepsPInv ==
    ASSUME PInv, UNCHANGED <<row, events, outbox, iVars, lost, dVars>>,
           clock' \in Nat, faults' \in Nat
    PROVE  PInv'
  <1> USE DEF PInv, iVars, dVars
  <1>1. TypeOK'
    BY DEF TypeOK
  <1>2. LeaseHandedOut' /\ TokensDiffer' /\ NewestHolderOwns'
    BY DEF LeaseHandedOut, TokensDiffer, NewestHolderOwns, Holding
  <1>3. MessagesAreIssued' /\ StatusHasHistory'
    BY DEF MessagesAreIssued, StatusHasHistory
  <1>4. NoSilentLoss' /\ AckedIsHandedOver' /\ ResultWasCommitted'
    BY DEF NoSilentLoss, AckedIsHandedOver, ResultWasCommitted, Holding
  <1>5. QED
    BY <1>1, <1>2, <1>3, <1>4

\* The composition makes a service take only its own steps.
LEMMA ServiceSteps ==
    ASSUME MInv
    PROVE  /\ \A t \in Tasks : Deliver(t) \/ Handle(t) => Next
           /\ \A d \in DTasks : DDeliver(d) \/ DHandle(d) \/ MDCrash(d) => Next
           /\ \A w \in Workers : MCrash(w) => Next
  <1>1. \A m \in topics : m.job \in Jobs
    BY DEF MInv, MTypeOK, Message
  <1>2. \A t \in Tasks : job[t] \in Jobs
    BY DEF MInv, PInv, TypeOK
  <1>3. ASSUME NEW t \in Tasks, Deliver(t)  PROVE Next
    <2>1. PICK j \in Jobs : \/ Claim(t, j) \/ ClaimReplyLost(t, j)
                            \/ ClaimError(t, j) \/ ClaimRefused(t, j)
      BY <1>1, <1>3 DEF Deliver
    <2>2. QED
      BY <2>1 DEF Next, Request
  <1>4. ASSUME NEW t \in Tasks, Handle(t)  PROVE Next
    BY <1>2, <1>4 DEF Handle, Next, Request
  <1>5. ASSUME NEW d \in DTasks, DDeliver(d)  PROVE Next
    <2>1. PICK m \in topics : DRead(d, m.job, m.attempt)
      BY <1>5 DEF DDeliver
    <2>2. m.attempt \in outbox[m.job] /\ m.job \in Jobs
      BY <1>1, <2>1 DEF DRead
    <2>3. QED
      BY <2>1, <2>2 DEF Next, Downstream
  <1>6. ASSUME NEW d \in DTasks, DHandle(d) \/ MDCrash(d)  PROVE Next
    BY <1>6 DEF DHandle, MDCrash, Next, Downstream
  <1>7. \A w \in Workers : MCrash(w) => Next
    BY DEF MCrash, Next
  <1>8. QED
    BY <1>3, <1>4, <1>5, <1>6, <1>7

\* The services' invariant survives a step of the composition, which is a
\* step of the services or leaves their state alone.
LEMMA StepKeepsPInv ==
    ASSUME MInv, [MNext]_allVars
    PROVE  PInv'
  <1>1. Next => PInv'
    BY NextPInv DEF MInv
  <1>2. PInv /\ clock \in Nat /\ faults \in Nat
    BY DEF MInv, PInv, TypeOK
  <1>3. CASE Relays \/ UNCHANGED allVars
    <2>1. UNCHANGED <<clock, row, events, outbox, iVars, lost, dVars, faults>>
      BY <1>3 DEF Relays, Relay, allVars, vars
    <2>2. QED
      BY <1>2, <2>1, ElsewhereKeepsPInv
  <1>4. CASE MTick
    BY <1>2, <1>4, ElsewhereKeepsPInv DEF MTick
  <1>5. ASSUME NEW t \in AllTasks, Settle(t)  PROVE PInv'
    <2>1. UNCHANGED <<clock, row, events, outbox, iVars, lost, dVars>>
      BY <1>5 DEF Settle
    <2>2. faults' \in Nat
      BY <1>2, <1>5 DEF Settle, Fault
    <2>3. QED
      BY <1>2, <2>1, <2>2, ElsewhereKeepsPInv
  <1>6. QED
    BY <1>1, <1>3, <1>4, <1>5, ServiceSteps DEF MNext, AllTasks

\* Errors stay known in the composition as well.
LEMMA ErrorsMove ==
    ASSUME MInv, [MNext]_allVars
    PROVE  ErrorsKnown' /\ ErrorsKept
  <1>1. PInv /\ ErrorsKnown
    BY DEF MInv
  <1>2. Next => ErrorsKnown' /\ ErrorsKept
    BY <1>1, NextErrors
  <1>3. CASE UNCHANGED <<row, outbox, pc, lease, job>>
    BY <1>1, <1>3, QuietKeepsErrors DEF Holding
  <1>4. Next \/ UNCHANGED <<row, outbox, pc, lease, job>>
    BY ServiceSteps DEF MNext, Relays, Relay, Settle, MTick, allVars, vars, iVars
  <1>5. QED
    BY <1>2, <1>3, <1>4

\* A message is handed to a coroutine.
LEMMA HandedKeeps ==
    ASSUME MInv, NEW t \in AllTasks, NEW m \in topics, Handed(t, m)
    PROVE  /\ held' \in [AllTasks -> topics' \cup {NoMessage}]
           /\ HeldApart'
           /\ UNCHANGED <<topics, dlq, published>>
  <1>1. /\ held \in [AllTasks -> topics \cup {NoMessage}] /\ HeldApart
        /\ held' = [held EXCEPT ![t] = m] /\ UNCHANGED <<topics, dlq, published>>
        /\ \A u \in AllTasks : held[u] # m
    BY DEF MInv, MTypeOK, AllTasks, Handed
  <1>2. held' \in [AllTasks -> topics' \cup {NoMessage}]
    BY <1>1
  <1>3. held'[t] = m /\ \A u \in AllTasks \ {t} : held'[u] = held[u]
    BY <1>1
  <1>4. HeldApart'
    <2> SUFFICES ASSUME NEW u \in AllTasks, NEW v \in AllTasks,
                        held'[u] # NoMessage, held'[u] = held'[v]
                 PROVE  u = v
      BY DEF HeldApart, AllTasks
    <2>1. QED
      BY <1>1, <1>3 DEF HeldApart
  <1>5. QED
    BY <1>1, <1>2, <1>4

\* A message that is published again.
Retried(t, m) ==
    [m EXCEPT !.topic = resolve_worker_retry_topic(RoleOf[t]),
              !.count = m.count + 1, !.due = clock + Backoff[m.count + 1]]

\* The message a failed handler republishes is well formed and is for the
\* same job and the same stage as the one that failed.
LEMMA RetriedMessage ==
    ASSUME clock \in Nat, NEW t, NEW m \in Message, m.count < RetryMax
    PROVE  /\ Retried(t, m) \in Message
           /\ Retried(t, m).job = m.job /\ Retried(t, m).attempt = m.attempt
           /\ Retried(t, m).count = m.count + 1
           /\ Retried(t, m).due = clock + Backoff[m.count + 1]
           /\ Retried(t, m).topic = resolve_worker_retry_topic(RoleOf[t])
           /\ m.count \in Nat /\ Backoff[m.count + 1] \in Nat
  <1>1. m.count \in 0..RetryMax /\ RetryMax \in Nat
    BY RetryAssumption DEF Message
  <1>2. m.count + 1 \in 1..RetryMax /\ m.count + 1 \in 0..RetryMax
    BY <1>1
  <1>3. Backoff[m.count + 1] \in Nat
    BY <1>2, RetryAssumption
  <1>4. resolve_worker_retry_topic(RoleOf[t]) \in {RetryRequest, RetryDownstream}
    BY DEF resolve_worker_retry_topic
  <1>5. clock + Backoff[m.count + 1] \in Nat
    BY <1>3
  <1>6. PICK q \in {RetryRequest, RetryDownstream} :
           q = resolve_worker_retry_topic(RoleOf[t])
    BY <1>4
  <1>7. PICK n \in 0..RetryMax : n = m.count + 1
    BY <1>2
  <1>8. PICK d \in Nat : d = clock + Backoff[m.count + 1]
    BY <1>5
  <1>9. PICK r : r = Retried(t, m)
    OBVIOUS
  <1>10. r = [m EXCEPT !.topic = q, !.count = n, !.due = d]
    BY <1>6, <1>7, <1>8, <1>9 DEF Retried
  <1>11. /\ r \in Message /\ r.job = m.job /\ r.attempt = m.attempt
         /\ r.count = n /\ r.due = d /\ r.topic = q
    BY <1>10 DEF Message
  <1>12. m.count \in Nat
    BY <1>1
  <1>13. QED
    BY <1>3, <1>6, <1>7, <1>8, <1>9, <1>11, <1>12

\* What becomes of the topics when a handler returned.
LEMMA SettledTopics ==
    ASSUME MInv, NEW t \in AllTasks, held[t] # NoMessage,
           NEW r \in {"ack", "retry", "raised"},
           \/ topics' = Settled(t, held[t], r)
           \/ topics' = Settled(t, held[t], r) \cup {held[t]}
    PROVE  /\ held[t] \in topics /\ held[t] \in Message /\ held[t].count \in 0..RetryMax
           /\ topics \ {held[t]} \subseteq topics'
           /\ topics' \subseteq Message
           /\ \A m \in topics' : m \in topics \/ m = Retried(t, held[t])
           /\ r = "raised" => topics' = topics
           /\ (r = "retry" /\ held[t].count < RetryMax) =>
                 /\ Retried(t, held[t]) \in topics'
                 /\ Retried(t, held[t]) \in Message
  <1> DEFINE m == held[t]
  <1>1. held \in [AllTasks -> topics \cup {NoMessage}] /\ topics \subseteq Message
        /\ clock \in Nat
    BY DEF MInv, MTypeOK, AllTasks, PInv, TypeOK
  <1>2. m \in topics /\ m \in Message
    BY <1>1
  <1>3. m.count \in 0..RetryMax
    BY <1>2 DEF Message
  <1>4. m.count < RetryMax => Retried(t, m) \in Message
    BY <1>1, <1>2, RetriedMessage
  <1>5. CASE r = "ack"
    <2>1. Settled(t, m, r) = topics \ {m}
      BY <1>5 DEF Settled
    <2>2. QED
      BY <1>1, <1>2, <1>3, <1>5, <2>1
  <1>6. CASE r = "raised"
    <2>1. Settled(t, m, r) = topics
      BY <1>6 DEF Settled
    <2>2. QED
      BY <1>1, <1>2, <1>3, <1>6, <2>1
  <1>7. CASE r = "retry"
    <2>1. CASE m.count < RetryMax
      <3>1. Settled(t, m, r) = (topics \ {m}) \cup {Retried(t, m)}
        BY <1>7, <2>1 DEF Settled, RetriesLeft, Retried
      <3>2. QED
        BY <1>1, <1>2, <1>3, <1>4, <1>7, <2>1, <3>1
    <2>2. CASE ~(m.count < RetryMax)
      <3>1. Settled(t, m, r) = topics \ {m}
        BY <1>7, <2>2 DEF Settled, RetriesLeft
      <3>2. QED
        BY <1>1, <1>2, <1>3, <1>7, <2>2, <3>1
    <2>3. QED
      BY <2>1, <2>2
  <1>8. QED
    BY <1>5, <1>6, <1>7

\* Settling a message (commit, republish or dead-letter) keeps the topics, the
\* dead letters and the messages in the consumers' hands well formed.
LEMMA SettleKeepsMInv ==
    ASSUME MInv, NEW t \in AllTasks, Settle(t)
    PROVE  /\ topics' \subseteq Message /\ dlq' \subseteq Message
           /\ held' \in [AllTasks -> topics' \cup {NoMessage}]
           /\ HeldApart' /\ published' = published
  <1>1. PICK r \in {"ack", "retry", "raised"} :
           /\ Returned(t, r)
           /\ \/ topics' = Settled(t, held[t], r)
              \/ topics' = Settled(t, held[t], r) \cup {held[t]}
           /\ dlq' = IF r = "retry" /\ ~RetriesLeft(t, held[t])
                       THEN dlq \cup {held[t]} ELSE dlq
    BY DEF Settle
  <1>2. held[t] # NoMessage /\ held' = [held EXCEPT ![t] = NoMessage]
        /\ published' = published
    BY <1>1 DEF Settle, Returned
  <1>3. /\ held[t] \in Message /\ topics' \subseteq Message
        /\ topics \ {held[t]} \subseteq topics'
    BY <1>1, <1>2, SettledTopics
  <1>4. /\ held \in [AllTasks -> topics \cup {NoMessage}] /\ HeldApart
        /\ dlq \subseteq Message
    BY DEF MInv, MTypeOK, AllTasks
  <1>5. held'[t] = NoMessage /\ \A u \in AllTasks \ {t} : held'[u] = held[u]
    BY <1>2, <1>4
  <1>6. \A u \in AllTasks \ {t} : held[u] = NoMessage \/ held[u] # held[t]
    BY <1>2, <1>4 DEF HeldApart
  <1>7. \A u \in AllTasks : held'[u] \in topics' \cup {NoMessage}
    BY <1>3, <1>4, <1>5, <1>6
  <1>8. HeldApart'
    <2> SUFFICES ASSUME NEW u \in AllTasks, NEW v \in AllTasks,
                        held'[u] # NoMessage, held'[u] = held'[v]
                 PROVE  u = v
      BY DEF HeldApart, AllTasks
    <2>1. QED
      BY <1>4, <1>5 DEF HeldApart
  <1>9. dlq' \subseteq Message
    BY <1>1, <1>3, <1>4
  <1>10. QED
    BY <1>2, <1>3, <1>4, <1>7, <1>8, <1>9

\* A coroutine or a process gives its message up.
LEMMA ReleaseKeepsMInv ==
    ASSUME MInv, UNCHANGED <<topics, dlq, published>>,
           held' \in [AllTasks -> topics \cup {NoMessage}],
           \A t \in AllTasks : held'[t] \in {held[t], NoMessage}
    PROVE  /\ held' \in [AllTasks -> topics' \cup {NoMessage}] /\ HeldApart'
  <1>1. HeldApart'
    <2> SUFFICES ASSUME NEW u \in AllTasks, NEW v \in AllTasks,
                        held'[u] # NoMessage, held'[u] = held'[v]
                 PROVE  u = v
      BY DEF HeldApart, AllTasks
    <2>1. held'[u] = held[u] /\ held'[v] = held[v]
      OBVIOUS
    <2>2. QED
      BY <2>1 DEF MInv, HeldApart
  <1>2. QED
    BY <1>1

\* Every step of the composition keeps its type and the services' invariant.
LEMMA NextMInv == MInv /\ [MNext]_allVars => MInv'
  <1> SUFFICES ASSUME MInv, [MNext]_allVars PROVE MInv'
    OBVIOUS
  <1>1. PInv' /\ TypeOK' /\ ErrorsKnown'
    BY StepKeepsPInv, ErrorsMove DEF PInv
  <1>2. /\ held \in [AllTasks -> topics \cup {NoMessage}] /\ HeldApart
        /\ topics \subseteq Message /\ dlq \subseteq Message
        /\ published \subseteq Jobs \X (0..MaxEpoch)
    BY DEF MInv, MTypeOK, AllTasks
  <1> DEFINE Sound == /\ topics' \subseteq Message /\ dlq' \subseteq Message
                      /\ held' \in [AllTasks -> topics' \cup {NoMessage}] /\ HeldApart'
                      /\ published' \subseteq Jobs \X (0..MaxEpoch)
  <1>3. ASSUME UNCHANGED mVars  PROVE Sound
    BY <1>2, <1>3 DEF mVars, HeldApart
  <1>4. ASSUME NEW t \in AllTasks, NEW m \in topics, Handed(t, m)  PROVE Sound
    BY <1>2, <1>4, HandedKeeps
  <1>5. ASSUME NEW j \in Jobs, NEW a \in 0..MaxEpoch, Relay(j, a)  PROVE Sound
    <2> DEFINE m == [topic |-> IF a = 0 THEN Request_ ELSE DownstreamTopic,
                     job |-> j, attempt |-> a, count |-> 0, due |-> 0]
    <2>1. m \in Message
      BY RetryAssumption DEF Message
    <2>2. /\ topics' = topics \cup {m} /\ published' = published \cup {<<j, a>>}
          /\ UNCHANGED <<dlq, held>>
      BY <1>5 DEF Relay
    <2> HIDE DEF m
    <2>3. HeldApart'
      BY <1>2, <2>2 DEF HeldApart
    <2>4. QED
      BY <1>2, <2>1, <2>2, <2>3
  <1>6. ASSUME NEW t \in AllTasks, Settle(t)  PROVE Sound
    BY <1>2, <1>6, SettleKeepsMInv
  <1>7. ASSUME NEW w \in Workers, MCrash(w)  PROVE Sound
    BY <1>2, <1>7, ReleaseKeepsMInv DEF MCrash
  <1>8. ASSUME NEW d \in DTasks, MDCrash(d)  PROVE Sound
    BY <1>2, <1>8, ReleaseKeepsMInv DEF MDCrash, AllTasks
  <1>9. Sound
    <2>1. CASE Relays
      BY <1>5, <2>1 DEF Relays
    <2>2. ASSUME NEW t \in Tasks, Deliver(t) \/ Handle(t)  PROVE Sound
      BY <1>3, <1>4, <2>2 DEF Deliver, Handle, AllTasks
    <2>3. ASSUME NEW d \in DTasks, DDeliver(d) \/ DHandle(d)  PROVE Sound
      BY <1>3, <1>4, <2>3 DEF DDeliver, DHandle, AllTasks
    <2>4. CASE MTick \/ UNCHANGED allVars
      BY <1>3, <2>4 DEF MTick, allVars
    <2> HIDE DEF Sound
    <2>5. QED
      BY <1>6, <1>7, <1>8, <2>1, <2>2, <2>3, <2>4 DEF MNext, AllTasks
  <1>10. QED
    BY <1>1, <1>9 DEF MInv, MTypeOK, AllTasks

\* The composition starts in its invariant.
LEMMA InitMInv == MInit => MInv
  <1> SUFFICES ASSUME MInit PROVE MInv
    OBVIOUS
  <1>1. PInv
    BY InitPInv DEF MInit
  <1>2. MTypeOK /\ HeldApart
    BY <1>1 DEF MInit, MTypeOK, HeldApart, PInv, AllTasks
  <1>3. ErrorsKnown
    BY DEF MInit, Init, ErrorsKnown, Holding, NewRow, NULL
  <1>4. QED
    BY <1>1, <1>2, <1>3 DEF MInv

\* In the composition of topics, runner and services the services keep their
\* invariant, and a message is with one coroutine.
THEOREM MInvariance == MSpec => []MInv
  BY InitMInv, NextMInv, PTL DEF MSpec

\* The topics hold messages, and what a coroutine holds is still in a topic.
THEOREM MorphFlowTypeCorrect == MSpec => []MTypeOK
  BY MInvariance, PTL DEF MInv

\* What is proved of the services for deliveries of any kind holds where they
\* are driven by the topics and the runner.
THEOREM ServicesAtWork ==
    MSpec => [](NoSilentLoss /\ AckedIsHandedOver /\ ResultWasCommitted)
  BY MInvariance, PTL DEF MInv, PInv

\* A client that polls a job sees a life of JobLifecycle in the composition too.
THEOREM LivesAtWork == MSpec => ImplementsWeakLifecycle
  <1>1. MInit => Lifecycle!LInit
    BY InitLives DEF MInit
  <1>2. MInv /\ [MNext]_allVars => [Lifecycle!WeakNext]_(Lifecycle!lvars)
    <2> SUFFICES ASSUME MInv, [MNext]_allVars
                 PROVE  [Lifecycle!WeakNext]_(Lifecycle!lvars)
      OBVIOUS
    <2>1. Next => [Lifecycle!WeakNext]_(Lifecycle!lvars)
      BY NextLives DEF MInv
    <2>2. UNCHANGED row => UNCHANGED Lifecycle!lvars
      BY DEF Lifecycle!lvars
    <2>3. Next \/ UNCHANGED row
      BY ServiceSteps DEF MNext, Relays, Relay, Settle, MTick, allVars, vars
    <2>4. QED
      BY <2>1, <2>2, <2>3
  <1>3. QED
    BY <1>1, <1>2, MInvariance, PTL DEF MSpec, ImplementsWeakLifecycle,
       Lifecycle!WeakSpec

-----------------------------------------------------------------------------
(* One trouble is survived.  The argument: until its first trouble a job   *)
(* has one request message, delivered once.  A second delivery needs a     *)
(* trouble; from then on the message is refused only while a lost lease    *)
(* lives, and its retries outlast the lease.  A request that is            *)
(* acknowledged has left a downstream message, and that one is given up    *)
(* only when the job is finished, failed or claimed again.                 *)

\* The backoffs together are longer than the lease.
BackoffsOutlastLease == \E f : Sums(f) /\ f[RetryMax] > LeaseSeconds

Total == CHOOSE f : Sums(f) /\ f[RetryMax] > LeaseSeconds

\* A message without an attempt is a published request, one with an attempt
\* the downstream message of a hand-over.
MessagesKnown ==
    \A m \in topics :
        IF m.attempt = 0
          THEN m.topic \in {Request_, RetryRequest} /\ <<m.job, 0>> \in published
          ELSE m.topic \in {DownstreamTopic, RetryDownstream} /\ m.attempt \in outbox[m.job]

\* A coroutine holds the message it handles.
TaskHolds(t) ==
    /\ pc[t] \in {"refused", "working", "failing"} => held[t] # NoMessage
    /\ held[t] # NoMessage => /\ held[t].attempt = 0 /\ held[t].job = job[t]
                              /\ held[t].due <= clock
DTaskHolds(d) ==
    held[d] # NoMessage => /\ held[d].attempt = dattempt[d] /\ held[d].job = djob[d]
                           /\ dattempt[d] # 0
TasksHold == (\A t \in Tasks : TaskHolds(t)) /\ (\A d \in DTasks : DTaskHolds(d))

LeaseBounded == \A j \in Jobs : row[j].expires <= clock + LeaseSeconds

FailuresCounted == \A j \in Jobs : row[j].status = FAILED => events[j][FAILED] > 0

PublishedKnown ==
    \A j \in Jobs : \A a \in 0..MaxEpoch :
        <<j, a>> \in published => a = 0 \/ a \in outbox[j]

UnpublishedIsPending ==
    \A j \in Jobs : <<j, 0>> \notin published => row[j].status = PENDING

\* The message a of job j is not given up.
UnderWay(j, a) ==
    <<j, a>> \notin published \/ \E m \in topics : m.job = j /\ m.attempt = a

\* While a job waits for the downstream step, its message is under way.
HandedOverIsUnderWay ==
    \A j \in Jobs : (row[j].status = PROCESSING /\ row[j].epoch \in outbox[j]) =>
        UnderWay(j, row[j].epoch)

\* A downstream message is given up when it has nothing more to do.
Over(j, a) == row[j].status \in {SUCCESS, FAILED} \/ a < row[j].epoch
DEnded(d) == held[d] # NoMessage /\ dpc[d] = "idle" /\ dret[d] \in {"ack", "retry"}
DownstreamIsDone == \A d \in DTasks : DEnded(d) => Over(djob[d], dattempt[d])

Ground ==
    /\ MInv /\ MessagesKnown /\ TasksHold /\ LeaseBounded /\ FailuresCounted
    /\ PublishedKnown /\ UnpublishedIsPending
    /\ HandedOverIsUnderWay /\ DownstreamIsDone

-----------------------------------------------------------------------------
(* What a step may do to a job.                                            *)

\* The row of j before and after a step.
Same(j) == row'[j] = row[j]
Taken(j) ==
    /\ row[j].status # SUCCESS /\ row'[j].status = PROCESSING
    /\ row'[j].epoch = row[j].epoch + 1 /\ row'[j].expires = clock + LeaseSeconds
Written(j) ==
    /\ row[j].status = PROCESSING /\ row'[j].status \in {SUCCESS, FAILED}
    /\ row'[j].epoch = row[j].epoch /\ row'[j].expires \in {row[j].expires, 0}
    /\ row'[j].status = FAILED => events'[j][FAILED] > events[j][FAILED]

\* The tables only move on.
Onward ==
    /\ \A j \in Jobs : /\ outbox[j] \subseteq outbox'[j]
                       /\ events[j][FAILED] <= events'[j][FAILED]
                       /\ Same(j) \/ Written(j) \/ (Taken(j) /\ <<j, 0>> \in published)
    /\ faults <= faults' /\ clock <= clock' /\ published \subseteq published'

\* The parts of the tables' types.
LEMMA RowParts ==
    ASSUME PInv, NEW j \in Jobs
    PROVE  /\ row[j] \in Row /\ row[j].epoch \in Nat /\ row[j].expires \in Nat
           /\ row[j].status \in {PENDING, PROCESSING, SUCCESS, FAILED}
           /\ events[j][FAILED] \in Nat /\ outbox[j] \subseteq 1..row[j].epoch
           /\ clock \in Nat /\ faults \in Nat
           /\ row[j].status = PENDING => row[j].epoch = 0 /\ outbox[j] = {}
  <1>1. row[j] \in Row /\ events[j] \in [EventType -> Nat] /\ clock \in Nat /\ faults \in Nat
    BY DEF PInv, TypeOK
  <1>2. /\ row[j].epoch \in Nat /\ row[j].expires \in Nat
        /\ row[j].status \in {PENDING, PROCESSING, SUCCESS, FAILED}
    BY <1>1 DEF Row, JobStatus
  <1>3. events[j][FAILED] \in Nat
    BY <1>1 DEF EventType
  <1>4. /\ outbox[j] \subseteq 1..row[j].epoch
        /\ row[j].status = PENDING => row[j].epoch = 0
    BY DEF PInv, MessagesAreIssued, StatusHasHistory
  <1>5. row[j].epoch = 0 => outbox[j] = {}
    BY <1>4
  <1>6. QED
    BY <1>1, <1>2, <1>3, <1>4, <1>5

\* The other coroutines and the other jobs stay as they are.
OthersKept(t) ==
    /\ UNCHANGED <<clock, dpc, djob, dattempt, dret>>
    /\ \A u \in Tasks \ {t} : /\ pc'[u] = pc[u] /\ ret'[u] = ret[u]
                              /\ lease'[u] = lease[u] /\ job'[u] = job[u]
JobsKept(j) ==
    \A k \in Jobs \ {j} : /\ Same(k) /\ outbox'[k] = outbox[k]
                          /\ events'[k][FAILED] = events[k][FAILED]

\* The three ways a request is received.
Accepted(t, j) ==
    /\ Taken(j) /\ faults' = faults
    /\ pc'[t] = "working" /\ lease'[t] = row'[j].epoch
NotReceived(t, j) ==
    /\ Taken(j) \/ Same(j)
    /\ faults' = faults + 1 /\ pc'[t] = "idle" /\ ret'[t] = "raised"
Refused(t, j) ==
    /\ Same(j) /\ ~Claimable(row[j], clock)
    /\ faults' = faults /\ pc'[t] = "refused"

\* What the first step on a received message may touch: the consumer that
\* took it and the one job the message names.
LEMMA Receives ==
    ASSUME MInv, NEW t \in Tasks, NEW j \in Jobs, pc[t] # "refused",
           \/ Claim(t, j) \/ ClaimReplyLost(t, j) \/ ClaimError(t, j) \/ ClaimRefused(t, j)
    PROVE  /\ OthersKept(t) /\ JobsKept(j) /\ job'[t] = j /\ pc[t] = "idle"
           /\ outbox' = outbox /\ events'[j][FAILED] = events[j][FAILED]
           /\ Accepted(t, j) \/ NotReceived(t, j) \/ Refused(t, j)
  <1>1. TypeOK /\ job \in [Tasks -> Jobs]
    BY DEF MInv, PInv, TypeOK
  <1>2. ASSUME ClaimCommitted(t, j)
        PROVE  /\ Taken(j) /\ \A k \in Jobs \ {j} : Same(k)
               /\ \A k \in Jobs : events'[k][FAILED] = events[k][FAILED]
    <2>1. /\ row[j].status # SUCCESS /\ row'[j].status = PROCESSING
          /\ row'[j].epoch = row[j].epoch + 1
          /\ \A k \in Jobs : k # j => row'[k] = row[k]
          /\ \A k \in Jobs, e \in EventType \ {STARTED} : events'[k][e] = events[k][e]
      BY <1>1, <1>2, ClaimCommits
    <2>2. row'[j].expires = clock + LeaseSeconds
      BY <1>1, <1>2 DEF ClaimCommitted, Claimed, TypeOK
    <2>3. FAILED \in EventType \ {STARTED}
      BY DEF EventType, FAILED, STARTED
    <2>4. QED
      BY <2>1, <2>2, <2>3 DEF Same, Taken
  <1>3. CASE Claim(t, j)
    <2>1. ClaimCommitted(t, j) /\ outbox' = outbox
      BY <1>3 DEF Claim
    <2>2. row'[j].epoch = row[j].epoch + 1
      BY <1>1, <2>1, ClaimCommits
    <2>3. QED
      BY <1>1, <1>2, <1>3, <2>1, <2>2
         DEF Claim, ClaimCommitted, OthersKept, Accepted, TypeOK, dVars, JobsKept
  <1>4. CASE ClaimReplyLost(t, j)
    <2>1. ClaimCommitted(t, j) /\ outbox' = outbox
      BY <1>4 DEF ClaimReplyLost
    <2>2. QED
      BY <1>1, <1>2, <1>4, <2>1
         DEF ClaimReplyLost, ClaimCommitted, OthersKept, NotReceived, TypeOK, dVars,
             Return_, Fault, JobsKept
  <1>5. CASE ClaimError(t, j)
    BY <1>1, <1>5
       DEF ClaimError, OthersKept, NotReceived, TypeOK, dVars, Return_, Fault, JobsKept, Same
  <1>6. CASE ClaimRefused(t, j)
    BY <1>1, <1>6
       DEF ClaimRefused, OthersKept, Refused, TypeOK, dVars, JobsKept, Same
  <1>7. QED
    BY <1>3, <1>4, <1>5, <1>6

\* The ways a handler goes on, on the job of its task.
Untouched(j) ==
    /\ Same(j) /\ outbox'[j] = outbox[j] /\ events'[j][FAILED] = events[j][FAILED]
ReadAgain(t, j) ==
    /\ pc[t] = "refused" /\ Untouched(j) /\ faults' = faults
    /\ pc'[t] = "idle" /\ ret'[t] \in {"ack", "retry"}
    /\ ret'[t] = "ack" => row[j].status = SUCCESS
Abandoned(t, j) ==
    /\ pc[t] \in {"refused", "failing"} /\ Untouched(j) /\ faults' = faults + 1
    /\ pc'[t] = "idle" /\ ret'[t] = "raised"
Caught(t, j) ==
    /\ Holding(t) /\ Untouched(j) /\ faults' = faults
    /\ pc'[t] = "failing" /\ lease'[t] = lease[t]
\* The task returns an acknowledgement, or the reply of its commit is lost.
Reported(t) ==
    \/ pc'[t] = "idle" /\ ret'[t] = "ack" /\ faults' = faults
    \/ pc'[t] = "failing" /\ lease'[t] = lease[t] /\ faults' = faults + 1
PassedDown(t, j) ==
    /\ Holding(t) /\ Same(j) /\ outbox'[j] = outbox[j] \cup {lease[t]}
    /\ events'[j][FAILED] = events[j][FAILED] /\ Reported(t)
Completed(t, j) ==
    /\ Holding(t) /\ Written(j) /\ row'[j].status = SUCCESS /\ outbox'[j] = outbox[j]
    /\ events'[j][FAILED] = events[j][FAILED] /\ Reported(t)
Fenced(t, j) ==
    /\ Holding(t) /\ Untouched(j) /\ faults' = faults
    /\ \E target \in {SUCCESS, FAILED} : ~Owns(t, target)
    /\ pc'[t] = "idle" /\ ret'[t] \in {"ack", "retry"}
GaveUp(t, j) ==
    /\ Holding(t) /\ Written(j) /\ row'[j].status = FAILED /\ outbox'[j] = outbox[j]
    /\ faults' \in {faults, faults + 1}
    /\ pc'[t] = "idle" /\ ret'[t] \in {"retry", "raised"}

Proceeds(t, j) ==
    \/ ReadAgain(t, j) \/ Abandoned(t, j) \/ Caught(t, j) \/ PassedDown(t, j)
    \/ Completed(t, j) \/ Fenced(t, j) \/ GaveUp(t, j)

\* What the later steps of a handler may touch: its own consumer and the job
\* it holds, never the topics.
LEMMA HandlerSteps ==
    ASSUME MInv, NEW t \in Tasks, Handle(t), NEW j, j = job[t]
    PROVE  /\ OthersKept(t) /\ JobsKept(j) /\ job'[t] = j /\ j \in Jobs
           /\ UNCHANGED mVars /\ held[t] # NoMessage
           /\ Proceeds(t, j)
  <1>1. /\ TypeOK /\ job[t] = j /\ j \in Jobs /\ row \in [Jobs -> Row] /\ row[j] \in Row
        /\ pc \in [Tasks -> Control] /\ ret \in [Tasks -> Result]
        /\ events \in [Jobs -> [EventType -> Nat]] /\ outbox \in [Jobs -> SUBSET Nat]
        /\ lease[t] \in Nat
    BY DEF MInv, PInv, TypeOK, Control, Result
  <1>2. held[t] # NoMessage /\ UNCHANGED mVars
    BY DEF Handle
  <1> DEFINE Kept == OthersKept(t) /\ JobsKept(j) /\ job'[t] = j
  <1>3. ASSUME NEW e \in EventType \ {FAILED}, Add(j, e)
        PROVE  \A k \in Jobs : events'[k][FAILED] = events[k][FAILED]
    <2>1. e \in EventType /\ e # FAILED /\ FAILED \in EventType
      BY <1>3 DEF EventType
    <2>2. QED
      BY <1>1, <1>3, <2>1, AddCounts
  <1>4. ASSUME UNCHANGED <<row, events, outbox>>
        PROVE  JobsKept(j) /\ Untouched(j)
    BY <1>4 DEF JobsKept, Untouched, Same
  <1>5. ASSUME ReadRefused(t)  PROVE Kept /\ ReadAgain(t, j)
    BY <1>1, <1>4, <1>5 DEF ReadRefused, ReadAgain, OthersKept, Return_, dVars
  <1>6. ASSUME pc[t] = "refused", ClaimError(t, job[t])  PROVE Kept /\ Abandoned(t, j)
    BY <1>1, <1>4, <1>6 DEF ClaimError, Abandoned, OthersKept, Return_, dVars, Fault, TypeOK
  <1>7. ASSUME InferenceRaises(t)  PROVE Kept /\ Caught(t, j)
    BY <1>1, <1>4, <1>7 DEF InferenceRaises, Caught, OthersKept, dVars, Holding
  <1>8. ASSUME Infer(t) \/ InferReplyLost(t)  PROVE Kept /\ PassedDown(t, j)
    <2>1. /\ Holding(t) /\ row' = row /\ Add(j, INFERRED)
          /\ outbox' = [outbox EXCEPT ![j] = @ \cup {lease[t]}]
      BY <1>1, <1>8 DEF Infer, InferReplyLost, HandOver, Holding
    <2>2. INFERRED \in EventType \ {FAILED}
      BY DEF EventType, INFERRED, FAILED
    <2>3. /\ JobsKept(j) /\ outbox'[j] = outbox[j] \cup {lease[t]} /\ Same(j)
          /\ events'[j][FAILED] = events[j][FAILED]
      BY <1>1, <1>3, <2>1, <2>2 DEF JobsKept, Same
    <2>4. Reported(t) /\ OthersKept(t) /\ job'[t] = j
      BY <1>1, <1>8 DEF Infer, InferReplyLost, Reported, OthersKept, Return_, dVars, Fault
    <2>5. QED
      BY <2>1, <2>3, <2>4 DEF PassedDown
  <1>9. ASSUME Complete(t)  PROVE Kept /\ Completed(t, j)
    <2> DEFINE r == Released(Succeeded(row[j], lease[t]))
    <2>1. /\ Holding(t) /\ Owns(t, SUCCESS) /\ row' = [row EXCEPT ![j] = r]
          /\ Add(j, PROCESSED) /\ outbox' = outbox
      BY <1>1, <1>9 DEF Complete, CompleteCommitted, Holding
    <2>2. r.status = SUCCESS /\ r.epoch = row[j].epoch /\ r.expires = 0
      BY DEF Released, Succeeded, NULL
    <2> HIDE DEF r
    <2>3. row[j].status = PROCESSING
      BY <1>1, <2>1, Owning DEF MInv
    <2>4. PROCESSED \in EventType \ {FAILED} /\ SUCCESS # FAILED
      BY DEF EventType, PROCESSED, FAILED, SUCCESS
    <2>5. /\ JobsKept(j) /\ Written(j) /\ row'[j].status = SUCCESS
          /\ events'[j][FAILED] = events[j][FAILED]
      BY <1>1, <1>3, <2>1, <2>2, <2>3, <2>4 DEF JobsKept, Same, Written
    <2>6. Reported(t) /\ OthersKept(t) /\ job'[t] = j
      BY <1>1, <1>9 DEF Complete, Reported, OthersKept, Return_, dVars, Fault
    <2>7. QED
      BY <2>1, <2>5, <2>6 DEF Completed
  <1>10. ASSUME CompleteFenced(t) \/ MarkFailedFenced(t)  PROVE Kept /\ Fenced(t, j)
    <2>1. \E target \in {SUCCESS, FAILED} : ~Owns(t, target)
      BY <1>10 DEF CompleteFenced, MarkFailedFenced
    <2>2. QED
      BY <1>1, <1>4, <1>10, <2>1 DEF CompleteFenced, MarkFailedFenced, Fenced, OthersKept,
         Return_, dVars, Holding
  <1>11. ASSUME MarkFailed(t)  PROVE Kept /\ GaveUp(t, j)
    <2> DEFINE r == Released(Failed(row[j], lease[t]))
    <2>1. /\ Holding(t) /\ Owns(t, FAILED) /\ row' = [row EXCEPT ![j] = r]
          /\ Add(j, FAILED) /\ outbox' = outbox
      BY <1>1, <1>11 DEF MarkFailed, Holding
    <2>2. r.status = FAILED /\ r.epoch = row[j].epoch /\ r.expires = 0
      BY DEF Released, Failed, NULL
    <2> HIDE DEF r
    <2>3. row[j].status = PROCESSING
      BY <1>1, <2>1, Owning DEF MInv
    <2>4. /\ FAILED \in EventType /\ events[j][FAILED] \in Nat
      BY <1>1 DEF EventType
    <2>5. /\ events'[j][FAILED] = events[j][FAILED] + 1
          /\ \A k \in Jobs \ {j} : events'[k][FAILED] = events[k][FAILED]
      BY <1>1, <2>1, <2>4, AddCounts
    <2>6. JobsKept(j) /\ Written(j) /\ row'[j].status = FAILED
      BY <1>1, <2>1, <2>2, <2>3, <2>4, <2>5 DEF JobsKept, Same, Written
    <2>7. /\ OthersKept(t) /\ job'[t] = j /\ faults' \in {faults, faults + 1}
          /\ pc'[t] = "idle" /\ ret'[t] \in {"retry", "raised"}
      BY <1>1, <1>11 DEF MarkFailed, OthersKept, Return_, dVars, Fault
    <2>8. QED
      BY <2>1, <2>6, <2>7 DEF GaveUp
  <1>12. ASSUME MarkFailedError(t)  PROVE Kept /\ Abandoned(t, j)
    BY <1>1, <1>4, <1>12 DEF MarkFailedError, Abandoned, OthersKept, Return_, dVars, Fault
  <1> HIDE DEF Kept
  <1>13. Kept /\ Proceeds(t, j)
    BY <1>5, <1>6, <1>7, <1>8, <1>9, <1>10, <1>11, <1>12 DEF Handle, Proceeds
  <1>14. QED
    BY <1>1, <1>2, <1>13 DEF Kept

\* Who reads which topics.
LEMMA TopicsOfRoles ==
    ASSUME RolesRead
    PROVE  /\ \A d \in DTasks : d \notin Tasks /\ RoleOf[d] = "downstream"
           /\ \A t \in Tasks : /\ resolve_worker_topic(RoleOf[t]) = Request_
                               /\ resolve_worker_retry_topic(RoleOf[t]) = RetryRequest
           /\ \A d \in DTasks : /\ resolve_worker_topic(RoleOf[d]) = DownstreamTopic
                                /\ resolve_worker_retry_topic(RoleOf[d]) = RetryDownstream
  <1>1. ASSUME NEW d \in DTasks  PROVE RoleOf[d] = "downstream"
    <2>1. build_worker_role(RoleOf[d], ModeOf[d]) = "downstream"
      BY RoleAssumption
    <2>2. QED
      BY <2>1 DEF build_worker_role
  <1>2. \A d \in DTasks : d \notin Tasks
    BY <1>1 DEF RolesRead
  <1>3. QED
    BY <1>1, <1>2 DEF RolesRead, resolve_worker_topic, resolve_worker_retry_topic

\* What a step of a downstream coroutine does.
LEMMA DownstreamSteps ==
    ASSUME Ground, RolesRead, NEW d \in DTasks, DDeliver(d) \/ DHandle(d) \/ MDCrash(d)
    PROVE  /\ UNCHANGED <<clock, outbox, pc, ret, lease, job, topics, published>>
           /\ \A t \in Tasks : held'[t] = held[t]
           /\ \A e \in DTasks \ {d} : /\ held'[e] = held[e] /\ dpc'[e] = dpc[e]
                                      /\ djob'[e] = djob[e] /\ dret'[e] = dret[e]
                                      /\ dattempt'[e] = dattempt[e]
           /\ faults <= faults'
           /\ \A k \in Jobs : /\ events[k][FAILED] <= events'[k][FAILED]
                              /\ Same(k) \/ (Written(k) /\ outbox[k] # {})
           /\ DTaskHolds(d)'
           /\ DEnded(d)' => Over(djob[d], dattempt[d])'
  <1>1. /\ MInv /\ PInv /\ TypeOK /\ MessagesKnown /\ DTaskHolds(d)
        /\ DEnded(d) => Over(djob[d], dattempt[d])
    BY DEF Ground, MInv, PInv, TasksHold, DownstreamIsDone
  <1>2. /\ dpc \in [DTasks -> DControl] /\ djob \in [DTasks -> Jobs] /\ djob[d] \in Jobs
        /\ dattempt \in [DTasks -> Nat] /\ dret \in [DTasks -> Result] /\ faults \in Nat
        /\ row \in [Jobs -> Row] /\ events \in [Jobs -> [EventType -> Nat]]
        /\ held \in [AllTasks -> topics \cup {NoMessage}] /\ topics \subseteq Message
        /\ d \in AllTasks /\ DTasks \subseteq AllTasks /\ Tasks \subseteq AllTasks
        /\ d \notin Tasks
    BY <1>1, TopicsOfRoles DEF MInv, MTypeOK, TypeOK, AllTasks, DControl, Result
  <1>3. \A k \in Jobs : events[k][FAILED] \in Nat
    BY <1>1, RowParts
  <1>4. FAILED \in EventType /\ COMPLETED \in EventType /\ FAILED # COMPLETED
        /\ SUCCESS # FAILED /\ PROCESSING \notin {SUCCESS, FAILED}
    BY DEF EventType, FAILED, COMPLETED, SUCCESS, PROCESSING
  <1>5. CASE DDeliver(d)
    <2>1. PICK m \in topics : Handed(d, m) /\ DRead(d, m.job, m.attempt)
      BY <1>5 DEF DDeliver
    <2>2. PICK j \in Jobs : j = m.job
      BY <1>2, <2>1 DEF Message
    <2>3. PICK a \in outbox[j] : a = m.attempt
      BY <2>1, <2>2 DEF DRead
    <2>4. /\ held' = [held EXCEPT ![d] = m] /\ UNCHANGED <<topics, published>>
          /\ m # NoMessage
      BY <1>2, <2>1, MessageAssumption DEF Handed
    <2>5. a # 0
      BY <1>1, RowParts
    <2>6. /\ djob' = [djob EXCEPT ![d] = j] /\ dattempt' = [dattempt EXCEPT ![d] = a]
          /\ UNCHANGED <<clock, row, events, outbox, pc, ret, lease, job>>
          /\ dpc' = [dpc EXCEPT ![d] = dpc'[d]] /\ dret' = [dret EXCEPT ![d] = dret'[d]]
          /\ faults <= faults'
          /\ (dpc'[d] = "idle" /\ dret'[d] \in {"ack", "retry"}) => row[j].status = SUCCESS
      BY <1>2, <2>1, <2>2, <2>3 DEF DRead, DReturn, iVars, Fault
    <2>7. DTaskHolds(d)'
      BY <1>2, <2>2, <2>3, <2>4, <2>5, <2>6 DEF DTaskHolds
    <2>8. DEnded(d)' => Over(djob[d], dattempt[d])'
      BY <1>2, <2>6 DEF DEnded, Over
    <2>9. \A k \in Jobs : events[k][FAILED] <= events'[k][FAILED] /\ Same(k)
      BY <1>3, <2>6 DEF Same
    <2>10. QED
      BY <1>2, <2>4, <2>6, <2>7, <2>8, <2>9
  <1>6. CASE DHandle(d)
    <2>1. /\ UNCHANGED <<topics, held, published>> /\ held[d] # NoMessage
      BY <1>6 DEF DHandle, mVars
    <2>2. /\ UNCHANGED <<clock, outbox, pc, ret, lease, job, djob, dattempt>>
          /\ faults <= faults'
          /\ dpc' = [dpc EXCEPT ![d] = dpc'[d]] /\ dret' = [dret EXCEPT ![d] = dret'[d]]
          /\ dpc[d] # "idle"
      BY <1>2, <1>6 DEF DHandle, DProcessRaises, DComplete, DCompleteReplyLost,
         DCompleteCommitted, DMarkFailed, DMarkFailedError, DReturn, iVars, Fault
    <2>3. PICK j \in Jobs : j = djob[d]
      BY <1>2
    <2>4. dattempt[d] \in outbox[j] /\ row[j].status # PENDING /\ row[j] \in Row
      BY <1>1, <2>2, <2>3, RowParts DEF PInv, MessagesAreIssued
    <2>5. CASE DProcessRaises(d) \/ DMarkFailedError(d)
      <3>1. UNCHANGED <<row, events>> /\ ~DEnded(d)'
        BY <1>2, <2>5 DEF DProcessRaises, DMarkFailedError, DReturn, DEnded
      <3>2. \A k \in Jobs : events[k][FAILED] <= events'[k][FAILED] /\ Same(k)
        BY <1>3, <3>1 DEF Same
      <3>3. DTaskHolds(d)'
        BY <1>1, <2>1, <2>2 DEF DTaskHolds
      <3>4. QED
        BY <1>2, <2>1, <2>2, <3>1, <3>2, <3>3
    <2>6. ASSUME NEW target \in {SUCCESS, FAILED}, NEW e \in EventType, Add(j, e),
                 target = FAILED => e = FAILED,
                 NEW r, row' = [row EXCEPT ![j] = IF MayBecome(row[j], target) THEN r ELSE row[j]],
                 r.status = target, r.epoch = row[j].epoch, r.expires = row[j].expires
          PROVE  /\ \A k \in Jobs : /\ events[k][FAILED] <= events'[k][FAILED]
                                    /\ Same(k) \/ (Written(k) /\ outbox[k] # {})
                 /\ Over(djob[d], dattempt[d])'
      <3>1. \A k \in Jobs : /\ events[k][FAILED] <= events'[k][FAILED]
                            /\ k # j => Same(k)
        <4>1. /\ events'[j][e] = events[j][e] + 1
              /\ \A k \in Jobs, f \in EventType :
                    k # j \/ f # e => events'[k][f] = events[k][f]
          BY <1>2, <2>6, AddCounts
        <4>2. ASSUME NEW k \in Jobs  PROVE events[k][FAILED] <= events'[k][FAILED]
          <5>1. events[k][FAILED] \in Nat
            BY <1>3
          <5>2. \/ events'[k][FAILED] = events[k][FAILED]
                \/ events'[k][FAILED] = events[k][FAILED] + 1
            BY <1>4, <4>1
          <5>3. QED
            BY <5>1, <5>2
        <4>3. \A k \in Jobs : k # j => Same(k)
          BY <1>2, <2>6 DEF Same
        <4>4. QED
          BY <4>2, <4>3
      <3>2. e = FAILED => events'[j][FAILED] > events[j][FAILED]
        BY <1>2, <1>3, <2>6, AddCounts
      <3>3. CASE row[j].status = PROCESSING
        <4>1. row'[j] = r
          BY <1>2, <2>4, <2>6, <3>3, TransitionTable
        <4>2. Written(j)
          BY <1>4, <2>6, <3>2, <3>3, <4>1 DEF Written
        <4>3. row'[djob'[d]].status \in {SUCCESS, FAILED}
          BY <2>2, <2>3, <2>6, <4>1
        <4>4. QED
          BY <2>4, <3>1, <4>2, <4>3 DEF Over
      <3>4. CASE row[j].status # PROCESSING
        <4>1. row'[j] = row[j]
          BY <1>2, <2>4, <2>6, <3>4, TransitionTable
        <4>2. row[j].status \in {SUCCESS, FAILED}
          BY <1>1, <2>4, <3>4, RowParts
        <4>3. row'[djob'[d]].status \in {SUCCESS, FAILED}
          BY <2>2, <2>3, <4>1, <4>2
        <4>4. QED
          BY <3>1, <4>1, <4>3 DEF Over, Same
      <3>5. QED
        BY <3>3, <3>4
    <2>7. CASE DComplete(d) \/ DCompleteReplyLost(d)
      <3> DEFINE r == Succeeded(row[j], dattempt[d])
      <3>1. /\ Add(j, COMPLETED)
            /\ row' = [row EXCEPT ![j] = IF MayBecome(row[j], SUCCESS) THEN r ELSE row[j]]
        BY <2>3, <2>7 DEF DComplete, DCompleteReplyLost, DCompleteCommitted, UpdateIfAllowed
      <3>2. r.status = SUCCESS /\ r.epoch = row[j].epoch /\ r.expires = row[j].expires
        BY DEF Succeeded
      <3> HIDE DEF r
      <3>3. /\ \A k \in Jobs : /\ events[k][FAILED] <= events'[k][FAILED]
                               /\ Same(k) \/ (Written(k) /\ outbox[k] # {})
            /\ Over(djob[d], dattempt[d])'
        BY <1>4, <2>6, <3>1, <3>2
      <3>4. DTaskHolds(d)'
        BY <1>1, <2>1, <2>2 DEF DTaskHolds
      <3>5. QED
        BY <1>2, <2>1, <2>2, <3>3, <3>4
    <2>8. CASE DMarkFailed(d)
      <3> DEFINE r == Failed(row[j], dattempt[d])
      <3>1. /\ Add(j, FAILED)
            /\ row' = [row EXCEPT ![j] = IF MayBecome(row[j], FAILED) THEN r ELSE row[j]]
        BY <2>3, <2>8 DEF DMarkFailed, UpdateIfAllowed
      <3>2. r.status = FAILED /\ r.epoch = row[j].epoch /\ r.expires = row[j].expires
        BY DEF Failed
      <3> HIDE DEF r
      <3>3. /\ \A k \in Jobs : /\ events[k][FAILED] <= events'[k][FAILED]
                               /\ Same(k) \/ (Written(k) /\ outbox[k] # {})
            /\ Over(djob[d], dattempt[d])'
        BY <1>4, <2>6, <3>1, <3>2
      <3>4. DTaskHolds(d)'
        BY <1>1, <2>1, <2>2 DEF DTaskHolds
      <3>5. QED
        BY <1>2, <2>1, <2>2, <3>3, <3>4
    <2>9. QED
      BY <1>6, <2>5, <2>7, <2>8 DEF DHandle
  <1>7. CASE MDCrash(d)
    <2>1. /\ UNCHANGED <<clock, row, events, outbox, pc, ret, lease, job, djob, dattempt,
                         topics, published>>
          /\ held' = [held EXCEPT ![d] = NoMessage] /\ faults <= faults'
          /\ dpc' = [dpc EXCEPT ![d] = dpc'[d]] /\ dret' = [dret EXCEPT ![d] = dret'[d]]
      BY <1>2, <1>7 DEF MDCrash, DCrash, DReturn, iVars, Fault
    <2>2. DTaskHolds(d)' /\ ~DEnded(d)'
      BY <1>2, <2>1 DEF DTaskHolds, DEnded
    <2>3. \A k \in Jobs : events[k][FAILED] <= events'[k][FAILED] /\ Same(k)
      BY <1>3, <2>1 DEF Same
    <2>4. QED
      BY <1>2, <2>1, <2>2, <2>3
  <1>8. QED
    BY <1>5, <1>6, <1>7

-----------------------------------------------------------------------------
(* The ground of the argument holds throughout.                            *)

\* A step neither makes up a message nor loses a downstream message that has
\* something to do.
Careful ==
    /\ \A m \in topics' \ topics :
          IF m.attempt = 0
            THEN m.topic \in {Request_, RetryRequest} /\ <<m.job, 0>> \in published'
            ELSE /\ m.topic \in {DownstreamTopic, RetryDownstream}
                 /\ m.attempt \in outbox'[m.job]
    /\ \A j \in Jobs : \A a \in 0..MaxEpoch :
          <<j, a>> \in published' \ published => a = 0 \/ a \in outbox'[j]
    /\ published' = published \/ outbox' = outbox
    /\ \A j \in Jobs : \A a \in outbox[j] :
          UnderWay(j, a) => UnderWay(j, a)' \/ Over(j, a)'

\* A message that has nothing more to do stays so.
LEMMA OverStays ==
    ASSUME Ground, Onward, NEW j \in Jobs, NEW a \in outbox[j], Over(j, a)
    PROVE  Over(j, a)'
  <1>1. /\ row[j].epoch \in Nat /\ outbox[j] \subseteq 1..row[j].epoch
        /\ Same(j) \/ Written(j) \/ Taken(j)
    BY RowParts DEF Ground, MInv, Onward
  <1>2. a \in Nat /\ a <= row[j].epoch
    BY <1>1
  <1>3. CASE Same(j)
    BY <1>3 DEF Over, Same
  <1>4. CASE Written(j)
    BY <1>4 DEF Over, Written
  <1>5. CASE Taken(j)
    <2>1. row'[j].epoch = row[j].epoch + 1
      BY <1>5 DEF Taken
    <2>2. a < row'[j].epoch
      BY <1>1, <1>2, <2>1
    <2>3. QED
      BY <2>2 DEF Over
  <1>6. QED
    BY <1>1, <1>3, <1>4, <1>5

\* A downstream coroutine that is not concerned.
LEMMA DoneStays ==
    ASSUME Ground, Onward, NEW e \in DTasks, held'[e] = held[e], dpc'[e] = dpc[e],
           djob'[e] = djob[e], dattempt'[e] = dattempt[e], dret'[e] = dret[e]
    PROVE  DTaskHolds(e)' /\ (DEnded(e)' => Over(djob[e], dattempt[e])')
  <1>1. DTaskHolds(e) /\ (DEnded(e) => Over(djob[e], dattempt[e])) /\ MessagesKnown
    BY DEF Ground, TasksHold, DownstreamIsDone
  <1>2. DTaskHolds(e)'
    BY <1>1 DEF DTaskHolds
  <1>3. ASSUME DEnded(e)'  PROVE Over(djob[e], dattempt[e])'
    <2>1. DEnded(e) /\ held[e] # NoMessage
      BY <1>3 DEF DEnded
    <2>2. held[e] \in topics /\ djob[e] \in Jobs
      BY <2>1 DEF Ground, MInv, MTypeOK, TypeOK
    <2>3. PICK j \in Jobs : j = djob[e]
      BY <2>2
    <2>4. PICK a : a = dattempt[e]
      OBVIOUS
    <2>5. a \in outbox[j]
      BY <1>1, <2>1, <2>2, <2>3, <2>4 DEF DTaskHolds, MessagesKnown
    <2>6. Over(j, a)'
      BY <1>1, <2>1, <2>3, <2>4, <2>5, OverStays
    <2>7. QED
      BY <2>3, <2>4, <2>6 DEF Over
  <1>4. QED
    BY <1>2, <1>3

\* A careful step that moves the tables on keeps the ground.
LEMMA GroundKept ==
    ASSUME Ground, MInv', Onward, Careful, TasksHold', DownstreamIsDone'
    PROVE  Ground'
  <1>1. /\ MessagesKnown /\ LeaseBounded /\ FailuresCounted /\ PublishedKnown
        /\ UnpublishedIsPending /\ HandedOverIsUnderWay /\ PInv
        /\ topics' \subseteq Message /\ published' \subseteq Jobs \X (0..MaxEpoch)
        /\ topics \subseteq Message
    BY DEF Ground, MInv, MTypeOK
  <1>2. MessagesKnown'
    <2> SUFFICES ASSUME NEW m \in topics'
                 PROVE  IF m.attempt = 0
                          THEN m.topic \in {Request_, RetryRequest} /\ <<m.job, 0>> \in published'
                          ELSE /\ m.topic \in {DownstreamTopic, RetryDownstream}
                               /\ m.attempt \in outbox'[m.job]
      BY DEF MessagesKnown
    <2>1. CASE m \in topics
      BY <1>1, <2>1 DEF MessagesKnown, Onward, Message
    <2>2. CASE m \notin topics
      BY <2>2 DEF Careful
    <2>3. QED
      BY <2>1, <2>2
  <1>3. ASSUME NEW j \in Jobs
        PROVE  /\ row'[j].expires <= clock' + LeaseSeconds
               /\ row'[j].status = FAILED => events'[j][FAILED] > 0
               /\ <<j, 0>> \notin published' => row'[j].status = PENDING
    <2>1. /\ row[j].expires \in Nat /\ clock \in Nat /\ events[j][FAILED] \in Nat
          /\ clock' \in Nat /\ events'[j][FAILED] \in Nat
      <3>1. /\ clock' \in Nat /\ events' \in [Jobs -> [EventType -> Nat]]
            /\ FAILED \in EventType
        BY DEF PInv, TypeOK, MInv, EventType
      <3>2. QED
        BY <1>1, <3>1, RowParts
    <2>2. /\ events[j][FAILED] <= events'[j][FAILED] /\ clock <= clock'
          /\ published \subseteq published'
          /\ Same(j) \/ Written(j) \/ (Taken(j) /\ <<j, 0>> \in published)
      BY DEF Onward
    <2>3. /\ row[j].expires <= clock + LeaseSeconds
          /\ row[j].status = FAILED => events[j][FAILED] > 0
          /\ <<j, 0>> \notin published => row[j].status = PENDING
      BY <1>1 DEF LeaseBounded, FailuresCounted, UnpublishedIsPending
    <2>4. LeaseSeconds \in Nat /\ PENDING # PROCESSING /\ FAILED # PROCESSING
      BY LeaseAssumption DEF PENDING, PROCESSING, FAILED
    <2>5. CASE Same(j)
      BY <2>1, <2>2, <2>3, <2>4, <2>5 DEF Same
    <2>6. CASE Written(j)
      BY <2>1, <2>2, <2>3, <2>4, <2>6 DEF Written
    <2>7. CASE Taken(j) /\ <<j, 0>> \in published
      BY <2>1, <2>2, <2>3, <2>4, <2>7 DEF Taken
    <2>8. QED
      BY <2>2, <2>5, <2>6, <2>7
  <1>4. LeaseBounded' /\ FailuresCounted' /\ UnpublishedIsPending'
    BY <1>3 DEF LeaseBounded, FailuresCounted, UnpublishedIsPending
  <1>5. PublishedKnown'
    BY <1>1 DEF PublishedKnown, Careful, Onward
  <1>6. ASSUME NEW j \in Jobs, row'[j].status = PROCESSING, row'[j].epoch \in outbox'[j]
        PROVE  UnderWay(j, row[j].epoch)'
    <2>1. PICK a : a = row'[j].epoch
      OBVIOUS
    <2>2. /\ a # 0 /\ row[j].epoch \in Nat /\ outbox[j] \subseteq 1..row[j].epoch
      <3>1. outbox'[j] \subseteq 1..row'[j].epoch
        BY DEF MInv, PInv, MessagesAreIssued
      <3>2. QED
        BY <1>1, <1>6, <2>1, <3>1, RowParts
    <2>3. ASSUME a \notin outbox[j]  PROVE UnderWay(j, a)'
      <3>1. outbox' # outbox
        BY <1>6, <2>1, <2>3
      <3>2. published' = published
        BY <3>1 DEF Careful
      <3>3. <<j, a>> \notin published
        BY <1>1, <2>2, <2>3, <3>2 DEF PublishedKnown
      <3>4. QED
        BY <3>2, <3>3 DEF UnderWay
    <2>4. ASSUME Same(j), a \in outbox[j]  PROVE UnderWay(j, a)'
      <3>1. UnderWay(j, a)
        BY <1>1, <1>6, <2>1, <2>4 DEF HandedOverIsUnderWay, Same
      <3>2. ~Over(j, a)'
        BY <1>6, <2>1, <2>2, <2>4 DEF Over, PROCESSING, SUCCESS, FAILED, Same
      <3>3. QED
        BY <2>4, <3>1, <3>2 DEF Careful
    <2>5. ~Written(j)
      BY <1>6 DEF Written, PROCESSING, SUCCESS, FAILED
    <2>6. ASSUME Taken(j)  PROVE a \notin outbox[j]
      BY <2>1, <2>2, <2>6 DEF Taken
    <2>7. UnderWay(j, a)'
      BY <2>3, <2>4, <2>5, <2>6 DEF Onward
    <2>8. QED
      BY <2>1, <2>7 DEF UnderWay
  <1>7. HandedOverIsUnderWay'
    BY <1>6 DEF HandedOverIsUnderWay
  <1>8. QED
    BY <1>2, <1>4, <1>5, <1>7 DEF Ground

\* A step without effect on rows, outbox and published rows.
LEMMA QuietIsOnward ==
    ASSUME Ground, UNCHANGED <<row, outbox, published>>, clock <= clock', faults <= faults',
           \A k \in Jobs : events[k][FAILED] <= events'[k][FAILED]
    PROVE  Onward
  BY DEF Onward, Same

\* When no message leaves a topic, a step that publishes nothing is careful.
LEMMA KeptIsCareful ==
    ASSUME UNCHANGED <<topics, published>>
    PROVE  Careful
  BY DEF Careful, UnderWay

\* A request is delivered.
LEMMA DeliverKeepsGround ==
    ASSUME Ground, MInv', RolesRead, NEW t \in Tasks, Deliver(t)
    PROVE  /\ Onward /\ Ground'
           /\ \E m \in topics : \E j \in Jobs :
                 /\ m.job = j /\ m.attempt = 0 /\ m.due <= clock /\ held[t] = NoMessage
                 /\ held' = [held EXCEPT ![t] = m] /\ \A u \in AllTasks : held[u] # m
                 /\ OthersKept(t) /\ JobsKept(j) /\ UNCHANGED <<topics, published, outbox>>
                 /\ events'[j][FAILED] = events[j][FAILED]
                 /\ Accepted(t, j) \/ NotReceived(t, j) \/ Refused(t, j)
  <1>1. PICK m \in topics :
           /\ Handed(t, m)
           /\ \/ Claim(t, m.job) \/ ClaimReplyLost(t, m.job)
              \/ ClaimError(t, m.job) \/ ClaimRefused(t, m.job)
    BY DEF Deliver
  <1>2. /\ MInv /\ MessagesKnown /\ TasksHold /\ TaskHolds(t)
        /\ held \in [AllTasks -> topics \cup {NoMessage}] /\ topics \subseteq Message
        /\ t \in AllTasks /\ t \notin DTasks /\ DTasks \subseteq AllTasks
        /\ Tasks \subseteq AllTasks
    BY TopicsOfRoles DEF Ground, MInv, MTypeOK, AllTasks, TasksHold
  <1>3. PICK j \in Jobs : j = m.job
    BY <1>2 DEF Message
  <1>4. /\ held[t] = NoMessage /\ m.due <= clock /\ UNCHANGED <<topics, published>>
        /\ held' = [held EXCEPT ![t] = m] /\ \A u \in AllTasks : held[u] # m
        /\ m.topic \in {Request_, RetryRequest}
    BY <1>1, <1>2, TopicsOfRoles DEF Handed
  <1>5. m.attempt = 0 /\ <<j, 0>> \in published
    BY <1>2, <1>3, <1>4 DEF MessagesKnown, Request_, RetryRequest, DownstreamTopic,
       RetryDownstream
  <1>6. /\ OthersKept(t) /\ JobsKept(j) /\ job'[t] = j /\ outbox' = outbox
        /\ events'[j][FAILED] = events[j][FAILED]
        /\ Accepted(t, j) \/ NotReceived(t, j) \/ Refused(t, j)
    BY <1>1, <1>2, <1>3, <1>4, Receives DEF TaskHolds
  <1>7. /\ \A k \in Jobs : /\ Same(k) \/ (Taken(k) /\ <<k, 0>> \in published)
                           /\ events'[k][FAILED] = events[k][FAILED]
                           /\ events[k][FAILED] \in Nat
        /\ clock' = clock /\ clock \in Nat /\ faults \in Nat /\ faults <= faults'
    <2>1. PInv /\ faults \in Nat /\ clock \in Nat /\ clock' = clock
      BY <1>2, <1>6 DEF MInv, PInv, TypeOK, OthersKept
    <2>2. faults <= faults' /\ (Same(j) \/ Taken(j))
      BY <1>6, <2>1 DEF Accepted, NotReceived, Refused
    <2>3. QED
      BY <1>5, <1>6, <2>1, <2>2, RowParts DEF JobsKept
  <1>8. Onward
    BY <1>4, <1>6, <1>7 DEF Onward
  <1>9. TasksHold'
    <2>1. TaskHolds(t)'
      BY <1>2, <1>3, <1>4, <1>5, <1>6, <1>7, MessageAssumption DEF TaskHolds
    <2>2. ASSUME NEW u \in Tasks \ {t}  PROVE TaskHolds(u)'
      BY <1>2, <1>4, <1>6, <1>7, <2>2 DEF TaskHolds, TasksHold, OthersKept
    <2>3. ASSUME NEW d \in DTasks  PROVE DTaskHolds(d)'
      BY <1>2, <1>4, <1>6, <2>3 DEF DTaskHolds, TasksHold, OthersKept
    <2>4. QED
      BY <2>1, <2>2, <2>3 DEF TasksHold
  <1>10. DownstreamIsDone'
    <2>1. ASSUME NEW d \in DTasks  PROVE DEnded(d)' => Over(djob[d], dattempt[d])'
      BY <1>2, <1>4, <1>6, <1>8, <2>1, DoneStays DEF OthersKept
    <2>2. QED
      BY <2>1 DEF DownstreamIsDone
  <1>11. Ground'
    BY <1>4, <1>8, <1>9, <1>10, KeptIsCareful, GroundKept
  <1>12. QED
    BY <1>3, <1>4, <1>5, <1>6, <1>8, <1>11

\* A handler goes on.
LEMMA HandleKeepsGround ==
    ASSUME Ground, MInv', RolesRead, NEW t \in Tasks, Handle(t)
    PROVE  Onward /\ Ground'
  <1>1. PICK j : j = job[t]
    OBVIOUS
  <1>2. /\ OthersKept(t) /\ JobsKept(j) /\ job'[t] = j /\ j \in Jobs
        /\ UNCHANGED mVars /\ held[t] # NoMessage /\ Proceeds(t, j)
    BY <1>1, HandlerSteps DEF Ground
  <1>3. /\ TaskHolds(t) /\ TasksHold /\ PInv /\ t \notin DTasks
        /\ UNCHANGED <<topics, held, published>>
    BY <1>2, TopicsOfRoles DEF Ground, MInv, TasksHold, mVars
  <1>4. /\ Same(j) \/ Written(j)
        /\ outbox[j] \subseteq outbox'[j]
        /\ events[j][FAILED] <= events'[j][FAILED] /\ faults <= faults'
    <2>1. faults \in Nat /\ events[j][FAILED] \in Nat /\ events'[j][FAILED] \in Nat
      <3>1. /\ events' \in [Jobs -> [EventType -> Nat]] /\ FAILED \in EventType
        BY DEF PInv, TypeOK, MInv, EventType
      <3>2. QED
        BY <1>2, <1>3, <3>1, RowParts
    <2> USE DEF Untouched
    <2>2. CASE ReadAgain(t, j) \/ Abandoned(t, j) \/ Caught(t, j) \/ Fenced(t, j)
      BY <2>1, <2>2 DEF ReadAgain, Abandoned, Caught, Fenced
    <2>3. CASE PassedDown(t, j) \/ Completed(t, j)
      BY <2>1, <2>3 DEF PassedDown, Completed, Reported
    <2>4. CASE GaveUp(t, j)
      BY <2>1, <2>4 DEF GaveUp, Written
    <2>5. QED
      BY <1>2, <2>2, <2>3, <2>4 DEF Proceeds
  <1>5. Onward
    <2>1. \A k \in Jobs : /\ outbox[k] \subseteq outbox'[k]
                          /\ Same(k) \/ Written(k)
                          /\ events[k][FAILED] <= events'[k][FAILED]
      BY <1>2, <1>3, <1>4, RowParts DEF JobsKept
    <2>2. clock' = clock /\ clock \in Nat
      BY <1>2, <1>3 DEF OthersKept, PInv, TypeOK
    <2>3. QED
      BY <1>3, <1>4, <2>1, <2>2 DEF Onward
  <1>6. TasksHold'
    <2>1. TaskHolds(t)'
      BY <1>1, <1>2, <1>3 DEF TaskHolds, OthersKept
    <2>2. ASSUME NEW u \in Tasks \ {t}  PROVE TaskHolds(u)'
      BY <1>2, <1>3, <2>2 DEF TaskHolds, TasksHold, OthersKept
    <2>3. ASSUME NEW d \in DTasks  PROVE DTaskHolds(d)'
      BY <1>2, <1>3, <2>3 DEF DTaskHolds, TasksHold, OthersKept
    <2>4. QED
      BY <2>1, <2>2, <2>3 DEF TasksHold
  <1>7. DownstreamIsDone'
    <2>1. ASSUME NEW d \in DTasks  PROVE DEnded(d)' => Over(djob[d], dattempt[d])'
      BY <1>2, <1>3, <1>5, <2>1, DoneStays DEF OthersKept
    <2>2. QED
      BY <2>1 DEF DownstreamIsDone
  <1>8. QED
    BY <1>3, <1>5, <1>6, <1>7, KeptIsCareful, GroundKept

\* A downstream coroutine takes a step.
LEMMA DownstreamKeepsGround ==
    ASSUME Ground, MInv', RolesRead, NEW d \in DTasks,
           DDeliver(d) \/ DHandle(d) \/ MDCrash(d)
    PROVE  Onward /\ Ground'
  <1>1. /\ UNCHANGED <<clock, outbox, pc, ret, lease, job, topics, published>>
        /\ \A t \in Tasks : held'[t] = held[t]
        /\ \A e \in DTasks \ {d} : /\ held'[e] = held[e] /\ dpc'[e] = dpc[e]
                                   /\ djob'[e] = djob[e] /\ dret'[e] = dret[e]
                                   /\ dattempt'[e] = dattempt[e]
        /\ faults <= faults'
        /\ \A k \in Jobs : /\ events[k][FAILED] <= events'[k][FAILED]
                           /\ Same(k) \/ (Written(k) /\ outbox[k] # {})
        /\ DTaskHolds(d)' /\ (DEnded(d)' => Over(djob[d], dattempt[d])')
    BY DownstreamSteps
  <1>2. TasksHold /\ clock \in Nat
    BY DEF Ground, MInv, PInv, TypeOK
  <1>3. Onward
    BY <1>1, <1>2 DEF Onward
  <1>4. TasksHold' /\ DownstreamIsDone'
    <2>1. ASSUME NEW t \in Tasks  PROVE TaskHolds(t)'
      BY <1>1, <1>2, <2>1 DEF TaskHolds, TasksHold
    <2>2. ASSUME NEW e \in DTasks \ {d}
          PROVE  DTaskHolds(e)' /\ (DEnded(e)' => Over(djob[e], dattempt[e])')
      BY <1>1, <1>3, <2>2, DoneStays
    <2>3. QED
      BY <1>1, <2>1, <2>2 DEF TasksHold, DownstreamIsDone
  <1>5. QED
    BY <1>1, <1>3, <1>4, KeptIsCareful, GroundKept

\* A message is settled.
LEMMA SettleKeepsGround ==
    ASSUME Ground, MInv', RolesRead, NEW t \in AllTasks, Settle(t)
    PROVE  Onward /\ Ground'
  <1>1. PICK r \in {"ack", "retry", "raised"} :
           /\ Returned(t, r)
           /\ \/ topics' = Settled(t, held[t], r) /\ UNCHANGED faults
              \/ topics' = Settled(t, held[t], r) \cup {held[t]} /\ Fault
    BY DEF Settle
  <1>2. /\ held[t] # NoMessage /\ held' = [held EXCEPT ![t] = NoMessage]
        /\ UNCHANGED <<clock, row, events, outbox, published, pc, ret, lease, job,
                       dpc, djob, dattempt, dret>>
    BY <1>1 DEF Settle, Returned, iVars, dVars
  <1>3. PICK m : m = held[t]
    OBVIOUS
  <1>4. PICK q : q = Retried(t, m)
    OBVIOUS
  <1>5. /\ m \in topics /\ m \in Message /\ m.count \in 0..RetryMax
        /\ topics \ {m} \subseteq topics' /\ \A n \in topics' : n \in topics \/ n = q
        /\ r = "raised" => topics' = topics
        /\ (r = "retry" /\ m.count < RetryMax) => q \in topics'
    BY <1>1, <1>2, <1>3, <1>4, SettledTopics DEF Ground
  <1>6. /\ held \in [AllTasks -> topics \cup {NoMessage}] /\ Tasks \subseteq AllTasks
        /\ DTasks \subseteq AllTasks /\ MessagesKnown /\ TasksHold /\ DownstreamIsDone
        /\ clock \in Nat /\ faults \in Nat /\ \A k \in Jobs : events[k][FAILED] \in Nat
        /\ PInv
    BY RowParts DEF Ground, MInv, MTypeOK, AllTasks, PInv, TypeOK
  <1>7. Onward
    <2>1. clock <= clock' /\ faults <= faults'
      BY <1>1, <1>2, <1>6 DEF Fault
    <2>2. QED
      BY <1>2, <1>6, <2>1, QuietIsOnward
  <1>8. t \in DTasks => DTaskHolds(t) /\ dpc[t] = "idle" /\ dret[t] = r
    BY <1>1, <1>6 DEF TasksHold, Returned
  <1>9. t \in Tasks => TaskHolds(t) /\ t \notin DTasks /\ pc[t] = "idle" /\ ret[t] = r
    BY <1>1, <1>6, TopicsOfRoles DEF TasksHold, Returned
  <1>10. m.count < RetryMax =>
            /\ q.job = m.job /\ q.attempt = m.attempt
            /\ q.topic = resolve_worker_retry_topic(RoleOf[t])
    BY <1>4, <1>5, <1>6, RetriedMessage
  <1>11. \A n \in topics' \ topics : n = q /\ m.count < RetryMax
    <2>1. ASSUME ~(m.count < RetryMax)  PROVE topics' \subseteq topics
      BY <1>1, <1>3, <1>5, <2>1 DEF Settled, RetriesLeft
    <2>2. QED
      BY <1>5, <2>1
  <1>12. Careful
    <2>1. ASSUME NEW n \in topics' \ topics
          PROVE  IF n.attempt = 0
                   THEN n.topic \in {Request_, RetryRequest} /\ <<n.job, 0>> \in published'
                   ELSE /\ n.topic \in {DownstreamTopic, RetryDownstream}
                        /\ n.attempt \in outbox'[n.job]
      <3>1. /\ n.job = m.job /\ n.attempt = m.attempt
            /\ n.topic = resolve_worker_retry_topic(RoleOf[t])
        BY <1>10, <1>11, <2>1
      <3>2. CASE t \in Tasks
        <4>1. m.attempt = 0 /\ n.topic = RetryRequest
          BY <1>2, <1>3, <1>9, <3>1, <3>2, TopicsOfRoles DEF TaskHolds
        <4>2. QED
          BY <1>2, <1>5, <1>6, <3>1, <4>1 DEF MessagesKnown
      <3>3. CASE t \in DTasks
        <4>1. m.attempt # 0 /\ n.topic = RetryDownstream
          BY <1>2, <1>3, <1>8, <3>1, <3>3, TopicsOfRoles DEF DTaskHolds
        <4>2. QED
          BY <1>2, <1>5, <1>6, <3>1, <4>1 DEF MessagesKnown
      <3>4. QED
        BY <3>2, <3>3 DEF AllTasks
    <2>2. ASSUME NEW j \in Jobs, NEW a \in outbox[j], UnderWay(j, a)
          PROVE  UnderWay(j, a)' \/ Over(j, a)'
      <3>1. CASE <<j, a>> \notin published
        BY <1>2, <3>1 DEF UnderWay
      <3>2. CASE \E n \in topics \ {m} : n.job = j /\ n.attempt = a
        BY <1>5, <3>2 DEF UnderWay
      <3>3. CASE m.job = j /\ m.attempt = a
        <4>1. CASE r = "raised"
          BY <1>5, <3>3, <4>1 DEF UnderWay
        <4>2. CASE r = "retry" /\ m.count < RetryMax
          BY <1>5, <1>10, <3>3, <4>2 DEF UnderWay
        <4>3. CASE r \in {"ack", "retry"}
          <5>1. a # 0
            BY <1>6, RowParts
          <5>2. t \in DTasks
            BY <1>2, <1>3, <1>9, <3>3, <5>1 DEF TaskHolds, AllTasks
          <5>3. DEnded(t) /\ djob[t] = j /\ dattempt[t] = a
            BY <1>2, <1>3, <1>8, <3>3, <4>3, <5>2 DEF DTaskHolds, DEnded
          <5>4. Over(j, a)
            BY <1>6, <5>2, <5>3 DEF DownstreamIsDone
          <5>5. QED
            BY <1>7, <5>4, OverStays
        <4>4. QED
          BY <4>1, <4>2, <4>3
      <3>4. QED
        BY <2>2, <3>1, <3>2, <3>3 DEF UnderWay
    <2>3. QED
      BY <1>2, <2>1, <2>2 DEF Careful
  <1>13. TasksHold' /\ DownstreamIsDone'
    <2>1. held'[t] = NoMessage /\ \A u \in AllTasks \ {t} : held'[u] = held[u]
      BY <1>2, <1>6
    <2>2. ASSUME NEW u \in Tasks  PROVE TaskHolds(u)'
      BY <1>2, <1>6, <1>9, <2>1, <2>2 DEF TaskHolds, TasksHold
    <2>3. ASSUME NEW e \in DTasks
          PROVE  DTaskHolds(e)' /\ (DEnded(e)' => Over(djob[e], dattempt[e])')
      <3>1. CASE e = t
        BY <2>1, <3>1 DEF DTaskHolds, DEnded
      <3>2. CASE e # t
        BY <1>2, <1>6, <1>7, <2>1, <2>3, <3>2, DoneStays
      <3>3. QED
        BY <3>1, <3>2
    <2>4. QED
      BY <2>2, <2>3 DEF TasksHold, DownstreamIsDone
  <1>14. QED
    BY <1>7, <1>12, <1>13, GroundKept

\* A relay publishes, a process stops, time passes.
LEMMA OthersKeepGround ==
    ASSUME Ground, MInv', RolesRead,
           \/ Relays \/ MTick \/ UNCHANGED allVars
           \/ \E w \in Workers : MCrash(w)
    PROVE  Onward /\ Ground'
  <1>1. /\ held \in [AllTasks -> topics \cup {NoMessage}] /\ Tasks \subseteq AllTasks
        /\ DTasks \subseteq AllTasks /\ MessagesKnown /\ TasksHold /\ topics \subseteq Message
        /\ clock \in Nat /\ faults \in Nat /\ \A k \in Jobs : events[k][FAILED] \in Nat
        /\ PInv /\ pc \in [Tasks -> Control]
    BY RowParts DEF Ground, MInv, MTypeOK, AllTasks, PInv, TypeOK, Control
  <1>2. ASSUME Onward, UNCHANGED dVars, \A d \in DTasks : held'[d] = held[d]
        PROVE  DownstreamIsDone' /\ \A d \in DTasks : DTaskHolds(d)'
    <2>1. ASSUME NEW e \in DTasks
          PROVE  DTaskHolds(e)' /\ (DEnded(e)' => Over(djob[e], dattempt[e])')
      BY <1>2, <2>1, DoneStays DEF dVars
    <2>2. QED
      BY <2>1 DEF DownstreamIsDone
  <1>3. ASSUME NEW j \in Jobs, NEW a \in 0..MaxEpoch, Relay(j, a)
        PROVE  Onward /\ Ground'
    <2>1. PICK m : m = [topic |-> IF a = 0 THEN Request_ ELSE DownstreamTopic,
                        job |-> j, attempt |-> a, count |-> 0, due |-> 0]
      OBVIOUS
    <2>2. /\ m.job = j /\ m.attempt = a
          /\ m.topic = IF a = 0 THEN Request_ ELSE DownstreamTopic
      BY <2>1
    <2>3. /\ topics' = topics \cup {m} /\ published' = published \cup {<<j, a>>}
          /\ UNCHANGED <<vars, held>> /\ (a = 0 \/ a \in outbox[j])
      BY <1>3, <2>1 DEF Relay
    <2>4. UNCHANGED <<clock, row, events, outbox, pc, job, dVars, faults, held>>
      BY <2>3 DEF vars, iVars
    <2>5. Onward
      BY <1>1, <2>3, <2>4 DEF Onward, Same
    <2>6. Careful
      <3>1. \A n \in topics' \ topics : n = m
        BY <2>3
      <3>2. ASSUME NEW k \in Jobs, NEW b, UnderWay(k, b)
            PROVE  UnderWay(k, b)'
        BY <2>2, <2>3, <3>2 DEF UnderWay
      <3>3. QED
        BY <2>2, <2>3, <2>4, <3>1, <3>2 DEF Careful
    <2>7. \A t \in Tasks : TaskHolds(t)'
      BY <1>1, <2>4 DEF TaskHolds, TasksHold
    <2>8. QED
      BY <1>2, <2>4, <2>5, <2>6, <2>7, GroundKept DEF TasksHold
  <1>4. ASSUME MTick \/ UNCHANGED allVars  PROVE Onward /\ Ground'
    <2>1. /\ UNCHANGED <<row, events, outbox, pc, job, dVars, faults, topics, held, published>>
          /\ clock <= clock' /\ clock' \in Nat
      BY <1>1, <1>4 DEF MTick, allVars, vars, mVars, iVars
    <2>2. Onward
      BY <1>1, <2>1, QuietIsOnward
    <2>3. ASSUME NEW t \in Tasks  PROVE TaskHolds(t)'
      <3>1. held[t] # NoMessage => held[t].due \in Nat
        BY <1>1 DEF Message
      <3>2. QED
        BY <1>1, <2>1, <3>1 DEF TaskHolds, TasksHold
    <2>4. QED
      BY <1>2, <2>1, <2>2, <2>3, KeptIsCareful, GroundKept DEF TasksHold
  <1>5. ASSUME NEW w \in Workers, MCrash(w)  PROVE Onward /\ Ground'
    <2>1. /\ UNCHANGED <<clock, row, events, outbox, job, dVars, topics, published>>
          /\ faults' = faults + 1
          /\ pc' = [t \in Tasks |-> IF OwnerOf[t] = w THEN "dead" ELSE pc[t]]
          /\ held' = [t \in AllTasks |-> IF t \in Tasks /\ OwnerOf[t] = w
                                           THEN NoMessage ELSE held[t]]
      BY <1>1, <1>5 DEF MCrash, Crash, Fault
    <2>2. Onward
      BY <1>1, <2>1, QuietIsOnward
    <2>3. ASSUME NEW t \in Tasks  PROVE TaskHolds(t)'
      BY <1>1, <2>1, <2>3 DEF TaskHolds, TasksHold
    <2>4. \A d \in DTasks : held'[d] = held[d]
      BY <1>1, <2>1, TopicsOfRoles
    <2>5. QED
      BY <1>2, <2>1, <2>2, <2>3, <2>4, KeptIsCareful, GroundKept DEF TasksHold
  <1>6. QED
    BY <1>3, <1>4, <1>5 DEF Relays

-----------------------------------------------------------------------------
(* Jobs with at most one trouble.                                          *)

\* The delays of m so far and to come reach past the lease of j: those to
\* come last until the lease is over.
Outlasts(m, j) == m.count > 0 => m.due + LeaseSeconds >= row[j].expires + Total[m.count]

\* The handler of t is about to return without an exception, or has.
Ended(t) == pc[t] = "refused" \/ (pc[t] = "idle" /\ ret[t] \in {"ack", "retry"})
Acked(t) == pc[t] = "idle" /\ ret[t] = "ack"

\* The request m of j that t is done with may go, or has retries left.
Settleable(t, m, j) ==
    \/ row[j].status \in {SUCCESS, FAILED}
    \/ row[j].epoch \in outbox[j]
    \/ ~Acked(t) /\ m.count < RetryMax

\* The row of j waits for the holder of its lease, or for the lease to expire.
Waiting(j) == row[j].status = PROCESSING /\ row[j].epoch \notin outbox[j]

\* A job with at most one trouble has one request, whose handler has the
\* newest token; it is there as long as the job waits, and outlasts a lease
\* whose holder is gone.
CalmJob(j) ==
    Troubles(j) <= 1 =>
        /\ \A m, n \in Requests(j) : m = n
        /\ \A t \in Tasks : held[t] \in Requests(j) /\ Holding(t) => lease[t] = row[j].epoch
        /\ row[j].status = PENDING => <<j, 0>> \notin published \/ Requests(j) # {}
        /\ Waiting(j) =>
              \E m \in Requests(j) : Outlasts(m, j) \/ \E t \in Tasks : held[t] = m /\ Holding(t)
        /\ \A t \in Tasks : held[t] \in Requests(j) /\ Ended(t) => Settleable(t, held[t], j)

\* Nothing has gone wrong with the request of j: there was no fault, and if an
\* attempt failed, it did so after the hand-over.
Quiet(j) ==
    /\ faults = 0 /\ Troubles(j) <= 1
    /\ events[j][FAILED] = 0 \/ row[j].error \in outbox[j]

\* A request that nothing went wrong with is delivered once, and its handler
\* works on the job, or is done with it.
Untroubled(j) ==
    Quiet(j) =>
        \A m \in Requests(j) :
            /\ m.count = 0
            /\ \/ row[j].status = PENDING /\ \A t \in Tasks : held[t] # m
               \/ \E t \in Tasks :
                     /\ held[t] = m
                     /\ \/ Acked(t)
                        \/ Holding(t) /\ row[j].status = PROCESSING /\ outbox[j] = {}

\* The inductive invariant.
TInv == Ground /\ \A j \in Jobs : CalmJob(j) /\ Untroubled(j)

-----------------------------------------------------------------------------
\* What the count of troubles says: f faults, e failures, the last of them
\* that of attempt x, and S the attempts that were handed over.
LEMMA CountOf ==
    ASSUME NEW f \in Nat, NEW e \in Nat, NEW x, NEW S, NEW n,
           n = IF f > 0 /\ e > 0 /\ x \in S THEN f + e - 1 ELSE f + e
    PROVE  /\ n \in Nat
           /\ n <= 1 => e = 0 \/ f = 0 \/ (e = 1 /\ x \in S)
           /\ n <= 1 => f <= 1 /\ e <= 1
           /\ f <= 1 /\ e <= 1 /\ (e = 0 \/ f = 0 \/ x \in S) => n <= 1
  <1>1. CASE f > 0 /\ e > 0 /\ x \in S
    BY <1>1
  <1>2. CASE ~(f > 0 /\ e > 0 /\ x \in S)
    BY <1>2
  <1>3. QED
    BY <1>1, <1>2

\* Troubles are counted: one too many stays one too many, and the first fault
\* finds a job with at most one trouble quiet and leaves it so no more.
LEMMA TroublesGrow ==
    ASSUME Ground, MInv', ErrorsKept, NEW k \in Jobs, Onward
    PROVE  /\ Troubles(k)' <= 1 => Troubles(k) <= 1
           /\ Quiet(k)' => Quiet(k)
           /\ faults' > faults /\ Troubles(k)' <= 1 => Quiet(k)
           /\ faults' > faults => ~Quiet(k)'
  <1>1. /\ faults \in Nat /\ events \in [Jobs -> [EventType -> Nat]]
        /\ faults' \in Nat /\ events' \in [Jobs -> [EventType -> Nat]]
        /\ FAILED \in EventType
    BY DEF Ground, MInv, PInv, TypeOK, EventType
  <1>2. PICK f \in Nat : f = faults
    BY <1>1
  <1>3. PICK g \in Nat : g = faults'
    BY <1>1
  <1>4. PICK e \in Nat : e = events[k][FAILED]
    BY <1>1
  <1>5. PICK c \in Nat : c = events'[k][FAILED]
    BY <1>1
  <1>6. f <= g /\ e <= c
    BY <1>2, <1>3, <1>4, <1>5 DEF Onward
  <1> DEFINE Before == row[k].error \in outbox[k]
             After == row'[k].error \in outbox'[k]
  <1>7. c = e /\ After => Before
    BY <1>4, <1>5 DEF ErrorsKept
  <1>8. /\ Troubles(k) <= 1 => f <= 1 /\ e <= 1 /\ (e = 0 \/ f = 0 \/ Before)
        /\ f <= 1 /\ e <= 1 /\ (e = 0 \/ f = 0 \/ Before) => Troubles(k) <= 1
    <2>1. Troubles(k) = IF f > 0 /\ e > 0 /\ row[k].error \in outbox[k]
                          THEN f + e - 1 ELSE f + e
      BY <1>2, <1>4 DEF Troubles
    <2>2. QED
      BY <2>1, CountOf
  <1>9. /\ Troubles(k)' <= 1 => g <= 1 /\ c <= 1 /\ (c = 0 \/ g = 0 \/ After)
        /\ g <= 1 /\ c <= 1 /\ (c = 0 \/ g = 0 \/ After) => Troubles(k)' <= 1
    <2>1. Troubles(k)' = IF g > 0 /\ c > 0 /\ row'[k].error \in outbox'[k]
                           THEN g + c - 1 ELSE g + c
      BY <1>3, <1>5 DEF Troubles
    <2>2. QED
      BY <2>1, CountOf
  <1>10. /\ Quiet(k) <=> f = 0 /\ Troubles(k) <= 1 /\ (e = 0 \/ Before)
         /\ Quiet(k)' <=> g = 0 /\ Troubles(k)' <= 1 /\ (c = 0 \/ After)
    BY <1>2, <1>3, <1>4, <1>5 DEF Quiet
  <1> HIDE DEF Before, After
  <1>11. Troubles(k)' <= 1 => Troubles(k) <= 1
    BY <1>6, <1>7, <1>8, <1>9
  <1>12. Quiet(k)' => Quiet(k)
    BY <1>6, <1>7, <1>9, <1>10, <1>11
  <1>13. g > f /\ Troubles(k)' <= 1 => Quiet(k)
    BY <1>6, <1>7, <1>9, <1>10, <1>11
  <1>14. g > f => ~Quiet(k)'
    BY <1>10
  <1>15. QED
    BY <1>2, <1>3, <1>11, <1>12, <1>13, <1>14

\* A job that a step does not concern stays calm, whatever troubles it counts.
LEMMA Unconcerned ==
    ASSUME NEW k \in Jobs, CalmJob(k), Untroubled(k), Same(k), outbox'[k] = outbox[k],
           Troubles(k)' <= 1 => Troubles(k) <= 1, Quiet(k)' => Quiet(k),
           Requests(k)' = Requests(k),
           <<k, 0>> \in published' <=> <<k, 0>> \in published,
           \A t \in Tasks : held[t] \in Requests(k) \/ held'[t] \in Requests(k) =>
               /\ held'[t] = held[t] /\ pc'[t] = pc[t] /\ ret'[t] = ret[t]
               /\ lease'[t] = lease[t]
    PROVE  CalmJob(k)' /\ Untroubled(k)'
  <1>1. \A m : Outlasts(m, k)' <=> Outlasts(m, k)
    BY DEF Outlasts, Same
  <1>2. ASSUME NEW t \in Tasks, held[t] \in Requests(k) \/ held'[t] \in Requests(k)
        PROVE  /\ held'[t] = held[t] /\ lease'[t] = lease[t]
               /\ Holding(t)' <=> Holding(t)
               /\ Ended(t)' <=> Ended(t)
               /\ Acked(t)' <=> Acked(t)
    BY <1>2 DEF Holding, Ended, Acked
  <1>3. Waiting(k)' <=> Waiting(k)
    BY DEF Waiting, Same
  <1>4. ASSUME Troubles(k)' <= 1  PROVE CalmJob(k)'
    <2>1. Troubles(k) <= 1
      BY <1>4
    <2>2. \A t \in Tasks : held'[t] \in Requests(k) /\ Holding(t)' => lease'[t] = row'[k].epoch
      BY <1>2, <2>1 DEF CalmJob, Same
    <2>3. row'[k].status = PENDING => <<k, 0>> \notin published' \/ Requests(k) # {}
      BY <2>1 DEF CalmJob, Same
    <2>4. Waiting(k)' => \E m \in Requests(k) :
             Outlasts(m, k)' \/ \E t \in Tasks : held'[t] = m /\ Holding(t)'
      BY <1>1, <1>2, <1>3, <2>1 DEF CalmJob
    <2>5. ASSUME NEW t \in Tasks, held'[t] \in Requests(k), Ended(t)'
          PROVE  Settleable(t, held[t], k)'
      <3>1. Settleable(t, held[t], k)
        BY <1>2, <2>1, <2>5 DEF CalmJob
      <3>2. QED
        BY <1>2, <2>5, <3>1 DEF Settleable, Same
    <2>6. QED
      BY <2>1, <2>2, <2>3, <2>4, <2>5 DEF CalmJob
  <1>5. ASSUME Quiet(k)', NEW m \in Requests(k)
        PROVE  /\ m.count = 0
               /\ \/ row'[k].status = PENDING /\ \A t \in Tasks : held'[t] # m
                  \/ \E t \in Tasks :
                        /\ held'[t] = m
                        /\ \/ Acked(t)'
                           \/ Holding(t)' /\ row'[k].status = PROCESSING /\ outbox'[k] = {}
    <2>1. Quiet(k)
      BY <1>5
    <2>2. CASE row[k].status = PENDING /\ \A t \in Tasks : held[t] # m
      BY <1>2, <1>5, <2>1, <2>2 DEF Untroubled, Same
    <2>3. ASSUME NEW t \in Tasks, held[t] = m,
                 \/ Acked(t)
                 \/ Holding(t) /\ row[k].status = PROCESSING /\ outbox[k] = {}
          PROVE  /\ held'[t] = m
                 /\ \/ Acked(t)'
                    \/ Holding(t)' /\ row'[k].status = PROCESSING /\ outbox'[k] = {}
      BY <1>2, <1>5, <2>3 DEF Same
    <2>4. QED
      BY <1>5, <2>1, <2>2, <2>3 DEF Untroubled
  <1>6. QED
    BY <1>4, <1>5 DEF CalmJob, Untroubled

\* The request m of j, with coroutine t, is as the invariant wants it.
Sound(t, m, j) ==
    /\ Holding(t) => lease[t] = row[j].epoch
    /\ Waiting(j) => Outlasts(m, j) \/ Holding(t)
    /\ Ended(t) => Settleable(t, m, j)
Fresh(t, m, j) ==
    /\ m.count = 0
    /\ Acked(t) \/ (Holding(t) /\ row[j].status = PROCESSING /\ outbox[j] = {})

\* It is enough to look at the coroutine that has the request.
LEMMA LocalCalm ==
    ASSUME MInv', NEW t \in Tasks, NEW j \in Jobs, NEW m, held'[t] = m, m # NoMessage,
           Troubles(j)' <= 1 => Requests(j)' = {m} /\ Sound(t, m, j)',
           Quiet(j)' => Fresh(t, m, j)'
    PROVE  CalmJob(j)' /\ Untroubled(j)'
  <1>1. \A u \in Tasks : held'[u] = m => u = t
    BY DEF MInv, HeldApart, AllTasks
  <1>2. ASSUME Troubles(j)' <= 1  PROVE CalmJob(j)'
    <2>1. Requests(j)' = {m} /\ Sound(t, m, j)'
      BY <1>2
    <2>2. \A u \in Tasks : held'[u] \in Requests(j)' => u = t
      BY <1>1, <2>1
    <2>3. \A u \in Tasks : held'[u] \in Requests(j)' /\ Holding(u)' => lease'[u] = row'[j].epoch
      BY <2>1, <2>2 DEF Sound
    <2>4. Waiting(j)' => \E n \in Requests(j)' :
             Outlasts(n, j)' \/ \E u \in Tasks : held'[u] = n /\ Holding(u)'
      BY <2>1 DEF Sound
    <2>5. ASSUME NEW u \in Tasks, held'[u] \in Requests(j)', Ended(u)'
          PROVE  Settleable(u, held[u], j)'
      <3>1. u = t
        BY <2>2, <2>5
      <3>2. Settleable(t, m, j)'
        BY <2>1, <2>5, <3>1 DEF Sound
      <3>3. QED
        BY <3>1, <3>2 DEF Settleable
    <2>6. QED
      BY <2>1, <2>3, <2>4, <2>5 DEF CalmJob
  <1>3. ASSUME Quiet(j)'  PROVE Untroubled(j)'
    <2>1. Requests(j)' = {m} /\ Fresh(t, m, j)'
      BY <1>3 DEF Quiet
    <2>2. QED
      BY <2>1 DEF Untroubled, Fresh
  <1>4. QED
    BY <1>2, <1>3 DEF CalmJob, Untroubled

\* What is known of the sums.
LEMMA TotalBackoff ==
    ASSUME BackoffsOutlastLease
    PROVE  /\ Total \in [0..RetryMax -> Nat] /\ Total[0] = 0 /\ Total[RetryMax] > LeaseSeconds
           /\ \A n \in 1..RetryMax : Total[n] = Total[n - 1] + Backoff[n]
           /\ RetryMax \in Nat /\ RetryMax > 0 /\ LeaseSeconds \in Nat
  <1>1. Sums(Total) /\ Total[RetryMax] > LeaseSeconds
    BY DEF BackoffsOutlastLease, Total
  <1>2. RetryMax \in Nat /\ LeaseSeconds \in Nat
    BY RetryAssumption, LeaseAssumption
  <1>3. RetryMax > 0
    BY <1>1, <1>2 DEF Sums
  <1>4. QED
    BY <1>1, <1>2, <1>3 DEF Sums

\* What the invariant says of a request m in a topic.
LEMMA TheRequest ==
    ASSUME TInv, NEW j \in Jobs, NEW m \in Requests(j)
    PROVE  /\ Troubles(j) <= 1 => Requests(j) = {m}
           /\ (Troubles(j) <= 1 /\ Waiting(j)) =>
                 Outlasts(m, j) \/ \E t \in Tasks : held[t] = m /\ Holding(t)
           /\ Quiet(j) => m.count = 0
           /\ (Quiet(j) /\ \A t \in Tasks : held[t] # m) => row[j].status = PENDING
           /\ m \in Message /\ m \in topics /\ m # NoMessage /\ m.count \in 0..RetryMax
           /\ m.job = j /\ m.attempt = 0
           /\ \A t \in Tasks : held[t] = m =>
                 /\ job[t] = j /\ \A u \in Tasks : held[u] = m => u = t
                 /\ Troubles(j) <= 1 => Sound(t, m, j)
                 /\ Quiet(j) => Fresh(t, m, j)
  <1>1. CalmJob(j) /\ Untroubled(j) /\ Ground /\ m \in topics /\ m.job = j /\ m.attempt = 0
    BY DEF TInv, Requests
  <1>2. m \in Message /\ TasksHold /\ HeldApart
    BY <1>1 DEF Ground, MInv, MTypeOK
  <1>3. m # NoMessage
    BY <1>2, MessageAssumption
  <1>4. m.count \in 0..RetryMax
    BY <1>2 DEF Message
  <1>5. Troubles(j) <= 1 => Requests(j) = {m}
    BY <1>1 DEF CalmJob
  <1>6. (Troubles(j) <= 1 /\ Waiting(j)) =>
           Outlasts(m, j) \/ \E t \in Tasks : held[t] = m /\ Holding(t)
    BY <1>1, <1>5 DEF CalmJob
  <1>7. /\ Quiet(j) => m.count = 0
        /\ (Quiet(j) /\ \A t \in Tasks : held[t] # m) => row[j].status = PENDING
    BY <1>1 DEF Untroubled
  <1>8. ASSUME NEW t \in Tasks, held[t] = m
        PROVE  /\ job[t] = j /\ \A u \in Tasks : held[u] = m => u = t
               /\ Troubles(j) <= 1 => Sound(t, m, j)
               /\ Quiet(j) => Fresh(t, m, j)
    <2>1. job[t] = j
      BY <1>1, <1>2, <1>3, <1>8 DEF TasksHold, TaskHolds
    <2>2. \A u \in Tasks : held[u] = m => u = t
      BY <1>2, <1>3, <1>8 DEF HeldApart, AllTasks
    <2>3. Troubles(j) <= 1 => Sound(t, m, j)
      BY <1>1, <1>6, <1>8, <2>2 DEF CalmJob, Sound
    <2>4. Quiet(j) => Fresh(t, m, j)
      BY <1>1, <1>8, <2>2 DEF Untroubled, Fresh
    <2>5. QED
      BY <2>1, <2>2, <2>3, <2>4
  <1>9. QED
    BY <1>1, <1>2, <1>3, <1>4, <1>5, <1>6, <1>7, <1>8

\* A request is delivered.
LEMMA DeliverKeepsTInv ==
    ASSUME TInv, MInv', ErrorsKept, RolesRead, BackoffsOutlastLease, NEW t \in Tasks, Deliver(t)
    PROVE  TInv'
  <1>1. PICK m \in topics : \E j \in Jobs :
           /\ m.job = j /\ m.attempt = 0 /\ m.due <= clock /\ held[t] = NoMessage
           /\ held' = [held EXCEPT ![t] = m] /\ \A u \in AllTasks : held[u] # m
           /\ OthersKept(t) /\ JobsKept(j) /\ UNCHANGED <<topics, published, outbox>>
           /\ events'[j][FAILED] = events[j][FAILED]
           /\ Accepted(t, j) \/ NotReceived(t, j) \/ Refused(t, j)
    BY DeliverKeepsGround DEF TInv
  <1>2. PICK j \in Jobs :
           /\ m.job = j /\ m.attempt = 0 /\ m.due <= clock /\ held[t] = NoMessage
           /\ held' = [held EXCEPT ![t] = m] /\ \A u \in AllTasks : held[u] # m
           /\ OthersKept(t) /\ JobsKept(j) /\ UNCHANGED <<topics, published, outbox>>
           /\ events'[j][FAILED] = events[j][FAILED]
           /\ Accepted(t, j) \/ NotReceived(t, j) \/ Refused(t, j)
    BY <1>1
  <1>3. Onward /\ Ground' /\ Ground
    BY DeliverKeepsGround DEF TInv
  <1>4. /\ held \in [AllTasks -> topics \cup {NoMessage}] /\ t \in AllTasks
        /\ Tasks \subseteq AllTasks /\ NoMessage \notin topics /\ PInv
    BY <1>3, MessageAssumption DEF Ground, MInv, MTypeOK, AllTasks
  <1>5. /\ held'[t] = m /\ m \in Requests(j) /\ \A k \in Jobs : Requests(k)' = Requests(k)
        /\ \A u \in Tasks : held[u] # m
        /\ \A u \in Tasks \ {t} : held'[u] = held[u]
    BY <1>2, <1>4 DEF Requests
  <1>6. ASSUME NEW k \in Jobs \ {j}  PROVE CalmJob(k)' /\ Untroubled(k)'
    <2>1. CalmJob(k) /\ Untroubled(k) /\ Same(k) /\ outbox'[k] = outbox[k]
      BY <1>2, <1>6 DEF TInv, JobsKept
    <2>2. \A u \in Tasks : held[u] \in Requests(k) \/ held'[u] \in Requests(k) => u # t
      BY <1>2, <1>4, <1>5, <1>6 DEF Requests
    <2>3. QED
      BY <1>2, <1>3, <1>5, <2>1, <2>2, TroublesGrow, Unconcerned DEF OthersKept
  <1>7. /\ Troubles(j)' <= 1 => Troubles(j) <= 1
        /\ Quiet(j)' => Quiet(j)
        /\ faults' = faults + 1 => ~Quiet(j)' /\ (Troubles(j)' <= 1 => Quiet(j))
    <2>1. faults \in Nat
      BY <1>3 DEF Ground, MInv, PInv, TypeOK
    <2>2. QED
      BY <1>3, <2>1, TroublesGrow
  <1>8. /\ Troubles(j) <= 1 => Requests(j) = {m}
        /\ (Troubles(j) <= 1 /\ Waiting(j)) => Outlasts(m, j)
        /\ Quiet(j) => m.count = 0 /\ row[j].status = PENDING
        /\ m \in Message /\ m # NoMessage /\ m.count \in 0..RetryMax
    BY <1>5, TheRequest
  <1>9. row[j] \in Row /\ row[j].epoch \in Nat /\ row[j].expires \in Nat /\ clock \in Nat
        /\ row[j].status \in {PENDING, PROCESSING, SUCCESS, FAILED}
        /\ (row[j].status = PENDING => outbox[j] = {})
    BY <1>4, RowParts
  <1> USE DEF PENDING, PROCESSING, SUCCESS, FAILED
  <1>10. ASSUME Troubles(j)' <= 1  PROVE Sound(t, m, j)'
    <2>1. Troubles(j) <= 1
      BY <1>7, <1>10
    <2>2. CASE Accepted(t, j)
      BY <2>2 DEF Accepted, Sound, Holding, Ended
    <2>3. CASE NotReceived(t, j)
      <3>1. m.count = 0
        BY <1>7, <1>8, <1>10, <2>3 DEF NotReceived
      <3>2. QED
        BY <2>3, <3>1 DEF NotReceived, Sound, Holding, Ended, Outlasts
    <2>4. CASE Refused(t, j)
      <3>1. /\ row'[j] = row[j] /\ outbox'[j] = outbox[j] /\ pc'[t] = "refused"
            /\ row[j].status = SUCCESS
               \/ (row[j].status = PROCESSING /\ ~(row[j].expires < clock))
        BY <1>2, <1>9, <2>4 DEF Refused, Same, Claimable
      <3>2. ASSUME Waiting(j)  PROVE Outlasts(m, j)' /\ m.count < RetryMax
        <4>1. Outlasts(m, j)
          BY <1>8, <2>1, <3>2
        <4>2. Outlasts(m, j)'
          BY <3>1, <4>1 DEF Outlasts
        <4>3. m.due \in Nat /\ m.due <= clock
          BY <1>2, <1>8 DEF Message
        <4>4. row[j].expires >= clock
          BY <1>9, <3>1, <3>2 DEF Waiting
        <4>5. ASSUME m.count = RetryMax  PROVE FALSE
          <5>1. m.due + LeaseSeconds >= row[j].expires + Total[RetryMax]
            BY <4>1, <4>5, TotalBackoff DEF Outlasts
          <5>2. Total[RetryMax] \in Nat
            BY TotalBackoff
          <5>3. QED
            BY <1>9, <4>3, <4>4, <5>1, <5>2, TotalBackoff
        <4>6. QED
          BY <1>8, <4>2, <4>5, TotalBackoff
      <3>3. Waiting(j)' <=> Waiting(j)
        BY <3>1 DEF Waiting
      <3>4. Settleable(t, m, j)'
        <4>1. row[j].status = SUCCESS \/ row[j].epoch \in outbox[j] \/ Waiting(j)
          BY <3>1 DEF Waiting
        <4>2. ~Acked(t)'
          BY <3>1 DEF Acked
        <4>3. QED
          BY <3>1, <3>2, <4>1, <4>2 DEF Settleable
      <3>5. QED
        BY <3>1, <3>2, <3>3, <3>4 DEF Sound, Holding
    <2>5. QED
      BY <1>2, <2>2, <2>3, <2>4
  <1>11. ASSUME Quiet(j)'  PROVE Fresh(t, m, j)'
    <2>1. Quiet(j)
      BY <1>7, <1>11
    <2>2. m.count = 0 /\ row[j].status = PENDING /\ outbox'[j] = {}
      BY <1>2, <1>8, <1>9, <2>1
    <2>3. ~NotReceived(t, j)
      BY <1>7, <1>11 DEF NotReceived
    <2>4. ~Refused(t, j)
      BY <2>2 DEF Refused, Claimable
    <2>5. QED
      BY <1>2, <2>2, <2>3, <2>4 DEF Accepted, Taken, Fresh, Holding
  <1>12. CalmJob(j)' /\ Untroubled(j)'
    BY <1>5, <1>7, <1>8, <1>10, <1>11, LocalCalm
  <1>13. QED
    BY <1>3, <1>6, <1>12 DEF TInv

\* A handler goes on.
LEMMA HandleKeepsTInv ==
    ASSUME TInv, MInv', ErrorsKept, RolesRead, NEW t \in Tasks, Handle(t)
    PROVE  TInv'
  <1>1. PICK j : j = job[t]
    OBVIOUS
  <1>2. Ground /\ PInv /\ Onward /\ Ground'
    BY HandleKeepsGround DEF TInv, Ground, MInv
  <1>3. /\ OthersKept(t) /\ JobsKept(j) /\ j \in Jobs
        /\ UNCHANGED <<topics, held, published>> /\ held[t] # NoMessage
        /\ Proceeds(t, j)
    BY <1>1, <1>2, HandlerSteps DEF Ground, mVars
  <1>4. PICK m : m = held[t]
    OBVIOUS
  <1>5. m \in Requests(j) /\ \A k \in Jobs : Requests(k)' = Requests(k)
    <2>1. m \in topics
      BY <1>2, <1>3, <1>4 DEF Ground, MInv, MTypeOK
    <2>2. m.job = j /\ m.attempt = 0
      BY <1>1, <1>2, <1>3, <1>4 DEF Ground, TasksHold, TaskHolds
    <2>3. QED
      BY <1>3, <2>1, <2>2 DEF Requests
  <1>6. ASSUME NEW k \in Jobs \ {j}  PROVE CalmJob(k)' /\ Untroubled(k)'
    <2>1. CalmJob(k) /\ Untroubled(k) /\ Same(k) /\ outbox'[k] = outbox[k]
      BY <1>3, <1>6 DEF TInv, JobsKept
    <2>2. \A u \in Tasks : held[u] \in Requests(k) \/ held'[u] \in Requests(k) => u # t
      BY <1>3, <1>4, <1>5, <1>6 DEF Requests
    <2>3. QED
      BY <1>2, <1>3, <1>5, <2>1, <2>2, TroublesGrow, Unconcerned DEF OthersKept
  <1>7. /\ Troubles(j)' <= 1 => Troubles(j) <= 1
        /\ Quiet(j)' => Quiet(j)
        /\ faults' = faults + 1 => ~Quiet(j)' /\ (Troubles(j)' <= 1 => Quiet(j))
    <2>1. faults \in Nat
      BY <1>2 DEF PInv, TypeOK
    <2>2. QED
      BY <1>2, <1>3, <2>1, TroublesGrow
  <1>8. /\ Troubles(j) <= 1 => Requests(j) = {m} /\ Sound(t, m, j)
        /\ Quiet(j) => Fresh(t, m, j) /\ m.count = 0
        /\ m # NoMessage
    BY <1>3, <1>4, <1>5, TheRequest
  <1> USE DEF PENDING, PROCESSING, SUCCESS, FAILED
  <1>9. ASSUME NEW target \in {SUCCESS, FAILED}, ~Owns(t, target), Holding(t),
               Troubles(j) <= 1
        PROVE  row[j].status \in {SUCCESS, FAILED}
    <2>1. lease[t] = row[job[t]].epoch
      BY <1>1, <1>8, <1>9 DEF Sound
    <2>2. QED
      BY <1>1, <1>2, <1>9, <2>1, NotOwning
  <1>10. ASSUME Troubles(j)' <= 1  PROVE Sound(t, m, j)'
    <2>1. Troubles(j) <= 1 /\ Sound(t, m, j)
      BY <1>7, <1>8, <1>10
    <2>2. Untouched(j) => /\ Waiting(j)' <=> Waiting(j)
                          /\ Outlasts(m, j)' <=> Outlasts(m, j)
                          /\ row'[j] = row[j] /\ outbox'[j] = outbox[j]
      BY DEF Untouched, Same, Waiting, Outlasts
    <2>3. CASE ReadAgain(t, j)
      <3>1. /\ pc[t] = "refused" /\ Untouched(j) /\ pc'[t] = "idle"
            /\ ret'[t] \in {"ack", "retry"}
            /\ ret'[t] = "ack" => row[j].status = SUCCESS
        BY <2>3 DEF ReadAgain
      <3>2. ~Holding(t)' /\ ~Holding(t) /\ Ended(t) /\ ~Acked(t)
        BY <3>1 DEF Holding, Ended, Acked
      <3>3. Waiting(j)' => Outlasts(m, j)'
        BY <2>1, <2>2, <3>1, <3>2 DEF Sound
      <3>4. Settleable(t, m, j)'
        BY <2>1, <2>2, <3>1, <3>2 DEF Sound, Settleable, Acked
      <3>5. QED
        BY <3>2, <3>3, <3>4 DEF Sound
    <2>4. CASE Abandoned(t, j)
      <3>1. m.count = 0
        BY <1>7, <1>8, <1>10, <2>4 DEF Abandoned
      <3>2. QED
        BY <2>4, <3>1 DEF Abandoned, Sound, Holding, Ended, Outlasts
    <2>5. CASE Caught(t, j)
      BY <2>1, <2>2, <2>5 DEF Caught, Sound, Holding, Ended
    <2>6. CASE PassedDown(t, j)
      <3>1. /\ lease[t] = row[j].epoch /\ row'[j] = row[j]
            /\ outbox'[j] = outbox[j] \cup {lease[t]}
        BY <2>1, <2>6 DEF PassedDown, Sound, Same
      <3>2. ~Waiting(j)' /\ Settleable(t, m, j)'
        BY <3>1 DEF Waiting, Settleable
      <3>3. Holding(t)' => lease'[t] = lease[t]
        BY <2>6 DEF PassedDown, Reported, Holding
      <3>4. QED
        BY <3>1, <3>2, <3>3 DEF Sound
    <2>7. CASE Completed(t, j)
      <3>1. lease[t] = row[j].epoch /\ row'[j].epoch = row[j].epoch /\ row'[j].status = SUCCESS
        BY <2>1, <2>7 DEF Completed, Sound, Written
      <3>2. ~Waiting(j)' /\ Settleable(t, m, j)'
        BY <3>1 DEF Waiting, Settleable
      <3>3. Holding(t)' => lease'[t] = lease[t]
        BY <2>7 DEF Completed, Reported, Holding
      <3>4. QED
        BY <3>1, <3>2, <3>3 DEF Sound
    <2>8. CASE Fenced(t, j)
      <3>1. row[j].status \in {SUCCESS, FAILED} /\ Untouched(j) /\ ~Holding(t)'
        BY <1>9, <2>1, <2>8 DEF Fenced, Holding
      <3>2. ~Waiting(j)' /\ Settleable(t, m, j)'
        BY <2>2, <3>1 DEF Waiting, Settleable
      <3>3. QED
        BY <3>1, <3>2 DEF Sound
    <2>9. CASE GaveUp(t, j)
      <3>1. row'[j].status = FAILED /\ ~Holding(t)'
        BY <2>9 DEF GaveUp, Holding
      <3>2. ~Waiting(j)' /\ Settleable(t, m, j)'
        BY <3>1 DEF Waiting, Settleable
      <3>3. QED
        BY <3>1, <3>2 DEF Sound
    <2>10. QED
      BY <1>3, <2>3, <2>4, <2>5, <2>6, <2>7, <2>8, <2>9 DEF Proceeds
  <1>11. ASSUME Quiet(j)'  PROVE Fresh(t, m, j)'
    <2>1. Quiet(j) /\ Fresh(t, m, j) /\ m.count = 0
      BY <1>7, <1>8, <1>11
    <2>2. ~Abandoned(t, j)
      BY <1>7, <1>11 DEF Abandoned
    <2>3. ~ReadAgain(t, j)
      BY <2>1 DEF ReadAgain, Fresh, Acked, Holding
    <2>4. ASSUME Holding(t)  PROVE row[j].status = PROCESSING /\ outbox[j] = {}
      BY <2>1, <2>4 DEF Fresh, Acked, Holding
    <2>5. ~Fenced(t, j)
      BY <1>9, <2>1, <2>4 DEF Fenced, Quiet
    <2>6. ~GaveUp(t, j)
      <3>1. GaveUp(t, j) => events'[j][FAILED] > events[j][FAILED] /\ outbox'[j] = {}
        BY <2>4 DEF GaveUp, Written
      <3>2. events[j][FAILED] \in Nat /\ events'[j][FAILED] \in Nat
        <4>1. /\ events \in [Jobs -> [EventType -> Nat]] /\ FAILED \in EventType
              /\ events' \in [Jobs -> [EventType -> Nat]]
          BY <1>2 DEF Ground, MInv, PInv, TypeOK, EventType
        <4>2. QED
          BY <1>3, <4>1
      <3>3. QED
        BY <1>11, <3>1, <3>2 DEF Quiet
    <2>7. CASE Caught(t, j)
      BY <2>1, <2>4, <2>7 DEF Caught, Untouched, Same, Fresh, Holding
    <2>8. CASE PassedDown(t, j) \/ Completed(t, j)
      BY <1>7, <1>11, <2>1, <2>8 DEF PassedDown, Completed, Reported, Fresh, Acked
    <2>9. QED
      BY <1>3, <2>2, <2>3, <2>5, <2>6, <2>7, <2>8 DEF Proceeds
  <1>12. CalmJob(j)' /\ Untroubled(j)'
    BY <1>3, <1>4, <1>5, <1>7, <1>8, <1>10, <1>11, LocalCalm
  <1>13. QED
    BY <1>2, <1>6, <1>12 DEF TInv

\* A downstream coroutine takes a step.
LEMMA DownstreamKeepsTInv ==
    ASSUME TInv, MInv', ErrorsKept, RolesRead, NEW d \in DTasks,
           DDeliver(d) \/ DHandle(d) \/ MDCrash(d)
    PROVE  TInv'
  <1>1. Onward /\ Ground' /\ Ground
    BY DownstreamKeepsGround DEF TInv
  <1>2. /\ UNCHANGED <<outbox, pc, ret, lease, topics, published>>
        /\ \A t \in Tasks : held'[t] = held[t]
        /\ \A k \in Jobs : Same(k) \/ (Written(k) /\ outbox[k] # {})
    BY <1>1, DownstreamSteps
  <1>3. ASSUME NEW k \in Jobs  PROVE CalmJob(k)' /\ Untroubled(k)'
    <2>1. /\ CalmJob(k) /\ Untroubled(k) /\ Requests(k)' = Requests(k)
          /\ outbox'[k] = outbox[k]
      BY <1>2 DEF TInv, Requests
    <2>2. (Troubles(k)' <= 1 => Troubles(k) <= 1) /\ (Quiet(k)' => Quiet(k))
      BY <1>1, TroublesGrow
    <2>3. CASE Same(k)
      BY <1>2, <2>1, <2>2, <2>3, Unconcerned
    <2>4. CASE Written(k) /\ outbox[k] # {}
      <3>1. /\ row[k].status = PROCESSING /\ row'[k].status \in {SUCCESS, FAILED}
            /\ row'[k].epoch = row[k].epoch
        BY <2>4 DEF Written
      <3>2. row'[k].status # PENDING /\ row'[k].status # PROCESSING /\ row[k].status # PENDING
        BY <3>1 DEF PENDING, PROCESSING, SUCCESS, FAILED
      <3>3. CalmJob(k)'
        <4> SUFFICES ASSUME Troubles(k)' <= 1  PROVE CalmJob(k)'
          BY DEF CalmJob
        <4>1. Troubles(k) <= 1
          BY <2>2
        <4>2. \A t \in Tasks : held'[t] \in Requests(k) /\ Holding(t)' => lease'[t] = row'[k].epoch
          BY <1>2, <2>1, <3>1, <4>1 DEF CalmJob, Holding
        <4>3. ~Waiting(k)' /\ \A t \in Tasks : Settleable(t, held[t], k)'
          BY <3>1, <3>2 DEF Waiting, Settleable
        <4>4. QED
          BY <2>1, <3>2, <4>1, <4>2, <4>3 DEF CalmJob
      <3>4. Untroubled(k)'
        <4> SUFFICES ASSUME Quiet(k)', NEW m \in Requests(k)
                     PROVE  m.count = 0 /\ \E t \in Tasks : held'[t] = m /\ Acked(t)'
          BY <2>1 DEF Untroubled
        <4>1. Quiet(k)
          BY <2>2
        <4>2. QED
          BY <1>2, <2>1, <2>4, <3>2, <4>1 DEF Untroubled, Acked
      <3>5. QED
        BY <3>3, <3>4
    <2>5. QED
      BY <1>2, <2>3, <2>4
  <1>4. QED
    BY <1>1, <1>3 DEF TInv

\* A job whose requests nobody has.
LEMMA FreeCalm ==
    ASSUME NEW j \in Jobs,
           Troubles(j)' <= 1 =>
               /\ \A t \in Tasks : held'[t] \notin Requests(j)'
               /\ \A m, n \in Requests(j)' : m = n
               /\ row'[j].status = PENDING => <<j, 0>> \notin published' \/ Requests(j)' # {}
               /\ Waiting(j)' => \E m \in Requests(j)' : Outlasts(m, j)',
           Quiet(j)' => \A m \in Requests(j)' : m.count = 0 /\ row'[j].status = PENDING
    PROVE  CalmJob(j)' /\ Untroubled(j)'
  <1>1. CalmJob(j)'
    BY DEF CalmJob
  <1>2. Untroubled(j)'
    BY DEF Untroubled, Quiet
  <1>3. QED
    BY <1>1, <1>2

\* The next delay carries the message on as far as the lease may reach.
LEMMA RetryOutlasts ==
    ASSUME TInv, BackoffsOutlastLease, NEW j \in Jobs, NEW m \in Requests(j),
           NEW t \in Tasks, m.count < RetryMax, m.due <= clock, Outlasts(m, j),
           Same(j)
    PROVE  \A q : q = Retried(t, m) => Outlasts(q, j)'
  <1>1. /\ m \in Message /\ PInv /\ row[j].expires <= clock + LeaseSeconds
        /\ m.count \in 0..RetryMax
    BY TheRequest DEF TInv, Ground, MInv, LeaseBounded
  <1>2. clock \in Nat /\ row[j].expires \in Nat /\ m.due \in Nat
    BY <1>1, RowParts DEF Message
  <1> SUFFICES ASSUME NEW q, q = Retried(t, m)  PROVE Outlasts(q, j)'
    OBVIOUS
  <1>3. q.count = m.count + 1 /\ q.due = clock + Backoff[m.count + 1]
        /\ m.count \in Nat /\ Backoff[m.count + 1] \in Nat
    BY <1>1, <1>2, RetriedMessage
  <1>4. Total[m.count + 1] = Total[m.count] + Backoff[m.count + 1]
    <2>1. m.count + 1 \in 1..RetryMax
      BY <1>3, TotalBackoff
    <2>2. (m.count + 1) - 1 = m.count
      BY <1>3
    <2>3. QED
      BY <2>1, <2>2, TotalBackoff
  <1>5. Total[m.count] \in Nat /\ LeaseSeconds \in Nat
    BY <1>1, TotalBackoff
  <1>6. clock + LeaseSeconds >= row[j].expires + Total[m.count]
    <2>1. CASE m.count = 0
      BY <1>1, <1>2, <1>5, <2>1, TotalBackoff
    <2>2. CASE m.count > 0
      BY <1>2, <1>5, <2>2 DEF Outlasts
    <2>3. QED
      BY <1>3, <2>1, <2>2
  <1>7. q.due + LeaseSeconds >= row[j].expires + Total[q.count]
    BY <1>2, <1>3, <1>4, <1>5, <1>6
  <1>8. QED
    BY <1>7 DEF Outlasts, Same

\* A request is settled.
LEMMA SettleKeepsTInv ==
    ASSUME TInv, MInv', ErrorsKept, RolesRead, BackoffsOutlastLease, NEW t \in Tasks, Settle(t)
    PROVE  TInv'
  <1>1. PICK r \in {"ack", "retry", "raised"} :
           /\ Returned(t, r)
           /\ \/ topics' = Settled(t, held[t], r) /\ UNCHANGED faults
              \/ topics' = Settled(t, held[t], r) \cup {held[t]} /\ Fault
    BY DEF Settle
  <1>2. /\ held[t] # NoMessage /\ held' = [held EXCEPT ![t] = NoMessage]
        /\ UNCHANGED <<clock, row, outbox, published, pc, ret, lease>>
    BY <1>1 DEF Settle, Returned, iVars
  <1>3. /\ Onward /\ Ground' /\ Ground /\ PInv /\ TaskHolds(t) /\ t \in AllTasks
        /\ held \in [AllTasks -> topics \cup {NoMessage}] /\ Tasks \subseteq AllTasks
        /\ NoMessage \notin topics \cup topics' /\ clock \in Nat /\ t \notin DTasks
    <2>1. t \in AllTasks /\ Ground
      BY DEF AllTasks, TInv
    <2>2. Onward /\ Ground'
      BY <2>1, SettleKeepsGround
    <2>3. QED
      BY <2>1, <2>2, MessageAssumption, TopicsOfRoles
         DEF Ground, MInv, PInv, TypeOK, MTypeOK, AllTasks, TasksHold
  <1>4. PICK m : m = held[t]
    OBVIOUS
  <1>5. PICK j \in Jobs : j = job[t]
    BY <1>3 DEF PInv, TypeOK
  <1>6. m \in Requests(j) /\ m.due <= clock /\ pc[t] = "idle" /\ ret[t] = r
    <2>1. m \in topics /\ m.job = j /\ m.attempt = 0 /\ m.due <= clock
      BY <1>2, <1>3, <1>4, <1>5 DEF TaskHolds
    <2>2. pc[t] = "idle" /\ ret[t] = r
      BY <1>1, <1>3 DEF Returned
    <2>3. QED
      BY <2>1, <2>2 DEF Requests
  <1>7. PICK q : q = Retried(t, m)
    OBVIOUS
  <1>8. /\ m \in Message /\ m.count \in 0..RetryMax /\ m.job = j /\ m.attempt = 0
        /\ m \in topics
        /\ Troubles(j) <= 1 => Requests(j) = {m} /\ Sound(t, m, j)
        /\ Quiet(j) => Fresh(t, m, j)
        /\ \A u \in Tasks : held[u] = m => u = t
    BY <1>4, <1>6, TheRequest
  <1>9. m.count < RetryMax => q.job = j /\ q.attempt = 0 /\ q # m
    <2>1. m.count < RetryMax => q.count = m.count + 1 /\ m.count \in Nat
      BY <1>3, <1>7, <1>8, RetriedMessage
    <2>2. QED
      BY <1>3, <1>7, <1>8, <2>1, RetriedMessage
  <1>10. /\ r = "ack" \/ (r = "retry" /\ ~(m.count < RetryMax)) =>
               \/ topics' = topics \ {m} /\ faults' = faults
               \/ topics' = topics /\ faults' = faults + 1
         /\ r = "raised" => topics' = topics
         /\ r = "retry" /\ m.count < RetryMax =>
               \/ topics' = (topics \ {m}) \cup {q} /\ faults' = faults
               \/ topics' = topics \cup {q} /\ faults' = faults + 1
    <2>1. /\ r = "ack" => Settled(t, m, r) = topics \ {m}
          /\ r = "raised" => Settled(t, m, r) = topics
          /\ r = "retry" /\ m.count < RetryMax => Settled(t, m, r) = (topics \ {m}) \cup {q}
          /\ r = "retry" /\ ~(m.count < RetryMax) => Settled(t, m, r) = topics \ {m}
      BY <1>7 DEF Settled, RetriesLeft, Retried
    <2>2. \/ topics' = Settled(t, m, r) /\ faults' = faults
          \/ topics' = Settled(t, m, r) \cup {m} /\ faults' = faults + 1
      BY <1>1, <1>4 DEF Fault
    <2>3. QED
      BY <1>8, <2>1, <2>2
  <1>11. held'[t] = NoMessage /\ \A u \in Tasks \ {t} : held'[u] = held[u]
    BY <1>2, <1>3
  <1>12. ASSUME NEW k \in Jobs \ {j}  PROVE CalmJob(k)' /\ Untroubled(k)'
    <2>1. CalmJob(k) /\ Untroubled(k) /\ Same(k) /\ outbox'[k] = outbox[k]
      BY <1>2 DEF TInv, Same
    <2>2. Requests(k)' = Requests(k)
      <3>1. \A n : n \in topics' /\ n.job # j <=> n \in topics /\ n.job # j
        BY <1>8, <1>9, <1>10
      <3>2. QED
        BY <1>12, <3>1 DEF Requests
    <2>3. \A u \in Tasks : held[u] \in Requests(k) \/ held'[u] \in Requests(k) => u # t
      BY <1>3, <1>4, <1>8, <1>11, <1>12, <2>2 DEF Requests
    <2>4. QED
      BY <1>2, <1>3, <1>11, <2>1, <2>2, <2>3, TroublesGrow, Unconcerned
  <1>13. /\ Troubles(j)' <= 1 => Troubles(j) <= 1
         /\ Quiet(j)' => Quiet(j)
         /\ faults' = faults + 1 => ~Quiet(j)' /\ (Troubles(j)' <= 1 => Quiet(j))
    <2>1. faults \in Nat
      BY <1>3 DEF PInv, TypeOK
    <2>2. QED
      BY <1>3, <2>1, TroublesGrow
  <1>14. /\ ~Holding(t) /\ (Acked(t) <=> r = "ack")
         /\ r \in {"ack", "retry"} => Ended(t)
    BY <1>6 DEF Holding, Acked, Ended
  <1>15. ASSUME Quiet(j)  PROVE r = "ack"
    BY <1>8, <1>14, <1>15 DEF Fresh
  <1>16. ASSUME Troubles(j) <= 1  PROVE Waiting(j) => Outlasts(m, j)
    BY <1>8, <1>14, <1>16 DEF Sound
  <1>17. ASSUME Troubles(j) <= 1, r = "ack" \/ (r = "retry" /\ ~(m.count < RetryMax))
         PROVE  ~Waiting(j) /\ row[j].status # PENDING
    <2>1. row[j].status \in {SUCCESS, FAILED} \/ row[j].epoch \in outbox[j]
      BY <1>8, <1>14, <1>17 DEF Sound, Settleable
    <2>2. row[j].status = PENDING => outbox[j] = {}
      BY <1>3, RowParts
    <2>3. QED
      BY <2>1, <2>2 DEF Waiting, PENDING, PROCESSING, SUCCESS, FAILED
  <1>18. Waiting(j)' <=> Waiting(j)
    BY <1>2 DEF Waiting
  <1>19. ASSUME Troubles(j)' <= 1
         PROVE  /\ \A u \in Tasks : held'[u] \notin Requests(j)'
                /\ \A n, p \in Requests(j)' : n = p
                /\ row'[j].status = PENDING => <<j, 0>> \notin published' \/ Requests(j)' # {}
                /\ Waiting(j)' => \E n \in Requests(j)' : Outlasts(n, j)'
    <2>1. Troubles(j) <= 1 /\ Requests(j) = {m}
      BY <1>8, <1>13, <1>19
    <2>2. faults' = faults + 1 => r = "ack"
      BY <1>13, <1>15, <1>19
    <2>3. \A n \in topics : n.job = j /\ n.attempt = 0 <=> n = m
      BY <2>1 DEF Requests
    <2>4. \A u \in Tasks : held'[u] \notin topics \/ held'[u].job # j \/ held'[u].attempt # 0
      BY <1>3, <1>8, <1>11, <2>3
    <2>5. CASE topics' = topics \ {m}
               /\ (r = "ack" \/ (r = "retry" /\ ~(m.count < RetryMax)))
      <3>1. Requests(j)' = {}
        BY <2>3, <2>5 DEF Requests
      <3>2. QED
        BY <1>2, <1>17, <1>18, <2>1, <2>5, <3>1
    <2>6. CASE topics' = topics /\ (r = "ack" \/ r = "raised")
      <3>1. Requests(j)' = {m}
        BY <2>1, <2>6 DEF Requests
      <3>2. \A u \in Tasks : held'[u] # m
        BY <1>8, <2>3, <2>4
      <3>3. Outlasts(m, j)' <=> Outlasts(m, j)
        BY <1>2 DEF Outlasts
      <3>4. QED
        BY <1>16, <1>18, <2>1, <3>1, <3>2, <3>3
    <2>7. CASE topics' = (topics \ {m}) \cup {q} /\ r = "retry" /\ m.count < RetryMax
      <3>1. Requests(j)' = {q}
        BY <1>9, <2>3, <2>7 DEF Requests
      <3>2. q \notin topics
        BY <1>9, <2>3, <2>7
      <3>3. \A u \in Tasks : held'[u] # q
        <4>1. NoMessage # q
          BY <1>3, <2>7
        <4>2. QED
          BY <1>3, <1>11, <3>2, <4>1
      <3>4. Waiting(j) => Outlasts(q, j)'
        BY <1>2, <1>6, <1>7, <1>16, <2>1, <2>7, RetryOutlasts DEF Same
      <3>5. QED
        BY <1>18, <3>1, <3>3, <3>4
    <2>8. QED
      BY <1>10, <2>2, <2>5, <2>6, <2>7
  <1>20. ASSUME Quiet(j)'  PROVE \A n \in Requests(j)' : FALSE
    <2>1. Quiet(j) /\ r = "ack" /\ faults' # faults + 1
      BY <1>13, <1>15, <1>20
    <2>2. topics' = topics \ {m} /\ Requests(j) = {m}
      BY <1>8, <1>10, <2>1 DEF Quiet
    <2>3. QED
      BY <2>2 DEF Requests
  <1>21. CalmJob(j)' /\ Untroubled(j)'
    BY <1>13, <1>19, <1>20, FreeCalm
  <1>22. QED
    BY <1>3, <1>12, <1>21 DEF TInv

\* A downstream message is settled.
LEMMA DSettleKeepsTInv ==
    ASSUME TInv, MInv', ErrorsKept, RolesRead, NEW d \in DTasks, Settle(d)
    PROVE  TInv'
  <1>1. PICK r \in {"ack", "retry", "raised"} :
           /\ Returned(d, r)
           /\ \/ topics' = Settled(d, held[d], r)
              \/ topics' = Settled(d, held[d], r) \cup {held[d]}
    BY DEF Settle
  <1>2. /\ held[d] # NoMessage /\ held' = [held EXCEPT ![d] = NoMessage]
        /\ UNCHANGED <<row, outbox, published, pc, ret, lease>>
    BY <1>1 DEF Settle, Returned, iVars
  <1>3. /\ Onward /\ Ground' /\ Ground /\ d \in AllTasks /\ DTaskHolds(d)
        /\ held \in [AllTasks -> topics \cup {NoMessage}] /\ Tasks \subseteq AllTasks
        /\ d \notin Tasks
    <2>1. d \in AllTasks /\ Ground
      BY DEF AllTasks, TInv
    <2>2. QED
      BY <2>1, SettleKeepsGround, TopicsOfRoles DEF Ground, MInv, MTypeOK, AllTasks, TasksHold
  <1>4. PICK m : m = held[d]
    OBVIOUS
  <1>5. m.attempt # 0
    BY <1>2, <1>3, <1>4 DEF DTaskHolds
  <1>6. \A n : n.attempt = 0 => (n \in topics' <=> n \in topics)
    <2>1. PICK q : q = Retried(d, m)
      OBVIOUS
    <2>2. /\ m \in Message /\ topics \ {m} \subseteq topics'
          /\ \A n \in topics' : n \in topics \/ n = q
      BY <1>1, <1>2, <1>3, <1>4, <2>1, SettledTopics DEF Ground
    <2>3. m.count < RetryMax => q.attempt # 0
      BY <1>3, <1>5, <2>1, <2>2, RetriedMessage DEF Ground, MInv, PInv, TypeOK
    <2>4. ~(m.count < RetryMax) => topics' \subseteq topics
      BY <1>1, <1>2, <1>3, <1>4 DEF Settled, RetriesLeft
    <2>5. QED
      BY <1>5, <2>2, <2>3, <2>4
  <1>7. ASSUME NEW k \in Jobs  PROVE CalmJob(k)' /\ Untroubled(k)'
    <2>1. CalmJob(k) /\ Untroubled(k) /\ Same(k) /\ outbox'[k] = outbox[k]
      BY <1>2 DEF TInv, Same
    <2>2. Requests(k)' = Requests(k)
      BY <1>6 DEF Requests
    <2>3. \A u \in Tasks : held'[u] = held[u]
      BY <1>2, <1>3
    <2>4. QED
      BY <1>2, <1>3, <2>1, <2>2, <2>3, TroublesGrow, Unconcerned
  <1>8. QED
    BY <1>3, <1>7 DEF TInv

\* A relay publishes an outbox row.
LEMMA RelayKeepsTInv ==
    ASSUME TInv, MInv', ErrorsKept, RolesRead, NEW j \in Jobs, NEW a \in 0..MaxEpoch, Relay(j, a)
    PROVE  TInv'
  <1>1. PICK m : m = [topic |-> IF a = 0 THEN Request_ ELSE DownstreamTopic,
                      job |-> j, attempt |-> a, count |-> 0, due |-> 0]
    OBVIOUS
  <1>2. m.job = j /\ m.attempt = a /\ m.count = 0
    BY <1>1
  <1>3. /\ topics' = topics \cup {m} /\ published' = published \cup {<<j, a>>}
        /\ UNCHANGED <<row, outbox, pc, ret, lease, held>> /\ <<j, a>> \notin published
    BY <1>1 DEF Relay, vars, iVars
  <1>4. Onward /\ Ground' /\ Ground
    <2>1. Relays /\ Ground
      BY DEF Relays, TInv
    <2>2. QED
      BY <2>1, OthersKeepGround
  <1>5. ASSUME NEW k \in Jobs, k # j \/ a # 0  PROVE CalmJob(k)' /\ Untroubled(k)'
    <2>1. CalmJob(k) /\ Untroubled(k) /\ Same(k) /\ outbox'[k] = outbox[k]
      BY <1>3 DEF TInv, Same
    <2>2. Requests(k)' = Requests(k)
      BY <1>2, <1>3, <1>5 DEF Requests
    <2>3. <<k, 0>> \in published' <=> <<k, 0>> \in published
      BY <1>3, <1>5
    <2>4. QED
      BY <1>3, <1>4, <2>1, <2>2, <2>3, TroublesGrow, Unconcerned
  <1>6. ASSUME a = 0  PROVE CalmJob(j)' /\ Untroubled(j)'
    <2>1. row'[j].status = PENDING
      BY <1>3, <1>4, <1>6 DEF Ground, UnpublishedIsPending
    <2>2. Requests(j) = {}
      BY <1>3, <1>4, <1>6 DEF Ground, MessagesKnown, Requests
    <2>3. Requests(j)' = {m} /\ m \notin topics
      BY <1>2, <1>3, <1>6, <2>2 DEF Requests
    <2>4. \A t \in Tasks : held'[t] # m
      <3>1. m # NoMessage
        BY <1>3, MessageAssumption DEF MInv, MTypeOK
      <3>2. QED
        BY <1>3, <1>4, <2>3, <3>1 DEF Ground, MInv, MTypeOK
    <2>5. ~Waiting(j)'
      BY <2>1 DEF Waiting, PENDING, PROCESSING
    <2>6. QED
      BY <1>2, <1>4, <2>1, <2>3, <2>4, <2>5, TroublesGrow, FreeCalm
  <1>7. QED
    BY <1>4, <1>5, <1>6 DEF TInv

\* A process stops.
LEMMA CrashKeepsTInv ==
    ASSUME TInv, MInv', ErrorsKept, RolesRead, NEW w \in Workers, MCrash(w)
    PROVE  TInv'
  <1>1. Onward /\ Ground' /\ Ground
    BY OthersKeepGround DEF TInv
  <1>2. /\ UNCHANGED <<row, outbox, topics, published>> /\ faults' = faults + 1
        /\ \A t \in Tasks : \/ held'[t] = NoMessage
                            \/ /\ held'[t] = held[t] /\ pc'[t] = pc[t] /\ ret'[t] = ret[t]
                               /\ lease'[t] = lease[t]
    <2>1. Tasks \subseteq AllTasks /\ held \in [AllTasks -> topics \cup {NoMessage}]
      BY <1>1 DEF Ground, MInv, MTypeOK, AllTasks
    <2>2. QED
      BY <2>1 DEF MCrash, Crash, Fault
  <1>3. NoMessage \notin topics
    BY <1>1, MessageAssumption DEF Ground, MInv, MTypeOK
  <1>4. ASSUME NEW k \in Jobs  PROVE CalmJob(k)' /\ Untroubled(k)'
    <2>1. CalmJob(k) /\ Untroubled(k) /\ Requests(k)' = Requests(k) /\ NoMessage \notin Requests(k)
      BY <1>2, <1>3 DEF TInv, Requests
    <2>2. ~Quiet(k)' /\ (Troubles(k)' <= 1 => Quiet(k))
      <3>1. faults \in Nat
        BY <1>1 DEF Ground, MInv, PInv, TypeOK
      <3>2. QED
        BY <1>1, <1>2, <3>1, TroublesGrow
    <2>3. Untroubled(k)'
      BY <2>2 DEF Untroubled
    <2>4. ASSUME Troubles(k)' <= 1  PROVE CalmJob(k)'
      <3>1. Quiet(k) /\ Troubles(k) <= 1
        BY <2>2, <2>4 DEF Quiet
      <3>2. \A m \in Requests(k) : Outlasts(m, k)'
        BY <2>1, <3>1 DEF Untroubled, Outlasts
      <3>3. ASSUME NEW t \in Tasks, held'[t] \in Requests(k)
            PROVE  /\ Holding(t)' => lease'[t] = row'[k].epoch
                   /\ Ended(t)' => Settleable(t, held[t], k)'
        <4>1. /\ held'[t] = held[t] /\ pc'[t] = pc[t] /\ ret'[t] = ret[t]
              /\ lease'[t] = lease[t]
          BY <1>2, <2>1, <3>3
        <4>2. Holding(t)' => lease'[t] = row'[k].epoch
          BY <1>2, <2>1, <3>1, <3>3, <4>1 DEF CalmJob, Holding
        <4>3. Ended(t) => Settleable(t, held[t], k)
          BY <2>1, <3>1, <3>3, <4>1 DEF CalmJob
        <4>4. Ended(t)' => Settleable(t, held[t], k)'
          BY <1>2, <4>1, <4>3 DEF Ended, Settleable, Acked
        <4>5. QED
          BY <4>2, <4>4
      <3>4. Waiting(k)' => Requests(k) # {}
        BY <1>2, <2>1, <3>1 DEF CalmJob, Waiting
      <3>5. row'[k].status = PENDING => <<k, 0>> \notin published' \/ Requests(k) # {}
        BY <1>2, <2>1, <3>1 DEF CalmJob
      <3>6. \A m, n \in Requests(k) : m = n
        BY <2>1, <3>1 DEF CalmJob
      <3>7. QED
        BY <2>1, <3>2, <3>3, <3>4, <3>5, <3>6 DEF CalmJob
    <2>5. QED
      BY <2>3, <2>4 DEF CalmJob
  <1>5. QED
    BY <1>1, <1>4 DEF TInv

\* Time passes, or nothing happens.
LEMMA TickKeepsTInv ==
    ASSUME TInv, MInv', ErrorsKept, RolesRead, MTick \/ UNCHANGED allVars
    PROVE  TInv'
  <1>1. Onward /\ Ground' /\ Ground
    BY OthersKeepGround DEF TInv
  <1>2. UNCHANGED <<row, outbox, pc, ret, lease, topics, held, published>>
    BY DEF MTick, allVars, vars, mVars, iVars
  <1>3. ASSUME NEW k \in Jobs  PROVE CalmJob(k)' /\ Untroubled(k)'
    <2>1. /\ CalmJob(k) /\ Untroubled(k) /\ Same(k) /\ outbox'[k] = outbox[k]
          /\ Requests(k)' = Requests(k)
      BY <1>2 DEF TInv, Same, Requests
    <2>2. QED
      BY <1>1, <1>2, <2>1, TroublesGrow, Unconcerned
  <1>4. QED
    BY <1>1, <1>3 DEF TInv

\* Every step keeps the account of troubles, once every role is read and the
\* retry backoffs outlast a lease.
LEMMA NextTInv ==
    RolesRead /\ BackoffsOutlastLease /\ TInv /\ [MNext]_allVars => TInv'
  <1> SUFFICES ASSUME RolesRead, BackoffsOutlastLease, TInv, [MNext]_allVars
               PROVE  TInv'
    OBVIOUS
  <1>1. MInv' /\ ErrorsKept
    BY NextMInv, ErrorsMove DEF TInv, Ground
  <1>2. CASE Relays
    BY <1>1, <1>2, RelayKeepsTInv DEF Relays
  <1>3. ASSUME NEW t \in Tasks, Deliver(t) \/ Handle(t) \/ Settle(t)  PROVE TInv'
    BY <1>1, <1>3, DeliverKeepsTInv, HandleKeepsTInv, SettleKeepsTInv
  <1>4. ASSUME NEW d \in DTasks, DDeliver(d) \/ DHandle(d) \/ MDCrash(d) \/ Settle(d)
        PROVE  TInv'
    BY <1>1, <1>4, DownstreamKeepsTInv, DSettleKeepsTInv
  <1>5. ASSUME NEW w \in Workers, MCrash(w)  PROVE TInv'
    BY <1>1, <1>5, CrashKeepsTInv
  <1>6. CASE MTick \/ UNCHANGED allVars
    BY <1>1, <1>6, TickKeepsTInv
  <1>7. QED
    BY <1>2, <1>3, <1>4, <1>5, <1>6 DEF MNext

\* The account of troubles holds before anything has gone wrong.
LEMMA InitTInv == MInit => TInv
  <1> SUFFICES ASSUME MInit PROVE TInv
    OBVIOUS
  <1>1. MInv
    BY InitMInv
  <1>2. /\ topics = {} /\ published = {} /\ clock = 0 /\ outbox = [j \in Jobs |-> {}]
        /\ \A t \in AllTasks : held[t] = NoMessage
        /\ \A t \in Tasks : pc[t] = "idle"
        /\ \A j \in Jobs : row[j] = NewRow
    BY DEF MInit, Init, AllTasks
  <1>3. NewRow.status = PENDING /\ NewRow.expires = 0
    BY DEF NewRow, NULL
  <1>4. PENDING # PROCESSING /\ PENDING # FAILED
    BY DEF PENDING, PROCESSING, FAILED
  <1>5. MessagesKnown /\ TasksHold /\ DownstreamIsDone
    BY <1>2 DEF MessagesKnown, TasksHold, TaskHolds, DTaskHolds, DownstreamIsDone, DEnded,
       AllTasks
  <1>6. LeaseBounded
    BY <1>2, <1>3, LeaseAssumption DEF LeaseBounded
  <1>7. FailuresCounted /\ PublishedKnown /\ UnpublishedIsPending /\ HandedOverIsUnderWay
    BY <1>2, <1>3, <1>4
       DEF FailuresCounted, PublishedKnown, UnpublishedIsPending, HandedOverIsUnderWay
  <1>8. \A j \in Jobs : CalmJob(j) /\ Untroubled(j)
    BY <1>2, <1>3, <1>4 DEF CalmJob, Untroubled, Requests, Waiting
  <1>9. QED
    BY <1>1, <1>5, <1>6, <1>7, <1>8 DEF TInv, Ground

\* The invariant is what has to be shown of a job with one trouble.
LEMMA CalmIsReachable == TInv => OneTroubleIsSurvived
  <1> SUFFICES ASSUME TInv, NEW j \in Jobs,
                      row[j].status \in {PENDING, PROCESSING}, Troubles(j) <= 1
               PROVE  Reachable(j)
    BY DEF OneTroubleIsSurvived
  <1>1. CalmJob(j) /\ HandedOverIsUnderWay
    BY DEF TInv, Ground
  <1>2. CASE row[j].status = PENDING
    BY <1>1, <1>2 DEF CalmJob, Reachable, Requests
  <1>3. CASE Waiting(j)
    BY <1>1, <1>3 DEF CalmJob, Reachable, Requests
  <1>4. CASE row[j].status = PROCESSING /\ row[j].epoch \in outbox[j]
    BY <1>1, <1>4 DEF HandedOverIsUnderWay, UnderWay, Reachable
  <1>5. QED
    BY <1>2, <1>3, <1>4 DEF Waiting

\* When request workers have request roles and the backoffs together outlast
\* the lease, a job survives any one trouble: a message or an unpublished
\* outbox row brings it to a handler until it is finished or failed, for any
\* number of jobs, processes and retries.
THEOREM OneTroubleSurvived ==
    RolesRead /\ BackoffsOutlastLease => (MSpec => []OneTroubleIsSurvived)
  <1> SUFFICES ASSUME RolesRead, BackoffsOutlastLease
               PROVE  MSpec => []OneTroubleIsSurvived
    OBVIOUS
  <1>1. MInit => TInv
    BY InitTInv
  <1>2. TInv /\ [MNext]_allVars => TInv'
    BY NextTInv
  <1>3. TInv => OneTroubleIsSurvived
    BY CalmIsReachable
  <1>4. QED
    BY <1>1, <1>2, <1>3, PTL DEF MSpec
=============================================================================
