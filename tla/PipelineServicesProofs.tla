----------------------- MODULE PipelineServicesProofs -----------------------
(***************************************************************************)
(* Proofs about PipelineServices for any number of jobs, processes and     *)
(* coroutines of either service, any lease length and any number of        *)
(* deliveries and faults.                                                  *)
(***************************************************************************)
EXTENDS PipelineServices, JobStoreProofs

\* A task's token was handed out by a claim of its job, and a task that works
\* has one.
LeaseHandedOut ==
    \A t \in Tasks : /\ lease[t] <= row[job[t]].epoch
                     /\ Holding(t) => lease[t] # NULL

\* Two holders of a job have different tokens.
TokensDiffer ==
    \A t, u \in Tasks :
        Holding(t) /\ Holding(u) /\ job[t] = job[u] /\ lease[t] = lease[u] => t = u

\* The task with the newest token owns the row while the job is PROCESSING;
\* when it finds it FAILED, that was the unfenced write of a downstream task.
NewestHolderOwns ==
    \A t \in Tasks : Holding(t) /\ lease[t] = row[job[t]].epoch =>
        /\ row[job[t]].status = PROCESSING => row[job[t]].owner = OwnerOf[t]
        /\ row[job[t]].status = FAILED => row[job[t]].error \in outbox[job[t]]

\* Downstream messages come from attempts, and a downstream task has one.
MessagesAreIssued ==
    /\ \A j \in Jobs : outbox[j] \subseteq 1..row[j].epoch
    /\ \A d \in DTasks : dpc[d] # "idle" => dattempt[d] \in outbox[djob[d]]

\* A job that is PENDING was never claimed, and one that is not SUCCESS was
\* never completed by the fenced handler.
StatusHasHistory ==
    \A j \in Jobs : /\ row[j].status = PENDING => row[j].epoch = 0
                    /\ row[j].status # SUCCESS => events[j][PROCESSED] = 0

\* The inductive invariant.
PInv ==
    /\ TypeOK
    /\ LeaseHandedOut
    /\ TokensDiffer
    /\ NewestHolderOwns
    /\ MessagesAreIssued
    /\ StatusHasHistory
    /\ NoSilentLoss
    /\ AckedIsHandedOver
    /\ ResultWasCommitted

-----------------------------------------------------------------------------
(* Types.                                                                  *)

Control == {"idle", "refused", "working", "failing", "dead"}
DControl == {"idle", "working", "failing"}
Result == {"none", "ack", "retry", "raised"}

\* One more event of a type is counted.
LEMMA AddCounts ==
    ASSUME events \in [Jobs -> [EventType -> Nat]], NEW j \in Jobs,
           NEW e \in EventType, Add(j, e)
    PROVE  /\ events' \in [Jobs -> [EventType -> Nat]]
           /\ events'[j][e] = events[j][e] + 1
           /\ \A k \in Jobs, f \in EventType :
                 k # j \/ f # e => events'[k][f] = events[k][f]
  BY DEF Add

\* What a committed claim does to the tables.
LEMMA ClaimCommits ==
    ASSUME TypeOK, NEW t \in Tasks, NEW j \in Jobs, ClaimCommitted(t, j)
    PROVE  /\ row' \in [Jobs -> Row] /\ events' \in [Jobs -> [EventType -> Nat]]
           /\ row[j] \in Row /\ row[j].status # SUCCESS
           /\ row'[j].status = PROCESSING /\ row'[j].owner = OwnerOf[t]
           /\ row'[j].epoch = row[j].epoch + 1
           /\ row[j].epoch \in Nat
           /\ \A k \in Jobs : k # j => row'[k] = row[k]
           /\ \A k \in Jobs, e \in EventType \ {STARTED} : events'[k][e] = events[k][e]
           /\ pc[t] = "idle" /\ job' = [job EXCEPT ![t] = j]
  <1>1. row[j] \in Row /\ OwnerOf[t] \in Workers /\ clock \in Nat
    BY OwnerAssumption DEF TypeOK
  <1>2. Claimed(row[j], OwnerOf[t], clock, LeaseSeconds) \in Row
    BY <1>1, LeaseAssumption, RowOperators
  <1>3. row' = [row EXCEPT ![j] = Claimed(row[j], OwnerOf[t], clock, LeaseSeconds)]
    BY DEF ClaimCommitted
  <1>4. STARTED \in EventType /\ Add(j, STARTED)
    BY DEF ClaimCommitted, EventType
  <1>5. row[j].status # SUCCESS
    BY <1>1, TransitionTable DEF ClaimCommitted
  <1>6. pc[t] = "idle" /\ job' = [job EXCEPT ![t] = j]
    BY DEF ClaimCommitted
  <1>7. QED
    BY <1>1, <1>2, <1>3, <1>4, <1>5, <1>6, AddCounts DEF TypeOK, Claimed, Row

\* A row that is written and its event keep the two tables well typed.
LEMMA WriteCommits ==
    ASSUME TypeOK, NEW j \in Jobs, NEW r \in Row, NEW e \in EventType,
           row' = [row EXCEPT ![j] = r], Add(j, e)
    PROVE  /\ row' \in [Jobs -> Row] /\ events' \in [Jobs -> [EventType -> Nat]]
  BY AddCounts DEF TypeOK

\* The initial state is well typed.
LEMMA InitType == Init => TypeOK
  <1>1. NewRow \in Row
    BY DEF Row, NewRow, NULL, JobStatus, PENDING
  <1>2. QED
    BY <1>1 DEF Init, TypeOK, NULL

\* A request task's steps keep the types.
LEMMA RequestType ==
    ASSUME TypeOK, NEW t \in Tasks, Request(t)
    PROVE  TypeOK'
  <1> USE DEF dVars
  <1>0. /\ job[t] \in Jobs /\ lease[t] \in Nat /\ row[job[t]] \in Row
        /\ clock \in Nat /\ faults \in Nat
    BY DEF TypeOK
  <1>1. ASSUME NEW r \in Result, Return_(t, r),
               UNCHANGED <<clock, job, lease, dVars>>,
               faults' \in Nat, row' \in [Jobs -> Row],
               events' \in [Jobs -> [EventType -> Nat]],
               outbox' \in [Jobs -> SUBSET Nat], lost' \in [Jobs -> SUBSET Nat]
        PROVE  TypeOK'
    BY <1>1 DEF TypeOK, Return_, Result
  <1>2. ASSUME UNCHANGED <<clock, job, lease, ret, claimedAt, lost, dVars>>,
               pc' = [pc EXCEPT ![t] = "failing"],
               faults' \in Nat, row' \in [Jobs -> Row],
               events' \in [Jobs -> [EventType -> Nat]],
               outbox' \in [Jobs -> SUBSET Nat]
        PROVE  TypeOK'
    BY <1>2 DEF TypeOK
  <1>3. ASSUME NEW j \in Jobs, Claim(t, j) PROVE TypeOK'
    <2>1. row' \in [Jobs -> Row] /\ events' \in [Jobs -> [EventType -> Nat]]
          /\ row[j].epoch + 1 \in Nat /\ job' = [job EXCEPT ![t] = j]
      BY <1>3, ClaimCommits DEF Claim
    <2>2. QED
      BY <1>0, <1>3, <2>1 DEF Claim, TypeOK
  <1>4. ASSUME NEW j \in Jobs, ClaimReplyLost(t, j) PROVE TypeOK'
    <2>1. row' \in [Jobs -> Row] /\ events' \in [Jobs -> [EventType -> Nat]]
          /\ row[j].epoch + 1 \in Nat /\ job' = [job EXCEPT ![t] = j]
      BY <1>4, ClaimCommits DEF ClaimReplyLost
    <2>2. lost' \in [Jobs -> SUBSET Nat]
      BY <1>4, <2>1 DEF ClaimReplyLost, TypeOK
    <2>3. QED
      BY <1>0, <1>4, <2>1, <2>2 DEF ClaimReplyLost, Return_, Fault, TypeOK, NULL
  <1>5. ASSUME NEW j \in Jobs, ClaimError(t, j) PROVE TypeOK'
    BY <1>0, <1>5 DEF ClaimError, Return_, Fault, TypeOK, NULL
  <1>6. ASSUME NEW j \in Jobs, ClaimRefused(t, j) PROVE TypeOK'
    BY <1>6 DEF ClaimRefused, TypeOK, NULL
  <1> USE DEF Result
  <1>7. /\ row \in [Jobs -> Row] /\ events \in [Jobs -> [EventType -> Nat]]
        /\ outbox \in [Jobs -> SUBSET Nat] /\ lost \in [Jobs -> SUBSET Nat]
    BY DEF TypeOK
  <1>8. CASE ReadRefused(t)
    <2>1. (IF row[job[t]].status = SUCCESS THEN "ack" ELSE "retry") \in Result
      OBVIOUS
    <2>2. QED
      BY <1>0, <1>1, <1>7, <1>8, <2>1 DEF ReadRefused
  <1>9. CASE InferenceRaises(t)
    BY <1>0, <1>2, <1>7, <1>9 DEF InferenceRaises
  <1>10. ASSUME HandOver(t)
         PROVE  /\ row' = row /\ events' \in [Jobs -> [EventType -> Nat]]
                /\ outbox' \in [Jobs -> SUBSET Nat]
    <2>1. INFERRED \in EventType
      BY DEF EventType
    <2>2. events' \in [Jobs -> [EventType -> Nat]]
      BY <1>0, <1>7, <1>10, <2>1, AddCounts DEF HandOver
    <2>3. QED
      BY <1>0, <1>7, <1>10, <2>2 DEF HandOver
  <1>11. CASE Infer(t)
    BY <1>0, <1>1, <1>7, <1>10, <1>11 DEF Infer
  <1>12. CASE InferReplyLost(t)
    BY <1>0, <1>2, <1>7, <1>10, <1>12 DEF InferReplyLost, Fault
  <1>13. CASE Complete(t)
    <2>1. Released(Succeeded(row[job[t]], lease[t])) \in Row /\ PROCESSED \in EventType
      BY <1>0, RowOperators, OwnerAssumption DEF EventType
    <2>2. row' \in [Jobs -> Row] /\ events' \in [Jobs -> [EventType -> Nat]]
      BY <1>0, <1>13, <2>1, WriteCommits DEF Complete, CompleteCommitted
    <2>3. CASE Return_(t, "ack") /\ UNCHANGED faults
      BY <1>0, <1>1, <1>7, <1>13, <2>2, <2>3 DEF Complete
    <2>4. CASE pc' = [pc EXCEPT ![t] = "failing"] /\ Fault /\ UNCHANGED <<ret, claimedAt>>
      BY <1>0, <1>2, <1>7, <1>13, <2>2, <2>4 DEF Complete, Fault
    <2>5. QED
      BY <1>13, <2>3, <2>4 DEF Complete
  <1>14. CASE CompleteFenced(t)
    BY <1>0, <1>1, <1>7, <1>14 DEF CompleteFenced
  <1>15. CASE MarkFailed(t)
    <2>1. Released(Failed(row[job[t]], lease[t])) \in Row /\ FAILED \in EventType
      BY <1>0, RowOperators, OwnerAssumption DEF EventType
    <2>2. row' \in [Jobs -> Row] /\ events' \in [Jobs -> [EventType -> Nat]]
      BY <1>0, <1>15, <2>1, WriteCommits DEF MarkFailed
    <2>3. CASE Return_(t, "retry") /\ UNCHANGED faults
      BY <1>0, <1>1, <1>7, <1>15, <2>2, <2>3 DEF MarkFailed
    <2>4. CASE Return_(t, "raised") /\ Fault
      BY <1>0, <1>1, <1>7, <1>15, <2>2, <2>4 DEF MarkFailed, Fault
    <2>5. QED
      BY <1>15, <2>3, <2>4 DEF MarkFailed
  <1>16. CASE MarkFailedFenced(t)
    BY <1>0, <1>1, <1>7, <1>16 DEF MarkFailedFenced
  <1>17. CASE MarkFailedError(t)
    <2>1. lost' \in [Jobs -> SUBSET Nat]
      BY <1>0, <1>7, <1>17 DEF MarkFailedError
    <2>2. QED
      BY <1>0, <1>1, <1>7, <1>17, <2>1 DEF MarkFailedError, Fault
  <1>18. QED
    BY <1>3, <1>4, <1>5, <1>6, <1>8, <1>9, <1>11, <1>12, <1>13, <1>14, <1>15,
       <1>16, <1>17 DEF Request

\* What a downstream task writes: the new row if the status allows it.
LEMMA DownstreamWrites ==
    ASSUME TypeOK, NEW d \in DTasks, NEW target \in {SUCCESS, FAILED},
           NEW e \in EventType, Add(djob[d], e),
           NEW new \in Row, UpdateIfAllowed(d, target, new)
    PROVE  LET r == IF MayBecome(row[djob[d]], target) THEN new ELSE row[djob[d]]
           IN  /\ row' = [row EXCEPT ![djob[d]] = r] /\ r \in Row
               /\ row' \in [Jobs -> Row] /\ events' \in [Jobs -> [EventType -> Nat]]
  <1> DEFINE r == IF MayBecome(row[djob[d]], target) THEN new ELSE row[djob[d]]
  <1>1. row' = [row EXCEPT ![djob[d]] = r]
    BY DEF UpdateIfAllowed
  <1>2. r \in Row /\ djob[d] \in Jobs
    BY DEF TypeOK
  <1> HIDE DEF r
  <1>3. row' \in [Jobs -> Row] /\ events' \in [Jobs -> [EventType -> Nat]]
    BY <1>1, <1>2, WriteCommits
  <1>4. QED
    BY <1>1, <1>2, <1>3 DEF r

\* The unfenced statements leave a row.
LEMMA UnfencedRow ==
    ASSUME NEW r \in Row, NEW a \in Nat
    PROVE  Succeeded(r, a) \in Row /\ Failed(r, a) \in Row
  BY DEF Row, Succeeded, Failed, NULL, JobStatus, SUCCESS, FAILED

\* A downstream task's steps keep the types.
LEMMA DownstreamType ==
    ASSUME TypeOK, NEW d \in DTasks, Downstream(d)
    PROVE  TypeOK'
  <1> USE DEF iVars
  <1>0. /\ djob[d] \in Jobs /\ dattempt[d] \in Nat /\ row[djob[d]] \in Row
        /\ faults \in Nat /\ deliveries \in Nat
    BY DEF TypeOK
  <1>1. ASSUME NEW j \in Jobs, NEW a \in outbox[j], DRead(d, j, a) PROVE TypeOK'
    <2>1. a \in Nat
      BY DEF TypeOK
    <2>2. /\ UNCHANGED <<clock, row, events, outbox, iVars, lost>>
          /\ deliveries' \in Nat /\ djob' \in [DTasks -> Jobs]
          /\ dattempt' \in [DTasks -> Nat]
      BY <1>0, <1>1, <2>1 DEF DRead, TypeOK
    <2>3. /\ dpc' \in [DTasks -> {"idle", "working", "failing"}]
          /\ dret' \in [DTasks -> {"none", "ack", "retry", "raised"}]
          /\ faults' \in Nat
      <3>1. \E p \in DControl, r \in Result :
               dpc' = [dpc EXCEPT ![d] = p] /\ dret' = [dret EXCEPT ![d] = r]
        BY <1>1 DEF DRead, DReturn, DControl, Result
      <3>2. faults' \in Nat
        BY <1>0, <1>1 DEF DRead, Fault
      <3>3. QED
        BY <3>1, <3>2 DEF TypeOK, DControl, Result
    <2>4. QED
      BY <2>2, <2>3 DEF TypeOK
  <1>2. ASSUME UNCHANGED <<clock, outbox, iVars, lost, djob, dattempt, deliveries>>,
               faults' \in Nat, row' \in [Jobs -> Row],
               events' \in [Jobs -> [EventType -> Nat]],
               NEW p \in DControl, dpc' = [dpc EXCEPT ![d] = p],
               NEW r \in Result,
               dret' = dret \/ dret' = [dret EXCEPT ![d] = r]
        PROVE  TypeOK'
    BY <1>2 DEF TypeOK, DControl, Result
  <1>3. /\ row \in [Jobs -> Row] /\ events \in [Jobs -> [EventType -> Nat]]
    BY DEF TypeOK
  <1> USE DEF DControl, Result
  <1>4. CASE DProcessRaises(d)
    BY <1>0, <1>2, <1>3, <1>4 DEF DProcessRaises
  <1>5. CASE DComplete(d) \/ DCompleteReplyLost(d)
    <2>1. DCompleteCommitted(d)
      BY <1>5 DEF DComplete, DCompleteReplyLost
    <2>2. row' \in [Jobs -> Row] /\ events' \in [Jobs -> [EventType -> Nat]]
      BY <1>0, <2>1, UnfencedRow, DownstreamWrites DEF DCompleteCommitted, EventType
    <2>3. QED
      BY <1>0, <1>2, <1>5, <2>1, <2>2 DEF DComplete, DCompleteReplyLost, DReturn,
         Fault, DCompleteCommitted
  <1>6. CASE DMarkFailed(d)
    <2>1. row' \in [Jobs -> Row] /\ events' \in [Jobs -> [EventType -> Nat]]
      BY <1>0, <1>6, UnfencedRow, DownstreamWrites DEF DMarkFailed, EventType
    <2>2. QED
      BY <1>0, <1>2, <1>6, <2>1 DEF DMarkFailed, DReturn, Fault
  <1>7. CASE DMarkFailedError(d) \/ DCrash(d)
    BY <1>0, <1>2, <1>3, <1>7 DEF DMarkFailedError, DCrash, DReturn, Fault
  <1>8. QED
    BY <1>1, <1>4, <1>5, <1>6, <1>7 DEF Downstream

\* A crash and the clock keep the types.
LEMMA OtherType ==
    ASSUME TypeOK, (\E w \in Workers : Crash(w)) \/ Tick \/ UNCHANGED vars
    PROVE  TypeOK'
  <1>1. ASSUME NEW w \in Workers, Crash(w) PROVE TypeOK'
    <2>1. lost' \in [Jobs -> SUBSET Nat]
      BY <1>1 DEF Crash, TypeOK
    <2>2. faults' \in Nat
      BY <1>1 DEF Crash, Fault, TypeOK
    <2>3. QED
      BY <1>1, <2>1, <2>2 DEF Crash, dVars, TypeOK, NULL
  <1>2. CASE Tick
    BY <1>2 DEF Tick, iVars, dVars, TypeOK
  <1>3. CASE UNCHANGED vars
    BY <1>3 DEF vars, iVars, dVars, TypeOK
  <1>4. QED
    BY <1>1, <1>2, <1>3

\* Every step keeps the types.
LEMMA NextType == TypeOK /\ [Next]_vars => TypeOK'
  BY RequestType, DownstreamType, OtherType DEF Next

-----------------------------------------------------------------------------
(* The inductive invariant.                                                *)

\* What AckedIsHandedOver asks of an acknowledged request.
MayAck(t) ==
    \/ row[job[t]].status = SUCCESS
    \/ lease[t] \in outbox[job[t]]
    \/ /\ t \in Unified
       /\ \/ lease[t] < row[job[t]].epoch
          \/ row[job[t]].status = FAILED /\ row[job[t]].error \in outbox[job[t]]

\* The initial state satisfies the inductive invariant.
LEMMA InitPInv == Init => PInv
  <1> SUFFICES ASSUME Init PROVE PInv
    OBVIOUS
  <1>1. TypeOK
    BY InitType
  <1>2. \A t \in Tasks : /\ ~Holding(t) /\ ret[t] # "ack" /\ lease[t] = NULL
                         /\ job[t] \in Jobs
    BY DEF Init, Holding
  <1>3. /\ \A j \in Jobs : /\ row[j] = NewRow /\ outbox[j] = {}
                           /\ events[j][PROCESSED] = 0
        /\ \A d \in DTasks : dpc[d] = "idle"
    BY DEF Init, EventType
  <1>4. NewRow.status = PENDING /\ NewRow.epoch = 0
    BY DEF NewRow
  <1>5. LeaseHandedOut /\ TokensDiffer /\ NewestHolderOwns /\ AckedIsHandedOver
    BY <1>2, <1>3, <1>4 DEF LeaseHandedOut, TokensDiffer, NewestHolderOwns,
                            AckedIsHandedOver, NULL
  <1>6. MessagesAreIssued /\ StatusHasHistory /\ NoSilentLoss /\ ResultWasCommitted
    BY <1>3, <1>4 DEF MessagesAreIssued, StatusHasHistory, NoSilentLoss,
                      ResultWasCommitted, PENDING, PROCESSING, SUCCESS
  <1>7. QED
    BY <1>1, <1>5, <1>6 DEF PInv

\* A step that writes no row and starts no attempt keeps the invariant, if a
\* task that lets go of the newest attempt leaves a message or a lost attempt
\* behind, and if what is acknowledged may be.
LEMMA RowKeptKeepsPInv ==
    ASSUME PInv, TypeOK', row' = row,
           \A k \in Jobs :
               /\ outbox[k] \subseteq outbox'[k] /\ outbox'[k] \subseteq 1..row[k].epoch
               /\ lost[k] \subseteq lost'[k]
               /\ events'[k][PROCESSED] = events[k][PROCESSED]
               /\ events[k][COMPLETED] <= events'[k][COMPLETED],
           \A u \in Tasks :
               /\ (job'[u] = job[u] /\ lease'[u] = lease[u]) \/ lease'[u] = NULL
               /\ Holding(u)' => Holding(u) /\ job'[u] = job[u] /\ lease'[u] = lease[u]
               /\ Holding(u) /\ lease[u] = row[job[u]].epoch
                  /\ row[job[u]].status = PROCESSING
                     => Holding(u)' \/ lease[u] \in lost'[job[u]] \cup outbox'[job[u]]
               /\ ret'[u] = "ack" =>
                     \/ ret[u] = "ack" /\ job'[u] = job[u] /\ lease'[u] = lease[u]
                     \/ MayAck(u)',
           \A d \in DTasks : dpc'[d] # "idle" => dattempt'[d] \in outbox'[djob'[d]]
    PROVE  PInv'
  <1> USE DEF PInv
  <1>0. TypeOK
    OBVIOUS
  <1>1. /\ \A u \in Tasks : job[u] \in Jobs /\ job'[u] \in Jobs
        /\ \A k \in Jobs : row[k] \in Row /\ row[k].epoch \in Nat
    BY <1>0 DEF TypeOK, Row
  <1>2. LeaseHandedOut'
    BY <1>1 DEF LeaseHandedOut, NULL
  <1>3. TokensDiffer'
    BY DEF TokensDiffer
  <1>4. NewestHolderOwns'
    BY <1>1 DEF NewestHolderOwns
  <1>5. MessagesAreIssued' /\ StatusHasHistory'
    BY DEF MessagesAreIssued, StatusHasHistory
  <1>6. NoSilentLoss'
    <2> SUFFICES ASSUME NEW k \in Jobs, row[k].status = PROCESSING
                 PROVE  \/ \E u \in Tasks : Holding(u)' /\ job'[u] = k /\ lease'[u] = row[k].epoch
                        \/ row[k].epoch \in outbox'[k]
                        \/ row[k].epoch \in lost'[k]
      BY DEF NoSilentLoss, Holding
    <2>1. CASE \E u \in Tasks : Holding(u) /\ job[u] = k /\ lease[u] = row[k].epoch
      BY <2>1
    <2>2. CASE row[k].epoch \in outbox[k] \cup lost[k]
      BY <2>2
    <2>3. QED
      BY <2>1, <2>2 DEF NoSilentLoss
  <1>7. AckedIsHandedOver'
    <2> SUFFICES ASSUME NEW u \in Tasks, ret'[u] = "ack" PROVE MayAck(u)'
      BY DEF AckedIsHandedOver, MayAck
    <2>1. CASE ret[u] = "ack" /\ job'[u] = job[u] /\ lease'[u] = lease[u]
      <3>1. MayAck(u)
        BY <2>1 DEF AckedIsHandedOver, MayAck
      <3>2. QED
        BY <2>1, <3>1, <1>1 DEF MayAck
    <2>2. QED
      BY <2>1
  <1>8. ResultWasCommitted'
    <2>1. \A k \in Jobs : events[k][COMPLETED] \in Nat /\ events'[k][COMPLETED] \in Nat
      BY <1>0 DEF TypeOK, EventType
    <2>2. QED
      BY <2>1 DEF ResultWasCommitted
  <1>9. QED
    BY <1>2, <1>3, <1>4, <1>5, <1>6, <1>7, <1>8

\* A committed claim outdates every token of its job; the new one is with its
\* task or lost.
LEMMA ClaimKeepsPInv ==
    ASSUME PInv, TypeOK', NEW t \in Tasks, NEW j \in Jobs, ClaimCommitted(t, j),
           outbox' = outbox, UNCHANGED <<dpc, djob, dattempt>>,
           \A k \in Jobs : lost[k] \subseteq lost'[k],
           \A u \in Tasks \ {t} :
               pc'[u] = pc[u] /\ lease'[u] = lease[u] /\ ret'[u] = ret[u],
           ret'[t] # "ack",
           \/ Holding(t)' /\ lease'[t] = row[j].epoch + 1
           \/ ~Holding(t)' /\ lease'[t] = NULL /\ row[j].epoch + 1 \in lost'[j]
    PROVE  PInv'
  <1> USE DEF PInv
  <1>0. TypeOK
    OBVIOUS
  <1>1. /\ row[j].status # SUCCESS /\ row'[j].status = PROCESSING
        /\ row'[j].owner = OwnerOf[t] /\ row'[j].epoch = row[j].epoch + 1
        /\ \A k \in Jobs : k # j => row'[k] = row[k]
        /\ \A k \in Jobs, e \in EventType \ {STARTED} : events'[k][e] = events[k][e]
        /\ pc[t] = "idle" /\ job' = [job EXCEPT ![t] = j]
    BY <1>0, ClaimCommits
  <1>2. /\ \A u \in Tasks : job[u] \in Jobs /\ lease[u] \in Nat
        /\ \A k \in Jobs : row[k] \in Row /\ row[k].epoch \in Nat
        /\ job'[t] = j /\ \A u \in Tasks \ {t} : job'[u] = job[u]
    BY <1>0, <1>1 DEF TypeOK, Row
  <1>3. /\ ~Holding(t)
        /\ \A u \in Tasks \ {t} : Holding(u)' <=> Holding(u)
    BY <1>1 DEF Holding
  <1>4. PROCESSED \in EventType \ {STARTED} /\ COMPLETED \in EventType \ {STARTED}
    BY DEF EventType, PROCESSED, COMPLETED, STARTED, INFERRED, FAILED
  <1>5. LeaseHandedOut'
    <2>1. ASSUME NEW u \in Tasks \ {t}
          PROVE  lease'[u] <= row'[job'[u]].epoch /\ (Holding(u)' => lease'[u] # NULL)
      BY <1>1, <1>2, <1>3 DEF LeaseHandedOut
    <2>2. lease'[t] <= row'[job'[t]].epoch /\ (Holding(t)' => lease'[t] # NULL)
      BY <1>1, <1>2 DEF NULL
    <2>3. QED
      BY <2>1, <2>2 DEF LeaseHandedOut
  <1>6. \A u \in Tasks \ {t} : job[u] = j => lease[u] < row'[j].epoch
    BY <1>1, <1>2 DEF LeaseHandedOut
  <1>7. TokensDiffer'
    <2> SUFFICES ASSUME NEW u \in Tasks, NEW v \in Tasks, Holding(u)', Holding(v)',
                        job'[u] = job'[v], lease'[u] = lease'[v]
                 PROVE  u = v
      BY DEF TokensDiffer, Holding
    <2>1. CASE u # t /\ v # t
      BY <2>1, <1>2, <1>3 DEF TokensDiffer
    <2>2. CASE u = t /\ v # t
      BY <2>2, <1>1, <1>2, <1>6
    <2>3. CASE u # t /\ v = t
      BY <2>3, <1>1, <1>2, <1>6
    <2>4. QED
      BY <2>1, <2>2, <2>3
  <1>8. NewestHolderOwns'
    <2> SUFFICES ASSUME NEW u \in Tasks, Holding(u)', lease'[u] = row'[job'[u]].epoch
                 PROVE  /\ row'[job'[u]].status = PROCESSING
                               => row'[job'[u]].owner = OwnerOf[u]
                        /\ row'[job'[u]].status = FAILED
                               => row'[job'[u]].error \in outbox[job'[u]]
      BY DEF NewestHolderOwns, Holding
    <2>1. CASE u = t
      BY <2>1, <1>1, <1>2 DEF PROCESSING, FAILED
    <2>2. CASE u # t
      <3>1. job'[u] # j
        BY <2>2, <1>1, <1>2, <1>6
      <3>2. QED
        BY <2>2, <3>1, <1>1, <1>2, <1>3 DEF NewestHolderOwns
    <2>3. QED
      BY <2>1, <2>2
  <1>9. MessagesAreIssued'
    BY <1>1, <1>2 DEF MessagesAreIssued
  <1>10. StatusHasHistory'
    BY <1>1, <1>4 DEF StatusHasHistory, PROCESSING, PENDING
  <1>11. NoSilentLoss'
    <2> SUFFICES ASSUME NEW k \in Jobs, row'[k].status = PROCESSING
                 PROVE  \/ \E u \in Tasks : Holding(u)' /\ job'[u] = k /\ lease'[u] = row'[k].epoch
                        \/ row'[k].epoch \in outbox[k]
                        \/ row'[k].epoch \in lost'[k]
      BY DEF NoSilentLoss, Holding
    <2>1. CASE k = j
      BY <2>1, <1>1, <1>2
    <2>2. CASE k # j
      <3>1. CASE \E u \in Tasks : Holding(u) /\ job[u] = k /\ lease[u] = row[k].epoch
        BY <3>1, <2>2, <1>1, <1>2, <1>3
      <3>2. CASE row[k].epoch \in outbox[k] \cup lost[k]
        BY <3>2, <2>2, <1>1
      <3>3. QED
        BY <3>1, <3>2, <2>2, <1>1 DEF NoSilentLoss
    <2>3. QED
      BY <2>1, <2>2
  <1>12. AckedIsHandedOver'
    <2> SUFFICES ASSUME NEW u \in Tasks, ret'[u] = "ack" PROVE MayAck(u)'
      BY DEF AckedIsHandedOver, MayAck
    <2>1. u # t /\ MayAck(u)
      BY DEF AckedIsHandedOver, MayAck
    <2>2. CASE job[u] = j
      BY <2>1, <2>2, <1>1, <1>2, <1>6 DEF MayAck
    <2>3. CASE job[u] # j
      BY <2>1, <2>3, <1>1, <1>2 DEF MayAck
    <2>4. QED
      BY <2>2, <2>3
  <1>13. ResultWasCommitted'
    BY <1>1, <1>4 DEF ResultWasCommitted, PROCESSING, SUCCESS
  <1>14. QED
    BY <1>5, <1>7, <1>8, <1>9, <1>10, <1>11, <1>12, <1>13

\* The row of a job that is being processed becomes SUCCESS or FAILED.  A
\* success carries a committed result; a failure that its newest holder did
\* not write itself carries the error of a downstream message.
LEMMA WriteKeepsPInv ==
    ASSUME PInv, TypeOK', NEW j \in Jobs, row[j].status = PROCESSING,
           row'[j].status \in {SUCCESS, FAILED}, row'[j].epoch = row[j].epoch,
           \A k \in Jobs : k # j => row'[k] = row[k],
           outbox' = outbox, lost' = lost, job' = job, lease' = lease,
           \A k \in Jobs :
               /\ k # j \/ row'[k].status = FAILED
                     => events'[k][PROCESSED] = events[k][PROCESSED]
               /\ events[k][COMPLETED] <= events'[k][COMPLETED],
           row'[j].status = SUCCESS =>
               /\ row'[j].error = NULL
               /\ \/ row'[j].result \in outbox[j] /\ events'[j][COMPLETED] > 0
                  \/ /\ row'[j].result = row'[j].epoch
                     /\ events'[j][PROCESSED] = 1
                     /\ row'[j].owner = NoOwner,
           \A u \in Tasks :
               /\ Holding(u)' => Holding(u)
               /\ Holding(u) /\ job[u] # j => Holding(u)'
               /\ Holding(u)' /\ job[u] = j /\ lease[u] = row[j].epoch
                     /\ row'[j].status = FAILED => row'[j].error \in outbox[j]
               /\ ret'[u] = "ack" => ret[u] = "ack" \/ row'[job[u]].status = SUCCESS,
           \A d \in DTasks : dpc'[d] # "idle" =>
               dpc[d] # "idle" /\ djob'[d] = djob[d] /\ dattempt'[d] = dattempt[d]
    PROVE  PInv'
  <1> USE DEF PInv
  <1>0. TypeOK
    OBVIOUS
  <1>1. /\ \A u \in Tasks : job[u] \in Jobs
        /\ \A k \in Jobs : row[k] \in Row /\ row[k].epoch \in Nat
    BY <1>0 DEF TypeOK, Row
  <1>2. row'[j].status # PROCESSING /\ row'[j].status # PENDING
    BY DEF PROCESSING, PENDING, SUCCESS, FAILED
  <1>3. LeaseHandedOut' /\ TokensDiffer'
    BY <1>1 DEF LeaseHandedOut, TokensDiffer
  <1>4. NewestHolderOwns'
    <2> SUFFICES ASSUME NEW u \in Tasks, Holding(u)', lease[u] = row'[job[u]].epoch
                 PROVE  /\ row'[job[u]].status = PROCESSING
                               => row'[job[u]].owner = OwnerOf[u]
                        /\ row'[job[u]].status = FAILED
                               => row'[job[u]].error \in outbox[job[u]]
      BY DEF NewestHolderOwns, Holding
    <2>1. CASE job[u] = j
      BY <2>1, <1>2
    <2>2. CASE job[u] # j
      BY <2>2, <1>1 DEF NewestHolderOwns
    <2>3. QED
      BY <2>1, <2>2
  <1>5. MessagesAreIssued'
    BY DEF MessagesAreIssued
  <1>6. StatusHasHistory'
    BY <1>2 DEF StatusHasHistory, PROCESSING, SUCCESS
  <1>7. NoSilentLoss'
    <2> SUFFICES ASSUME NEW k \in Jobs, row'[k].status = PROCESSING
                 PROVE  \/ \E u \in Tasks : Holding(u)' /\ job[u] = k /\ lease[u] = row'[k].epoch
                        \/ row'[k].epoch \in outbox[k]
                        \/ row'[k].epoch \in lost[k]
      BY DEF NoSilentLoss, Holding
    <2>1. k # j /\ row'[k] = row[k]
      BY <1>2
    <2>2. QED
      BY <2>1 DEF NoSilentLoss
  <1>8. AckedIsHandedOver'
    <2> SUFFICES ASSUME NEW u \in Tasks, ret'[u] = "ack" PROVE MayAck(u)'
      BY DEF AckedIsHandedOver, MayAck
    <2>1. CASE row'[job[u]].status = SUCCESS
      BY <2>1 DEF MayAck
    <2>2. CASE ret[u] = "ack"
      <3>1. MayAck(u)
        BY <2>2 DEF AckedIsHandedOver, MayAck
      <3>2. CASE job[u] = j
        BY <3>1, <3>2 DEF MayAck, PROCESSING, SUCCESS, FAILED
      <3>3. CASE job[u] # j
        BY <3>1, <3>3, <1>1 DEF MayAck
      <3>4. QED
        BY <3>2, <3>3
    <2>3. QED
      BY <2>1, <2>2
  <1>9. ResultWasCommitted'
    <2>1. \A k \in Jobs : events[k][COMPLETED] \in Nat /\ events'[k][COMPLETED] \in Nat
      BY <1>0 DEF TypeOK, EventType
    <2>2. QED
      BY <2>1 DEF ResultWasCommitted
  <1>10. QED
    BY <1>3, <1>4, <1>5, <1>6, <1>7, <1>8, <1>9

\* A task that fails to own its row with the newest token finds the job
\* finished, or FAILED by a downstream message: it is never robbed silently.
LEMMA NotOwning ==
    ASSUME PInv, NEW t \in Tasks, Holding(t), lease[t] = row[job[t]].epoch,
           NEW target \in {SUCCESS, FAILED}, ~Owns(t, target)
    PROVE  /\ row[job[t]].status # PROCESSING
           /\ \/ row[job[t]].status = SUCCESS
              \/ row[job[t]].status = FAILED /\ row[job[t]].error \in outbox[job[t]]
  <1> USE DEF PInv
  <1>1. job[t] \in Jobs /\ row[job[t]] \in Row /\ lease[t] # 0
    BY DEF TypeOK, LeaseHandedOut, NULL
  <1>2. row[job[t]].status # PENDING
    BY <1>1 DEF StatusHasHistory
  <1>3. row[job[t]].status # PROCESSING
    BY <1>1, TransitionTable DEF Owns, Fence, NewestHolderOwns
  <1>4. row[job[t]].status \in {PENDING, PROCESSING, SUCCESS, FAILED}
    BY <1>1 DEF Row, JobStatus
  <1>5. QED
    BY <1>2, <1>3, <1>4 DEF NewestHolderOwns

\* A task that owns its row has the newest token of a job being processed.
LEMMA Owning ==
    ASSUME PInv, NEW t \in Tasks, Holding(t), NEW target \in {SUCCESS, FAILED},
           Owns(t, target)
    PROVE  /\ row[job[t]].status = PROCESSING /\ row[job[t]].epoch = lease[t]
           /\ \A u \in Tasks : Holding(u) /\ job[u] = job[t] /\ lease[u] = lease[t] => u = t
  <1> USE DEF PInv
  <1>1. job[t] \in Jobs /\ row[job[t]] \in Row /\ lease[t] # 0
    BY DEF TypeOK, LeaseHandedOut, NULL
  <1>2. row[job[t]].epoch = lease[t]
    BY DEF Owns, Fence
  <1>3. row[job[t]].status # PENDING
    BY <1>1, <1>2 DEF StatusHasHistory
  <1>4. row[job[t]].status = PROCESSING
    BY <1>1, <1>3, TransitionTable DEF Owns
  <1>5. QED
    BY <1>2, <1>4 DEF TokensDiffer

\* The steps of a request task that write no row.
LEMMA QuietRequestKeepsPInv ==
    ASSUME PInv, TypeOK', NEW t \in Tasks,
           \/ \E j \in Jobs : ClaimError(t, j) \/ ClaimRefused(t, j)
           \/ ReadRefused(t) \/ InferenceRaises(t) \/ Infer(t) \/ InferReplyLost(t)
           \/ CompleteFenced(t) \/ MarkFailedFenced(t) \/ MarkFailedError(t)
    PROVE  PInv'
  <1> USE DEF PInv
  <1>0. /\ TypeOK
        /\ \A u \in Tasks : job[u] \in Jobs /\ lease[u] \in Nat
        /\ \A k \in Jobs : row[k] \in Row /\ row[k].epoch \in Nat
        /\ \A k \in Jobs : events[k][PROCESSED] \in Nat /\ events[k][COMPLETED] \in Nat
    <2>1. TypeOK
      OBVIOUS
    <2>2. \A k \in Jobs : row[k] \in Row /\ row[k].epoch \in Nat
      BY <2>1 DEF TypeOK, Row
    <2>3. \A k \in Jobs : events[k][PROCESSED] \in Nat /\ events[k][COMPLETED] \in Nat
      BY <2>1 DEF TypeOK, EventType
    <2>4. QED
      BY <2>1, <2>2, <2>3 DEF TypeOK
  <1>1. /\ \A k \in Jobs : outbox[k] \subseteq 1..row[k].epoch
        /\ \A d \in DTasks : dpc[d] # "idle" => dattempt[d] \in outbox[djob[d]]
    BY DEF MessagesAreIssued
  <1>2. ASSUME UNCHANGED <<row, events, outbox, dpc, djob, dattempt>>,
               \A k \in Jobs : lost[k] \subseteq lost'[k],
               \A u \in Tasks \ {t} : /\ pc'[u] = pc[u] /\ job'[u] = job[u]
                                      /\ lease'[u] = lease[u] /\ ret'[u] = ret[u],
               (job'[t] = job[t] /\ lease'[t] = lease[t]) \/ lease'[t] = NULL,
               Holding(t)' => Holding(t) /\ job'[t] = job[t] /\ lease'[t] = lease[t],
               Holding(t) /\ lease[t] = row[job[t]].epoch
                  /\ row[job[t]].status = PROCESSING
                     => Holding(t)' \/ lease[t] \in lost'[job[t]],
               ret'[t] = "ack" => \/ ret[t] = "ack" /\ job'[t] = job[t] /\ lease'[t] = lease[t]
                                  \/ MayAck(t)'
        PROVE  PInv'
    <2>1. \A u \in Tasks \ {t} : Holding(u)' <=> Holding(u)
      BY <1>2 DEF Holding
    <2>2. QED
      BY <1>0, <1>1, <1>2, <2>1, RowKeptKeepsPInv
  <1>3. ASSUME NEW j \in Jobs, ClaimError(t, j) \/ ClaimRefused(t, j) PROVE PInv'
    <2>1. ~Holding(t) /\ ~Holding(t)' /\ ret'[t] # "ack"
      BY <1>0, <1>3 DEF ClaimError, ClaimRefused, Return_, Holding, TypeOK
    <2>2. QED
      BY <1>0, <1>2, <1>3, <2>1 DEF ClaimError, ClaimRefused, Return_, dVars, TypeOK
  <1>4. CASE ReadRefused(t)
    <2>1. ~Holding(t) /\ ~Holding(t)'
      BY <1>0, <1>4 DEF ReadRefused, Return_, Holding, TypeOK
    <2>2. ret'[t] = "ack" => MayAck(t)'
      BY <1>0, <1>4 DEF ReadRefused, Return_, MayAck, TypeOK
    <2>3. QED
      BY <1>0, <1>2, <1>4, <2>1, <2>2 DEF ReadRefused, Return_, dVars, TypeOK
  <1>5. CASE InferenceRaises(t)
    <2>1. Holding(t) /\ Holding(t)'
      BY <1>0, <1>5 DEF InferenceRaises, Holding, TypeOK
    <2>2. QED
      BY <1>0, <1>2, <1>5, <2>1 DEF InferenceRaises, dVars, TypeOK
  <1>6. CASE CompleteFenced(t)
    <2>1. Holding(t) /\ ~Holding(t)'
      BY <1>0, <1>6 DEF CompleteFenced, Return_, Holding, TypeOK
    <2>2. lease[t] <= row[job[t]].epoch
      BY DEF LeaseHandedOut
    <2>3. MayAck(t)'
      <3>1. CASE lease[t] = row[job[t]].epoch
        BY <1>6, <2>1, <3>1, NotOwning DEF CompleteFenced, MayAck
      <3>2. CASE lease[t] < row[job[t]].epoch
        BY <1>6, <3>2 DEF CompleteFenced, MayAck
      <3>3. QED
        BY <1>0, <2>2, <3>1, <3>2
    <2>4. lease[t] = row[job[t]].epoch => row[job[t]].status # PROCESSING
      BY <1>6, <2>1, NotOwning DEF CompleteFenced
    <2>5. QED
      BY <1>0, <1>2, <1>6, <2>1, <2>3, <2>4 DEF CompleteFenced, Return_, dVars, TypeOK
  <1>7. CASE MarkFailedFenced(t)
    <2>1. Holding(t) /\ ~Holding(t)' /\ ret'[t] # "ack"
      BY <1>0, <1>7 DEF MarkFailedFenced, Return_, Holding, TypeOK
    <2>2. lease[t] = row[job[t]].epoch => row[job[t]].status # PROCESSING
      BY <1>7, <2>1, NotOwning DEF MarkFailedFenced
    <2>3. QED
      BY <1>0, <1>2, <1>7, <2>1, <2>2 DEF MarkFailedFenced, Return_, dVars, TypeOK
  <1>8. CASE MarkFailedError(t)
    <2>1. Holding(t) /\ ~Holding(t)' /\ ret'[t] # "ack"
      BY <1>0, <1>8 DEF MarkFailedError, Return_, Holding, TypeOK
    <2>2. lease[t] \in lost'[job[t]] /\ \A k \in Jobs : lost[k] \subseteq lost'[k]
      BY <1>0, <1>8 DEF MarkFailedError, TypeOK
    <2>3. QED
      BY <1>0, <1>2, <1>8, <2>1, <2>2 DEF MarkFailedError, Return_, dVars, TypeOK
  <1>9. CASE Infer(t) \/ InferReplyLost(t)
    <2>1. HandOver(t) /\ Holding(t)
      BY <1>9 DEF Infer, InferReplyLost, HandOver, Holding
    <2>2. /\ INFERRED \in EventType /\ PROCESSED \in EventType /\ COMPLETED \in EventType
          /\ INFERRED # PROCESSED /\ INFERRED # COMPLETED
      BY DEF EventType, INFERRED, PROCESSED, COMPLETED
    <2>3. \A k \in Jobs : /\ events'[k][PROCESSED] = events[k][PROCESSED]
                          /\ events'[k][COMPLETED] = events[k][COMPLETED]
      BY <1>0, <2>1, <2>2, AddCounts DEF HandOver, TypeOK
    <2>4. /\ row' = row /\ outbox'[job[t]] = outbox[job[t]] \cup {lease[t]}
          /\ \A k \in Jobs : k # job[t] => outbox'[k] = outbox[k]
      BY <1>0, <2>1 DEF HandOver, TypeOK
    <2>5. lease[t] \in 1..row[job[t]].epoch
      BY <1>0, <2>1 DEF LeaseHandedOut, NULL
    <2>6. \A k \in Jobs : outbox[k] \subseteq outbox'[k] /\ outbox'[k] \subseteq 1..row[k].epoch
      BY <1>0, <1>1, <2>4, <2>5
    <2>7. /\ UNCHANGED <<job, lease, lost, dpc, djob, dattempt>>
          /\ \A u \in Tasks \ {t} : pc'[u] = pc[u] /\ ret'[u] = ret[u]
          /\ ret'[t] = "ack" => ret[t] = "ack" \/ MayAck(t)'
      BY <1>0, <1>9, <2>4 DEF Infer, InferReplyLost, Return_, dVars, TypeOK, MayAck
    <2>8. \A u \in Tasks \ {t} : Holding(u)' <=> Holding(u)
      BY <2>7 DEF Holding
    <2>9. \A d \in DTasks : djob[d] \in Jobs
      BY <1>0 DEF TypeOK
    <2>10. QED
      BY <1>0, <1>1, <2>1, <2>3, <2>4, <2>6, <2>7, <2>8, <2>9, RowKeptKeepsPInv
  <1>10. QED
    BY <1>3, <1>4, <1>5, <1>6, <1>7, <1>8, <1>9

\* The fenced writes of a request task: it has the newest token, and without
\* it nobody holds that token any more.
LEMMA FencedWriteKeepsPInv ==
    ASSUME PInv, TypeOK', NEW t \in Tasks, Complete(t) \/ MarkFailed(t)
    PROVE  PInv'
  <1> USE DEF PInv
  <1>0. TypeOK
    OBVIOUS
  <1>1. job[t] \in Jobs /\ row[job[t]] \in Row /\ lease[t] \in Nat /\ Holding(t)
    BY <1>0 DEF TypeOK, Complete, CompleteCommitted, MarkFailed, Holding
  <1>2. /\ UNCHANGED <<outbox, lost, job, lease, dpc, djob, dattempt>>
        /\ \A u \in Tasks \ {t} : pc'[u] = pc[u] /\ ret'[u] = ret[u]
    BY <1>0 DEF Complete, CompleteCommitted, MarkFailed, Return_, dVars, TypeOK
  <1>3. \A u \in Tasks \ {t} : Holding(u)' <=> Holding(u)
    BY <1>2 DEF Holding
  <1>4. /\ PROCESSED \in EventType /\ COMPLETED \in EventType /\ FAILED \in EventType
        /\ PROCESSED # COMPLETED /\ PROCESSED # FAILED /\ COMPLETED # FAILED
    BY DEF EventType, PROCESSED, COMPLETED, FAILED
  <1>5. \A k \in Jobs : events[k][COMPLETED] \in Nat /\ events[k][PROCESSED] \in Nat
    BY <1>0, <1>4 DEF TypeOK
  <1>6. CASE Complete(t)
    <2> DEFINE r == Released(Succeeded(row[job[t]], lease[t]))
    <2>1. r \in Row
      BY <1>1, RowOperators, OwnerAssumption
    <2>2. /\ r.status = SUCCESS /\ r.epoch = row[job[t]].epoch /\ r.result = lease[t]
          /\ r.error = NULL /\ r.owner = NoOwner
      BY DEF Released, Succeeded
    <2>3. row' = [row EXCEPT ![job[t]] = r] /\ Add(job[t], PROCESSED) /\ Owns(t, SUCCESS)
      BY <1>6 DEF Complete, CompleteCommitted
    <2> HIDE DEF r
    <2>4. /\ row'[job[t]] = r /\ \A k \in Jobs : k # job[t] => row'[k] = row[k]
          /\ events'[job[t]][PROCESSED] = events[job[t]][PROCESSED] + 1
          /\ \A k \in Jobs : /\ k # job[t] => events'[k][PROCESSED] = events[k][PROCESSED]
                             /\ events'[k][COMPLETED] = events[k][COMPLETED]
      <3>1. row'[job[t]] = r /\ \A k \in Jobs : k # job[t] => row'[k] = row[k]
        BY <1>0, <1>1, <2>3 DEF TypeOK
      <3>2. events \in [Jobs -> [EventType -> Nat]]
        BY <1>0 DEF TypeOK
      <3>3. /\ events'[job[t]][PROCESSED] = events[job[t]][PROCESSED] + 1
            /\ \A k \in Jobs, f \in EventType :
                  k # job[t] \/ f # PROCESSED => events'[k][f] = events[k][f]
        BY <1>1, <1>4, <2>3, <3>2, AddCounts
      <3>4. QED
        BY <1>4, <3>1, <3>3
    <2>5. row[job[t]].status = PROCESSING /\ row[job[t]].epoch = lease[t]
      BY <1>1, <2>3, Owning
    <2>6. events[job[t]][PROCESSED] = 0
      BY <1>1, <2>5 DEF StatusHasHistory, PROCESSING, SUCCESS
    <2>7. SUCCESS # FAILED
      BY DEF SUCCESS, FAILED
    <2>8. row'[job[t]].status = SUCCESS /\ events'[job[t]][PROCESSED] = 1
      BY <2>2, <2>4, <2>6
    <2>9. QED
      BY <1>1, <1>2, <1>3, <1>5, <2>2, <2>4, <2>5, <2>7, <2>8, WriteKeepsPInv
         DEF MessagesAreIssued
  <1>7. CASE MarkFailed(t)
    <2> DEFINE r == Released(Failed(row[job[t]], lease[t]))
    <2>1. r \in Row
      BY <1>1, RowOperators, OwnerAssumption
    <2>2. r.status = FAILED /\ r.epoch = row[job[t]].epoch
      BY DEF Released, Failed
    <2>3. row' = [row EXCEPT ![job[t]] = r] /\ Add(job[t], FAILED) /\ Owns(t, FAILED)
      BY <1>7 DEF MarkFailed
    <2> HIDE DEF r
    <2>4. /\ row'[job[t]] = r /\ \A k \in Jobs : k # job[t] => row'[k] = row[k]
          /\ \A k \in Jobs : /\ events'[k][PROCESSED] = events[k][PROCESSED]
                             /\ events'[k][COMPLETED] = events[k][COMPLETED]
      <3>1. row'[job[t]] = r /\ \A k \in Jobs : k # job[t] => row'[k] = row[k]
        BY <1>0, <1>1, <2>3 DEF TypeOK
      <3>2. events \in [Jobs -> [EventType -> Nat]]
        BY <1>0 DEF TypeOK
      <3>3. /\ \A k \in Jobs, f \in EventType :
                  k # job[t] \/ f # FAILED => events'[k][f] = events[k][f]
        BY <1>1, <1>4, <2>3, <3>2, AddCounts
      <3>4. QED
        BY <1>4, <3>1, <3>3
    <2>5. /\ row[job[t]].status = PROCESSING /\ row[job[t]].epoch = lease[t]
          /\ \A u \in Tasks : Holding(u) /\ job[u] = job[t] /\ lease[u] = lease[t] => u = t
      BY <1>1, <2>3, Owning
    <2>6. ~Holding(t)' /\ ret'[t] # "ack"
      BY <1>0, <1>7 DEF MarkFailed, Return_, Holding, TypeOK
    <2>7. SUCCESS # FAILED
      BY DEF SUCCESS, FAILED
    <2>8. QED
      BY <1>1, <1>2, <1>3, <1>5, <2>2, <2>4, <2>5, <2>6, <2>7, WriteKeepsPInv
         DEF MessagesAreIssued
  <1>8. QED
    BY <1>6, <1>7

\* The unfenced writes of a downstream task: they take effect on a job that is
\* being processed only, with a result or an error of a downstream message.
LEMMA UnfencedWriteKeepsPInv ==
    ASSUME PInv, TypeOK', NEW d \in DTasks,
           DComplete(d) \/ DCompleteReplyLost(d) \/ DMarkFailed(d)
    PROVE  PInv'
  <1> USE DEF PInv
  <1>0. TypeOK
    OBVIOUS
  <1> DEFINE j == djob[d]
             a == dattempt[d]
  <1>1. j \in Jobs /\ row[j] \in Row /\ a \in Nat /\ a \in outbox[j]
    BY <1>0 DEF TypeOK, MessagesAreIssued, DComplete, DCompleteReplyLost,
                DCompleteCommitted, DMarkFailed
  <1>2. /\ UNCHANGED <<outbox, lost, pc, job, lease, ret, djob, dattempt>>
        /\ \A e \in DTasks : dpc'[e] # "idle" => dpc[e] # "idle"
    BY <1>0 DEF DComplete, DCompleteReplyLost, DCompleteCommitted, DMarkFailed,
                DReturn, iVars, TypeOK
  <1>3. \A u \in Tasks : Holding(u)' <=> Holding(u)
    BY <1>2 DEF Holding
  <1>4. /\ PROCESSED \in EventType /\ COMPLETED \in EventType /\ FAILED \in EventType
        /\ PROCESSED # COMPLETED /\ PROCESSED # FAILED /\ COMPLETED # FAILED
    BY DEF EventType, PROCESSED, COMPLETED, FAILED
  <1>5. \A k \in Jobs : events[k][COMPLETED] \in Nat /\ events[k][PROCESSED] \in Nat
    BY <1>0, <1>4 DEF TypeOK
  <1>6. row[j].status # PENDING
    BY <1>1 DEF MessagesAreIssued, StatusHasHistory
  <1>7. SUCCESS # FAILED /\ PROCESSING # SUCCESS /\ PROCESSING # FAILED
    BY DEF SUCCESS, FAILED, PROCESSING
  <1>8. ASSUME row' = row,
               \A k \in Jobs : /\ events'[k][PROCESSED] = events[k][PROCESSED]
                               /\ events[k][COMPLETED] <= events'[k][COMPLETED]
        PROVE  PInv'
    BY <1>2, <1>3, <1>8, RowKeptKeepsPInv DEF MessagesAreIssued
  <1>9. CASE DCompleteCommitted(d)
    <2> DEFINE r == IF MayBecome(row[j], SUCCESS) THEN Succeeded(row[j], a) ELSE row[j]
    <2>1. row' = [row EXCEPT ![j] = r] /\ Add(j, COMPLETED)
      BY <1>9 DEF DCompleteCommitted, UpdateIfAllowed
    <2>2. r \in Row
      BY <1>1, UnfencedRow
    <2>3. /\ row[j].status # PROCESSING => r = row[j]
          /\ row[j].status = PROCESSING => r = Succeeded(row[j], a)
      BY <1>1, TransitionTable
    <2> HIDE DEF r
    <2>4. /\ row'[j] = r /\ \A k \in Jobs : k # j => row'[k] = row[k]
          /\ events'[j][COMPLETED] = events[j][COMPLETED] + 1
          /\ \A k \in Jobs : /\ k # j => events'[k][COMPLETED] = events[k][COMPLETED]
                             /\ events'[k][PROCESSED] = events[k][PROCESSED]
      <3>1. row'[j] = r /\ \A k \in Jobs : k # j => row'[k] = row[k]
        BY <1>0, <1>1, <2>1 DEF TypeOK
      <3>2. events \in [Jobs -> [EventType -> Nat]]
        BY <1>0 DEF TypeOK
      <3>3. /\ events'[j][COMPLETED] = events[j][COMPLETED] + 1
            /\ \A k \in Jobs, f \in EventType :
                  k # j \/ f # COMPLETED => events'[k][f] = events[k][f]
        BY <1>1, <1>4, <2>1, <3>2, AddCounts
      <3>4. QED
        BY <1>4, <3>1, <3>3
    <2>5. \A k \in Jobs : events[k][COMPLETED] <= events'[k][COMPLETED]
      BY <1>1, <1>5, <2>4
    <2>6. CASE row[j].status # PROCESSING
      <3>1. row' = row
        BY <1>0, <1>1, <2>1, <2>3, <2>6 DEF TypeOK
      <3>2. QED
        BY <1>8, <2>4, <2>5, <3>1
    <2>7. CASE row[j].status = PROCESSING
      <3>1. /\ r.status = SUCCESS /\ r.epoch = row[j].epoch /\ r.result = a
            /\ r.error = NULL
        BY <2>3, <2>7 DEF Succeeded
      <3>2. events'[j][COMPLETED] > 0
        BY <1>1, <1>5, <2>4
      <3>3. QED
        BY <1>1, <1>2, <1>3, <1>7, <2>4, <2>5, <2>7, <3>1, <3>2, WriteKeepsPInv
    <2>8. QED
      BY <2>6, <2>7
  <1>10. CASE DMarkFailed(d)
    <2> DEFINE r == IF MayBecome(row[j], FAILED) THEN Failed(row[j], a) ELSE row[j]
    <2>1. row' = [row EXCEPT ![j] = r] /\ Add(j, FAILED)
      BY <1>10 DEF DMarkFailed, UpdateIfAllowed
    <2>2. r \in Row
      BY <1>1, UnfencedRow
    <2>3. /\ row[j].status # PROCESSING => r = row[j]
          /\ row[j].status = PROCESSING => r = Failed(row[j], a)
      BY <1>1, <1>6, TransitionTable
    <2> HIDE DEF r
    <2>4. /\ row'[j] = r /\ \A k \in Jobs : k # j => row'[k] = row[k]
          /\ \A k \in Jobs : /\ events'[k][COMPLETED] = events[k][COMPLETED]
                             /\ events'[k][PROCESSED] = events[k][PROCESSED]
      <3>1. row'[j] = r /\ \A k \in Jobs : k # j => row'[k] = row[k]
        BY <1>0, <1>1, <2>1 DEF TypeOK
      <3>2. events \in [Jobs -> [EventType -> Nat]]
        BY <1>0 DEF TypeOK
      <3>3. /\ \A k \in Jobs, f \in EventType :
                  k # j \/ f # FAILED => events'[k][f] = events[k][f]
        BY <1>1, <1>4, <2>1, <3>2, AddCounts
      <3>4. QED
        BY <1>4, <3>1, <3>3
    <2>5. CASE row[j].status # PROCESSING
      <3>1. row' = row
        BY <1>0, <1>1, <2>1, <2>3, <2>5 DEF TypeOK
      <3>2. QED
        BY <1>5, <1>8, <2>4, <3>1
    <2>6. CASE row[j].status = PROCESSING
      <3>1. r.status = FAILED /\ r.epoch = row[j].epoch /\ r.error = a
        BY <2>3, <2>6 DEF Failed
      <3>2. QED
        BY <1>1, <1>2, <1>3, <1>5, <1>7, <2>4, <2>6, <3>1, WriteKeepsPInv
    <2>7. QED
      BY <2>5, <2>6
  <1>11. QED
    BY <1>9, <1>10 DEF DComplete, DCompleteReplyLost

\* The other steps of the downstream tasks, crashes and the clock.
LEMMA QuietStepKeepsPInv ==
    ASSUME PInv, TypeOK',
           \/ \E d \in DTasks : \/ \E j \in Jobs : \E a \in outbox[j] : DRead(d, j, a)
                                \/ DProcessRaises(d) \/ DMarkFailedError(d) \/ DCrash(d)
           \/ \E w \in Workers : Crash(w)
           \/ Tick
           \/ UNCHANGED vars
    PROVE  PInv'
  <1> USE DEF PInv
  <1>0. TypeOK
    OBVIOUS
  <1>1. /\ \A k \in Jobs : outbox[k] \subseteq 1..row[k].epoch
        /\ \A e \in DTasks : dpc[e] # "idle" => dattempt[e] \in outbox[djob[e]]
    BY DEF MessagesAreIssued
  <1>2. \A k \in Jobs : events[k][COMPLETED] \in Nat
    BY <1>0 DEF TypeOK, EventType
  <1>3. ASSUME UNCHANGED <<row, events, outbox, lost, pc, job, lease, ret>>,
               \A e \in DTasks : dpc'[e] # "idle" => dattempt'[e] \in outbox[djob'[e]]
        PROVE  PInv'
    <2>1. \A u \in Tasks : Holding(u)' <=> Holding(u)
      BY <1>3 DEF Holding
    <2>2. QED
      BY <1>1, <1>2, <1>3, <2>1, RowKeptKeepsPInv
  <1>4. ASSUME NEW d \in DTasks, NEW j \in Jobs, NEW a \in outbox[j], DRead(d, j, a)
        PROVE  PInv'
    BY <1>0, <1>1, <1>3, <1>4 DEF DRead, DReturn, iVars, TypeOK
  <1>5. ASSUME NEW d \in DTasks, DProcessRaises(d) \/ DMarkFailedError(d) \/ DCrash(d)
        PROVE  PInv'
    BY <1>0, <1>1, <1>3, <1>5 DEF DProcessRaises, DMarkFailedError, DCrash,
                                  DReturn, iVars, TypeOK
  <1>6. ASSUME NEW w \in Workers, Crash(w) PROVE PInv'
    <2>1. /\ UNCHANGED <<row, events, outbox, job, dpc, djob, dattempt>>
          /\ \A u \in Tasks : OwnerOf[u] # w =>
                pc'[u] = pc[u] /\ lease'[u] = lease[u] /\ ret'[u] = ret[u]
          /\ \A u \in Tasks : OwnerOf[u] = w =>
                pc'[u] = "dead" /\ lease'[u] = NULL /\ ret'[u] = "none"
      BY <1>6 DEF Crash, dVars
    <2>2. \A u \in Tasks : Holding(u)' <=> OwnerOf[u] # w /\ Holding(u)
      BY <2>1 DEF Holding
    <2>3. \A k \in Jobs : lost'[k] = lost[k] \cup
             {lease[t] : t \in {u \in Tasks : OwnerOf[u] = w /\ Holding(u) /\ job[u] = k}}
      BY <1>6 DEF Crash
    <2>4. /\ \A k \in Jobs : lost[k] \subseteq lost'[k]
          /\ \A u \in Tasks : OwnerOf[u] = w /\ Holding(u) => lease[u] \in lost'[job[u]]
      BY <1>0, <2>3 DEF TypeOK
    <2>5. QED
      BY <1>1, <1>2, <2>1, <2>2, <2>4, RowKeptKeepsPInv
  <1>7. CASE Tick \/ UNCHANGED vars
    BY <1>1, <1>3, <1>7 DEF Tick, vars, iVars, dVars
  <1>8. QED
    BY <1>4, <1>5, <1>6, <1>7

\* Every step keeps the inductive invariant.
LEMMA NextPInv == PInv /\ [Next]_vars => PInv'
  <1> SUFFICES ASSUME PInv, [Next]_vars PROVE PInv'
    OBVIOUS
  <1>1. TypeOK /\ TypeOK'
    BY NextType DEF PInv
  <1>2. ASSUME NEW t \in Tasks, NEW j \in Jobs, Claim(t, j) PROVE PInv'
    <2>1. /\ ClaimCommitted(t, j) /\ UNCHANGED <<outbox, lost, dpc, djob, dattempt>>
          /\ pc'[t] = "working" /\ lease'[t] = row[j].epoch + 1 /\ ret'[t] = "none"
          /\ \A u \in Tasks \ {t} :
                pc'[u] = pc[u] /\ lease'[u] = lease[u] /\ ret'[u] = ret[u]
      BY <1>1, <1>2 DEF Claim, dVars, TypeOK
    <2>2. Holding(t)'
      BY <2>1 DEF Holding
    <2>3. QED
      BY <1>1, <2>1, <2>2, ClaimKeepsPInv
  <1>3. ASSUME NEW t \in Tasks, NEW j \in Jobs, ClaimReplyLost(t, j) PROVE PInv'
    <2>1. /\ ClaimCommitted(t, j) /\ UNCHANGED <<outbox, dpc, djob, dattempt>>
          /\ pc'[t] = "idle" /\ lease'[t] = NULL /\ ret'[t] = "raised"
          /\ \A u \in Tasks \ {t} :
                pc'[u] = pc[u] /\ lease'[u] = lease[u] /\ ret'[u] = ret[u]
          /\ row[j].epoch + 1 \in lost'[j]
          /\ \A k \in Jobs : lost[k] \subseteq lost'[k]
      BY <1>1, <1>3 DEF ClaimReplyLost, Return_, dVars, TypeOK
    <2>2. ~Holding(t)'
      BY <2>1 DEF Holding
    <2>3. QED
      BY <1>1, <2>1, <2>2, ClaimKeepsPInv
  <1>4. ASSUME NEW t \in Tasks, Request(t) PROVE PInv'
    BY <1>1, <1>2, <1>3, <1>4, QuietRequestKeepsPInv, FencedWriteKeepsPInv
       DEF Request
  <1>5. ASSUME NEW d \in DTasks, Downstream(d) PROVE PInv'
    BY <1>1, <1>5, UnfencedWriteKeepsPInv, QuietStepKeepsPInv DEF Downstream
  <1>6. QED
    BY <1>1, <1>4, <1>5, QuietStepKeepsPInv DEF Next

\* The invariant holds in every reachable state of the pipeline.
THEOREM PInvariance == Spec => []PInv
  BY InitPInv, NextPInv, PTL DEF Spec

-----------------------------------------------------------------------------
(* Errors.                                                                 *)

\* The error of a row is that of an attempt that was handed out, and no task
\* still works on that attempt unless it has been handed over.
ErrorsKnown ==
    /\ \A j \in Jobs : row[j].error <= row[j].epoch
    /\ \A t \in Tasks : Holding(t) /\ lease[t] = row[job[t]].error =>
          lease[t] \in outbox[job[t]]

\* The attempt whose error the row has is never handed over afterwards.
ErrorsKept ==
    \A j \in Jobs : events'[j][FAILED] = events[j][FAILED] /\ row'[j].error \in outbox'[j]
                       => row[j].error \in outbox[j]

\* A step that leaves the tables alone, and gives no task a token.
LEMMA QuietKeepsErrors ==
    ASSUME ErrorsKnown, UNCHANGED <<row, outbox>>,
           \A u \in Tasks : Holding(u)' => /\ Holding(u) /\ lease'[u] = lease[u]
                                           /\ job'[u] = job[u]
    PROVE  ErrorsKnown' /\ ErrorsKept
  BY DEF ErrorsKnown, ErrorsKept

\* A step of a task that writes one row: the tokens of the tasks that go on
\* stay, and the new error is old, gone or handed over.
LEMMA WriteKeepsErrors ==
    ASSUME PInv, ErrorsKnown, NEW j \in Jobs, NEW r, row' = [row EXCEPT ![j] = r],
           UNCHANGED outbox, r.epoch = row[j].epoch,
           \A u \in Tasks : Holding(u)' => /\ Holding(u) /\ lease'[u] = lease[u]
                                           /\ job'[u] = job[u],
           r.error \in 0..row[j].epoch,
           \/ r.error = row[j].error
           \/ r.error = 0
           \/ /\ events'[j][FAILED] # events[j][FAILED]
              /\ \/ r.error \in outbox[j]
                 \/ \A u \in Tasks : Holding(u)' /\ job[u] = j => lease[u] # r.error
    PROVE  ErrorsKnown' /\ ErrorsKept
  <1>1. /\ row \in [Jobs -> Row] /\ job \in [Tasks -> Jobs]
        /\ outbox[j] \subseteq 1..row[j].epoch /\ row[j].epoch \in Nat
    BY DEF PInv, TypeOK, MessagesAreIssued, Row
  <1>2. row'[j] = r /\ \A k \in Jobs \ {j} : row'[k] = row[k]
    BY <1>1
  <1>3. \A u \in Tasks : Holding(u) => lease[u] # 0
    BY DEF PInv, LeaseHandedOut, NULL
  <1>4. \A k \in Jobs : row'[k].error <= row'[k].epoch
    BY <1>1, <1>2 DEF ErrorsKnown
  <1>5. ASSUME NEW u \in Tasks, Holding(u)', lease'[u] = row'[job'[u]].error
        PROVE  lease'[u] \in outbox'[job'[u]]
    <2>1. Holding(u) /\ lease'[u] = lease[u] /\ job'[u] = job[u] /\ job[u] \in Jobs
      BY <1>1, <1>5
    <2>2. CASE job[u] # j
      BY <1>2, <1>5, <2>1, <2>2 DEF ErrorsKnown
    <2>3. CASE job[u] = j
      BY <1>2, <1>3, <1>5, <2>1, <2>3 DEF ErrorsKnown
    <2>4. QED
      BY <2>2, <2>3
  <1>6. 0 \notin outbox[j]
    BY <1>1
  <1>7. ErrorsKept
    BY <1>2, <1>6 DEF ErrorsKept
  <1>8. QED
    BY <1>4, <1>5, <1>7 DEF ErrorsKnown

\* A committed claim: the token is newer than any error.
LEMMA ClaimKeepsErrors ==
    ASSUME PInv, ErrorsKnown, NEW t \in Tasks, NEW j \in Jobs,
           Claim(t, j) \/ ClaimReplyLost(t, j)
    PROVE  ErrorsKnown' /\ ErrorsKept
  <1>1. /\ TypeOK /\ row \in [Jobs -> Row] /\ row[j].epoch \in Nat /\ row[j].error \in Nat
        /\ row[j].error <= row[j].epoch /\ job \in [Tasks -> Jobs]
    BY DEF PInv, TypeOK, Row, ErrorsKnown
  <1>2. /\ ClaimCommitted(t, j) /\ outbox' = outbox
        /\ Holding(t)' => lease'[t] = row[j].epoch + 1
        /\ \A u \in Tasks \ {t} : (Holding(u)' <=> Holding(u)) /\ lease'[u] = lease[u]
    BY <1>1 DEF Claim, ClaimReplyLost, Return_, Holding, TypeOK
  <1>3. /\ row'[j].epoch = row[j].epoch + 1 /\ row'[j].error = row[j].error
        /\ \A k \in Jobs \ {j} : row'[k] = row[k]
        /\ job' = [job EXCEPT ![t] = j]
    BY <1>1, <1>2 DEF ClaimCommitted, Claimed
  <1>4. \A k \in Jobs : row'[k].error = row[k].error /\ row'[k].error <= row'[k].epoch
    BY <1>1, <1>3 DEF ErrorsKnown
  <1>5. ASSUME NEW u \in Tasks, Holding(u)', lease'[u] = row'[job'[u]].error
        PROVE  lease'[u] \in outbox'[job'[u]]
    <2>1. u # t
      BY <1>1, <1>2, <1>3, <1>5
    <2>2. Holding(u) /\ lease'[u] = lease[u] /\ job'[u] = job[u] /\ job[u] \in Jobs
      BY <1>1, <1>2, <1>3, <1>5, <2>1
    <2>3. QED
      BY <1>2, <1>4, <1>5, <2>2 DEF ErrorsKnown
  <1>6. QED
    BY <1>2, <1>4, <1>5 DEF ErrorsKnown, ErrorsKept

\* The steps of a task after its claim.
LEMMA RequestKeepsErrors ==
    ASSUME PInv, ErrorsKnown, NEW t \in Tasks, Request(t)
    PROVE  ErrorsKnown' /\ ErrorsKept
  <1>1. /\ TypeOK /\ row \in [Jobs -> Row] /\ job \in [Tasks -> Jobs] /\ job[t] \in Jobs
        /\ lease[t] \in Nat /\ row[job[t]].epoch \in Nat /\ lease[t] <= row[job[t]].epoch
        /\ events \in [Jobs -> [EventType -> Nat]] /\ outbox \in [Jobs -> SUBSET Nat]
    BY DEF PInv, TypeOK, Row, LeaseHandedOut
  <1>2. ASSUME NEW j \in Jobs, ClaimError(t, j) \/ ClaimRefused(t, j)
        PROVE  ErrorsKnown' /\ ErrorsKept
    <2>1. /\ UNCHANGED <<row, outbox>> /\ ~Holding(t)'
          /\ \A u \in Tasks \ {t} : /\ Holding(u)' <=> Holding(u)
                                    /\ lease'[u] = lease[u] /\ job'[u] = job[u]
      BY <1>1, <1>2 DEF ClaimError, ClaimRefused, Return_, Holding, TypeOK
    <2>2. QED
      BY <2>1, QuietKeepsErrors
  <1>3. ASSUME \/ ReadRefused(t) \/ InferenceRaises(t) \/ CompleteFenced(t)
               \/ MarkFailedFenced(t) \/ MarkFailedError(t)
        PROVE  ErrorsKnown' /\ ErrorsKept
    <2>1. /\ UNCHANGED <<row, outbox, lease, job>>
          /\ \A u \in Tasks : Holding(u)' => Holding(u)
      BY <1>1, <1>3 DEF ReadRefused, InferenceRaises, CompleteFenced, MarkFailedFenced,
         MarkFailedError, Return_, Holding, TypeOK
    <2>2. QED
      BY <2>1, QuietKeepsErrors
  <1>4. ASSUME Infer(t) \/ InferReplyLost(t)  PROVE ErrorsKnown' /\ ErrorsKept
    <2>1. /\ UNCHANGED <<row, lease, job>> /\ Holding(t)
          /\ outbox' = [outbox EXCEPT ![job[t]] = @ \cup {lease[t]}]
          /\ \A u \in Tasks : Holding(u)' => Holding(u)
      BY <1>1, <1>4 DEF Infer, InferReplyLost, HandOver, Return_, Holding, TypeOK
    <2>2. /\ outbox'[job[t]] = outbox[job[t]] \cup {lease[t]}
          /\ \A k \in Jobs \ {job[t]} : outbox'[k] = outbox[k]
      BY <1>1, <2>1
    <2>3. \A k \in Jobs : row[k].error \in outbox'[k] => row[k].error \in outbox[k]
      BY <1>1, <2>1, <2>2 DEF ErrorsKnown
    <2>4. \A k \in Jobs : outbox[k] \subseteq outbox'[k]
      BY <2>2
    <2>5. QED
      BY <1>1, <2>1, <2>3, <2>4 DEF ErrorsKnown, ErrorsKept
  <1>5. ASSUME Complete(t)  PROVE ErrorsKnown' /\ ErrorsKept
    <2> DEFINE r == Released(Succeeded(row[job[t]], lease[t]))
    <2>1. /\ row' = [row EXCEPT ![job[t]] = r] /\ UNCHANGED <<outbox, lease, job>>
          /\ \A u \in Tasks : Holding(u)' => Holding(u)
      BY <1>1, <1>5 DEF Complete, CompleteCommitted, Return_, Holding, TypeOK
    <2>2. r.epoch = row[job[t]].epoch /\ r.error = 0
      BY DEF Released, Succeeded, NULL
    <2> HIDE DEF r
    <2>3. PICK j \in Jobs : j = job[t]
      BY <1>1
    <2>4. /\ row' = [row EXCEPT ![j] = r] /\ UNCHANGED outbox
          /\ r.epoch = row[j].epoch /\ r.error = 0 /\ r.error \in 0..row[j].epoch
      BY <1>1, <2>1, <2>2, <2>3
    <2>5. \A u \in Tasks : Holding(u)' => /\ Holding(u) /\ lease'[u] = lease[u]
                                          /\ job'[u] = job[u]
      BY <2>1
    <2>6. QED
      BY <2>4, <2>5, WriteKeepsErrors
  <1>6. ASSUME MarkFailed(t)  PROVE ErrorsKnown' /\ ErrorsKept
    <2> DEFINE r == Released(Failed(row[job[t]], lease[t]))
    <2>1. /\ row' = [row EXCEPT ![job[t]] = r] /\ UNCHANGED <<outbox, lease, job>>
          /\ Holding(t) /\ ~Holding(t)' /\ \A u \in Tasks : Holding(u)' => Holding(u)
          /\ Add(job[t], FAILED)
      BY <1>1, <1>6 DEF MarkFailed, Return_, Holding, TypeOK
    <2>2. r.epoch = row[job[t]].epoch /\ r.error = lease[t]
      BY DEF Released, Failed
    <2> HIDE DEF r
    <2>3. events'[job[t]][FAILED] # events[job[t]][FAILED]
      <3>1. FAILED \in EventType
        BY DEF EventType
      <3>2. events'[job[t]][FAILED] = events[job[t]][FAILED] + 1
        BY <1>1, <2>1, <3>1, AddCounts
      <3>3. QED
        BY <1>1, <3>1, <3>2
    <2>4. \A u \in Tasks : Holding(u)' /\ job[u] = job[t] => lease[u] # lease[t]
      BY <2>1 DEF PInv, TokensDiffer
    <2>5. PICK j \in Jobs : j = job[t]
      BY <1>1
    <2>6. /\ row' = [row EXCEPT ![j] = r] /\ UNCHANGED outbox
          /\ r.epoch = row[j].epoch /\ r.error \in 0..row[j].epoch
      BY <1>1, <2>1, <2>2, <2>5
    <2>7. \A u \in Tasks : Holding(u)' => /\ Holding(u) /\ lease'[u] = lease[u]
                                          /\ job'[u] = job[u]
      BY <2>1
    <2>8. /\ events'[j][FAILED] # events[j][FAILED]
          /\ \A u \in Tasks : Holding(u)' /\ job[u] = j => lease[u] # r.error
      BY <2>2, <2>3, <2>4, <2>5
    <2>9. QED
      BY <2>6, <2>7, <2>8, WriteKeepsErrors
  <1>7. QED
    BY <1>2, <1>3, <1>4, <1>5, <1>6, ClaimKeepsErrors DEF Request

\* The steps of a downstream task: its error is that of a hand-over.
LEMMA DownstreamKeepsErrors ==
    ASSUME PInv, ErrorsKnown, NEW d \in DTasks, Downstream(d)
    PROVE  ErrorsKnown' /\ ErrorsKept
  <1>1. /\ TypeOK /\ row \in [Jobs -> Row] /\ djob[d] \in Jobs /\ row[djob[d]] \in Row
        /\ row[djob[d]].epoch \in Nat /\ row[djob[d]].error \in 0..row[djob[d]].epoch
        /\ events \in [Jobs -> [EventType -> Nat]]
    BY DEF PInv, TypeOK, Row, ErrorsKnown
  <1>2. UNCHANGED <<outbox, pc, lease, job>>
    BY DEF Downstream, DRead, DProcessRaises, DComplete, DCompleteReplyLost,
       DCompleteCommitted, DMarkFailed, DMarkFailedError, DCrash, iVars
  <1>3. \A u \in Tasks : Holding(u)' <=> Holding(u)
    BY <1>2 DEF Holding
  <1>4. CASE UNCHANGED row
    BY <1>2, <1>3, <1>4, QuietKeepsErrors
  <1>5. ASSUME DComplete(d) \/ DCompleteReplyLost(d)  PROVE ErrorsKnown' /\ ErrorsKept
    <2> DEFINE new == Succeeded(row[djob[d]], dattempt[d])
               r == IF MayBecome(row[djob[d]], SUCCESS) THEN new ELSE row[djob[d]]
    <2>1. row' = [row EXCEPT ![djob[d]] = r]
      BY <1>5 DEF DComplete, DCompleteReplyLost, DCompleteCommitted, UpdateIfAllowed
    <2>2. r.epoch = row[djob[d]].epoch /\ (r.error = row[djob[d]].error \/ r.error = 0)
      BY DEF Succeeded, NULL
    <2> HIDE DEF r
    <2>3. r.error \in 0..row[djob[d]].epoch
      BY <1>1, <2>2
    <2>4. QED
      BY <1>1, <1>2, <1>3, <2>1, <2>2, <2>3, WriteKeepsErrors
  <1>6. ASSUME DMarkFailed(d)  PROVE ErrorsKnown' /\ ErrorsKept
    <2> DEFINE new == Failed(row[djob[d]], dattempt[d])
               r == IF MayBecome(row[djob[d]], FAILED) THEN new ELSE row[djob[d]]
    <2>1. row' = [row EXCEPT ![djob[d]] = r] /\ Add(djob[d], FAILED) /\ dpc[d] = "failing"
      BY <1>6 DEF DMarkFailed, UpdateIfAllowed
    <2>2. /\ r.epoch = row[djob[d]].epoch
          /\ r.error = row[djob[d]].error \/ r.error = dattempt[d]
      BY DEF Failed
    <2> HIDE DEF r
    <2>3. dattempt[d] \in outbox[djob[d]] /\ outbox[djob[d]] \subseteq 1..row[djob[d]].epoch
      BY <1>1, <2>1 DEF PInv, MessagesAreIssued
    <2>4. dattempt[d] \in 0..row[djob[d]].epoch
      BY <1>1, <2>3
    <2>5. events'[djob[d]][FAILED] # events[djob[d]][FAILED]
      <3>1. FAILED \in EventType
        BY DEF EventType
      <3>2. events'[djob[d]][FAILED] = events[djob[d]][FAILED] + 1
        BY <1>1, <2>1, <3>1, AddCounts
      <3>3. QED
        BY <1>1, <3>1, <3>2
    <2>6. QED
      BY <1>1, <1>2, <1>3, <2>1, <2>2, <2>3, <2>4, <2>5, WriteKeepsErrors
  <1>7. QED
    BY <1>4, <1>5, <1>6 DEF Downstream, DRead, DProcessRaises, DMarkFailedError, DCrash

\* Every step of the services keeps errors known.
LEMMA NextErrors ==
    ASSUME PInv, ErrorsKnown, [Next]_vars
    PROVE  ErrorsKnown' /\ ErrorsKept
  <1>1. ASSUME NEW w \in Workers, Crash(w)  PROVE ErrorsKnown' /\ ErrorsKept
    <2>1. /\ UNCHANGED <<row, outbox, job>>
          /\ \A u \in Tasks : Holding(u)' => Holding(u) /\ lease'[u] = lease[u]
      BY <1>1 DEF Crash, Holding
    <2>2. QED
      BY <2>1, QuietKeepsErrors
  <1>2. CASE Tick \/ UNCHANGED vars
    <2>1. UNCHANGED <<row, outbox, pc, lease, job>>
      BY <1>2 DEF Tick, vars, iVars
    <2>2. QED
      BY <2>1, QuietKeepsErrors DEF Holding
  <1>3. QED
    BY <1>1, <1>2, RequestKeepsErrors, DownstreamKeepsErrors DEF Next

-----------------------------------------------------------------------------
(* What follows from it.                                                   *)

\* Every reachable state of the pipeline is well typed.
THEOREM PipelineTypeCorrect == Spec => []TypeOK
  BY InitType, NextType, PTL DEF Spec

\* A job that is PROCESSING is with a task, in the outbox, or was lost in a
\* fault: no interleaving of the two services forgets it.
THEOREM NothingLostSilently == Spec => []NoSilentLoss
  <1>1. PInv => NoSilentLoss
    BY DEF PInv
  <1>2. QED
    BY <1>1, PInvariance, PTL

\* A request is acknowledged only when its work is done, handed over or taken
\* over.
THEOREM AcksAreSafe == Spec => []AckedIsHandedOver
  <1>1. PInv => AckedIsHandedOver
    BY DEF PInv
  <1>2. QED
    BY <1>1, PInvariance, PTL

\* The result of a job that is SUCCESS was committed, and stays with it.
THEOREM ResultsAreCommitted == Spec => []ResultWasCommitted
  <1>1. PInv => ResultWasCommitted
    BY DEF PInv
  <1>2. QED
    BY <1>1, PInvariance, PTL

\* No two tasks hold the same token of a job, in a mixed deployment either.
THEOREM PipelineTokensUnique == Spec => []TokensDiffer
  <1>1. PInv => TokensDiffer
    BY DEF PInv
  <1>2. QED
    BY <1>1, PInvariance, PTL

\* Initial states map to initial states.
LEMMA InitLives == Init => Lifecycle!LInit
  BY DEF Init, Lifecycle!LInit, NewRow, NULL, PENDING

\* A claim maps to a start, every write that takes effect to a failure or to a
\* success with the result of an attempt that was started, and every other
\* step is invisible.
LEMMA NextLives == PInv /\ [Next]_vars => [Lifecycle!WeakNext]_(Lifecycle!lvars)
  <1> USE DEF PENDING, PROCESSING, SUCCESS, FAILED
  <1> SUFFICES ASSUME PInv, [Next]_vars
               PROVE  Lifecycle!WeakNext \/ UNCHANGED Lifecycle!lvars
    OBVIOUS
  <1>1. /\ row \in [Jobs -> Row] /\ job \in [Tasks -> Jobs]
        /\ djob \in [DTasks -> Jobs]
    BY DEF PInv, TypeOK
  <1>2. ASSUME NEW t \in Tasks, NEW j \in Jobs, ClaimCommitted(t, j)
        PROVE  Lifecycle!WeakNext
    <2>1. row' = [row EXCEPT ![j] = Claimed(row[j], OwnerOf[t], clock, LeaseSeconds)]
      BY <1>2 DEF ClaimCommitted
    <2>2. row[j].status # SUCCESS
      BY <1>2 DEF ClaimCommitted, Claimable
    <2>3. Lifecycle!Start(j)
      BY <1>1, <2>1, <2>2 DEF Lifecycle!Start, Claimed
    <2>4. QED
      BY <2>3 DEF Lifecycle!WeakNext
  <1>3. ASSUME NEW j \in Jobs, NEW a \in 1..row[j].epoch, row[j].status = PROCESSING,
               NEW r, row' = [row EXCEPT ![j] = r], r.status = SUCCESS,
               r.epoch = row[j].epoch, r.result = a
        PROVE  Lifecycle!WeakNext
    <2>1. Lifecycle!Finish(j, a)
      BY <1>1, <1>3 DEF Lifecycle!Finish
    <2>2. QED
      BY <1>3, <2>1 DEF Lifecycle!WeakNext
  <1>4. ASSUME NEW j \in Jobs, row[j].status = PROCESSING,
               NEW r, row' = [row EXCEPT ![j] = r], r.status = FAILED,
               r.epoch = row[j].epoch, r.result = row[j].result
        PROVE  Lifecycle!WeakNext
    <2>1. Lifecycle!Fail(j)
      BY <1>1, <1>4 DEF Lifecycle!Fail
    <2>2. QED
      BY <1>4, <2>1 DEF Lifecycle!WeakNext
  <1>5. ASSUME NEW t \in Tasks, Complete(t) PROVE Lifecycle!WeakNext
    <2> DEFINE r == Released(Succeeded(row[job[t]], lease[t]))
    <2>0. r.status = SUCCESS /\ r.epoch = row[job[t]].epoch /\ r.result = lease[t]
      BY DEF Released, Succeeded
    <2>1. row' = [row EXCEPT ![job[t]] = r] /\ Owns(t, SUCCESS) /\ Holding(t)
      BY <1>5 DEF Complete, CompleteCommitted, Holding
    <2> HIDE DEF r
    <2>2. row[job[t]].status = PROCESSING /\ row[job[t]].epoch = lease[t]
      BY <2>1, Owning
    <2>3. lease[t] \in 1..row[job[t]].epoch /\ job[t] \in Jobs
      BY <1>1, <2>1, <2>2 DEF PInv, TypeOK, LeaseHandedOut, NULL
    <2>4. QED
      BY <1>3, <2>0, <2>1, <2>2, <2>3
  <1>6. ASSUME NEW t \in Tasks, MarkFailed(t) PROVE Lifecycle!WeakNext
    <2> DEFINE r == Released(Failed(row[job[t]], lease[t]))
    <2>0. r.status = FAILED /\ r.epoch = row[job[t]].epoch /\ r.result = row[job[t]].result
      BY DEF Released, Failed
    <2>1. /\ row' = [row EXCEPT ![job[t]] = r]
          /\ Owns(t, FAILED) /\ Holding(t) /\ job[t] \in Jobs
      BY <1>1, <1>6 DEF MarkFailed, Holding
    <2> HIDE DEF r
    <2>2. row[job[t]].status = PROCESSING
      BY <2>1, Owning
    <2>3. QED
      BY <1>4, <2>0, <2>1, <2>2
  <1>7. ASSUME NEW d \in DTasks, dpc[d] # "idle"
        PROVE  /\ djob[d] \in Jobs /\ row[djob[d]] \in Row
               /\ dattempt[d] \in 1..row[djob[d]].epoch /\ row[djob[d]].status # PENDING
    BY <1>1, <1>7 DEF PInv, MessagesAreIssued, StatusHasHistory
  <1>8. ASSUME NEW d \in DTasks, DCompleteCommitted(d)
        PROVE  Lifecycle!WeakNext \/ UNCHANGED row
    <2>1. /\ row' = [row EXCEPT ![djob[d]] =
                        IF MayBecome(row[djob[d]], SUCCESS)
                          THEN Succeeded(row[djob[d]], dattempt[d]) ELSE row[djob[d]]]
          /\ dpc[d] # "idle"
      BY <1>8 DEF DCompleteCommitted, UpdateIfAllowed
    <2>2. CASE row[djob[d]].status = PROCESSING
      <3> DEFINE r == Succeeded(row[djob[d]], dattempt[d])
      <3>1. row' = [row EXCEPT ![djob[d]] = r]
        BY <1>7, <2>1, <2>2, TransitionTable
      <3>2. r.status = SUCCESS /\ r.epoch = row[djob[d]].epoch /\ r.result = dattempt[d]
        BY DEF Succeeded
      <3> HIDE DEF r
      <3>3. djob[d] \in Jobs /\ dattempt[d] \in 1..row[djob[d]].epoch
        BY <1>7, <2>1
      <3>4. QED
        BY <1>3, <2>2, <3>1, <3>2, <3>3
    <2>3. CASE row[djob[d]].status # PROCESSING
      <3>1. row' = [row EXCEPT ![djob[d]] = row[djob[d]]]
        BY <1>7, <2>1, <2>3, TransitionTable
      <3>2. QED
        BY <1>1, <3>1
    <2>4. QED
      BY <2>2, <2>3
  <1>9. ASSUME NEW d \in DTasks, DMarkFailed(d)
        PROVE  Lifecycle!WeakNext \/ UNCHANGED row
    <2>1. /\ row' = [row EXCEPT ![djob[d]] =
                        IF MayBecome(row[djob[d]], FAILED)
                          THEN Failed(row[djob[d]], dattempt[d]) ELSE row[djob[d]]]
          /\ dpc[d] # "idle"
      BY <1>9 DEF DMarkFailed, UpdateIfAllowed
    <2>2. CASE row[djob[d]].status = PROCESSING
      <3> DEFINE r == Failed(row[djob[d]], dattempt[d])
      <3>1. row' = [row EXCEPT ![djob[d]] = r]
        BY <1>7, <2>1, <2>2, TransitionTable
      <3>2. /\ r.status = FAILED /\ r.epoch = row[djob[d]].epoch
            /\ r.result = row[djob[d]].result
        BY DEF Failed
      <3> HIDE DEF r
      <3>3. QED
        BY <1>4, <1>7, <2>1, <2>2, <3>1, <3>2
    <2>3. CASE row[djob[d]].status # PROCESSING
      <3>1. row' = [row EXCEPT ![djob[d]] = row[djob[d]]]
        BY <1>7, <2>1, <2>3, TransitionTable
      <3>2. QED
        BY <1>1, <3>1
    <2>4. QED
      BY <2>2, <2>3
  <1>10. UNCHANGED row => UNCHANGED Lifecycle!lvars
    BY DEF Lifecycle!lvars
  <1>11. ASSUME NEW t \in Tasks, Request(t) PROVE Lifecycle!WeakNext \/ UNCHANGED row
    <2>1. ASSUME NEW j \in Jobs, Claim(t, j) \/ ClaimReplyLost(t, j)
          PROVE  Lifecycle!WeakNext
      BY <1>2, <2>1 DEF Claim, ClaimReplyLost
    <2>2. QED
      BY <1>5, <1>6, <1>11, <2>1 DEF Request, ClaimError, ClaimRefused, ReadRefused,
         InferenceRaises, Infer, InferReplyLost, HandOver, CompleteFenced,
         MarkFailedFenced, MarkFailedError
  <1>12. ASSUME NEW d \in DTasks, Downstream(d) PROVE Lifecycle!WeakNext \/ UNCHANGED row
    BY <1>8, <1>9, <1>12 DEF Downstream, DRead, DProcessRaises, DComplete,
       DCompleteReplyLost, DMarkFailedError, DCrash
  <1>13. (\E w \in Workers : Crash(w)) \/ Tick \/ UNCHANGED vars => UNCHANGED row
    BY DEF Crash, Tick, vars
  <1>14. QED
    BY <1>10, <1>11, <1>12, <1>13 DEF Next

\* The mixed deployment implements the weak life cycle.
THEOREM WeakLifecycleRefinement == Spec => ImplementsWeakLifecycle
  BY InitLives, NextLives, PInvariance, PTL DEF Spec, ImplementsWeakLifecycle,
     Lifecycle!WeakSpec
=============================================================================
