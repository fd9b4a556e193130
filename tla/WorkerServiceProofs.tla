------------------------ MODULE WorkerServiceProofs ------------------------
(***************************************************************************)
(* Proofs about WorkerService for any number of jobs, workers and          *)
(* coroutines, any lease length and any clock error.                       *)
(***************************************************************************)
EXTENDS WorkerService, JobStoreProofs

\* A committed transaction keeps the two tables well typed.
LEMMA CommitType ==
    ASSUME TypeOK, NEW j \in Jobs, NEW r \in Row,
           NEW type \in {STARTED, COMPLETED, FAILED}, NEW a \in Nat,
           Commit(j, r, type, a)
    PROVE  row' \in [Jobs -> Row] /\ log' \in [Jobs -> Seq(Event)]
  <1>1. [type |-> type, attempt |-> a] \in Event
    BY DEF Event
  <1>2. row' \in [Jobs -> Row]
    BY DEF TypeOK, Commit
  <1>3. Append(log[j], [type |-> type, attempt |-> a]) \in Seq(Event)
    BY <1>1 DEF TypeOK
  <1>4. QED
    BY <1>2, <1>3 DEF TypeOK, Commit

\* The initial state is well typed.
LEMMA InitType == Init => TypeOK
  <1>1. NewRow \in Row
    BY DEF Row, NewRow, NULL, JobStatus, PENDING
  <1>2. QED
    BY <1>1 DEF Init, TypeOK, Control, Return, NULL

\* Every step keeps the types.
LEMMA NextType == TypeOK /\ [Next]_vars => TypeOK'
  <1> SUFFICES ASSUME TypeOK, [Next]_vars PROVE TypeOK'
    OBVIOUS
  <1> USE OwnerAssumption, LeaseAssumption, SkewAssumption
  <1>1. ASSUME NEW t \in Tasks, NEW j \in Jobs, NEW now \in Readings,
               ClaimCommitted(t, j, now)
        PROVE  row' \in [Jobs -> Row] /\ log' \in [Jobs -> Seq(Event)]
    <2>1. now \in Nat /\ OwnerOf[t] \in Workers /\ row[j] \in Row
      BY DEF Readings, TypeOK
    <2>2. row[j].epoch + 1 \in Nat
      BY <2>1 DEF Row
    <2>3. Claimed(row[j], OwnerOf[t], now, LeaseSeconds) \in Row
      BY <2>1, RowOperators
    <2>4. QED
      BY <1>1, <2>2, <2>3, CommitType DEF ClaimCommitted
  <1>2. ASSUME NEW t \in Tasks, CompleteCommitted(t)
        PROVE  row' \in [Jobs -> Row] /\ log' \in [Jobs -> Seq(Event)]
    <2>1. job[t] \in Jobs /\ row[job[t]] \in Row /\ lease[t] \in Nat
      BY DEF TypeOK
    <2>2. Released(Succeeded(row[job[t]], lease[t])) \in Row
      BY <2>1, RowOperators, OwnerAssumption
    <2>3. QED
      BY <1>2, <2>1, <2>2, CommitType DEF CompleteCommitted
  <1>3. ASSUME NEW t \in Tasks, MarkFailedCommitted(t)
        PROVE  row' \in [Jobs -> Row] /\ log' \in [Jobs -> Seq(Event)]
    <2>1. job[t] \in Jobs /\ row[job[t]] \in Row /\ lease[t] \in Nat
      BY DEF TypeOK
    <2>2. Released(Failed(row[job[t]], lease[t])) \in Row
      BY <2>1, RowOperators, OwnerAssumption
    <2>3. QED
      BY <1>3, <2>1, <2>2, CommitType DEF MarkFailedCommitted
  <1>4. ASSUME NEW t \in Tasks, NEW j \in Jobs, Claim(t, j)
        PROVE  TypeOK'
    <2>1. row[j].epoch + 1 \in Nat
      BY DEF TypeOK, Row
    <2>2. QED
      BY <1>4, <1>1, <2>1 DEF Claim, TypeOK, Control, Return
  <1>5. ASSUME NEW t \in Tasks, NEW j \in Jobs, ClaimReplyLost(t, j)
        PROVE  TypeOK'
    BY <1>5, <1>1 DEF ClaimReplyLost, Return_, TypeOK, Control, Return, NULL
  <1>6. ASSUME NEW t \in Tasks, NEW j \in Jobs, ClaimError(t, j)
        PROVE  TypeOK'
    BY <1>6 DEF ClaimError, Return_, TypeOK, Control, Return, NULL
  <1>7. ASSUME NEW t \in Tasks, NEW j \in Jobs, ClaimRefused(t, j)
        PROVE  TypeOK'
    BY <1>7 DEF ClaimRefused, TypeOK, Control, Return, NULL
  <1>8. ASSUME NEW t \in Tasks, NEW r \in Return, Return_(t, r),
               UNCHANGED <<clock, job, lease>>,
               row' \in [Jobs -> Row] /\ log' \in [Jobs -> Seq(Event)]
        PROVE  TypeOK'
    BY <1>8 DEF Return_, TypeOK, Control
  <1>9. ASSUME NEW t \in Tasks, UNCHANGED <<clock, job, lease, ret, claimedAt>>,
               pc' = [pc EXCEPT ![t] = "failing"],
               row' \in [Jobs -> Row] /\ log' \in [Jobs -> Seq(Event)]
        PROVE  TypeOK'
    BY <1>9 DEF TypeOK, Control
  <1>10. ASSUME NEW t \in Tasks,
                \/ ReadRefused(t) \/ ProcessRaises(t)
                \/ Complete(t) \/ CompleteReplyLost(t) \/ CompleteFenced(t)
                \/ MarkFailed(t) \/ MarkFailedReplyLost(t)
                \/ MarkFailedFenced(t) \/ MarkFailedError(t)
         PROVE  TypeOK'
    <2> USE DEF Return
    <2>0. row \in [Jobs -> Row] /\ log \in [Jobs -> Seq(Event)]
      BY DEF TypeOK
    <2>1. CASE ReadRefused(t)
      BY <2>0, <2>1, <1>8 DEF ReadRefused
    <2>2. CASE ProcessRaises(t)
      BY <2>0, <2>2, <1>9 DEF ProcessRaises
    <2>3. CASE Complete(t)
      BY <2>3, <1>2, <1>8 DEF Complete
    <2>4. CASE CompleteReplyLost(t)
      BY <2>4, <1>2, <1>9 DEF CompleteReplyLost
    <2>5. CASE CompleteFenced(t)
      BY <2>0, <2>5, <1>8 DEF CompleteFenced
    <2>6. CASE MarkFailed(t)
      BY <2>6, <1>3, <1>8 DEF MarkFailed
    <2>7. CASE MarkFailedReplyLost(t)
      BY <2>7, <1>3, <1>8 DEF MarkFailedReplyLost
    <2>8. CASE MarkFailedFenced(t)
      BY <2>0, <2>8, <1>8 DEF MarkFailedFenced
    <2>9. CASE MarkFailedError(t)
      BY <2>0, <2>9, <1>8 DEF MarkFailedError
    <2>10. QED
      BY <1>10, <2>1, <2>2, <2>3, <2>4, <2>5, <2>6, <2>7, <2>8, <2>9
  <1>11. ASSUME NEW w \in Workers, Crash(w)
         PROVE  TypeOK'
    BY <1>11 DEF Crash, TypeOK, Control, Return, NULL
  <1>12. CASE Tick
    BY <1>12 DEF Tick, locals, TypeOK
  <1>13. CASE UNCHANGED vars
    BY <1>13 DEF vars, TypeOK
  <1>14. QED
    BY <1>4, <1>5, <1>6, <1>7, <1>10, <1>11, <1>12, <1>13
       DEF Next, HandleEvent

\* Every reachable state of the worker service is well typed.
THEOREM TypeCorrect == Spec => []TypeOK
  BY InitType, NextType, PTL DEF Spec

-----------------------------------------------------------------------------
(* The inductive invariant.                                                *)

\* The initial state satisfies the inductive invariant.
LEMMA InitIInv == Init => IInv
  <1> SUFFICES ASSUME Init PROVE IInv
    OBVIOUS
  <1>1. TypeOK
    BY InitType
  <1>2. \A t \in Tasks : ~Holding(t) /\ ret[t] # "ack"
    BY DEF Init, Holding
  <1>3. \A j \in Jobs : row[j] = NewRow /\ log[j] = <<>>
    BY DEF Init
  <1>4. ProcessingIsLeased /\ ResultOfLatestAttempt
    BY <1>3 DEF ProcessingIsLeased, ResultOfLatestAttempt, NewRow, PENDING,
                PROCESSING, SUCCESS, NULL
  <1>5. LogAgreesWithRow
    BY <1>3 DEF LogAgreesWithRow, NewRow
  <1>6. QED
    BY <1>1, <1>2, <1>4, <1>5 DEF IInv, LeaseHandedOut, TokensDiffer,
       NewestHolderOwns, RobbedAfterExpiry, AckedIsDoneOrSuperseded

\* A step that writes no row and starts no attempt keeps the invariant, if
\* what it acknowledges may be acknowledged.
LEMMA NoWriteKeepsIInv ==
    ASSUME IInv, TypeOK', row' = row, log' = log, clock <= clock',
           \A u \in Tasks : Holding(u)' =>
               /\ Holding(u)
               /\ pc'[u] = pc[u] \/ pc'[u] = "failing"
               /\ job'[u] = job[u] /\ lease'[u] = lease[u]
               /\ claimedAt'[u] = claimedAt[u],
           \A u \in Tasks : ret'[u] = "ack" =>
               /\ job'[u] = job[u] /\ lease'[u] = lease[u]
               /\ \/ ret[u] = "ack"
                  \/ row[job[u]].status = SUCCESS
                  \/ lease[u] # NULL /\ lease[u] < row[job[u]].epoch
    PROVE  IInv'
  <1>1. LeaseHandedOut'
    BY DEF IInv, LeaseHandedOut
  <1>2. TokensDiffer'
    BY DEF IInv, TokensDiffer
  <1>3. NewestHolderOwns'
    BY DEF IInv, NewestHolderOwns
  <1>4. RobbedAfterExpiry'
    <2> SUFFICES ASSUME NEW t \in Tasks, Holding(t)',
                        lease'[t] < row'[job'[t]].epoch
                 PROVE  claimedAt'[t] + LeaseSeconds < clock' + 2 * MaxSkew
      BY DEF RobbedAfterExpiry
    <2>1. claimedAt[t] + LeaseSeconds < clock + 2 * MaxSkew
      BY DEF IInv, RobbedAfterExpiry
    <2>2. QED
      BY <2>1, LeaseAssumption, SkewAssumption DEF IInv, TypeOK
  <1>5. ProcessingIsLeased' /\ ResultOfLatestAttempt' /\ LogAgreesWithRow'
    BY DEF IInv, ProcessingIsLeased, ResultOfLatestAttempt, LogAgreesWithRow
  <1>6. AckedIsDoneOrSuperseded'
    BY DEF IInv, AckedIsDoneOrSuperseded
  <1>7. QED
    BY <1>1, <1>2, <1>3, <1>4, <1>5, <1>6 DEF IInv

\* A transaction on an unfinished job keeps row and log in agreement, when
\* the event it adds stands for the status and the epoch it writes.
LEMMA CommitKeepsLog ==
    ASSUME TypeOK, LogAgreesWithRow, NEW j \in Jobs, NEW r \in Row,
           NEW type \in {STARTED, COMPLETED, FAILED},
           Commit(j, r, type, r.epoch),
           row[j].status # SUCCESS, r.status = StatusAfter(type)
    PROVE  LogAgreesWithRow'
  <1> DEFINE e == [type |-> type, attempt |-> r.epoch]
  <1>1. log[j] \in Seq(Event) /\ e \in Event
    BY DEF TypeOK, Event, Row
  <1>2. row'[j] = r /\ log'[j] = Append(log[j], e)
    BY DEF Commit, TypeOK
  <1>3. \A k \in Jobs : k # j => row'[k] = row[k] /\ log'[k] = log[k]
    BY DEF Commit, TypeOK
  <1>4. ASSUME NEW i \in 1..Len(log[j]) PROVE log[j][i].type # COMPLETED
    <2>1. SUFFICES ASSUME log[j][i].type = COMPLETED PROVE FALSE
      OBVIOUS
    <2>2. i = Len(log[j]) /\ log[j] # <<>>
      BY <2>1, <1>1 DEF LogAgreesWithRow
    <2>3. row[j].status = StatusAfter(COMPLETED)
      BY <2>1, <2>2 DEF LogAgreesWithRow
    <2>4. QED
      BY <2>3 DEF StatusAfter, COMPLETED, STARTED, FAILED, SUCCESS
  <1>5. /\ log'[j] # <<>>
        /\ Len(log'[j]) = Len(log[j]) + 1
        /\ log'[j][Len(log'[j])] = e
        /\ \A i \in 1..Len(log[j]) : log'[j][i] = log[j][i]
    BY <1>1, <1>2
  <1>6. SUFFICES ASSUME NEW k \in Jobs
        PROVE  /\ log'[k] = <<>> => row'[k].status = PENDING
               /\ log'[k] # <<>> =>
                     /\ row'[k].status = StatusAfter(log'[k][Len(log'[k])].type)
                     /\ row'[k].epoch = log'[k][Len(log'[k])].attempt
               /\ \A i \in 1..Len(log'[k]) :
                     log'[k][i].type = COMPLETED => i = Len(log'[k])
    BY DEF LogAgreesWithRow, StatusAfter
  <1>7. CASE k = j
    <2>1. row'[k].status = StatusAfter(e.type) /\ row'[k].epoch = e.attempt
      BY <1>2, <1>7
    <2>2. ASSUME NEW i \in 1..Len(log'[k]), log'[k][i].type = COMPLETED
          PROVE  i = Len(log'[k])
      <3>1. Len(log[j]) \in Nat
        BY <1>1
      <3>2. i \notin 1..Len(log[j])
        BY <2>2, <1>4, <1>5, <1>7
      <3>3. QED
        BY <3>1, <3>2, <1>5, <1>7
    <2>3. QED
      BY <2>1, <2>2, <1>5, <1>7
  <1>8. CASE k # j
    BY <1>3, <1>8 DEF LogAgreesWithRow
  <1>9. QED
    BY <1>7, <1>8

\* What a committed claim does to the rows, and that every earlier holder of
\* the job now has an older token and an expired lease.
LEMMA ClaimFacts ==
    ASSUME IInv, TypeOK', NEW t \in Tasks, NEW j \in Jobs, NEW now \in Readings,
           ClaimCommitted(t, j, now)
    PROVE  /\ row' = [row EXCEPT ![j] =
                          Claimed(row[j], OwnerOf[t], now, LeaseSeconds)]
           /\ row[j].status # SUCCESS
           /\ \A u \in Tasks : (Holding(u) /\ job[u] = j) =>
                 /\ lease[u] < row[j].epoch + 1
                 /\ claimedAt[u] + LeaseSeconds < clock + 2 * MaxSkew
           /\ ProcessingIsLeased' /\ ResultOfLatestAttempt' /\ LogAgreesWithRow'
  <1> DEFINE r == Claimed(row[j], OwnerOf[t], now, LeaseSeconds)
  <1> USE OwnerAssumption, LeaseAssumption, SkewAssumption
  <1>1. /\ row[j] \in Row /\ r \in Row /\ OwnerOf[t] \in Workers
        /\ now \in Nat /\ clock \in Nat /\ now <= clock + MaxSkew
    BY RowOperators DEF IInv, TypeOK, Readings
  <1>2. /\ r.status = PROCESSING /\ r.epoch = row[j].epoch + 1
        /\ r.expires = now + LeaseSeconds /\ r.result = row[j].result
    BY <1>1 DEF Claimed
  <1>3. row[j].status # SUCCESS /\ Claimable(row[j], now)
    BY DEF ClaimCommitted, Claimable, PENDING, PROCESSING, SUCCESS, FAILED
  <1>4. row' = [row EXCEPT ![j] = r] /\ Commit(j, r, STARTED, r.epoch)
    BY <1>2 DEF ClaimCommitted, Commit
  <1>5. /\ row'[j] = r
        /\ \A k \in Jobs : k # j => row'[k] = row[k]
    BY <1>4 DEF IInv, TypeOK
  <1>6. ASSUME NEW u \in Tasks, Holding(u), job[u] = j
        PROVE  /\ lease[u] < row[j].epoch + 1
               /\ claimedAt[u] + LeaseSeconds < clock + 2 * MaxSkew
    <2>1. /\ lease[u] \in Nat /\ claimedAt[u] \in Nat /\ row[j].epoch \in Nat
          /\ row[j].expires \in Nat
      BY <1>1 DEF IInv, TypeOK, Row
    <2>2. lease[u] <= row[j].epoch
      BY <1>6 DEF IInv, LeaseHandedOut
    <2>3. CASE lease[u] < row[j].epoch
      BY <1>6, <2>1, <2>3 DEF IInv, RobbedAfterExpiry
    <2>4. CASE lease[u] = row[j].epoch
      <3>1. /\ row[j].status = PROCESSING
            /\ claimedAt[u] + LeaseSeconds <= row[j].expires + MaxSkew
        BY <1>3, <1>6, <2>4 DEF IInv, NewestHolderOwns
      <3>2. row[j].expires < now
        BY <3>1, <1>3 DEF Claimable, IInv, ProcessingIsLeased, PENDING,
                          PROCESSING, FAILED
      <3>3. QED
        BY <1>1, <2>1, <2>4, <3>1, <3>2
    <2>5. QED
      BY <2>1, <2>2, <2>3, <2>4
  <1>7. ProcessingIsLeased'
    <2>1. r.expires # NULL
      BY <1>1, <1>2 DEF NULL
    <2>2. QED
      BY <2>1, <1>5 DEF IInv, ProcessingIsLeased
  <1>8. ResultOfLatestAttempt'
    <2>1. r.status # SUCCESS /\ r.result = NULL
      BY <1>2, <1>3 DEF IInv, ResultOfLatestAttempt, PROCESSING, SUCCESS
    <2>2. QED
      BY <2>1, <1>5 DEF IInv, ResultOfLatestAttempt
  <1>9. LogAgreesWithRow'
    <2>1. r.status = StatusAfter(STARTED)
      BY <1>2 DEF StatusAfter, STARTED, COMPLETED, FAILED
    <2>2. QED
      BY <1>1, <1>3, <1>4, <2>1, CommitKeepsLog DEF IInv
  <1>10. QED
    BY <1>3, <1>4, <1>6, <1>7, <1>8, <1>9

\* A committed claim keeps the invariant: its holder has the newest token.
LEMMA ClaimKeepsIInv ==
    ASSUME IInv, TypeOK', NEW t \in Tasks, NEW j \in Jobs, Claim(t, j)
    PROVE  IInv'
  <1> USE OwnerAssumption, LeaseAssumption, SkewAssumption
  <1>1. PICK now \in Readings : ClaimCommitted(t, j, now)
    BY DEF Claim
  <1>2. now \in Nat /\ clock \in Nat /\ clock <= now + MaxSkew
    BY DEF Readings, IInv, TypeOK
  <1>3. /\ row' = [row EXCEPT ![j] =
                       Claimed(row[j], OwnerOf[t], now, LeaseSeconds)]
        /\ row[j].status # SUCCESS
        /\ \A u \in Tasks : (Holding(u) /\ job[u] = j) =>
              /\ lease[u] < row[j].epoch + 1
              /\ claimedAt[u] + LeaseSeconds < clock + 2 * MaxSkew
        /\ ProcessingIsLeased' /\ ResultOfLatestAttempt' /\ LogAgreesWithRow'
    BY <1>1, ClaimFacts
  <1>4. /\ row'[j].status = PROCESSING /\ row'[j].epoch = row[j].epoch + 1
        /\ row'[j].owner = OwnerOf[t] /\ row'[j].expires = now + LeaseSeconds
        /\ \A k \in Jobs : k # j => row'[k] = row[k]
        /\ row[j].epoch \in Nat
    BY <1>3 DEF IInv, TypeOK, Row, Claimed
  <1>5. /\ job'[t] = j /\ lease'[t] = row[j].epoch + 1
        /\ claimedAt'[t] = clock /\ clock' = clock /\ ret'[t] = "none"
        /\ \A u \in Tasks : u # t =>
              /\ pc'[u] = pc[u] /\ job'[u] = job[u] /\ lease'[u] = lease[u]
              /\ ret'[u] = ret[u] /\ claimedAt'[u] = claimedAt[u]
    BY DEF Claim, IInv, TypeOK
  <1>6. \A u \in Tasks : u # t => (Holding(u)' <=> Holding(u))
    BY <1>5 DEF Holding
  <1>7. \A u \in Tasks : job[u] \in Jobs /\ lease[u] \in Nat
                         /\ row[job[u]].epoch \in Nat
    BY DEF IInv, TypeOK, Row
  <1>8. LeaseHandedOut'
    <2> SUFFICES ASSUME NEW u \in Tasks, Holding(u)'
                 PROVE  1 <= lease'[u] /\ lease'[u] <= row'[job'[u]].epoch
      BY DEF LeaseHandedOut
    <2>1. CASE u = t
      BY <2>1, <1>4, <1>5
    <2>2. CASE u # t
      BY <2>2, <1>4, <1>5, <1>6, <1>7 DEF IInv, LeaseHandedOut
    <2>3. QED
      BY <2>1, <2>2
  <1>9. TokensDiffer'
    <2>1. \A u \in Tasks : (u # t /\ Holding(u)' /\ job'[u] = j) =>
              lease'[u] < lease'[t]
      BY <1>3, <1>5, <1>6
    <2>2. QED
      BY <2>1, <1>4, <1>5, <1>6, <1>7 DEF IInv, TokensDiffer
  <1>10. NewestHolderOwns'
    <2> SUFFICES ASSUME NEW u \in Tasks, Holding(u)',
                        lease'[u] = row'[job'[u]].epoch
                 PROVE  \/ /\ row'[job'[u]].status = PROCESSING
                           /\ row'[job'[u]].owner = OwnerOf[u]
                           /\ claimedAt'[u] + LeaseSeconds
                                 <= row'[job'[u]].expires + MaxSkew
                        \/ pc'[u] = "failing" /\ row'[job'[u]].status = SUCCESS
      BY DEF NewestHolderOwns
    <2>1. CASE u = t
      BY <2>1, <1>2, <1>4, <1>5
    <2>2. CASE u # t
      <3>1. job[u] # j
        BY <2>2, <1>3, <1>4, <1>5, <1>6, <1>7
      <3>2. QED
        BY <2>2, <3>1, <1>4, <1>5, <1>6, <1>7 DEF IInv, NewestHolderOwns
    <2>3. QED
      BY <2>1, <2>2
  <1>11. RobbedAfterExpiry'
    <2> SUFFICES ASSUME NEW u \in Tasks, Holding(u)',
                        lease'[u] < row'[job'[u]].epoch
                 PROVE  claimedAt'[u] + LeaseSeconds < clock' + 2 * MaxSkew
      BY DEF RobbedAfterExpiry
    <2>1. u # t
      BY <1>4, <1>5
    <2>2. CASE job[u] = j
      BY <2>1, <2>2, <1>3, <1>5, <1>6
    <2>3. CASE job[u] # j
      BY <2>1, <2>3, <1>4, <1>5, <1>6, <1>7 DEF IInv, RobbedAfterExpiry
    <2>4. QED
      BY <2>2, <2>3
  <1>12. AckedIsDoneOrSuperseded'
    <2> SUFFICES ASSUME NEW u \in Tasks, ret'[u] = "ack"
                 PROVE  \/ row'[job'[u]].status = SUCCESS
                        \/ lease'[u] # NULL /\ lease'[u] < row'[job'[u]].epoch
      BY DEF AckedIsDoneOrSuperseded
    <2>1. u # t /\ ret[u] = "ack"
      BY <1>5
    <2>2. QED
      BY <2>1, <1>3, <1>4, <1>5, <1>7 DEF IInv, AckedIsDoneOrSuperseded
  <1>13. QED
    BY <1>3, <1>8, <1>9, <1>10, <1>11, <1>12 DEF IInv

\* A committed claim that its caller never learns of starts no attempt.
LEMMA ClaimReplyLostKeepsIInv ==
    ASSUME IInv, TypeOK', NEW t \in Tasks, NEW j \in Jobs, ClaimReplyLost(t, j)
    PROVE  IInv'
  <1> USE OwnerAssumption, LeaseAssumption, SkewAssumption
  <1>1. PICK now \in Readings : ClaimCommitted(t, j, now)
    BY DEF ClaimReplyLost
  <1>2. /\ row' = [row EXCEPT ![j] =
                       Claimed(row[j], OwnerOf[t], now, LeaseSeconds)]
        /\ row[j].status # SUCCESS
        /\ \A u \in Tasks : (Holding(u) /\ job[u] = j) =>
              /\ lease[u] < row[j].epoch + 1
              /\ claimedAt[u] + LeaseSeconds < clock + 2 * MaxSkew
        /\ ProcessingIsLeased' /\ ResultOfLatestAttempt' /\ LogAgreesWithRow'
    BY <1>1, ClaimFacts
  <1>3. /\ row'[j].epoch = row[j].epoch + 1 /\ row[j].epoch \in Nat
        /\ \A k \in Jobs : k # j => row'[k] = row[k]
    BY <1>2 DEF IInv, TypeOK, Row, Claimed
  <1>4. /\ pc'[t] = "idle" /\ ret'[t] = "raised" /\ clock' = clock
        /\ \A u \in Tasks : u # t =>
              /\ pc'[u] = pc[u] /\ job'[u] = job[u] /\ lease'[u] = lease[u]
              /\ ret'[u] = ret[u] /\ claimedAt'[u] = claimedAt[u]
    BY DEF ClaimReplyLost, Return_, IInv, TypeOK
  <1>5. \A u \in Tasks : Holding(u)' => u # t /\ Holding(u)
    BY <1>4 DEF Holding
  <1>6. \A u \in Tasks : job[u] \in Jobs /\ lease[u] \in Nat
                         /\ row[job[u]].epoch \in Nat
    BY DEF IInv, TypeOK, Row
  <1>7. LeaseHandedOut'
    BY <1>3, <1>4, <1>5, <1>6 DEF IInv, LeaseHandedOut
  <1>8. TokensDiffer'
    BY <1>4, <1>5 DEF IInv, TokensDiffer
  <1>9. NewestHolderOwns'
    <2>1. \A u \in Tasks : (Holding(u)' /\ lease'[u] = row'[job'[u]].epoch)
                                => job[u] # j
      BY <1>2, <1>3, <1>4, <1>5, <1>6
    <2>2. QED
      BY <2>1, <1>3, <1>4, <1>5, <1>6 DEF IInv, NewestHolderOwns
  <1>10. RobbedAfterExpiry'
    <2> SUFFICES ASSUME NEW u \in Tasks, Holding(u)',
                        lease'[u] < row'[job'[u]].epoch
                 PROVE  claimedAt'[u] + LeaseSeconds < clock' + 2 * MaxSkew
      BY DEF RobbedAfterExpiry
    <2>1. CASE job[u] = j
      BY <2>1, <1>2, <1>4, <1>5
    <2>2. CASE job[u] # j
      BY <2>2, <1>3, <1>4, <1>5, <1>6 DEF IInv, RobbedAfterExpiry
    <2>3. QED
      BY <2>1, <2>2
  <1>11. AckedIsDoneOrSuperseded'
    <2> SUFFICES ASSUME NEW u \in Tasks, ret'[u] = "ack"
                 PROVE  \/ row'[job'[u]].status = SUCCESS
                        \/ lease'[u] # NULL /\ lease'[u] < row'[job'[u]].epoch
      BY DEF AckedIsDoneOrSuperseded
    <2>1. u # t /\ ret[u] = "ack"
      BY <1>4
    <2>2. QED
      BY <2>1, <1>2, <1>3, <1>4, <1>6 DEF IInv, AckedIsDoneOrSuperseded
  <1>12. QED
    BY <1>2, <1>7, <1>8, <1>9, <1>10, <1>11 DEF IInv

\* A task whose fenced UPDATE matches is the holder of the newest token of an
\* unfinished job, and every other holder has an older one.
LEMMA OwnerIsNewest ==
    ASSUME IInv, NEW t \in Tasks, Holding(t), NEW target \in {SUCCESS, FAILED},
           Owns(t, target)
    PROVE  /\ lease[t] = row[job[t]].epoch
           /\ row[job[t]].status = PROCESSING
           /\ \A u \in Tasks : (u # t /\ Holding(u) /\ job[u] = job[t])
                 => lease[u] < row[job[t]].epoch
  <1>1. lease[t] = row[job[t]].epoch /\ row[job[t]].status # SUCCESS
    BY DEF Owns, Fence, MayBecome, allowed_source_statuses, PENDING,
           PROCESSING, SUCCESS, FAILED
  <1>2. row[job[t]].status = PROCESSING
    BY <1>1 DEF IInv, NewestHolderOwns
  <1>3. \A u \in Tasks : (u # t /\ Holding(u) /\ job[u] = job[t])
                            => lease[u] < row[job[t]].epoch
    <2>1. \A u \in Tasks : lease[u] \in Nat
      BY DEF IInv, TypeOK
    <2>2. QED
      BY <1>1, <2>1 DEF IInv, TokensDiffer, LeaseHandedOut
  <1>4. QED
    BY <1>1, <1>2, <1>3

\* A fenced UPDATE that records the outcome of an attempt keeps the invariant.
LEMMA RecordKeepsIInv ==
    ASSUME IInv, TypeOK', NEW t \in Tasks, Holding(t),
           NEW target \in {SUCCESS, FAILED}, Owns(t, target),
           NEW type \in {COMPLETED, FAILED}, StatusAfter(type) = target,
           NEW r \in Row, Commit(job[t], r, type, lease[t]),
           r.status = target, r.epoch = row[job[t]].epoch,
           IF target = SUCCESS
             THEN /\ r.result = lease[t] /\ r.error = NULL
                  /\ r.owner = NoOwner /\ r.expires = NULL
             ELSE r.result = row[job[t]].result,
           UNCHANGED <<clock, job, lease>>,
           \/ pc'[t] = "idle" /\ (ret'[t] = "ack" => target = SUCCESS)
           \/ pc'[t] = "failing" /\ target = SUCCESS /\ ret'[t] = ret[t],
           \A u \in Tasks : u # t =>
               pc'[u] = pc[u] /\ ret'[u] = ret[u] /\ claimedAt'[u] = claimedAt[u]
    PROVE  IInv'
  <1> DEFINE j == job[t]
  <1> USE LeaseAssumption, SkewAssumption
  <1>1. /\ lease[t] = row[j].epoch /\ row[j].status = PROCESSING
        /\ \A u \in Tasks : (u # t /\ Holding(u) /\ job[u] = j)
              => lease[u] < row[j].epoch
    BY OwnerIsNewest
  <1>2. /\ j \in Jobs /\ row'[j] = r
        /\ \A k \in Jobs : k # j => row'[k] = row[k]
    BY DEF IInv, TypeOK, Commit
  <1>3. \A u \in Tasks : Holding(u)' => Holding(u)
    BY DEF Holding
  <1>4. \A u \in Tasks : /\ job[u] \in Jobs /\ lease[u] \in Nat
                         /\ row'[job[u]].epoch = row[job[u]].epoch
    BY <1>2 DEF IInv, TypeOK
  <1>5. PROCESSING # SUCCESS /\ FAILED # SUCCESS /\ FAILED # PROCESSING
    BY DEF PROCESSING, SUCCESS, FAILED
  <1>6. LeaseHandedOut'
    BY <1>3, <1>4 DEF IInv, LeaseHandedOut
  <1>7. TokensDiffer'
    BY <1>3 DEF IInv, TokensDiffer
  <1>8. NewestHolderOwns'
    <2> SUFFICES ASSUME NEW u \in Tasks, Holding(u)',
                        lease'[u] = row'[job'[u]].epoch
                 PROVE  \/ /\ row'[job'[u]].status = PROCESSING
                           /\ row'[job'[u]].owner = OwnerOf[u]
                           /\ claimedAt'[u] + LeaseSeconds
                                 <= row'[job'[u]].expires + MaxSkew
                        \/ pc'[u] = "failing" /\ row'[job'[u]].status = SUCCESS
      BY DEF NewestHolderOwns
    <2>1. CASE u = t
      BY <2>1, <1>2 DEF Holding
    <2>2. CASE u # t
      <3>1. job[u] # j
        BY <2>2, <1>1, <1>3, <1>4
      <3>2. QED
        BY <2>2, <3>1, <1>2, <1>3, <1>4 DEF IInv, NewestHolderOwns
    <2>3. QED
      BY <2>1, <2>2
  <1>9. RobbedAfterExpiry'
    <2> SUFFICES ASSUME NEW u \in Tasks, Holding(u)',
                        lease'[u] < row'[job'[u]].epoch
                 PROVE  claimedAt'[u] + LeaseSeconds < clock' + 2 * MaxSkew
      BY DEF RobbedAfterExpiry
    <2>1. u # t
      BY <1>1, <1>4
    <2>2. QED
      BY <2>1, <1>3, <1>4 DEF IInv, RobbedAfterExpiry
  <1>10. ProcessingIsLeased'
    BY <1>2, <1>5 DEF IInv, ProcessingIsLeased
  <1>11. ResultOfLatestAttempt'
    <2>1. row[j].result = NULL
      BY <1>1, <1>2, <1>5 DEF IInv, ResultOfLatestAttempt
    <2>2. QED
      BY <2>1, <1>1, <1>2, <1>5 DEF IInv, ResultOfLatestAttempt
  <1>12. LogAgreesWithRow'
    BY <1>1, <1>2, <1>5, CommitKeepsLog DEF IInv
  <1>13. AckedIsDoneOrSuperseded'
    <2> SUFFICES ASSUME NEW u \in Tasks, ret'[u] = "ack"
                 PROVE  \/ row'[job'[u]].status = SUCCESS
                        \/ lease'[u] # NULL /\ lease'[u] < row'[job'[u]].epoch
      BY DEF AckedIsDoneOrSuperseded
    <2>1. CASE u = t
      <3>1. target = SUCCESS
        BY <2>1
      <3>2. QED
        BY <3>1, <2>1, <1>2
    <2>2. CASE u # t
      BY <2>2, <1>1, <1>2, <1>4, <1>5 DEF IInv, AckedIsDoneOrSuperseded
    <2>3. QED
      BY <2>1, <2>2
  <1>14. QED
    BY <1>6, <1>7, <1>8, <1>9, <1>10, <1>11, <1>12, <1>13 DEF IInv

\* The four steps that record an outcome.
LEMMA ResultStepsKeepIInv ==
    ASSUME IInv, TypeOK', NEW t \in Tasks,
           \/ Complete(t) \/ CompleteReplyLost(t)
           \/ MarkFailed(t) \/ MarkFailedReplyLost(t)
    PROVE  IInv'
  <1>1. job[t] \in Jobs /\ row[job[t]] \in Row /\ lease[t] \in Nat
    BY DEF IInv, TypeOK
  <1>2. ASSUME CompleteCommitted(t), UNCHANGED <<clock, job, lease>>,
               \/ pc'[t] = "idle" \/ (pc'[t] = "failing" /\ ret'[t] = ret[t]),
               \A u \in Tasks : u # t =>
                   pc'[u] = pc[u] /\ ret'[u] = ret[u] /\ claimedAt'[u] = claimedAt[u]
        PROVE  IInv'
    <2> DEFINE r == Released(Succeeded(row[job[t]], lease[t]))
    <2>1. r \in Row
      BY <1>1, RowOperators, OwnerAssumption
    <2>2. /\ r.status = SUCCESS /\ r.epoch = row[job[t]].epoch
          /\ r.result = lease[t] /\ r.error = NULL
          /\ r.owner = NoOwner /\ r.expires = NULL
      BY DEF Released, Succeeded
    <2>3. Holding(t) /\ Owns(t, SUCCESS) /\ Commit(job[t], r, COMPLETED, lease[t])
      BY <1>2 DEF CompleteCommitted, Holding
    <2>4. StatusAfter(COMPLETED) = SUCCESS
      BY DEF StatusAfter, COMPLETED, STARTED, FAILED
    <2> HIDE DEF r
    <2>5. QED
      BY <1>2, <2>1, <2>2, <2>3, <2>4, RecordKeepsIInv
  <1>3. ASSUME MarkFailedCommitted(t), UNCHANGED <<clock, job, lease>>,
               pc'[t] = "idle", ret'[t] # "ack",
               \A u \in Tasks : u # t =>
                   pc'[u] = pc[u] /\ ret'[u] = ret[u] /\ claimedAt'[u] = claimedAt[u]
        PROVE  IInv'
    <2> DEFINE r == Released(Failed(row[job[t]], lease[t]))
    <2>1. r \in Row
      BY <1>1, RowOperators, OwnerAssumption
    <2>2. /\ r.status = FAILED /\ r.epoch = row[job[t]].epoch
          /\ r.result = row[job[t]].result
      BY DEF Released, Failed
    <2>3. Holding(t) /\ Owns(t, FAILED) /\ Commit(job[t], r, FAILED, lease[t])
      BY <1>3 DEF MarkFailedCommitted, Holding
    <2>4. StatusAfter(FAILED) = FAILED /\ FAILED # SUCCESS
      BY DEF StatusAfter, COMPLETED, STARTED, FAILED, SUCCESS
    <2> HIDE DEF r
    <2>5. QED
      BY <1>3, <2>1, <2>2, <2>3, <2>4, RecordKeepsIInv
  <1>4. CASE Complete(t)
    BY <1>4, <1>2 DEF Complete, Return_, IInv, TypeOK
  <1>5. CASE CompleteReplyLost(t)
    BY <1>5, <1>2 DEF CompleteReplyLost, IInv, TypeOK
  <1>6. CASE MarkFailed(t)
    BY <1>6, <1>3 DEF MarkFailed, Return_, IInv, TypeOK
  <1>7. CASE MarkFailedReplyLost(t)
    BY <1>7, <1>3 DEF MarkFailedReplyLost, Return_, IInv, TypeOK
  <1>8. QED
    BY <1>4, <1>5, <1>6, <1>7

\* A fenced-out completion may be acknowledged: the task was robbed.
LEMMA FencedOutIsRobbed ==
    ASSUME IInv, NEW t \in Tasks, pc[t] = "working", ~Owns(t, SUCCESS)
    PROVE  lease[t] # NULL /\ lease[t] < row[job[t]].epoch
  <1>1. Holding(t) /\ lease[t] \in Nat /\ row[job[t]].epoch \in Nat
    BY DEF Holding, IInv, TypeOK, Row
  <1>2. 1 <= lease[t] /\ lease[t] <= row[job[t]].epoch
    BY <1>1 DEF IInv, LeaseHandedOut
  <1>3. ASSUME lease[t] = row[job[t]].epoch PROVE Owns(t, SUCCESS)
    <2>1. row[job[t]].status = PROCESSING /\ row[job[t]].owner = OwnerOf[t]
      BY <1>1, <1>3 DEF IInv, NewestHolderOwns
    <2>2. allowed_source_statuses(SUCCESS) = {PROCESSING}
      BY DEF allowed_source_statuses, PENDING, PROCESSING, SUCCESS, FAILED
    <2>3. QED
      BY <1>3, <2>1, <2>2 DEF Owns, MayBecome, Fence
  <1>4. QED
    BY <1>1, <1>2, <1>3 DEF NULL

\* The steps that write no row.
LEMMA OtherStepsKeepIInv ==
    ASSUME IInv, TypeOK',
           \/ \E t \in Tasks :
                 \/ \E j \in Jobs : ClaimError(t, j) \/ ClaimRefused(t, j)
                 \/ ReadRefused(t) \/ ProcessRaises(t) \/ CompleteFenced(t)
                 \/ MarkFailedFenced(t) \/ MarkFailedError(t)
           \/ \E w \in Workers : Crash(w)
           \/ Tick
           \/ UNCHANGED vars
    PROVE  IInv'
  <1> USE DEF Holding
  <1>0. TypeOK /\ clock \in Nat
    BY DEF IInv, TypeOK
  <1>1. ASSUME NEW t \in Tasks, NEW j \in Jobs, ClaimError(t, j)
        PROVE  IInv'
    BY <1>0, <1>1, NoWriteKeepsIInv DEF ClaimError, Return_, TypeOK
  <1>2. ASSUME NEW t \in Tasks, NEW j \in Jobs, ClaimRefused(t, j)
        PROVE  IInv'
    BY <1>0, <1>2, NoWriteKeepsIInv DEF ClaimRefused, TypeOK
  <1>3. ASSUME NEW t \in Tasks, ReadRefused(t)
        PROVE  IInv'
    BY <1>0, <1>3, NoWriteKeepsIInv DEF ReadRefused, Return_, TypeOK
  <1>4. ASSUME NEW t \in Tasks, ProcessRaises(t)
        PROVE  IInv'
    BY <1>0, <1>4, NoWriteKeepsIInv DEF ProcessRaises, TypeOK
  <1>5. ASSUME NEW t \in Tasks, CompleteFenced(t)
        PROVE  IInv'
    <2>1. lease[t] # NULL /\ lease[t] < row[job[t]].epoch
      BY <1>5, FencedOutIsRobbed DEF CompleteFenced
    <2>2. QED
      BY <1>0, <1>5, <2>1, NoWriteKeepsIInv DEF CompleteFenced, Return_, TypeOK
  <1>6. ASSUME NEW t \in Tasks, MarkFailedFenced(t) \/ MarkFailedError(t)
        PROVE  IInv'
    BY <1>0, <1>6, NoWriteKeepsIInv
       DEF MarkFailedFenced, MarkFailedError, Return_, TypeOK
  <1>7. ASSUME NEW w \in Workers, Crash(w)
        PROVE  IInv'
    BY <1>0, <1>7, NoWriteKeepsIInv DEF Crash, TypeOK
  <1>8. CASE Tick
    BY <1>0, <1>8, NoWriteKeepsIInv DEF Tick, locals, TypeOK
  <1>9. CASE UNCHANGED vars
    BY <1>0, <1>9, NoWriteKeepsIInv DEF vars, TypeOK
  <1>10. QED
    BY <1>1, <1>2, <1>3, <1>4, <1>5, <1>6, <1>7, <1>8, <1>9

\* Every step keeps the inductive invariant.
LEMMA NextIInv == IInv /\ [Next]_vars => IInv'
  <1> SUFFICES ASSUME IInv, [Next]_vars PROVE IInv'
    OBVIOUS
  <1>1. TypeOK'
    BY NextType DEF IInv
  <1>2. ASSUME NEW t \in Tasks, NEW j \in Jobs, Claim(t, j) PROVE IInv'
    BY <1>1, <1>2, ClaimKeepsIInv
  <1>3. ASSUME NEW t \in Tasks, NEW j \in Jobs, ClaimReplyLost(t, j) PROVE IInv'
    BY <1>1, <1>3, ClaimReplyLostKeepsIInv
  <1>4. ASSUME NEW t \in Tasks,
               \/ Complete(t) \/ CompleteReplyLost(t)
               \/ MarkFailed(t) \/ MarkFailedReplyLost(t)
        PROVE  IInv'
    BY <1>1, <1>4, ResultStepsKeepIInv
  <1>5. QED
    BY <1>1, <1>2, <1>3, <1>4, OtherStepsKeepIInv DEF Next, HandleEvent

\* The inductive invariant holds in every reachable state.
THEOREM InductiveInvariant == Spec => []IInv
  BY InitIInv, NextIInv, PTL DEF Spec

\* Two holders of one job overlap only past the earlier one's lease.
THEOREM LeaseExclusion == Spec => []ExclusiveWithinLease
  <1>1. IInv => ExclusiveWithinLease
    <2> SUFFICES ASSUME IInv, NEW t \in Tasks, NEW u \in Tasks,
                        Holding(t), Holding(u), job[t] = job[u],
                        lease[t] < lease[u]
                 PROVE  claimedAt[t] + LeaseSeconds < clock + 2 * MaxSkew
      BY DEF ExclusiveWithinLease
    <2>1. /\ lease[t] \in Nat /\ lease[u] \in Nat
          /\ row[job[t]].epoch \in Nat
      BY DEF IInv, TypeOK, Row
    <2>2. lease[t] < row[job[t]].epoch
      BY <2>1 DEF IInv, LeaseHandedOut
    <2>3. QED
      BY <2>2 DEF IInv, RobbedAfterExpiry
  <1>2. QED
    BY <1>1, InductiveInvariant, PTL

\* No two coroutines, of one process or of several, hold one job under one
\* fencing token.
THEOREM FencingTokensUnique == Spec => []TokensDiffer
  <1>1. IInv => TokensDiffer
    BY DEF IInv
  <1>2. QED
    BY <1>1, InductiveInvariant, PTL

\* A finished job carries the result of its newest attempt.
THEOREM NewestResultKept == Spec => []ResultOfLatestAttempt
  <1>1. IInv => ResultOfLatestAttempt
    BY DEF IInv
  <1>2. QED
    BY <1>1, InductiveInvariant, PTL

\* The event log and the jobs table agree.
THEOREM LogAgreement == Spec => []LogAgreesWithRow
  <1>1. IInv => LogAgreesWithRow
    BY DEF IInv
  <1>2. QED
    BY <1>1, InductiveInvariant, PTL

\* An acknowledged delivery is done or superseded.
THEOREM AckSafety == Spec => []AckedIsDoneOrSuperseded
  <1>1. IInv => AckedIsDoneOrSuperseded
    BY DEF IInv
  <1>2. QED
    BY <1>1, InductiveInvariant, PTL

\* No step touches the row or the log of a finished job.
THEOREM SuccessFinality == Spec => SuccessIsFinal
  <1> DEFINE Final(j) == row[j].status = SUCCESS =>
                             row'[j] = row[j] /\ log'[j] = log[j]
  <1>1. IInv /\ [Next]_vars => [\A j \in Jobs : Final(j)]_vars
    <2> SUFFICES ASSUME IInv, [Next]_vars, NEW j \in Jobs,
                        row[j].status = SUCCESS
                 PROVE  row'[j] = row[j] /\ log'[j] = log[j]
      OBVIOUS
    <2>1. ASSUME NEW k \in Jobs, NEW r, NEW type, NEW a, Commit(k, r, type, a),
                 row[k].status # SUCCESS
          PROVE  row'[j] = row[j] /\ log'[j] = log[j]
      BY <2>1 DEF Commit, IInv, TypeOK
    <2>2. ASSUME NEW t \in Tasks, NEW k \in Jobs, NEW now \in Readings,
                 ClaimCommitted(t, k, now)
          PROVE  row'[j] = row[j] /\ log'[j] = log[j]
      <3>1. row[k].status # SUCCESS
        BY <2>2 DEF ClaimCommitted, Claimable, PENDING, PROCESSING, SUCCESS,
                    FAILED
      <3>2. QED
        BY <2>1, <2>2, <3>1 DEF ClaimCommitted
    <2>3. ASSUME NEW t \in Tasks, CompleteCommitted(t) \/ MarkFailedCommitted(t)
          PROVE  row'[j] = row[j] /\ log'[j] = log[j]
      <3>1. job[t] \in Jobs
        BY DEF IInv, TypeOK
      <3>2. row[job[t]].status # SUCCESS
        BY <2>3 DEF CompleteCommitted, MarkFailedCommitted, Owns, MayBecome,
           allowed_source_statuses, PENDING, PROCESSING, SUCCESS, FAILED
      <3>3. QED
        BY <2>1, <2>3, <3>1, <3>2 DEF CompleteCommitted, MarkFailedCommitted
    <2>4. CASE Next
      BY <2>2, <2>3, <2>4 DEF Next, HandleEvent, Claim, ClaimReplyLost,
         ClaimError, ClaimRefused, ReadRefused, ProcessRaises, Complete,
         CompleteReplyLost, CompleteFenced, MarkFailed, MarkFailedReplyLost,
         MarkFailedFenced, MarkFailedError, Crash, Tick
    <2>5. CASE UNCHANGED vars
      BY <2>5 DEF vars
    <2>6. QED
      BY <2>4, <2>5
  <1>2. QED
    BY <1>1, InductiveInvariant, PTL DEF Spec, SuccessIsFinal

\* Every committed transaction is one step of the abstract job and every other
\* step is invisible to it: the handler implements JobLifecycle.
THEOREM LifecycleRefinement == Spec => ImplementsLifecycle
  <1> USE DEF PENDING, PROCESSING, SUCCESS, FAILED
  <1>1. Init => Lifecycle!LInit
    BY DEF Init, Lifecycle!LInit, NewRow, NULL
  <1>2. IInv /\ [Next]_vars => [Lifecycle!LNext]_(Lifecycle!lvars)
    <2> SUFFICES ASSUME IInv, [Next]_vars
                 PROVE  Lifecycle!LNext \/ UNCHANGED Lifecycle!lvars
      OBVIOUS
    <2>1. row \in [Jobs -> Row] /\ job \in [Tasks -> Jobs]
      BY DEF IInv, TypeOK
    <2>2. ASSUME NEW t \in Tasks, NEW j \in Jobs, NEW now \in Readings,
                 ClaimCommitted(t, j, now)
          PROVE  Lifecycle!Start(j)
      <3>1. row' = [row EXCEPT ![j] = Claimed(row[j], OwnerOf[t], now,
                                              LeaseSeconds)]
        BY <2>2 DEF ClaimCommitted, Commit
      <3>2. row[j].status # SUCCESS
        BY <2>2 DEF ClaimCommitted, Claimable
      <3>3. QED
        BY <2>1, <3>1, <3>2 DEF Lifecycle!Start, Claimed
    <2>3. ASSUME NEW t \in Tasks, CompleteCommitted(t) PROVE Lifecycle!LNext
      <3>1. PICK j \in Jobs : j = job[t]
        BY <2>1
      <3>2. row' = [row EXCEPT ![j] = Released(Succeeded(row[j], lease[t]))]
        BY <2>3, <3>1 DEF CompleteCommitted, Commit
      <3>3. row[j].status = PROCESSING /\ row[j].epoch = lease[t]
        BY <2>3, <3>1 DEF CompleteCommitted, Owns, MayBecome, Fence,
                          allowed_source_statuses
      <3>4. QED
        BY <2>1, <3>2, <3>3 DEF Lifecycle!LNext, Lifecycle!Finish, Released,
                                Succeeded
    <2>4. ASSUME NEW t \in Tasks, MarkFailedCommitted(t) PROVE Lifecycle!LNext
      <3>1. PICK j \in Jobs : j = job[t]
        BY <2>1
      <3>2. row' = [row EXCEPT ![j] = Released(Failed(row[j], lease[t]))]
        BY <2>4, <3>1 DEF MarkFailedCommitted, Commit
      <3>3. row[j].status = PROCESSING
        BY <2>4, <3>1, OwnerIsNewest DEF MarkFailedCommitted, Holding
      <3>4. QED
        BY <2>1, <3>2, <3>3 DEF Lifecycle!LNext, Lifecycle!Fail, Released,
                                Failed
    <2>5. UNCHANGED row => UNCHANGED Lifecycle!lvars
      BY DEF Lifecycle!lvars
    <2>6. ASSUME NEW t \in Tasks, HandleEvent(t)
          PROVE  Lifecycle!LNext \/ UNCHANGED row
      <3>1. ASSUME NEW j \in Jobs, Claim(t, j) \/ ClaimReplyLost(t, j)
            PROVE  Lifecycle!LNext
        BY <2>2, <3>1 DEF Claim, ClaimReplyLost, Lifecycle!LNext
      <3>2. QED
        BY <2>3, <2>4, <2>6, <3>1 DEF HandleEvent, ClaimError, ClaimRefused,
           ReadRefused, ProcessRaises, Complete, CompleteReplyLost,
           CompleteFenced, MarkFailed, MarkFailedReplyLost, MarkFailedFenced,
           MarkFailedError
    <2>7. (\E w \in Workers : Crash(w)) \/ Tick \/ UNCHANGED vars
             => UNCHANGED row
      BY DEF Crash, Tick, vars
    <2>8. QED
      BY <2>5, <2>6, <2>7 DEF Next
  <1>3. QED
    BY <1>1, <1>2, InductiveInvariant, PTL DEF Spec, ImplementsLifecycle,
       Lifecycle!Spec
=============================================================================
