-------------------------- MODULE OutboxRelayProofs --------------------------
(***************************************************************************)
(* Proofs about OutboxRelay for any number of relays and rows, any batch   *)
(* size, any set of rows that Kafka never accepts and any number of        *)
(* faults.                                                                 *)
(***************************************************************************)
EXTENDS OutboxRelay, TLAPS

Committed(i) == row[i] \in {"PENDING", "PUBLISHED"}

\* A relay's locals are empty outside of drain_once; inside, what it has sent
\* is a part of its batch and in Kafka, and its batch is of committed rows.
BatchesAreSound ==
    \A r \in Relays :
        /\ pc[r] \in {"idle", "down"} => ~txn[r] /\ batch[r] = {} /\ sent[r] = {}
        /\ sent[r] \subseteq batch[r] /\ sent[r] \subseteq Accepted
        /\ \A i \in batch[r] : Committed(i)

\* Without a fault a relay that works has its transaction, and what Kafka has
\* is marked or on the list of a relay that is about to mark it.
NothingIsForgotten ==
    faults = 0 =>
        /\ \A r \in Relays : pc[r] \in {"publishing", "marking"} => txn[r]
        /\ \A i \in Accepted : \/ row[i] = "PUBLISHED"
                               \/ \E r \in Relays : txn[r] /\ i \in sent[r]

\* The older rows of a row have smaller ids and stay committed; for a row in
\* a batch they are in Kafka, in the batch too, or were locked elsewhere.
OlderRowsAreKnown ==
    /\ \A i \in Ids : \A k \in older[i] : k < i /\ Committed(k)
    /\ \A r \in Relays : \A i \in batch[r] :
          older[i] \subseteq Accepted \cup skipped[r] \cup batch[r]

\* The inductive invariant.
OInv ==
    /\ TypeOK
    /\ BatchesAreSound
    /\ PublishedIsAccepted
    /\ AcceptedIsCommitted
    /\ LiveBatchesAreDisjoint
    /\ NothingIsForgotten
    /\ DuplicatesNeedAFault
    /\ OlderRowsAreKnown
    /\ OvertakesOnlySkippedRows

-----------------------------------------------------------------------------
(* Lemmas about the operators.                                             *)

\* What Kafka has accepted after it accepts one more message.
LEMMA AcceptedAppend ==
    ASSUME broker \in Seq(Ids), NEW i \in Ids, broker' = Append(broker, i)
    PROVE  /\ broker' \in Seq(Ids)
           /\ Accepted' = Accepted \cup {i}
  <1>1. broker' \in Seq(Ids) /\ Len(broker') = Len(broker) + 1 /\ Len(broker) \in Nat
    OBVIOUS
  <1>2. broker'[Len(broker) + 1] = i
    OBVIOUS
  <1>3. \A n \in 1..Len(broker) : broker'[n] = broker[n]
    OBVIOUS
  <1>4. Accepted' = {broker'[n] : n \in 1..Len(broker')}
    BY DEF Accepted
  <1>5. ASSUME NEW x \in Accepted PROVE x \in Accepted'
    <2>1. PICK n \in 1..Len(broker) : x = broker[n]
      BY DEF Accepted
    <2>2. n \in 1..Len(broker') /\ x = broker'[n]
      BY <1>1, <1>3, <2>1
    <2>3. QED
      BY <2>2, <1>4
  <1>6. i \in Accepted'
    BY <1>1, <1>2, <1>4
  <1>7. ASSUME NEW x \in Accepted' PROVE x \in Accepted \cup {i}
    <2>1. PICK n \in 1..Len(broker') : x = broker'[n]
      BY <1>4
    <2>2. CASE n = Len(broker) + 1
      BY <2>1, <2>2, <1>2
    <2>3. CASE n # Len(broker) + 1
      <3>1. n \in 1..Len(broker)
        BY <2>3, <1>1
      <3>2. QED
        BY <2>1, <3>1, <1>3 DEF Accepted
    <2>4. QED
      BY <2>2, <2>3
  <1>8. QED
    BY <1>1, <1>5, <1>6, <1>7

\* A message that Kafka did not have yet makes no duplicate.
LEMMA AppendWithoutDuplicate ==
    ASSUME broker \in Seq(Ids), NEW i \in Ids, broker' = Append(broker, i),
           i \notin Accepted,
           \A m, n \in 1..Len(broker) : broker[m] = broker[n] => m = n
    PROVE  \A m, n \in 1..Len(broker') : broker'[m] = broker'[n] => m = n
  <1>1. Len(broker') = Len(broker) + 1 /\ Len(broker) \in Nat
    OBVIOUS
  <1>2. broker'[Len(broker) + 1] = i
    OBVIOUS
  <1>3. \A n \in 1..Len(broker) : broker'[n] = broker[n] /\ broker[n] # i
    BY DEF Accepted
  <1>4. QED
    BY <1>1, <1>2, <1>3

-----------------------------------------------------------------------------
(* The inductive invariant.                                                *)

\* The initial state satisfies the inductive invariant.
LEMMA InitOInv == Init => OInv
  <1> SUFFICES ASSUME Init PROVE OInv
    OBVIOUS
  <1>1. broker = <<>> /\ Accepted = {}
    BY DEF Init, Accepted
  <1>2. TypeOK
    BY DEF Init, TypeOK, RowState, Control
  <1>3. QED
    BY <1>1, <1>2 DEF Init, OInv, BatchesAreSound, PublishedIsAccepted,
       AcceptedIsCommitted, LiveBatchesAreDisjoint, NothingIsForgotten,
       DuplicatesNeedAFault, OlderRowsAreKnown, OvertakesOnlySkippedRows

\* A service that inserts a row, or rolls it back, touches an id no relay and
\* no history knows.
LEMMA UncommittedKeepsOInv ==
    ASSUME OInv, NEW i \in Ids, ~Committed(i), NEW st \in {"inserted", "aborted"},
           row' = [row EXCEPT ![i] = st],
           faults' \in Nat, faults' = 0 => faults = 0,
           UNCHANGED <<relayVars, broker, older>>
    PROVE  OInv'
  <1> USE DEF OInv, Committed, relayVars
  <1>0. TypeOK
    OBVIOUS
  <1>1. TypeOK'
    BY <1>0 DEF TypeOK, RowState
  <1>2. Accepted' = Accepted
    BY DEF Accepted
  <1>3. \A k \in Ids : /\ k # i => row'[k] = row[k]
                       /\ Committed(k) => k # i /\ row'[k] = row[k]
                       /\ row'[k] \in {"PENDING", "PUBLISHED"} => row'[k] = row[k]
    BY <1>0 DEF TypeOK
  <1>4. \A r \in Relays : batch[r] \subseteq Ids /\ sent[r] \subseteq Ids
    BY <1>0 DEF TypeOK
  <1>5. Accepted \subseteq Ids
    BY <1>0 DEF TypeOK, Accepted
  <1>6. \A k \in Ids : older[k] \subseteq Ids
    BY <1>0 DEF TypeOK
  <1>7. BatchesAreSound'
    BY <1>2, <1>3, <1>4 DEF BatchesAreSound
  <1>8. PublishedIsAccepted' /\ AcceptedIsCommitted'
    BY <1>2, <1>3, <1>5 DEF PublishedIsAccepted, AcceptedIsCommitted
  <1>9. LiveBatchesAreDisjoint'
    BY <1>3, <1>4 DEF LiveBatchesAreDisjoint
  <1>10. NothingIsForgotten'
    BY <1>2, <1>3, <1>5 DEF NothingIsForgotten
  <1>11. DuplicatesNeedAFault' /\ OvertakesOnlySkippedRows'
    BY <1>2 DEF DuplicatesNeedAFault, OvertakesOnlySkippedRows
  <1>12. OlderRowsAreKnown'
    BY <1>2, <1>3, <1>4, <1>6 DEF OlderRowsAreKnown
  <1>13. QED
    BY <1>1, <1>7, <1>8, <1>9, <1>10, <1>11, <1>12

\* A commit makes a row visible that is in no batch; its older rows are the
\* committed ones.
LEMMA CommitInsertKeepsOInv ==
    ASSUME OInv, NEW i \in Ids, CommitInsert(i)
    PROVE  OInv'
  <1> USE DEF OInv, Committed, relayVars, CommitInsert
  <1>0. TypeOK
    OBVIOUS
  <1>1. TypeOK'
    <2>1. row' \in [Ids -> RowState]
      BY <1>0 DEF TypeOK, RowState
    <2>2. {k \in 1..(i - 1) : row[k] \in {"PENDING", "PUBLISHED"}} \subseteq Ids
      BY IdAssumption DEF Ids
    <2>3. older' \in [Ids -> SUBSET Ids]
      BY <1>0, <2>2 DEF TypeOK
    <2>4. QED
      BY <1>0, <2>1, <2>3 DEF TypeOK
  <1>2. Accepted' = Accepted
    BY DEF Accepted
  <1>3. /\ row[i] = "inserted" /\ row'[i] = "PENDING"
        /\ \A k \in Ids : k # i => row'[k] = row[k] /\ older'[k] = older[k]
        /\ older'[i] = {k \in 1..(i - 1) : row[k] \in {"PENDING", "PUBLISHED"}}
    BY <1>0 DEF TypeOK
  <1>4. \A r \in Relays : /\ batch[r] \subseteq Ids /\ sent[r] \subseteq batch[r]
                          /\ i \notin batch[r]
    BY <1>0, <1>3 DEF TypeOK, BatchesAreSound
  <1>5. Accepted \subseteq Ids /\ i \notin Accepted
    BY <1>0, <1>3 DEF TypeOK, Accepted, AcceptedIsCommitted
  <1>6. \A k \in Ids : older[k] \subseteq Ids
    BY <1>0 DEF TypeOK
  <1>7. BatchesAreSound'
    BY <1>2, <1>3, <1>4 DEF BatchesAreSound
  <1>8. PublishedIsAccepted' /\ AcceptedIsCommitted'
    BY <1>2, <1>3, <1>5 DEF PublishedIsAccepted, AcceptedIsCommitted
  <1>9. LiveBatchesAreDisjoint'
    BY <1>3, <1>4 DEF LiveBatchesAreDisjoint
  <1>10. NothingIsForgotten'
    BY <1>2, <1>3, <1>5 DEF NothingIsForgotten
  <1>11. DuplicatesNeedAFault' /\ OvertakesOnlySkippedRows'
    BY <1>2, <1>3, <1>4 DEF DuplicatesNeedAFault, OvertakesOnlySkippedRows
  <1>12. OlderRowsAreKnown'
    <2>1. ASSUME NEW m \in Ids, NEW k \in older'[m] PROVE k < m /\ Committed(k)'
      <3>1. CASE m = i
        <4>1. k \in 1..(i - 1) /\ row[k] \in {"PENDING", "PUBLISHED"}
          BY <3>1, <2>1, <1>3
        <4>2. k \in Ids /\ k < i
          BY <4>1, IdAssumption DEF Ids
        <4>3. QED
          BY <3>1, <4>1, <4>2, <1>3
      <3>2. CASE m # i
        <4>1. k \in older[m] /\ k \in Ids
          BY <3>2, <2>1, <1>3, <1>6
        <4>2. QED
          BY <4>1, <1>3 DEF OlderRowsAreKnown
      <3>3. QED
        BY <3>1, <3>2
    <2>2. ASSUME NEW r \in Relays, NEW m \in batch[r]
          PROVE  older'[m] \subseteq Accepted \cup skipped[r] \cup batch[r]
      BY <2>2, <1>3, <1>4 DEF OlderRowsAreKnown
    <2>3. QED
      BY <2>1, <2>2, <1>2 DEF OlderRowsAreKnown
  <1>13. QED
    BY <1>1, <1>7, <1>8, <1>9, <1>10, <1>11, <1>12

\* The batch a relay fetches is of rows no other live transaction has, and
\* every older row of it that is not in Kafka is in the batch or locked.
LEMMA FetchKeepsOInv ==
    ASSUME OInv, NEW r \in Relays, fetch_pending(r)
    PROVE  OInv'
  <1> USE DEF OInv, Committed
  <1>0. TypeOK
    OBVIOUS
  <1>1. PICK S \in SUBSET Fetchable : IsBatch(S) /\ batch' = [batch EXCEPT ![r] = S]
    BY DEF fetch_pending
  <1>2. /\ row' = row /\ broker' = broker /\ faults' = faults /\ older' = older
        /\ skipped' = [skipped EXCEPT ![r] = {i \in Ids : row[i] = "PENDING"} \ Fetchable]
        /\ sent' = [sent EXCEPT ![r] = {}]
        /\ txn' = [txn EXCEPT ![r] = TRUE]
        /\ pc' = [pc EXCEPT ![r] = "publishing"]
    BY DEF fetch_pending
  <1>3. S \subseteq Ids /\ \A i \in S : /\ row[i] = "PENDING"
                                        /\ \A q \in Relays : ~(txn[q] /\ i \in batch[q])
    BY DEF Fetchable
  <1>4. TypeOK'
    BY <1>0, <1>1, <1>2, <1>3 DEF TypeOK, Control
  <1>5. Accepted' = Accepted
    BY <1>2 DEF Accepted
  <1>6. /\ batch'[r] = S /\ sent'[r] = {} /\ txn'[r] /\ pc'[r] = "publishing"
        /\ skipped'[r] = {i \in Ids : row[i] = "PENDING"} \ Fetchable
        /\ \A q \in Relays : q # r =>
              /\ batch'[q] = batch[q] /\ sent'[q] = sent[q] /\ txn'[q] = txn[q]
              /\ pc'[q] = pc[q] /\ skipped'[q] = skipped[q]
    BY <1>0, <1>1, <1>2 DEF TypeOK
  <1>7. ~txn[r]
    BY DEF fetch_pending, BatchesAreSound
  <1>8. BatchesAreSound'
    BY <1>2, <1>3, <1>5, <1>6 DEF BatchesAreSound
  <1>9. PublishedIsAccepted' /\ AcceptedIsCommitted' /\ DuplicatesNeedAFault'
    BY <1>2, <1>5 DEF PublishedIsAccepted, AcceptedIsCommitted, DuplicatesNeedAFault
  <1>10. LiveBatchesAreDisjoint'
    BY <1>2, <1>3, <1>6 DEF LiveBatchesAreDisjoint
  <1>11. NothingIsForgotten'
    BY <1>2, <1>5, <1>6, <1>7 DEF NothingIsForgotten
  <1>12. OlderRowsAreKnown'
    <2>1. ASSUME NEW i \in S, NEW k \in older[i]
          PROVE  k \in Accepted \cup skipped'[r] \cup S
      <3>1. i \in Ids /\ k \in Ids /\ k < i /\ Committed(k)
        BY <1>0, <1>3 DEF TypeOK, OlderRowsAreKnown
      <3>2. CASE row[k] = "PUBLISHED"
        BY <3>1, <3>2 DEF PublishedIsAccepted
      <3>3. CASE row[k] = "PENDING" /\ k \in Fetchable
        <4>1. k \notin S => i < k
          BY <3>3, <1>1 DEF IsBatch
        <4>2. QED
          BY <3>1, <4>1, IdAssumption DEF Ids
      <3>4. CASE row[k] = "PENDING" /\ k \notin Fetchable
        BY <3>1, <3>4, <1>6
      <3>5. QED
        BY <3>1, <3>2, <3>3, <3>4
    <2>2. QED
      BY <2>1, <1>2, <1>5, <1>6 DEF OlderRowsAreKnown
  <1>13. OvertakesOnlySkippedRows'
    BY <1>2, <1>5, <1>6 DEF OvertakesOnlySkippedRows
  <1>14. QED
    BY <1>4, <1>8, <1>9, <1>10, <1>11, <1>12, <1>13

\* The row a relay sends: the older rows of its batch are sent already, and
\* without a fault nobody has sent it before.
LEMMA NextRow ==
    ASSUME OInv, NEW r \in Relays, NEW i \in Ids, IsNext(r, i)
    PROVE  /\ i \in batch[r] \ sent[r] /\ Committed(i)
           /\ older[i] \subseteq Accepted \cup skipped[r]
           /\ faults = 0 /\ pc[r] = "publishing" => i \notin Accepted
  <1> USE DEF OInv
  <1>1. i \in batch[r] \ sent[r] /\ \A k \in batch[r] \ sent[r] : i <= k
    BY DEF IsNext, IsFirst
  <1>2. Committed(i)
    BY <1>1 DEF BatchesAreSound
  <1>3. ASSUME NEW k \in older[i], k \notin skipped[r] PROVE k \in Accepted
    <2>1. k < i /\ k \in Ids
      BY DEF OlderRowsAreKnown, TypeOK
    <2>2. CASE k \in batch[r]
      <3>1. k \in sent[r]
        BY <1>1, <2>1, <2>2, IdAssumption DEF Ids
      <3>2. QED
        BY <3>1 DEF BatchesAreSound
    <2>3. CASE k \notin batch[r]
      BY <1>1, <1>3, <2>3 DEF OlderRowsAreKnown
    <2>4. QED
      BY <2>2, <2>3
  <1>4. ASSUME faults = 0, pc[r] = "publishing", i \in Accepted PROVE FALSE
    <2>1. txn[r]
      BY <1>4 DEF NothingIsForgotten
    <2>2. row[i] = "PENDING"
      BY <2>1, <1>1 DEF LiveBatchesAreDisjoint
    <2>3. PICK q \in Relays : txn[q] /\ i \in sent[q]
      BY <1>4, <2>2 DEF NothingIsForgotten
    <2>4. q # r /\ i \in batch[q]
      BY <2>3, <1>1 DEF BatchesAreSound
    <2>5. QED
      BY <2>1, <2>3, <2>4, <1>1 DEF LiveBatchesAreDisjoint
  <1>5. QED
    BY <1>1, <1>2, <1>3, <1>4

\* A message that Kafka accepts.
LEMMA PublishKeepsOInv ==
    ASSUME OInv, NEW r \in Relays, NEW i \in Ids, Publish(r, i)
    PROVE  OInv'
  <1> USE DEF OInv, Committed
  <1>0. TypeOK
    OBVIOUS
  <1>1. /\ row' = row /\ faults' = faults /\ older' = older /\ batch' = batch
        /\ txn' = txn /\ skipped' = skipped /\ broker' = Append(broker, i)
        /\ sent'[r] = sent[r] \cup {i}
        /\ pc[r] = "publishing" /\ pc'[r] \in {"publishing", "marking"}
        /\ \A q \in Relays : q # r => sent'[q] = sent[q] /\ pc'[q] = pc[q]
    BY <1>0 DEF Publish, TypeOK
  <1>2. broker \in Seq(Ids)
    BY <1>0 DEF TypeOK
  <1>3. broker' \in Seq(Ids) /\ Accepted' = Accepted \cup {i}
    BY <1>1, <1>2, AcceptedAppend
  <1>4. /\ i \in batch[r] \ sent[r] /\ Committed(i)
        /\ older[i] \subseteq Accepted \cup skipped[r]
        /\ faults = 0 => i \notin Accepted
    BY <1>1, NextRow DEF Publish
  <1>5. TypeOK'
    <2>1. sent' \in [Relays -> SUBSET Ids] /\ pc' \in [Relays -> Control]
      BY <1>0 DEF Publish, TypeOK, Control
    <2>2. QED
      BY <1>0, <1>1, <1>3, <2>1 DEF TypeOK
  <1>6. BatchesAreSound'
    BY <1>1, <1>3, <1>4 DEF BatchesAreSound
  <1>7. PublishedIsAccepted' /\ AcceptedIsCommitted'
    BY <1>1, <1>3, <1>4 DEF PublishedIsAccepted, AcceptedIsCommitted
  <1>8. LiveBatchesAreDisjoint'
    BY <1>1 DEF LiveBatchesAreDisjoint
  <1>9. NothingIsForgotten'
    <2> SUFFICES ASSUME faults = 0
                 PROVE  /\ \A q \in Relays : pc'[q] \in {"publishing", "marking"} => txn[q]
                        /\ \A k \in Accepted' : \/ row[k] = "PUBLISHED"
                                                \/ \E q \in Relays : txn[q] /\ k \in sent'[q]
      BY <1>1 DEF NothingIsForgotten
    <2>1. \A q \in Relays : pc'[q] \in {"publishing", "marking"} => txn[q]
      BY <1>1 DEF NothingIsForgotten
    <2>2. \A q \in Relays : sent[q] \subseteq sent'[q]
      BY <1>1
    <2>3. txn[r] /\ i \in sent'[r]
      BY <1>1 DEF NothingIsForgotten
    <2>4. QED
      BY <2>1, <2>2, <2>3, <1>3 DEF NothingIsForgotten
  <1>10. DuplicatesNeedAFault'
    <2>1. ASSUME faults = 0
          PROVE  \A m, n \in 1..Len(broker') : broker'[m] = broker'[n] => m = n
      BY <2>1, <1>1, <1>2, <1>4, AppendWithoutDuplicate DEF DuplicatesNeedAFault
    <2>2. QED
      BY <2>1, <1>1 DEF DuplicatesNeedAFault
  <1>11. OlderRowsAreKnown' /\ OvertakesOnlySkippedRows'
    BY <1>1, <1>3, <1>4 DEF OlderRowsAreKnown, OvertakesOnlySkippedRows
  <1>12. QED
    BY <1>5, <1>6, <1>7, <1>8, <1>9, <1>10, <1>11

\* A publish that raises leaves the batch as it is, whether Kafka has the
\* message or not.
LEMMA PublishRaisesKeepsOInv ==
    ASSUME OInv, NEW r \in Relays, NEW i \in Ids, PublishRaises(r, i)
    PROVE  OInv'
  <1> USE DEF OInv, Committed
  <1>0. TypeOK
    OBVIOUS
  <1>1. /\ row' = row /\ older' = older /\ batch' = batch /\ sent' = sent
        /\ txn' = txn /\ skipped' = skipped
        /\ pc[r] = "publishing" /\ pc'[r] = "marking"
        /\ \A q \in Relays : q # r => pc'[q] = pc[q]
    BY <1>0 DEF PublishRaises, TypeOK
  <1>2. \/ faults' \in Nat \ {0} /\ broker' = Append(broker, i)
        \/ faults' \in Nat /\ (faults' = 0 => faults = 0) /\ broker' = broker
    BY <1>0 DEF PublishRaises, Fault, TypeOK
  <1>3. i \in batch[r] /\ Committed(i)
    BY NextRow DEF PublishRaises
  <1>4. /\ broker' \in Seq(Ids)
        /\ Accepted \subseteq Accepted' /\ Accepted' \subseteq Accepted \cup {i}
        /\ faults' \in Nat
        /\ faults' = 0 => faults = 0 /\ broker' = broker /\ Accepted' = Accepted
    <2>1. broker \in Seq(Ids)
      BY <1>0 DEF TypeOK
    <2>2. CASE broker' = broker
      BY <2>1, <2>2, <1>2 DEF Accepted
    <2>3. CASE broker' # broker
      BY <2>1, <2>3, <1>2, AcceptedAppend
    <2>4. QED
      BY <2>2, <2>3
  <1>5. TypeOK'
    <2>1. pc' \in [Relays -> Control]
      BY <1>0 DEF PublishRaises, TypeOK, Control
    <2>2. QED
      BY <1>0, <1>1, <1>4, <2>1 DEF TypeOK
  <1>6. BatchesAreSound'
    BY <1>1, <1>4 DEF BatchesAreSound
  <1>7. PublishedIsAccepted' /\ AcceptedIsCommitted'
    BY <1>1, <1>3, <1>4 DEF PublishedIsAccepted, AcceptedIsCommitted
  <1>8. LiveBatchesAreDisjoint'
    BY <1>1 DEF LiveBatchesAreDisjoint
  <1>9. NothingIsForgotten' /\ DuplicatesNeedAFault'
    BY <1>1, <1>4 DEF NothingIsForgotten, DuplicatesNeedAFault
  <1>10. OlderRowsAreKnown' /\ OvertakesOnlySkippedRows'
    BY <1>1, <1>4 DEF OlderRowsAreKnown, OvertakesOnlySkippedRows
  <1>11. QED
    BY <1>5, <1>6, <1>7, <1>8, <1>9, <1>10

\* mark_published and commit: every marked row is one the relay has sent, and
\* no other live transaction works on it.
LEMMA CommitBatchKeepsOInv ==
    ASSUME OInv, NEW r \in Relays, CommitBatch(r)
    PROVE  OInv'
  <1> USE DEF OInv, Committed
  <1>0. TypeOK
    OBVIOUS
  <1>1. /\ broker' = broker /\ faults' = faults /\ older' = older /\ txn[r]
        /\ pc'[r] = "idle" /\ batch'[r] = {} /\ sent'[r] = {} /\ ~txn'[r]
        /\ skipped'[r] = {}
        /\ \A q \in Relays : q # r =>
              /\ pc'[q] = pc[q] /\ batch'[q] = batch[q] /\ sent'[q] = sent[q]
              /\ txn'[q] = txn[q] /\ skipped'[q] = skipped[q]
    BY <1>0 DEF CommitBatch, EndTransaction, TypeOK
  <1>2. row' = [i \in Ids |-> IF i \in sent[r] THEN "PUBLISHED" ELSE row[i]]
    BY DEF CommitBatch, Marked
  <1>3. Accepted' = Accepted /\ Accepted \subseteq Ids
    BY <1>0, <1>1 DEF Accepted, TypeOK
  <1>4. \A q \in Relays : sent[q] \subseteq batch[q] /\ batch[q] \subseteq Ids
    BY <1>0 DEF BatchesAreSound, TypeOK
  <1>5. TypeOK'
    <2>1. row' \in [Ids -> RowState]
      BY <1>0, <1>2 DEF TypeOK, RowState
    <2>2. QED
      BY <1>0, <1>1, <2>1 DEF CommitBatch, EndTransaction, TypeOK, Control
  <1>6. \A k \in Ids : Committed(k) => Committed(k)'
    BY <1>2
  <1>7. BatchesAreSound'
    BY <1>1, <1>3, <1>4, <1>6 DEF BatchesAreSound
  <1>8. PublishedIsAccepted' /\ AcceptedIsCommitted'
    BY <1>2, <1>3, <1>6 DEF PublishedIsAccepted, AcceptedIsCommitted, BatchesAreSound
  <1>9. LiveBatchesAreDisjoint'
    <2>1. ASSUME NEW q \in Relays, q # r, txn[q], NEW i \in batch[q]
          PROVE  row'[i] = "PENDING"
      <3>1. i \notin sent[r] /\ i \in Ids
        BY <2>1, <1>1, <1>4 DEF LiveBatchesAreDisjoint
      <3>2. row[i] = "PENDING"
        BY <2>1 DEF LiveBatchesAreDisjoint
      <3>3. QED
        BY <3>1, <3>2, <1>2
    <2>2. QED
      BY <2>1, <1>1 DEF LiveBatchesAreDisjoint
  <1>10. NothingIsForgotten'
    <2> SUFFICES ASSUME faults = 0
                 PROVE  /\ \A q \in Relays : pc'[q] \in {"publishing", "marking"} => txn'[q]
                        /\ \A k \in Accepted : \/ row'[k] = "PUBLISHED"
                                               \/ \E q \in Relays : txn'[q] /\ k \in sent'[q]
      BY <1>1, <1>3 DEF NothingIsForgotten
    <2>1. \A q \in Relays : pc'[q] \in {"publishing", "marking"} => txn'[q]
      BY <1>1 DEF NothingIsForgotten
    <2>2. ASSUME NEW k \in Accepted
          PROVE  row'[k] = "PUBLISHED" \/ \E q \in Relays : txn'[q] /\ k \in sent'[q]
      <3>1. k \in Ids
        BY <1>3
      <3>2. CASE row[k] = "PUBLISHED" \/ k \in sent[r]
        BY <3>1, <3>2, <1>2
      <3>3. CASE row[k] # "PUBLISHED" /\ k \notin sent[r]
        <4>1. PICK q \in Relays : txn[q] /\ k \in sent[q]
          BY <3>3, <2>2 DEF NothingIsForgotten
        <4>2. QED
          BY <3>3, <4>1, <1>1
      <3>4. QED
        BY <3>2, <3>3
    <2>3. QED
      BY <2>1, <2>2
  <1>11. DuplicatesNeedAFault'
    BY <1>1 DEF DuplicatesNeedAFault
  <1>12. OlderRowsAreKnown'
    <2>1. \A k \in Ids : older[k] \subseteq Ids
      BY <1>0 DEF TypeOK
    <2>2. QED
      BY <2>1, <1>1, <1>3, <1>6 DEF OlderRowsAreKnown
  <1>13. OvertakesOnlySkippedRows'
    BY <1>1, <1>3 DEF OvertakesOnlySkippedRows
  <1>14. QED
    BY <1>5, <1>7, <1>8, <1>9, <1>10, <1>11, <1>12, <1>13

\* A transaction that is rolled back after a fault.
LEMMA RollbackKeepsOInv ==
    ASSUME OInv, NEW r \in Relays, NEW next \in {"idle", "down"},
           EndTransaction(r, next), faults' \in Nat \ {0},
           UNCHANGED <<row, broker, older>>
    PROVE  OInv'
  <1> USE DEF OInv, Committed
  <1>0. TypeOK
    OBVIOUS
  <1>1. /\ pc'[r] = next /\ batch'[r] = {} /\ sent'[r] = {} /\ ~txn'[r]
        /\ skipped'[r] = {}
        /\ \A q \in Relays : q # r =>
              /\ pc'[q] = pc[q] /\ batch'[q] = batch[q] /\ sent'[q] = sent[q]
              /\ txn'[q] = txn[q] /\ skipped'[q] = skipped[q]
    BY <1>0 DEF EndTransaction, TypeOK
  <1>2. Accepted' = Accepted
    BY DEF Accepted
  <1>3. TypeOK'
    BY <1>0 DEF EndTransaction, TypeOK, Control
  <1>4. BatchesAreSound' /\ LiveBatchesAreDisjoint'
    BY <1>1, <1>2 DEF BatchesAreSound, LiveBatchesAreDisjoint
  <1>5. PublishedIsAccepted' /\ AcceptedIsCommitted'
    BY <1>2 DEF PublishedIsAccepted, AcceptedIsCommitted
  <1>6. NothingIsForgotten' /\ DuplicatesNeedAFault'
    BY DEF NothingIsForgotten, DuplicatesNeedAFault
  <1>7. OlderRowsAreKnown' /\ OvertakesOnlySkippedRows'
    BY <1>1, <1>2 DEF OlderRowsAreKnown, OvertakesOnlySkippedRows
  <1>8. QED
    BY <1>3, <1>4, <1>5, <1>6, <1>7

\* A lost connection takes only the locks; a start only the control point.
LEMMA LoseOrStartKeepsOInv ==
    ASSUME OInv, NEW r \in Relays, LoseConnection(r) \/ Start(r)
    PROVE  OInv'
  <1> USE DEF OInv, Committed
  <1>0. TypeOK
    OBVIOUS
  <1>1. /\ UNCHANGED <<row, batch, sent, broker, older, skipped>>
        /\ \A q \in Relays : txn'[q] => txn[q]
        /\ \A q \in Relays : \/ pc'[q] = pc[q]
                             \/ pc[q] = "down" /\ pc'[q] = "idle"
        /\ faults' \in Nat /\ (faults' = 0 => faults = 0 /\ txn' = txn)
    BY <1>0 DEF LoseConnection, Start, Fault, TypeOK
  <1>2. Accepted' = Accepted
    BY <1>1 DEF Accepted
  <1>3. TypeOK'
    BY <1>0, <1>1 DEF LoseConnection, Start, TypeOK, Control
  <1>4. BatchesAreSound' /\ LiveBatchesAreDisjoint'
    BY <1>1, <1>2 DEF BatchesAreSound, LiveBatchesAreDisjoint
  <1>5. PublishedIsAccepted' /\ AcceptedIsCommitted'
    BY <1>1, <1>2 DEF PublishedIsAccepted, AcceptedIsCommitted
  <1>6. NothingIsForgotten' /\ DuplicatesNeedAFault'
    BY <1>1, <1>2 DEF NothingIsForgotten, DuplicatesNeedAFault
  <1>7. OlderRowsAreKnown' /\ OvertakesOnlySkippedRows'
    BY <1>1, <1>2 DEF OlderRowsAreKnown, OvertakesOnlySkippedRows
  <1>8. QED
    BY <1>3, <1>4, <1>5, <1>6, <1>7

\* Every step keeps the inductive invariant.
LEMMA NextOInv == OInv /\ [Next]_vars => OInv'
  <1> SUFFICES ASSUME OInv, [Next]_vars PROVE OInv'
    OBVIOUS
  <1>0. faults \in Nat
    BY DEF OInv, TypeOK
  <1>1. ASSUME NEW i \in Ids, Insert(i) PROVE OInv'
    <2>1. row[i] = "absent"
      BY <1>1 DEF Insert, IsFirst
    <2>2. ~Committed(i)
      BY <2>1 DEF Committed
    <2>3. QED
      BY <1>0, <1>1, <2>2, UncommittedKeepsOInv DEF Insert
  <1>2. ASSUME NEW i \in Ids, CommitInsert(i) PROVE OInv'
    BY <1>2, CommitInsertKeepsOInv
  <1>3. ASSUME NEW i \in Ids, RollbackInsert(i) PROVE OInv'
    <2>1. ~Committed(i) /\ faults' \in Nat /\ faults' # 0
      BY <1>0, <1>3 DEF RollbackInsert, Committed, Fault
    <2>2. QED
      BY <1>3, <2>1, UncommittedKeepsOInv DEF RollbackInsert
  <1>4. ASSUME NEW r \in Relays, CommitFails(r) PROVE OInv'
    <2>1. faults' \in Nat \ {0}
      <3>1. CASE txn[r]
        BY <1>0, <1>4, <3>1 DEF CommitFails, Fault
      <3>2. CASE ~txn[r]
        BY <1>0, <1>4, <3>2 DEF CommitFails, OInv, NothingIsForgotten
      <3>3. QED
        BY <3>1, <3>2
    <2>2. QED
      BY <1>4, <2>1, RollbackKeepsOInv DEF CommitFails
  <1>5. ASSUME NEW r \in Relays, Stop(r) PROVE OInv'
    <2>1. faults' \in Nat \ {0}
      BY <1>0, <1>5 DEF Stop, Fault
    <2>2. QED
      BY <1>5, <2>1, RollbackKeepsOInv DEF Stop
  <1>6. ASSUME NEW r \in Relays, NEW i \in Ids, PublishRaises(r, i) PROVE OInv'
    BY <1>6, PublishRaisesKeepsOInv
  <1>7. ASSUME NEW r \in Relays, drain_once(r) PROVE OInv'
    BY <1>4, <1>6, <1>7, FetchKeepsOInv, PublishKeepsOInv, CommitBatchKeepsOInv
       DEF drain_once
  <1>8. ASSUME NEW r \in Relays, LoseConnection(r) \/ Start(r) PROVE OInv'
    BY <1>8, LoseOrStartKeepsOInv
  <1>9. CASE UNCHANGED vars
    BY <1>9 DEF vars, OInv, TypeOK, BatchesAreSound, PublishedIsAccepted,
       AcceptedIsCommitted, LiveBatchesAreDisjoint, NothingIsForgotten,
       DuplicatesNeedAFault, OlderRowsAreKnown, OvertakesOnlySkippedRows,
       Committed, Accepted
  <1>10. QED
    BY <1>1, <1>2, <1>3, <1>4, <1>5, <1>6, <1>7, <1>8, <1>9 DEF Next, Service

\* The invariant holds in every reachable state of any number of relays.
THEOREM OInvariance == Spec => []OInv
  BY InitOInv, NextOInv, PTL DEF Spec

-----------------------------------------------------------------------------
(* What follows from it.                                                   *)

\* Every reachable state of the outbox is well typed.
THEOREM OutboxTypeCorrect == Spec => []TypeOK
  <1>1. OInv => TypeOK
    BY DEF OInv
  <1>2. QED
    BY <1>1, OInvariance, PTL

\* mark_published never claims a message that Kafka did not accept, whatever
\* fails between the send and the commit.
THEOREM PublishedRowsAreAccepted == Spec => []PublishedIsAccepted
  <1>1. OInv => PublishedIsAccepted
    BY DEF OInv
  <1>2. QED
    BY <1>1, OInvariance, PTL

\* fetch_pending sees only committed rows, so no relay sends a message about a
\* state change that was rolled back.
THEOREM OnlyCommittedRowsAreSent == Spec => []AcceptedIsCommitted
  <1>1. OInv => AcceptedIsCommitted
    BY DEF OInv
  <1>2. QED
    BY <1>1, OInvariance, PTL

\* FOR UPDATE SKIP LOCKED keeps the batches of live transactions apart.
THEOREM BatchesApart == Spec => []LiveBatchesAreDisjoint
  <1>1. OInv => LiveBatchesAreDisjoint
    BY DEF OInv
  <1>2. QED
    BY <1>1, OInvariance, PTL

\* Any number of relays publish each row once as long as nothing fails.
THEOREM OnceWithoutFaults == Spec => []DuplicatesNeedAFault
  <1>1. OInv => DuplicatesNeedAFault
    BY DEF OInv
  <1>2. QED
    BY <1>1, OInvariance, PTL

\* The ORDER BY of fetch_pending and the break of drain_once keep a row behind
\* every older row that no other relay had locked.
THEOREM OrderIsKept == Spec => []OvertakesOnlySkippedRows
  <1>1. OInv => OvertakesOnlySkippedRows
    BY DEF OInv
  <1>2. QED
    BY <1>1, OInvariance, PTL
=============================================================================
