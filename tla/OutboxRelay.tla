---------------------------- MODULE OutboxRelay ----------------------------
(***************************************************************************)
(* The transactional outbox: rows inserted together with a state change,   *)
(* and the relays that publish them (app/adapters/messaging/               *)
(* outbox_relay.py, the outbox repository of app/adapters/db/              *)
(* repositories.py, KafkaEventPublisher.publish).  The API process and     *)
(* every worker process run one relay each over the same table.            *)
(*                                                                         *)
(* A row's id is allocated when it is inserted and becomes visible when    *)
(* its transaction commits, so ids may become visible out of order.  One   *)
(* drain_once is one database transaction that locks its batch, publishes  *)
(* it message by message, and marks what was sent; Kafka takes no part in  *)
(* that transaction.  The payload and the attempts and last_error columns, *)
(* which nothing reads back, are left out.                                 *)
(***************************************************************************)
EXTENDS Naturals, Sequences, FiniteSets

CONSTANTS
    Relays,
    BatchSize,         \* outbox_relay_batch_size, at least 1
    MaxId,             \* bound: rows inserted
    MaxOpen,           \* inserting transactions open at the same time
    Poison,            \* rows Kafka never accepts: too large, no such topic
    MaxFaults          \* bound: faults of any kind

ASSUME BatchAssumption == BatchSize \in Nat \ {0}
ASSUME IdAssumption == MaxId \in Nat /\ MaxOpen \in Nat /\ MaxFaults \in Nat

Ids == 1..MaxId

ASSUME PoisonAssumption == Poison \subseteq Ids

VARIABLES
    row,       \* outbox_messages by id
    pc,        \* control point of each relay
    batch,     \* the rows a relay fetched in its current transaction
    sent,      \* local sent_ids
    txn,       \* the relay's transaction is alive and holds its row locks
    broker,    \* what Kafka accepted, in order
    faults,    \* faults so far
    older,     \* history: the rows with a smaller id that were committed
               \* when this one was
    skipped    \* history: the rows that were locked when the batch was fetched

vars == <<row, pc, batch, sent, txn, broker, faults, older, skipped>>
relayVars == <<pc, batch, sent, txn, skipped>>

\* absent: id not allocated; inserted: not yet committed; aborted: rolled back
RowState == {"absent", "inserted", "aborted", "PENDING", "PUBLISHED"}

\* idle: between two drain_once calls; publishing: in the loop over the
\* batch; marking: after it, before the commit; down: no process.
Control == {"idle", "publishing", "marking", "down"}

Init ==
    /\ row = [i \in Ids |-> "absent"]
    /\ pc = [r \in Relays |-> "idle"]
    /\ batch = [r \in Relays |-> {}]
    /\ sent = [r \in Relays |-> {}]
    /\ txn = [r \in Relays |-> FALSE]
    /\ broker = <<>>
    /\ faults = 0
    /\ older = [i \in Ids |-> {}]
    /\ skipped = [r \in Relays |-> {}]

Fault == faults < MaxFaults /\ faults' = faults + 1

\* A smallest id of a nonempty set of rows.
IsFirst(i, S) == i \in S /\ \A k \in S : i <= k

-----------------------------------------------------------------------------
(* SqlAlchemyOutboxRepository.add, inside a service's transaction.          *)

Insert(i) ==
    /\ IsFirst(i, {k \in Ids : row[k] = "absent"})
    /\ Cardinality({k \in Ids : row[k] = "inserted"}) < MaxOpen
    /\ row' = [row EXCEPT ![i] = "inserted"]
    /\ UNCHANGED <<relayVars, broker, faults, older>>

CommitInsert(i) ==
    /\ row[i] = "inserted"
    /\ row' = [row EXCEPT ![i] = "PENDING"]
    /\ older' = [older EXCEPT ![i] =
                     {k \in 1..(i - 1) : row[k] \in {"PENDING", "PUBLISHED"}}]
    /\ UNCHANGED <<relayVars, broker, faults>>

RollbackInsert(i) ==
    /\ row[i] = "inserted"
    /\ Fault
    /\ row' = [row EXCEPT ![i] = "aborted"]
    /\ UNCHANGED <<relayVars, broker, older>>

-----------------------------------------------------------------------------
(* drain_once.                                                             *)

\* Wrong variant: no FOR UPDATE SKIP LOCKED.
Wrong_Unlocked == {i \in Ids : row[i] = "PENDING"}

\* Wrong variant: uncommitted rows are visible.
Wrong_ReadsUncommitted ==
    {i \in Ids : /\ row[i] \in {"PENDING", "inserted"}
                 /\ \A r \in Relays : ~(txn[r] /\ i \in batch[r])}

\* The rows fetch_pending can return: PENDING and, because of FOR UPDATE
\* SKIP LOCKED, not in another live transaction's batch.
Fetchable ==
    {i \in Ids : /\ row[i] = "PENDING"
                 /\ \A r \in Relays : ~(txn[r] /\ i \in batch[r])}

\* ORDER BY id LIMIT batch_size.
IsBatch(S) ==
    /\ S # {} /\ S \subseteq Fetchable
    /\ Cardinality(S) <= BatchSize
    /\ \A i \in S, k \in Fetchable \ S : i < k
    /\ Cardinality(S) < BatchSize => S = Fetchable

\* An empty result ends drain_once at once: the loop sleeps and asks again.
fetch_pending(r) ==
    /\ pc[r] = "idle"
    /\ \E S \in SUBSET Fetchable :
           /\ IsBatch(S)
           /\ batch' = [batch EXCEPT ![r] = S]
    /\ skipped' = [skipped EXCEPT ![r] = {i \in Ids : row[i] = "PENDING"} \ Fetchable]
    /\ sent' = [sent EXCEPT ![r] = {}]
    /\ txn' = [txn EXCEPT ![r] = TRUE]
    /\ pc' = [pc EXCEPT ![r] = "publishing"]
    /\ UNCHANGED <<row, broker, faults, older>>

\* The row the loop over the batch has come to.
IsNext(r, i) == IsFirst(i, batch[r] \ sent[r])

\* publish returns: the broker has the message.  The loop ends with the
\* batch.
Publish(r, i) ==
    /\ pc[r] = "publishing"
    /\ IsNext(r, i) /\ i \notin Poison
    /\ broker' = Append(broker, i)
    /\ sent' = [sent EXCEPT ![r] = @ \cup {i}]
    /\ pc' = [pc EXCEPT ![r] = IF batch[r] = sent[r] \cup {i}
                                 THEN "marking" ELSE "publishing"]
    /\ UNCHANGED <<row, batch, txn, faults, older, skipped>>

\* Wrong variant: a failed message leaves the PENDING state.
Wrong_MarkFailed(r, i) ==
    /\ pc[r] = "publishing"
    /\ IsNext(r, i)
    /\ Fault
    /\ row' = [row EXCEPT ![i] = "FAILED"]
    /\ pc' = [pc EXCEPT ![r] = "marking"]
    /\ UNCHANGED <<batch, sent, txn, broker, older, skipped>>

\* Wrong variant: the loop goes on after a failed message.
Wrong_SkipFailed(r, i) ==
    /\ pc[r] = "publishing"
    /\ IsNext(r, i)
    /\ IF i \in Poison THEN UNCHANGED faults ELSE Fault
    /\ UNCHANGED broker
    /\ batch' = [batch EXCEPT ![r] = @ \ {i}]
    /\ pc' = [pc EXCEPT ![r] = IF batch[r] \ {i} = sent[r]
                                 THEN "marking" ELSE "publishing"]
    /\ UNCHANGED <<row, sent, txn, older, skipped>>

\* publish raises, whether the broker has the message or not: mark_failed
\* leaves the row PENDING and the rest of the batch is not attempted.
PublishRaises(r, i) ==
    /\ pc[r] = "publishing"
    /\ IsNext(r, i)
    /\ \/ i \notin Poison /\ Fault /\ broker' = Append(broker, i)
       \/ i \notin Poison /\ Fault /\ UNCHANGED broker
       \/ i \in Poison /\ UNCHANGED <<broker, faults>>
    /\ pc' = [pc EXCEPT ![r] = "marking"]
    /\ UNCHANGED <<row, batch, sent, txn, older, skipped>>

\* The end of a drain_once call: the transaction is over.
EndTransaction(r, next) ==
    /\ pc' = [pc EXCEPT ![r] = next]
    /\ batch' = [batch EXCEPT ![r] = {}]
    /\ sent' = [sent EXCEPT ![r] = {}]
    /\ txn' = [txn EXCEPT ![r] = FALSE]
    /\ skipped' = [skipped EXCEPT ![r] = {}]

\* Wrong variant: the whole batch is marked.
Wrong_MarkBatch(r) == batch[r]

\* The rows mark_published is called with.
Marked(r) == sent[r]

\* mark_published and commit.
CommitBatch(r) ==
    /\ pc[r] = "marking"
    /\ txn[r]
    /\ row' = [i \in Ids |-> IF i \in Marked(r) THEN "PUBLISHED" ELSE row[i]]
    /\ EndTransaction(r, "idle")
    /\ UNCHANGED <<broker, faults, older>>

\* The commit fails: everything is rolled back, _loop goes on.
CommitFails(r) ==
    /\ pc[r] = "marking"
    /\ txn[r] => Fault
    /\ ~txn[r] => UNCHANGED faults
    /\ EndTransaction(r, "idle")
    /\ UNCHANGED <<row, broker, older>>

-----------------------------------------------------------------------------
(* Faults.                                                                 *)

\* The database drops the connection: the locks are gone, the relay learns
\* of it when it next uses the session.
LoseConnection(r) ==
    /\ txn[r]
    /\ Fault
    /\ txn' = [txn EXCEPT ![r] = FALSE]
    /\ UNCHANGED <<row, pc, batch, sent, broker, older, skipped>>

\* stop() cancels the loop, or the process dies: the transaction is rolled
\* back and what was already sent stays PENDING.
Stop(r) ==
    /\ pc[r] # "down"
    /\ Fault
    /\ EndTransaction(r, "down")
    /\ UNCHANGED <<row, broker, older>>

\* start(), by the next process.
Start(r) ==
    /\ pc[r] = "down"
    /\ pc' = [pc EXCEPT ![r] = "idle"]
    /\ UNCHANGED <<row, batch, sent, txn, broker, faults, older, skipped>>

-----------------------------------------------------------------------------
Service ==
    \E i \in Ids : Insert(i) \/ CommitInsert(i) \/ RollbackInsert(i)

drain_once(r) ==
    \/ fetch_pending(r)
    \/ \E i \in Ids : Publish(r, i) \/ (i \in Poison /\ PublishRaises(r, i))
    \/ CommitBatch(r)
    \/ ~txn[r] /\ CommitFails(r)

Next ==
    \/ Service
    \/ \E r \in Relays :
          \/ drain_once(r)
          \/ \E i \in Ids \ Poison : PublishRaises(r, i)
          \/ txn[r] /\ CommitFails(r)
          \/ LoseConnection(r)
          \/ Stop(r)
          \/ Start(r)

Spec == Init /\ [][Next]_vars

\* The loop of a relay never stops polling, an open transaction of a service
\* ends, and a stopped process is restarted by its supervisor.
Fairness ==
    /\ \A r \in Relays : WF_vars(drain_once(r)) /\ WF_vars(Start(r))
    /\ \A i \in Ids : WF_vars(CommitInsert(i))

FairSpec == Spec /\ Fairness

-----------------------------------------------------------------------------
(* Properties.                                                             *)

\* What Kafka has accepted.
Accepted == {broker[n] : n \in 1..Len(broker)}

\* Every variable has its type.
TypeOK ==
    /\ row \in [Ids -> RowState]
    /\ pc \in [Relays -> Control]
    /\ batch \in [Relays -> SUBSET Ids]
    /\ sent \in [Relays -> SUBSET Ids]
    /\ txn \in [Relays -> BOOLEAN]
    /\ broker \in Seq(Ids)
    /\ faults \in Nat
    /\ older \in [Ids -> SUBSET Ids]
    /\ skipped \in [Relays -> SUBSET Ids]

\* A row marked PUBLISHED is in Kafka: no failure, crash, lost reply or lost
\* lock makes the table claim a message that was never accepted.
PublishedIsAccepted == \A i \in Ids : row[i] = "PUBLISHED" => i \in Accepted

\* Nothing reaches Kafka whose inserting transaction has not committed: no
\* message about a state change that never happened.
AcceptedIsCommitted ==
    \A i \in Accepted : row[i] \in {"PENDING", "PUBLISHED"}

\* A live transaction works on rows that are still PENDING and on rows of its
\* own: two relays with live transactions never share a row, and none holds
\* a row that another has marked.
LiveBatchesAreDisjoint ==
    \A r \in Relays : txn[r] =>
        /\ \A i \in batch[r] : row[i] = "PENDING"
        /\ \A q \in Relays \ {r} : txn[q] => batch[r] \cap batch[q] = {}

\* Duplicates have a cause: without a fault every row is published at most
\* once, however many relays poll the table.
DuplicatesNeedAFault ==
    faults = 0 => \A m, n \in 1..Len(broker) : broker[m] = broker[n] => m = n

\* A relay keeps the order of the rows: it sends row i only when all rows that
\* were committed before it under a smaller id are in Kafka, except those that
\* another relay had locked when it fetched its batch.  A failure in the middle
\* of a batch never lets a later message overtake (drain_once breaks out of the
\* loop).
OvertakesOnlySkippedRows ==
    \A r \in Relays : \A i \in sent[r] : older[i] \subseteq Accepted \cup skipped[r]

\* Every committed row is eventually published and marked, across publish
\* failures, lost connections, crashes and restarts, unless a row before it
\* is one that Kafka never accepts.
EventuallyPublished ==
    \A i \in Ids : (\A k \in 1..i : k \notin Poison)
        => (row[i] = "PENDING" ~> row[i] = "PUBLISHED")
=============================================================================
