------------------------------- MODULE Runner -------------------------------
(***************************************************************************)
(* The consume loop of the worker processes of one consumer group          *)
(* (app/workers/runner.py): polling, one coroutine per polled partition,   *)
(* deferral of retries that are not due, the retry and dead-letter         *)
(* decision, and the commit of the prefix of each partition that was       *)
(* handled.                                                                *)
(*                                                                         *)
(* The group shares the partitions of its main topic and of its retry      *)
(* topic.  A rebalance may come at any time, also in the middle of a       *)
(* gather; no rebalance listener is installed, so the processes learn of   *)
(* it only through the client: after it the client has fresh positions     *)
(* (the committed offsets) and no paused partition, while paused_until and *)
(* the running coroutines go on as before.  seek, pause and resume of a    *)
(* partition that is assigned elsewhere raise, and so does a commit that   *)
(* names one; the exception ends run_worker, and the process is started    *)
(* again.  This is how aiokafka behaves; the model has it from there.      *)
(*                                                                         *)
(* The role's handle_event is nondeterministic: it succeeds, reports a     *)
(* failure or raises; for the ids in poison it always raises.  A message   *)
(* is its identity and the headers that control the loop; offset o of      *)
(* partition p is log[p][o + 1].                                           *)
(***************************************************************************)
EXTENDS Naturals, Sequences, FiniteSetsExt

CONSTANTS
    Consumers,          \* the worker processes of the group
    NoConsumer,
    MainPartitions,     \* partitions of consume_topic
    RetryPartitions,    \* partitions of retry_topic
    InitialLog,         \* what the partitions hold at the start
    MayBePoison,        \* ids of messages on which the handler may always raise
    RetryMax,           \* retry_max_count
    BackoffBase, BackoffMultiplier, BackoffMax,
    MaxRecords,         \* max_records of getmany
    MaxClock,           \* bound: real time
    MaxFaults           \* bound: crashes, exceptions and rebalances

Partitions == MainPartitions \cup RetryPartitions

\* Values of the original-topic header; NoHeader when it is absent.
Main == "main"
Retry == "retry"
Other == "other"
NoHeader == "none"

Message == [id : Nat, count : Nat, orig : {Main, Retry, Other, NoHeader},
            due : Nat]

ASSUME PartitionAssumption ==
    /\ MainPartitions \cap RetryPartitions = {}
    /\ RetryPartitions # {}
    /\ NoConsumer \notin Consumers
ASSUME LogAssumption == InitialLog \in [Partitions -> Seq(Message)]
\* The loop is the only one that sets the headers original-topic and retry-at,
\* and it sets the first in whatever it publishes to a retry topic.
ASSUME HeaderAssumption ==
    \A p \in Partitions : \A n \in DOMAIN InitialLog[p] :
        IF p \in RetryPartitions
          THEN InitialLog[p][n].orig # NoHeader
          ELSE InitialLog[p][n].orig = NoHeader /\ InitialLog[p][n].due = 0
ASSUME RunnerAssumption ==
    /\ RetryMax \in Nat /\ MaxRecords \in Nat \ {0}
    /\ BackoffBase \in Nat /\ BackoffMultiplier \in Nat /\ BackoffMax \in Nat
    /\ MaxClock \in Nat /\ MaxFaults \in Nat

VARIABLES
    clock,
    log,             \* Kafka: the partitions
    committed,       \* Kafka: the group's committed offsets
    dlq,             \* Kafka: the dead-letter topic
    owner,           \* the group: who a partition is assigned to
    position,        \* the owner's client: where it reads next
    paused,          \* the owner's client: partitions it does not fetch
    phase,           \* run_worker of each process: poll, gather, down
    paused_until,    \* its dictionary; 0: no entry
    co,              \* its coroutines, one per partition
    succeeded,       \* history: deliveries whose handler reported success
    poison,          \* ids of messages on which the handler always raises
    faults

env == <<clock, poison>>
kafka == <<log, committed, dlq>>
client == <<owner, position, paused>>
process == <<phase, paused_until, co>>
vars == <<env, kafka, client, process, succeeded, faults>>

\* The locals of _consume_partition: control point, offset of the current
\* message, end of its messages, commit_offset (0: None) and the retry-at
\* header of a retry that is being published.
Coroutine == [pc : {"idle", "next", "publish", "done"}, cur : Nat, end : Nat,
              commit_offset : Nat, retry_at : Nat]
Idle == [pc |-> "idle", cur |-> 0, end |-> 0, commit_offset |-> 0, retry_at |-> 0]

TopicOf(p) == IF p \in RetryPartitions THEN Retry ELSE Main

Current(c, p) == log[p][co[c][p].cur + 1]

Init ==
    /\ clock = 0
    /\ log = InitialLog
    /\ committed = [p \in Partitions |-> 0]
    /\ dlq = <<>>
    /\ owner = [p \in Partitions |-> NoConsumer]
    /\ position = [p \in Partitions |-> 0]
    /\ paused = [p \in Partitions |-> FALSE]
    /\ phase = [c \in Consumers |-> "poll"]
    /\ paused_until = [c \in Consumers |-> [p \in Partitions |-> 0]]
    /\ co = [c \in Consumers |-> [p \in Partitions |-> Idle]]
    /\ succeeded = {}
    /\ poison \in SUBSET MayBePoison
    /\ faults = 0

Fault == faults < MaxFaults /\ faults' = faults + 1

\* An exception leaves run_worker, or the process is stopped: its partitions
\* are nobody's until the group has noticed.  After an exception the sibling
\* coroutines of the gather run on until the clients are closed; they end here
\* at once, since nothing commits what they still do.
Stop(c) ==
    /\ phase' = [phase EXCEPT ![c] = "down"]
    /\ paused_until' = [paused_until EXCEPT ![c] = [p \in Partitions |-> 0]]
    /\ co' = [co EXCEPT ![c] = [p \in Partitions |-> Idle]]
    /\ owner' = [p \in Partitions |-> IF owner[p] = c THEN NoConsumer ELSE owner[p]]
    /\ UNCHANGED <<position, paused>>

-----------------------------------------------------------------------------
(* Pure functions of the retry policy.                                     *)

\* Backoff before the n-th retry.
_compute_retry_backoff_seconds(n) ==
    LET delay == BackoffBase * (BackoffMultiplier ^ ((IF n < 1 THEN 1 ELSE n) - 1))
    IN  IF delay < BackoffMax THEN delay ELSE BackoffMax

RetriesLeft(m) == m.count < RetryMax

\* The original-topic header of what m, read from p, is published as.
OrigOf(m, p) == IF m.orig = NoHeader THEN TopicOf(p) ELSE m.orig

RetryOf(m, p, at) ==
    [id |-> m.id, count |-> m.count + 1, orig |-> OrigOf(m, p), due |-> at]

\* A dead letter carries no retry-at.
DeadLetterOf(m, p) ==
    [id |-> m.id, count |-> m.count, orig |-> OrigOf(m, p), due |-> 0]

\* A message of the retry topic that belongs to another role.
IsForeign(p, m) == p \in RetryPartitions /\ m.orig \notin {Main, NoHeader}

-----------------------------------------------------------------------------
(* One turn of the loop in run_worker: resume, poll, gather, commit.       *)

\* Wrong variant: an entry is popped only after the time it names.
Wrong_NeverDue(c) == {p \in Partitions : paused_until[c][p] > MaxClock}

\* The entries _resume_due_partitions takes out.
DueEntries(c) ==
    {p \in Partitions : paused_until[c][p] # 0 /\ paused_until[c][p] <= clock}

\* It resumes them; the client refuses a partition that is assigned elsewhere.
Resume(c) ==
    /\ \A p \in DueEntries(c) : owner[p] = c
    /\ paused_until' = [paused_until EXCEPT ![c] =
          [p \in Partitions |-> IF p \in DueEntries(c) THEN 0 ELSE @[p]]]
    /\ paused' = [p \in Partitions |-> paused[p] /\ p \notin DueEntries(c)]

ResumeRaises(c) ==
    /\ phase[c] = "poll"
    /\ \E p \in DueEntries(c) : owner[p] # c
    /\ Stop(c)
    /\ UNCHANGED <<env, kafka, succeeded, faults>>

\* How many messages e asks for.
Records(e) == MapThenSumSet(LAMBDA p : e[p], Partitions)

\* getmany returns e[p] messages of each partition, at most MaxRecords in
\* all, and moves the positions past them.
Poll(c) ==
    /\ phase[c] = "poll"
    /\ Resume(c)
    /\ \E e \in [Partitions -> 0..MaxRecords] :
          /\ \E p \in Partitions : e[p] > 0
          /\ \A p \in Partitions : e[p] > 0 =>
                owner[p] = c /\ ~paused'[p] /\ position[p] + e[p] <= Len(log[p])
          /\ Records(e) <= MaxRecords
          /\ position' = [p \in Partitions |-> position[p] + e[p]]
          /\ co' = [co EXCEPT ![c] = [p \in Partitions |->
                IF e[p] = 0 THEN Idle
                ELSE [Idle EXCEPT !.pc = "next", !.cur = position[p],
                                  !.end = position[p] + e[p]]]]
    /\ phase' = [phase EXCEPT ![c] = "gather"]
    /\ UNCHANGED <<env, kafka, owner, succeeded, faults>>

\* getmany times out with nothing: only the resumption has happened.
PollNothing(c) ==
    /\ phase[c] = "poll"
    /\ DueEntries(c) # {}
    /\ Resume(c)
    /\ UNCHANGED <<env, kafka, owner, position, phase, co, succeeded, faults>>

GatherDone(c) ==
    phase[c] = "gather" /\ \A p \in Partitions : co[c][p].pc \in {"idle", "done"}

\* Wrong variant: the whole batch is committed.
Wrong_CommitBatch(c, p) ==
    IF co[c][p].pc = "done" THEN co[c][p].end ELSE committed[p]

\* The offset commit(offsets) leaves for a partition.
NewCommitted(c, p) ==
    IF co[c][p].commit_offset # 0 THEN co[c][p].commit_offset ELSE committed[p]

ToCommit(c) == {p \in Partitions : co[c][p].commit_offset # 0}

Commit(c) ==
    /\ GatherDone(c)
    /\ \A p \in ToCommit(c) : owner[p] = c
    /\ committed' = [p \in Partitions |-> NewCommitted(c, p)]
    /\ phase' = [phase EXCEPT ![c] = "poll"]
    /\ co' = [co EXCEPT ![c] = [p \in Partitions |-> Idle]]
    /\ UNCHANGED <<env, log, dlq, client, paused_until, succeeded, faults>>

\* The client refuses offsets of a partition that is assigned elsewhere; or
\* the commit fails, before or after the broker stored them.
CommitRaises(c) ==
    /\ GatherDone(c)
    /\ \/ /\ \E p \in ToCommit(c) : owner[p] # c
          /\ UNCHANGED <<committed, faults>>
       \/ /\ \A p \in ToCommit(c) : owner[p] = c
          /\ \/ committed' = [p \in Partitions |-> NewCommitted(c, p)]
             \/ UNCHANGED committed
          /\ Fault
    /\ Stop(c)
    /\ UNCHANGED <<env, log, dlq, succeeded>>

-----------------------------------------------------------------------------
(* _consume_partition and _handle_message.                                 *)

\* The message is dealt with: commit_offset moves past it.
Advance(c, p) ==
    LET o == co[c][p].cur IN
    /\ co' = [co EXCEPT ![c][p] =
          [@ EXCEPT !.commit_offset = o + 1, !.cur = o + 1, !.retry_at = 0,
                    !.pc = IF o + 1 = co[c][p].end THEN "done" ELSE "next"]]
    /\ UNCHANGED <<env, committed, client, phase, paused_until, faults>>

\* Wrong variant: the position stays where the poll left it.
Wrong_NoSeek(c, p, until) ==
    /\ co' = [co EXCEPT ![c][p].pc = "done"]
    /\ UNCHANGED <<client, phase, paused_until>>

\* Wrong variant: seek to the committed offset, which the batch has passed.
Wrong_SeekToCommitted(c, p, until) ==
    /\ position' = [position EXCEPT ![p] = committed[p]]
    /\ co' = [co EXCEPT ![c][p].pc = "done"]
    /\ paused' = [paused EXCEPT ![p] = @ \/ until # 0]
    /\ paused_until' = [paused_until EXCEPT ![c][p] = IF until # 0 THEN until ELSE @]
    /\ UNCHANGED <<owner, phase>>

\* Wrong variant: the pause is not written down.
Wrong_ForgetPause(c, p, until) ==
    /\ position' = [position EXCEPT ![p] = co[c][p].cur]
    /\ co' = [co EXCEPT ![c][p].pc = "done"]
    /\ paused' = [paused EXCEPT ![p] = @ \/ until # 0]
    /\ UNCHANGED <<owner, phase, paused_until>>

\* Wrong variant: seek is off by one.
Wrong_SeekBefore(c, p, until) ==
    /\ position' = [position EXCEPT ![p] = co[c][p].cur - 1]
    /\ co' = [co EXCEPT ![c][p].pc = "done"]
    /\ UNCHANGED <<owner, paused, phase, paused_until>>

\* The coroutine ends before its messages do: seek back to the current one,
\* pause the partition if there is a time to wait for.  The client refuses
\* to seek in a partition that is assigned elsewhere.
SeekAndEnd(c, p, until) ==
    \/ /\ owner[p] = c
       /\ position' = [position EXCEPT ![p] = co[c][p].cur]
       /\ co' = [co EXCEPT ![c][p].pc = "done"]
       /\ paused' = [paused EXCEPT ![p] = @ \/ until # 0]
       /\ paused_until' = [paused_until EXCEPT ![c][p] = IF until # 0 THEN until ELSE @]
       /\ UNCHANGED <<owner, phase>>
    \/ owner[p] # c /\ Stop(c)

IsDue(c, p) == p \in RetryPartitions => Current(c, p).due <= clock

\* A retry whose time has not come.
Defer(c, p) ==
    /\ co[c][p].pc = "next"
    /\ ~IsDue(c, p)
    /\ SeekAndEnd(c, p, Current(c, p).due)
    /\ UNCHANGED <<env, kafka, succeeded, faults>>

SkipForeign(c, p) ==
    /\ co[c][p].pc = "next"
    /\ IsDue(c, p) /\ IsForeign(p, Current(c, p))
    /\ Advance(c, p)
    /\ UNCHANGED <<log, dlq, succeeded>>

\* handle_event is called.
Handles(c, p) ==
    co[c][p].pc = "next" /\ IsDue(c, p) /\ ~IsForeign(p, Current(c, p))

HandleSucceeds(c, p) ==
    /\ Handles(c, p)
    /\ Current(c, p).id \notin poison
    /\ succeeded' = succeeded \cup {<<p, co[c][p].cur>>}
    /\ Advance(c, p)
    /\ UNCHANGED <<log, dlq>>

\* handle_event returns False; the time of a retry is fixed before it is
\* published.  A failure whose retry would be due after MaxClock is not
\* explored.
HandleFails(c, p) ==
    /\ Handles(c, p)
    /\ Current(c, p).id \notin poison
    /\ \E at \in 0..MaxClock :
          /\ at = IF RetriesLeft(Current(c, p))
                    THEN clock + _compute_retry_backoff_seconds(Current(c, p).count + 1)
                    ELSE 0
          /\ co' = [co EXCEPT ![c][p].pc = "publish", ![c][p].retry_at = at]
    /\ UNCHANGED <<env, kafka, client, phase, paused_until, succeeded, faults>>

\* handle_event raises.
HandleRaises(c, p) ==
    /\ Handles(c, p)
    /\ IF Current(c, p).id \in poison THEN UNCHANGED faults ELSE Fault
    /\ SeekAndEnd(c, p, 0)
    /\ UNCHANGED <<env, kafka, succeeded>>

\* The retry or the dead letter reaches Kafka; no key is set, so the retry
\* may land in any partition.
Republished(c, p) ==
    \/ /\ RetriesLeft(Current(c, p))
       /\ \E q \in RetryPartitions :
             log' = [log EXCEPT ![q] =
                        Append(@, RetryOf(Current(c, p), p, co[c][p].retry_at))]
       /\ UNCHANGED dlq
    \/ /\ ~RetriesLeft(Current(c, p))
       /\ dlq' = Append(dlq, DeadLetterOf(Current(c, p), p))
       /\ UNCHANGED log

Republish(c, p) ==
    /\ co[c][p].pc = "publish"
    /\ Republished(c, p)
    /\ Advance(c, p)
    /\ UNCHANGED succeeded

\* publish raises, whether the broker took the message or not.
RepublishRaises(c, p) ==
    /\ co[c][p].pc = "publish"
    /\ Fault
    /\ Republished(c, p) \/ UNCHANGED <<log, dlq>>
    /\ SeekAndEnd(c, p, 0)
    /\ UNCHANGED <<env, committed, succeeded>>

-----------------------------------------------------------------------------
(* Processes and the group.                                                *)

Crash(c) ==
    /\ phase[c] # "down"
    /\ Fault
    /\ Stop(c)
    /\ UNCHANGED <<env, kafka, succeeded>>

Restart(c) ==
    /\ phase[c] = "down"
    /\ phase' = [phase EXCEPT ![c] = "poll"]
    /\ UNCHANGED <<env, kafka, client, paused_until, co, succeeded, faults>>

\* Where the owner of a new assignment starts to read.
StartPosition(p) == committed[p]

Live == {c \in Consumers : phase[c] # "down"}

\* A new generation of the group: every client starts over with its partitions.
NewAssignment ==
    /\ position' = [p \in Partitions |-> StartPosition(p)]
    /\ paused' = [p \in Partitions |-> FALSE]
    /\ UNCHANGED <<env, kafka, process, succeeded>>

\* A member is gone: its partitions go to others, which keep their own.
Assign ==
    /\ \E p \in Partitions : owner[p] = NoConsumer
    /\ \E c \in Live : owner' = [p \in Partitions |->
                                   IF owner[p] = NoConsumer THEN c ELSE owner[p]]
    /\ NewAssignment
    /\ UNCHANGED faults

\* A member has joined, was too slow to poll, or missed its heartbeats:
\* the partitions are dealt out anew.
Rebalance ==
    /\ \A p \in Partitions : owner[p] # NoConsumer
    /\ Fault
    /\ owner' \in [Partitions -> Live]
    /\ NewAssignment

Tick ==
    /\ clock < MaxClock
    /\ clock' = clock + 1
    /\ UNCHANGED <<poison, kafka, client, process, succeeded, faults>>

\* What a coroutine does when nothing goes wrong.
Progress(c, p) ==
    \/ Defer(c, p) \/ SkipForeign(c, p) \/ HandleSucceeds(c, p)
    \/ HandleFails(c, p) \/ Republish(c, p)
    \/ Handles(c, p) /\ Current(c, p).id \in poison /\ HandleRaises(c, p)

Next ==
    \/ \E c \in Consumers :
          \/ Poll(c) \/ PollNothing(c) \/ ResumeRaises(c)
          \/ Commit(c) \/ CommitRaises(c) \/ Crash(c) \/ Restart(c)
          \/ \E p \in Partitions :
                \/ Defer(c, p) \/ SkipForeign(c, p) \/ HandleSucceeds(c, p)
                \/ HandleFails(c, p) \/ HandleRaises(c, p)
                \/ Republish(c, p) \/ RepublishRaises(c, p)
    \/ Assign \/ Rebalance
    \/ Tick

Spec == Init /\ [][Next]_vars

\* c's next poll reads partition p.
PollFrom(c, p) == Poll(c) /\ co'[c][p].pc = "next"

\* run_worker never stops of itself and getmany serves the partitions in
\* turn, every coroutine of a gather is scheduled, a stopped process is
\* restarted, the group deals out what nobody owns, and time passes.
Fairness ==
    /\ WF_vars(Assign) /\ WF_vars(Tick)
    /\ \A c \in Consumers :
          /\ WF_vars(ResumeRaises(c)) /\ WF_vars(Restart(c))
          /\ WF_vars(Commit(c) \/ CommitRaises(c))
          /\ \A p \in Partitions :
                SF_vars(PollFrom(c, p)) /\ WF_vars(Progress(c, p))

FairSpec == Spec /\ Fairness

-----------------------------------------------------------------------------
(* Properties.                                                             *)

\* Every variable has its type.
TypeOK ==
    /\ clock \in Nat
    /\ log \in [Partitions -> Seq(Message)]
    /\ committed \in [Partitions -> Nat]
    /\ dlq \in Seq(Message)
    /\ owner \in [Partitions -> Consumers \cup {NoConsumer}]
    /\ position \in [Partitions -> Nat] /\ paused \in [Partitions -> BOOLEAN]
    /\ phase \in [Consumers -> {"poll", "gather", "down"}]
    /\ paused_until \in [Consumers -> [Partitions -> Nat]]
    /\ co \in [Consumers -> [Partitions -> Coroutine]]
    /\ succeeded \subseteq Partitions \X Nat
    /\ poison \subseteq MayBePoison /\ faults \in Nat

\* A pause ends: a partition the client does not fetch has an entry in its
\* owner's paused_until, for the very retry it is positioned at.  No rebalance
\* leaves a partition paused that nobody will resume.
PauseWaitsForItsMessage ==
    \A p \in Partitions :
        (owner[p] \in Consumers /\ paused[p]) =>
            /\ position[p] < Len(log[p])
            /\ log[p][position[p] + 1].due = paused_until[owner[p]][p]

\* Without a crash, an exception or a rebalance nothing is read again that was
\* dealt with, and nothing is left out: between two polls the client stands
\* exactly at the committed offset.
RereadingNeedsAFault ==
    faults = 0 =>
        \A p \in Partitions : (owner[p] \in Consumers /\ phase[owner[p]] = "poll")
            => position[p] = committed[p]

\* The copies of messages, as Delivery sees them.
CopyAt(p, o) ==
    [id |-> log[p][o + 1].id, count |-> log[p][o + 1].count, due |-> log[p][o + 1].due]
CopiesFrom(from) ==
    UNION {{CopyAt(p, o) : o \in {n \in from[p]..(Len(log[p]) - 1) :
                                     ~IsForeign(p, log[p][n + 1])}} : p \in Partitions}

Abstract == INSTANCE Delivery WITH
    Originals <- {[id |-> m.id, count |-> m.count, due |-> m.due] : m \in
                     UNION {{InitialLog[p][n] : n \in {k \in DOMAIN InitialLog[p] :
                                ~IsForeign(p, InitialLog[p][k])}} : p \in Partitions}},
    Delay <- _compute_retry_backoff_seconds,
    now <- clock,
    copies <- CopiesFrom([p \in Partitions |-> 0]),
    open <- CopiesFrom(committed),
    handled <- {CopyAt(d[1], d[2]) : d \in succeeded},
    buried <- {dlq[n].id : n \in DOMAIN dlq}

\* The group implements Delivery: no crash, exception, deferral, partial batch
\* or rebalance commits past a message that was not handled, passed on or
\* dead-lettered; nothing is handled before it is due; retries are counted,
\* delayed by their backoff and limited.
ImplementsDelivery == Abstract!Spec

\* Between two polls nothing is skipped: whatever lies behind the position of
\* a partition's owner was handled, passed on or dead-lettered, also when the
\* partition was lost and regained while a coroutine still worked on it.
NothingSkipped ==
    \A p \in Partitions :
        (owner[p] \in Consumers /\ phase[owner[p]] = "poll") =>
            \A o \in 0..(position[p] - 1) :
                IsForeign(p, log[p][o + 1]) \/ Abstract!AccountedFor(CopyAt(p, o))

\* Every message of the main topic is eventually handled successfully or
\* dead-lettered, whatever fails on the way, as long as the faults are finite,
\* unless a message that always raises blocks its partition.
EventuallySettled ==
    \A p \in MainPartitions : \A n \in DOMAIN InitialLog[p] :
        (\A k \in 1..n : InitialLog[p][k].id \notin poison) =>
        <>( \/ \E d \in succeeded : log[d[1]][d[2] + 1].id = InitialLog[p][n].id
            \/ \E k \in DOMAIN dlq : dlq[k].id = InitialLog[p][n].id )
=============================================================================
