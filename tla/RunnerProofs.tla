---------------------------- MODULE RunnerProofs ----------------------------
(***************************************************************************)
(* Proofs about Runner for any consumers, partitions, initial messages,    *)
(* retry policy and batch size, and any number of faults.                  *)
(***************************************************************************)
EXTENDS Runner, SequenceTheorems, TLAPS

\* The message at offset o of p is another role's, or Delivery may drop it.
DealtWith(p, o) == IsForeign(p, log[p][o + 1]) \/ Abstract!AccountedFor(CopyAt(p, o))

\* The offsets of p behind which everything was dealt with.
Safe ==
    [p \in Partitions |->
        {n \in 0..Len(log[p]) : \A o \in 0..(n - 1) : DealtWith(p, o)}]

\* Offset o of p holds a message whose handler failed when it was due, and at
\* is the time of its retry, if it has one left.
Owed ==
    [p \in Partitions |->
        {x \in Nat \X Nat :
            LET m == log[p][x[1] + 1] IN
            /\ x[1] < Len(log[p]) /\ ~IsForeign(p, m) /\ m.due <= clock
            /\ RetriesLeft(m) => \E t \in m.due..clock :
                  x[2] = t + _compute_retry_backoff_seconds(m.count + 1)}]

\* Messages of the main topic have neither header, those of the retry topic
\* name their role.
HeadersSound ==
    \A p \in Partitions : \A n \in 1..Len(log[p]) :
        IF p \in RetryPartitions THEN log[p][n].orig # NoHeader
        ELSE log[p][n].orig = NoHeader /\ log[p][n].due = 0

SucceededInLog == \A d \in succeeded : d[2] < Len(log[d[1]])

CommittedSafe == \A p \in Partitions : committed[p] \in Safe[p]

\* Whatever a coroutine has passed was dealt with, whoever owns the partition
\* now; only a process that gathers has coroutines.
CoroutineSafe(c, p) ==
    /\ co[c][p].pc = "idle" => co[c][p] = Idle
    /\ co[c][p].pc # "idle" =>
          /\ phase[c] = "gather"
          /\ co[c][p].cur \in Safe[p] /\ co[c][p].cur <= co[c][p].end
          /\ co[c][p].end <= Len(log[p])
          /\ co[c][p].commit_offset \in {0, co[c][p].cur}
    /\ co[c][p].pc \in {"next", "publish"} => co[c][p].cur < co[c][p].end
    /\ co[c][p].pc = "publish" => <<co[c][p].cur, co[c][p].retry_at>> \in Owed[p]

CoroutinesSafe == \A c \in Consumers : \A p \in Partitions : CoroutineSafe(c, p)

\* An owner's client has passed only what was dealt with or what its coroutine
\* still has to deal with.
PositionSafe(p) ==
    owner[p] \in Consumers =>
        /\ phase[owner[p]] # "down"
        /\ \/ position[p] \in Safe[p]
           \/ /\ co[owner[p]][p].pc \in {"next", "publish"}
              /\ position[p] = co[owner[p]][p].end

PositionsSafe == \A p \in Partitions : PositionSafe(p)

\* A paused partition has no coroutine of its owner's that could seek.
PausedIsQuiet ==
    \A p \in Partitions : (owner[p] \in Consumers /\ paused[p]) =>
        co[owner[p]][p].pc \in {"idle", "done"}

\* Until the first fault the partitions have the one owner they were assigned
\* to, and position, coroutine and committed offset agree.
OneAssignment ==
    (\A p \in Partitions : owner[p] = NoConsumer)
      \/ (\A p \in Partitions : owner[p] \in Consumers)

InStep(c, p) ==
    /\ (co[c][p].pc # "idle" \/ paused_until[c][p] # 0) => owner[p] = c
    /\ (co[c][p].pc # "idle" /\ co[c][p].commit_offset = 0) => co[c][p].cur = committed[p]
    /\ owner[p] = c =>
          /\ co[c][p].pc = "idle" => position[p] = committed[p]
          /\ co[c][p].pc = "done" => position[p] = co[c][p].cur
          /\ co[c][p].pc \in {"next", "publish"} => position[p] = co[c][p].end

QuietBeforeFaults ==
    faults = 0 => OneAssignment /\ \A c \in Consumers : \A p \in Partitions : InStep(c, p)

\* The inductive invariant.
RInv ==
    /\ TypeOK
    /\ HeadersSound
    /\ SucceededInLog
    /\ CommittedSafe
    /\ CoroutinesSafe
    /\ PositionsSafe
    /\ PauseWaitsForItsMessage
    /\ PausedIsQuiet
    /\ QuietBeforeFaults

-----------------------------------------------------------------------------
(* What a step may add to Kafka.                                           *)

Copies == CopiesFrom([p \in Partitions |-> 0])
HandledCopies == {CopyAt(d[1], d[2]) : d \in succeeded}
Buried == {dlq[n].id : n \in DOMAIN dlq}

\* The topics and the history only grow, and nothing that was dealt with or is
\* owed ceases to be.
Grows ==
    /\ log' \in [Partitions -> Seq(Message)] /\ dlq' \in Seq(Message)
    /\ succeeded' \subseteq Partitions \X Nat /\ clock' \in Nat
    /\ HeadersSound' /\ SucceededInLog'
    /\ \A p \in Partitions :
          /\ Len(log[p]) <= Len(log'[p])
          /\ \A n \in 1..Len(log[p]) : log'[p][n] = log[p][n]
          /\ Safe[p] \subseteq Safe'[p] /\ Owed[p] \subseteq Owed'[p]

\* The copies are what the partitions hold for this role.
LEMMA InCopies ==
    ASSUME NEW x
    PROVE  x \in Copies <=>
             \E p \in Partitions : \E o \in 0..(Len(log[p]) - 1) :
                ~IsForeign(p, log[p][o + 1]) /\ x = CopyAt(p, o)
  BY DEF Copies, CopiesFrom

\* Delivery's AccountedFor in the terms of this module.
LEMMA Accounted ==
    ASSUME NEW x
    PROVE  Abstract!AccountedFor(x) <=>
             \/ x \in HandledCopies
             \/ x.id \in Buried /\ x.count >= RetryMax
             \/ \E d \in Copies : d.id = x.id /\ d.count = x.count + 1
  BY DEF Abstract!AccountedFor, HandledCopies, Buried, Copies

\* A step that only appends to the log and to the dead letters.
LEMMA Growth ==
    ASSUME TypeOK, SucceededInLog, clock' \in Nat, clock <= clock',
           log' \in [Partitions -> Seq(Message)], HeadersSound', SucceededInLog',
           \A p \in Partitions : /\ Len(log[p]) <= Len(log'[p])
                                 /\ \A n \in 1..Len(log[p]) : log'[p][n] = log[p][n],
           succeeded \subseteq succeeded', succeeded' \subseteq Partitions \X Nat,
           dlq' \in Seq(Message), Buried \subseteq Buried'
    PROVE  Grows
  <1>1. /\ log \in [Partitions -> Seq(Message)] /\ succeeded \subseteq Partitions \X Nat
        /\ clock \in Nat
        /\ \A p \in Partitions : Len(log[p]) \in Nat /\ Len(log'[p]) \in Nat
    BY DEF TypeOK
  <1>2. ASSUME NEW p \in Partitions, NEW o \in 0..(Len(log[p]) - 1)
        PROVE  /\ log'[p][o + 1] = log[p][o + 1] /\ o \in 0..(Len(log'[p]) - 1)
               /\ CopyAt(p, o)' = CopyAt(p, o)
               /\ IsForeign(p, log[p][o + 1])' <=> IsForeign(p, log[p][o + 1])
    <2>1. o + 1 \in 1..Len(log[p]) /\ o \in 0..(Len(log'[p]) - 1)
      BY <1>1
    <2>2. log'[p][o + 1] = log[p][o + 1]
      BY <2>1
    <2>3. QED
      BY <2>1, <2>2 DEF CopyAt, IsForeign
  <1>3. HandledCopies \subseteq HandledCopies'
    <2> SUFFICES ASSUME NEW d \in succeeded  PROVE CopyAt(d[1], d[2]) \in HandledCopies'
      BY DEF HandledCopies
    <2>1. d[1] \in Partitions /\ d[2] \in 0..(Len(log[d[1]]) - 1)
      BY <1>1 DEF SucceededInLog
    <2>2. CopyAt(d[1], d[2])' = CopyAt(d[1], d[2])
      BY <1>2, <2>1
    <2>3. QED
      BY <2>2 DEF HandledCopies
  <1>4. Copies \subseteq Copies'
    <2> SUFFICES ASSUME NEW x \in Copies  PROVE x \in Copies'
      OBVIOUS
    <2>1. PICK p \in Partitions : \E o \in 0..(Len(log[p]) - 1) :
              ~IsForeign(p, log[p][o + 1]) /\ x = CopyAt(p, o)
      BY InCopies
    <2> PICK o \in 0..(Len(log[p]) - 1) : ~IsForeign(p, log[p][o + 1]) /\ x = CopyAt(p, o)
      BY <2>1
    <2>2. /\ ~IsForeign(p, log'[p][o + 1]) /\ o \in 0..(Len(log'[p]) - 1)
          /\ x = CopyAt(p, o)'
      BY <1>2, <2>1
    <2>3. QED
      BY <2>2 DEF Copies, CopiesFrom
  <1>5. ASSUME NEW p \in Partitions, NEW o \in 0..(Len(log[p]) - 1), DealtWith(p, o)
        PROVE  DealtWith(p, o)'
    <2>1. CASE IsForeign(p, log[p][o + 1])
      BY <1>2, <2>1 DEF DealtWith
    <2>2. CASE Abstract!AccountedFor(CopyAt(p, o))
      <3> DEFINE x == CopyAt(p, o)
      <3>1. x' = x
        BY <1>2
      <3>2. \/ x \in HandledCopies'
            \/ x.id \in Buried' /\ x.count >= RetryMax
            \/ \E d \in Copies' : d.id = x.id /\ d.count = x.count + 1
        BY <1>3, <1>4, <2>2, Accounted
      <3>3. Abstract!AccountedFor(x)'
        BY <3>1, <3>2 DEF Abstract!AccountedFor, HandledCopies, Buried, Copies
      <3>4. QED
        BY <3>3 DEF DealtWith
    <2>3. QED
      BY <1>5, <2>1, <2>2 DEF DealtWith
  <1>6. ASSUME NEW p \in Partitions  PROVE Safe[p] \subseteq Safe'[p]
    <2> SUFFICES ASSUME NEW n \in 0..Len(log[p]), \A o \in 0..(n - 1) : DealtWith(p, o)
                 PROVE  n \in 0..Len(log'[p]) /\ \A o \in 0..(n - 1) : DealtWith(p, o)'
      BY DEF Safe
    <2>1. n \in 0..Len(log'[p])
      BY <1>1
    <2>2. ASSUME NEW o \in 0..(n - 1)  PROVE DealtWith(p, o)'
      <3>1. o \in 0..(Len(log[p]) - 1)
        BY <1>1
      <3>2. QED
        BY <1>5, <3>1
    <2>3. QED
      BY <2>1, <2>2
  <1>7. ASSUME NEW p \in Partitions  PROVE Owed[p] \subseteq Owed'[p]
    <2> SUFFICES ASSUME NEW x \in Owed[p]  PROVE x \in Owed'[p]
      OBVIOUS
    <2> DEFINE m == log[p][x[1] + 1]
    <2>1. /\ x \in Nat \X Nat /\ x[1] < Len(log[p]) /\ ~IsForeign(p, m) /\ m.due <= clock
          /\ RetriesLeft(m) => \E t \in m.due..clock :
                x[2] = t + _compute_retry_backoff_seconds(m.count + 1)
      BY DEF Owed
    <2>2. x[1] \in Nat /\ x[1] + 1 \in 1..Len(log[p])
      BY <1>1, <2>1
    <2>3. m \in Message /\ m.due \in Nat
      <3>1. log[p] \in Seq(Message)
        BY <1>1
      <3>2. m \in Message
        BY <2>2, <3>1
      <3>3. QED
        BY <3>2 DEF Message
    <2>4. log'[p][x[1] + 1] = m /\ x[1] < Len(log'[p]) /\ m.due <= clock'
      BY <1>1, <2>1, <2>2, <2>3
    <2>5. \A t \in m.due..clock : t \in m.due..clock'
      BY <1>1, <2>3
    <2> HIDE DEF m
    <2>6. QED
      BY <2>1, <2>4, <2>5 DEF Owed, IsForeign, RetriesLeft
  <1>8. QED
    BY <1>6, <1>7 DEF Grows

\* A step that leaves Kafka as it is.
LEMMA NoGrowth ==
    ASSUME RInv, UNCHANGED <<log, dlq, succeeded>>, clock' \in Nat, clock <= clock'
    PROVE  Grows
  <1>1. TypeOK /\ HeadersSound /\ SucceededInLog
    BY DEF RInv
  <1>2. HeadersSound' /\ SucceededInLog' /\ Buried' = Buried
    BY <1>1 DEF HeadersSound, SucceededInLog, Buried
  <1>3. \A p \in Partitions : Len(log[p]) \in Nat
    BY <1>1 DEF TypeOK
  <1>4. /\ \A p \in Partitions : /\ Len(log[p]) <= Len(log'[p])
                                 /\ \A n \in 1..Len(log[p]) : log'[p][n] = log[p][n]
        /\ succeeded \subseteq succeeded' /\ Buried \subseteq Buried'
        /\ log' \in [Partitions -> Seq(Message)] /\ dlq' \in Seq(Message)
        /\ succeeded' \subseteq Partitions \X Nat
    BY <1>1, <1>2, <1>3 DEF TypeOK
  <1>5. QED
    BY <1>1, <1>2, <1>4, Growth

-----------------------------------------------------------------------------
(* RInv is inductive.                                                      *)

\* The parts of a coroutine and of the state that the steps below need.
LEMMA Parts ==
    ASSUME TypeOK
    PROVE  /\ \A c \in Consumers : \A p \in Partitions :
                /\ co[c][p] \in Coroutine
                /\ co[c][p].pc \in {"idle", "next", "publish", "done"}
                /\ co[c][p].cur \in Nat /\ co[c][p].end \in Nat
                /\ co[c][p].commit_offset \in Nat /\ co[c][p].retry_at \in Nat
           /\ \A p \in Partitions :
                /\ Safe[p] \subseteq Nat /\ Len(log[p]) \in Nat
                /\ \A n \in Safe[p] : n <= Len(log[p])
                /\ committed[p] \in Nat /\ position[p] \in Nat
  <1>1. \A c \in Consumers : \A p \in Partitions : co[c][p] \in Coroutine
    BY DEF TypeOK
  <1>2. \A p \in Partitions : log[p] \in Seq(Message) /\ Len(log[p]) \in Nat
    BY DEF TypeOK
  <1>3. \A p \in Partitions : Safe[p] \subseteq Nat /\ \A n \in Safe[p] : n <= Len(log[p])
    BY <1>2 DEF Safe
  <1>4. QED
    BY <1>1, <1>2, <1>3 DEF TypeOK, Coroutine

\* A coroutine that does not move stays sound.
LEMMA CoroutineKept ==
    ASSUME RInv, Grows, NEW c \in Consumers, NEW p \in Partitions,
           co'[c][p] = co[c][p], phase'[c] = phase[c] \/ co[c][p].pc = "idle"
    PROVE  CoroutineSafe(c, p)'
  <1>1. CoroutineSafe(c, p) /\ TypeOK
    BY DEF RInv, CoroutinesSafe
  <1>2. /\ Safe[p] \subseteq Safe'[p] /\ Owed[p] \subseteq Owed'[p]
        /\ Len(log[p]) <= Len(log'[p]) /\ log'[p] \in Seq(Message)
    BY DEF Grows
  <1>3. Len(log[p]) \in Nat /\ co[c][p].end \in Nat /\ Len(log'[p]) \in Nat
    BY <1>1, <1>2, Parts
  <1>4. co[c][p].end <= Len(log[p]) => co[c][p].end <= Len(log'[p])
    BY <1>2, <1>3
  <1>5. QED
    BY <1>1, <1>2, <1>4 DEF CoroutineSafe

\* A coroutine that is given up is sound.
LEMMA IdleIsSafe ==
    ASSUME NEW c \in Consumers, NEW p \in Partitions, co'[c][p] = Idle
    PROVE  CoroutineSafe(c, p)'
  BY DEF CoroutineSafe, Idle

\* The coroutine of a consumer that holds no message.
LEMMA IdleType == Idle \in Coroutine /\ Idle.pc = "idle" /\ Idle.commit_offset = 0
  BY DEF Idle, Coroutine

\* A position stays safe while nobody moves it.
LEMMA PositionKept ==
    ASSUME RInv, Grows, NEW p \in Partitions, owner[p] \in Consumers,
           position'[p] = position[p], owner'[p] = owner[p],
           co'[owner[p]][p] = co[owner[p]][p], phase'[owner[p]] = phase[owner[p]]
    PROVE  PositionSafe(p)'
  <1>1. PositionSafe(p) /\ Safe[p] \subseteq Safe'[p]
    BY DEF RInv, PositionsSafe, Grows
  <1>2. QED
    BY <1>1 DEF PositionSafe

\* A pause goes on while the position, the entry and the assignment stay.
LEMMA PauseKept ==
    ASSUME RInv, Grows, NEW p \in Partitions, owner[p] \in Consumers, paused[p],
           position'[p] = position[p], owner'[p] = owner[p],
           paused_until'[owner[p]][p] = paused_until[owner[p]][p]
    PROVE  /\ position'[p] < Len(log'[p])
           /\ log'[p][position'[p] + 1].due = paused_until'[owner'[p]][p]
  <1>1. /\ position[p] < Len(log[p])
        /\ log[p][position[p] + 1].due = paused_until[owner[p]][p]
    BY DEF RInv, PauseWaitsForItsMessage
  <1>2. position[p] \in Nat /\ Len(log[p]) \in Nat
    BY Parts DEF RInv
  <1>3. /\ Len(log[p]) <= Len(log'[p]) /\ Len(log'[p]) \in Nat
        /\ \A n \in 1..Len(log[p]) : log'[p][n] = log[p][n]
    BY DEF Grows
  <1>4. position[p] + 1 \in 1..Len(log[p])
    BY <1>1, <1>2
  <1>5. position[p] < Len(log'[p]) /\ log'[p][position[p] + 1] = log[p][position[p] + 1]
    BY <1>1, <1>2, <1>3, <1>4
  <1>6. QED
    BY <1>1, <1>5

\* A process that ends.
LEMMA StopKeepsRInv ==
    ASSUME RInv, Grows, NEW c \in Consumers, Stop(c),
           committed' \in [Partitions -> Nat],
           \A p \in Partitions : committed'[p] \in Safe'[p],
           poison' = poison, faults' \in Nat, faults' # 0
    PROVE  RInv'
  <1> USE DEF RInv
  <1>1. /\ phase' = [phase EXCEPT ![c] = "down"]
        /\ paused_until' = [paused_until EXCEPT ![c] = [p \in Partitions |-> 0]]
        /\ co' = [co EXCEPT ![c] = [p \in Partitions |-> Idle]]
        /\ owner' = [p \in Partitions |-> IF owner[p] = c THEN NoConsumer ELSE owner[p]]
        /\ position' = position /\ paused' = paused
    BY DEF Stop
  <1>2. TypeOK'
    <2>1. co' \in [Consumers -> [Partitions -> Coroutine]]
      BY <1>1, IdleType DEF TypeOK
    <2>2. /\ phase' \in [Consumers -> {"poll", "gather", "down"}]
          /\ paused_until' \in [Consumers -> [Partitions -> Nat]]
          /\ owner' \in [Partitions -> Consumers \cup {NoConsumer}]
      BY <1>1 DEF TypeOK
    <2>3. QED
      BY <1>1, <2>1, <2>2 DEF TypeOK, Grows
  <1>3. /\ phase'[c] = "down" /\ \A p \in Partitions : co'[c][p] = Idle
        /\ \A d \in Consumers \ {c} :
              phase'[d] = phase[d] /\ co'[d] = co[d] /\ paused_until'[d] = paused_until[d]
    BY <1>1 DEF TypeOK
  <1>4. \A p \in Partitions : owner'[p] \in Consumers =>
            owner[p] \in Consumers \ {c} /\ owner'[p] = owner[p]
    BY <1>1, PartitionAssumption DEF TypeOK
  <1>5. CommittedSafe'
    BY DEF CommittedSafe
  <1>6. CoroutinesSafe'
    <2> SUFFICES ASSUME NEW d \in Consumers, NEW p \in Partitions PROVE CoroutineSafe(d, p)'
      BY DEF CoroutinesSafe
    <2>1. CASE d = c
      BY <1>3, <2>1, IdleIsSafe
    <2>2. CASE d # c
      BY <1>3, <2>2, CoroutineKept
    <2>3. QED
      BY <2>1, <2>2
  <1>7. PositionsSafe'
    <2> SUFFICES ASSUME NEW p \in Partitions, owner'[p] \in Consumers  PROVE PositionSafe(p)'
      BY DEF PositionsSafe, PositionSafe
    <2>1. QED
      BY <1>1, <1>3, <1>4, PositionKept
  <1>8. PauseWaitsForItsMessage'
    BY <1>1, <1>3, <1>4, PauseKept DEF PauseWaitsForItsMessage
  <1>9. PausedIsQuiet'
    BY <1>1, <1>3, <1>4 DEF PausedIsQuiet
  <1>10. QuietBeforeFaults'
    BY DEF QuietBeforeFaults
  <1>11. QED
    BY <1>2, <1>5, <1>6, <1>7, <1>8, <1>9, <1>10 DEF Grows

\* Before the first fault nobody's partition is touched by another process.
LEMMA StrayNeedsAFault ==
    ASSUME RInv, NEW c \in Consumers, NEW p \in Partitions, owner[p] # c,
           co[c][p].pc # "idle" \/ paused_until[c][p] # 0
    PROVE  faults # 0
  BY DEF RInv, QuietBeforeFaults, InStep

\* A coroutine after a message.
Moved(r, n, s) == [r EXCEPT !.commit_offset = n, !.cur = n, !.retry_at = 0, !.pc = s]

\* A partition that is paused waits for the message it is positioned at and
\* has no coroutine of its owner's: PauseWaitsForItsMessage and PausedIsQuiet.
PauseSound(p) ==
    (owner[p] \in Consumers /\ paused[p]) =>
        /\ position[p] < Len(log[p])
        /\ log[p][position[p] + 1].due = paused_until[owner[p]][p]
        /\ co[owner[p]][p].pc \in {"idle", "done"}

\* The per-partition form of the two invariants on paused partitions.
LEMMA PausesSound ==
    (\A p \in Partitions : PauseSound(p)) <=> (PauseWaitsForItsMessage /\ PausedIsQuiet)
  BY DEF PauseSound, PauseWaitsForItsMessage, PausedIsQuiet

\* The same in the state after a step.
LEMMA PausesSoundPrimed ==
    (\A p \in Partitions : PauseSound(p)') <=> (PauseWaitsForItsMessage' /\ PausedIsQuiet')
  BY DEF PauseSound, PauseWaitsForItsMessage, PausedIsQuiet

\* One coroutine moves, and with it at most the position and the pause of its
\* partition: what is sound of the others stays so.
LEMMA MoveKeepsRInv ==
    ASSUME RInv, Grows, NEW c \in Consumers, NEW p \in Partitions, NEW k \in Coroutine,
           co[c][p].pc # "idle",
           co' = [co EXCEPT ![c] = [@ EXCEPT ![p] = k]],
           UNCHANGED <<owner, phase, committed, poison>>,
           position' \in [Partitions -> Nat], paused' \in [Partitions -> BOOLEAN],
           paused_until' \in [Consumers -> [Partitions -> Nat]],
           \A q \in Partitions \ {p} : position'[q] = position[q] /\ paused'[q] = paused[q],
           \A d \in Consumers : \A q \in Partitions :
               d # c \/ q # p => paused_until'[d][q] = paused_until[d][q],
           faults' \in Nat, faults' = 0 => faults = 0,
           CoroutineSafe(c, p)', PositionSafe(p)', PauseSound(p)',
           faults = 0 => InStep(c, p)'
    PROVE  RInv'
  <1> USE DEF RInv
  <1>1. /\ co' \in [Consumers -> [Partitions -> Coroutine]]
        /\ \A d \in Consumers : \A q \in Partitions :
              d # c \/ q # p => co'[d][q] = co[d][q]
    BY DEF TypeOK
  <1>2. TypeOK'
    BY <1>1 DEF TypeOK, Grows
  <1>3. CommittedSafe'
    BY DEF CommittedSafe, Grows
  <1>4. CoroutinesSafe'
    <2> SUFFICES ASSUME NEW d \in Consumers, NEW q \in Partitions PROVE CoroutineSafe(d, q)'
      BY DEF CoroutinesSafe
    <2>1. CASE d = c /\ q = p
      BY <2>1
    <2>2. CASE d # c \/ q # p
      BY <1>1, <2>2, CoroutineKept
    <2>3. QED
      BY <2>1, <2>2
  <1>5. PositionsSafe'
    <2> SUFFICES ASSUME NEW q \in Partitions  PROVE PositionSafe(q)'
      BY DEF PositionsSafe
    <2>1. CASE q = p
      BY <2>1
    <2>2. CASE q # p /\ owner[q] \in Consumers
      BY <1>1, <2>2, PositionKept
    <2>3. CASE owner[q] \notin Consumers
      BY <2>3 DEF PositionSafe
    <2>4. QED
      BY <2>1, <2>2, <2>3
  <1>6. PauseWaitsForItsMessage' /\ PausedIsQuiet'
    <2> SUFFICES ASSUME NEW q \in Partitions  PROVE PauseSound(q)'
      BY PausesSoundPrimed
    <2>1. CASE q = p
      BY <2>1
    <2>2. CASE q # p
      <3> SUFFICES ASSUME owner[q] \in Consumers, paused[q]  PROVE PauseSound(q)'
        BY <2>2 DEF PauseSound
      <3>1. co[owner[q]][q].pc \in {"idle", "done"}
        BY DEF PausedIsQuiet
      <3>2. QED
        BY <1>1, <2>2, <3>1, PauseKept DEF PauseSound
    <2>3. QED
      BY <2>1, <2>2
  <1>7. QuietBeforeFaults'
    <2> SUFFICES ASSUME faults = 0
                 PROVE  OneAssignment' /\ \A d \in Consumers : \A q \in Partitions : InStep(d, q)'
      BY DEF QuietBeforeFaults
    <2>1. OneAssignment /\ \A d \in Consumers : \A q \in Partitions : InStep(d, q)
      BY DEF QuietBeforeFaults
    <2>2. OneAssignment'
      BY <2>1 DEF OneAssignment
    <2>3. owner[p] = c
      BY <2>1 DEF InStep
    <2>4. ASSUME NEW d \in Consumers, NEW q \in Partitions  PROVE InStep(d, q)'
      <3>1. CASE d = c /\ q = p
        BY <3>1
      <3>2. CASE d # c /\ q = p
        BY <1>1, <2>1, <2>3, <3>2 DEF InStep
      <3>3. CASE q # p
        <4>1. /\ InStep(d, q) /\ co'[d][q] = co[d][q] /\ position'[q] = position[q]
              /\ paused_until'[d][q] = paused_until[d][q]
          BY <1>1, <2>1, <3>3
        <4>2. QED
          BY <4>1 DEF InStep
      <3>4. QED
        BY <3>1, <3>2, <3>3
    <2>5. QED
      BY <2>2, <2>4
  <1>8. QED
    BY <1>2, <1>3, <1>4, <1>5, <1>6, <1>7 DEF Grows

\* The coroutine goes past a message that is dealt with.
LEMMA AdvanceKeepsRInv ==
    ASSUME RInv, Grows, NEW c \in Consumers, NEW p \in Partitions,
           co[c][p].pc \in {"next", "publish"}, Advance(c, p),
           co[c][p].cur + 1 \in Safe'[p]
    PROVE  RInv'
  <1> USE DEF RInv
  <1> DEFINE o == co[c][p].cur
             s == IF o + 1 = co[c][p].end THEN "done" ELSE "next"
             n == o + 1
             k == Moved(co[c][p], n, s)
  <1>1. /\ co' = [co EXCEPT ![c] = [@ EXCEPT ![p] = k]]
        /\ UNCHANGED <<owner, phase, committed, poison, position, paused, paused_until, faults>>
    BY DEF Advance, env, client, TypeOK, Moved
  <1>2. /\ co[c][p] \in Coroutine /\ o \in Nat /\ co[c][p].end \in Nat
        /\ Len(log[p]) \in Nat
    BY Parts
  <1>3. /\ k \in Coroutine
        /\ k.commit_offset = n /\ k.cur = n /\ k.end = co[c][p].end
        /\ k.pc = s
    <2>1. s \in {"idle", "next", "publish", "done"} /\ n \in Nat
      BY <1>2
    <2> HIDE DEF s, n
    <2>2. QED
      BY <1>2, <2>1 DEF Moved, Coroutine
  <1>4. co'[c][p] = k
    BY <1>1 DEF TypeOK
  <1> HIDE DEF k
  <1>5. /\ CoroutineSafe(c, p) /\ phase[c] = "gather" /\ o < co[c][p].end
        /\ co[c][p].end <= Len(log[p])
    BY DEF CoroutinesSafe, CoroutineSafe
  <1>6. /\ Len(log[p]) <= Len(log'[p]) /\ Len(log'[p]) \in Nat /\ Safe[p] \subseteq Safe'[p]
    BY DEF Grows
  <1>7. CoroutineSafe(c, p)'
    BY <1>1, <1>2, <1>3, <1>4, <1>5, <1>6 DEF CoroutineSafe
  <1>8. PositionSafe(p)'
    <2>1. PositionSafe(p)
      BY DEF PositionsSafe
    <2>2. CASE owner[p] = c
      <3>1. CASE position[p] \in Safe[p]
        BY <1>1, <1>5, <1>6, <3>1, <2>2 DEF PositionSafe
      <3>2. CASE position[p] = co[c][p].end
        BY <1>1, <1>3, <1>4, <1>5, <2>2, <3>2 DEF PositionSafe
      <3>3. QED
        BY <2>1, <2>2, <3>1, <3>2 DEF PositionSafe
    <2>3. CASE owner[p] \in Consumers \ {c}
      <3>1. co'[owner[p]][p] = co[owner[p]][p]
        BY <1>1, <2>3 DEF TypeOK
      <3>2. QED
        BY <1>1, <2>3, <3>1, PositionKept
    <2>4. CASE owner[p] \notin Consumers
      BY <1>1, <2>4 DEF PositionSafe
    <2>5. QED
      BY <2>2, <2>3, <2>4
  <1>9. PauseSound(p)'
    <2> SUFFICES ASSUME owner[p] \in Consumers, paused[p]  PROVE PauseSound(p)'
      BY <1>1 DEF PauseSound
    <2>1. co[owner[p]][p].pc \in {"idle", "done"}
      BY DEF PausedIsQuiet
    <2>2. owner[p] # c /\ co'[owner[p]][p] = co[owner[p]][p]
      BY <1>1, <2>1 DEF TypeOK
    <2>3. QED
      BY <1>1, <2>1, <2>2, PauseKept DEF PauseSound
  <1>10. faults = 0 => InStep(c, p)'
    <2> SUFFICES ASSUME faults = 0  PROVE InStep(c, p)'
      OBVIOUS
    <2>1. InStep(c, p)
      BY DEF QuietBeforeFaults
    <2>2. QED
      BY <1>1, <1>2, <1>3, <1>4, <2>1 DEF InStep
  <1>11. /\ position' \in [Partitions -> Nat] /\ paused' \in [Partitions -> BOOLEAN]
         /\ paused_until' \in [Consumers -> [Partitions -> Nat]] /\ faults' \in Nat
    BY <1>1 DEF TypeOK
  <1>12. co[c][p].pc # "idle"
    OBVIOUS
  <1>13. QED
    BY <1>1, <1>3, <1>7, <1>8, <1>9, <1>10, <1>11, <1>12, MoveKeepsRInv

\* The coroutine seeks back to its current message and ends.
LEMMA SeekKeepsRInv ==
    ASSUME RInv, Grows, NEW c \in Consumers, NEW p \in Partitions, NEW until \in Nat,
           co[c][p].pc \in {"next", "publish"}, SeekAndEnd(c, p, until), owner[p] = c,
           until # 0 => until = Current(c, p).due,
           UNCHANGED <<committed, poison>>,
           faults' \in Nat, faults' = 0 => faults = 0
    PROVE  RInv'
  <1> USE DEF RInv
  <1> DEFINE o == co[c][p].cur
             k == [co[c][p] EXCEPT !.pc = "done"]
             w == IF until # 0 THEN until ELSE paused_until[c][p]
  <1>1. /\ co' = [co EXCEPT ![c] = [@ EXCEPT ![p] = k]]
        /\ position' = [position EXCEPT ![p] = o]
        /\ paused' = [paused EXCEPT ![p] = @ \/ until # 0]
        /\ paused_until' = [paused_until EXCEPT ![c] = [@ EXCEPT ![p] = w]]
        /\ UNCHANGED <<owner, phase>>
    <2>1. /\ co' = [co EXCEPT ![c][p].pc = "done"]
          /\ position' = [position EXCEPT ![p] = o]
          /\ paused' = [paused EXCEPT ![p] = @ \/ until # 0]
          /\ paused_until' = [paused_until EXCEPT ![c][p] = IF until # 0 THEN until ELSE @]
          /\ UNCHANGED <<owner, phase>>
      BY DEF SeekAndEnd
    <2>2. [co EXCEPT ![c][p].pc = "done"] = [co EXCEPT ![c] = [@ EXCEPT ![p] = k]]
      BY DEF TypeOK
    <2>3. [paused_until EXCEPT ![c][p] = IF until # 0 THEN until ELSE @]
            = [paused_until EXCEPT ![c] = [@ EXCEPT ![p] = w]]
      BY DEF TypeOK
    <2>4. QED
      BY <2>1, <2>2, <2>3
  <1>2. /\ co[c][p] \in Coroutine /\ o \in Nat /\ co[c][p].end \in Nat
        /\ Len(log[p]) \in Nat
    BY Parts
  <1>3. /\ k \in Coroutine /\ k.pc = "done" /\ k.cur = o /\ k.end = co[c][p].end
        /\ k.commit_offset = co[c][p].commit_offset
    BY <1>2 DEF Coroutine
  <1>4. /\ co'[c][p] = k /\ position'[p] = o /\ paused'[p] = (paused[p] \/ until # 0)
        /\ paused_until'[c][p] = w
        /\ \A q \in Partitions \ {p} : position'[q] = position[q] /\ paused'[q] = paused[q]
        /\ \A d \in Consumers : \A q \in Partitions :
               d # c \/ q # p => paused_until'[d][q] = paused_until[d][q]
    <2>1. w \in Nat
      BY DEF TypeOK
    <2> HIDE DEF w, k
    <2>2. co'[c][p] = k /\ position'[p] = o /\ paused'[p] = (paused[p] \/ until # 0)
      BY <1>1 DEF TypeOK
    <2>3. /\ paused_until'[c][p] = w
          /\ \A d \in Consumers : \A q \in Partitions :
                 d # c \/ q # p => paused_until'[d][q] = paused_until[d][q]
      BY <1>1 DEF TypeOK
    <2>4. \A q \in Partitions \ {p} : position'[q] = position[q] /\ paused'[q] = paused[q]
      BY <1>1 DEF TypeOK
    <2>5. QED
      BY <2>2, <2>3, <2>4
  <1> HIDE DEF k
  <1>5. /\ CoroutineSafe(c, p) /\ phase[c] = "gather" /\ o < co[c][p].end
        /\ co[c][p].end <= Len(log[p]) /\ o \in Safe[p]
        /\ co[c][p].commit_offset \in {0, o}
    BY DEF CoroutinesSafe, CoroutineSafe
  <1>6. /\ Len(log[p]) <= Len(log'[p]) /\ Len(log'[p]) \in Nat /\ Safe[p] \subseteq Safe'[p]
        /\ \A n \in 1..Len(log[p]) : log'[p][n] = log[p][n]
    BY DEF Grows
  <1>7. CoroutineSafe(c, p)'
    BY <1>1, <1>2, <1>3, <1>4, <1>5, <1>6 DEF CoroutineSafe
  <1>8. PositionSafe(p)'
    BY <1>1, <1>4, <1>5, <1>6 DEF PositionSafe
  <1>9. PauseSound(p)'
    <2>1. ~paused[p]
      BY DEF PausedIsQuiet
    <2>2. o + 1 \in 1..Len(log[p]) /\ o < Len(log'[p])
      BY <1>2, <1>5, <1>6
    <2>3. until # 0 => log'[p][o + 1].due = until
      BY <1>6, <2>2 DEF Current
    <2>4. QED
      BY <1>1, <1>3, <1>4, <2>1, <2>2, <2>3 DEF PauseSound
  <1>10. faults = 0 => InStep(c, p)'
    <2> SUFFICES ASSUME faults = 0  PROVE InStep(c, p)'
      OBVIOUS
    <2>1. InStep(c, p)
      BY DEF QuietBeforeFaults
    <2>2. QED
      BY <1>1, <1>3, <1>4, <2>1 DEF InStep
  <1>11. /\ position' \in [Partitions -> Nat] /\ paused' \in [Partitions -> BOOLEAN]
         /\ paused_until' \in [Consumers -> [Partitions -> Nat]]
    <2>1. position' \in [Partitions -> Nat]
      BY <1>1, <1>2 DEF TypeOK
    <2>2. paused' \in [Partitions -> BOOLEAN]
      BY <1>1 DEF TypeOK
    <2>3. w \in Nat
      BY DEF TypeOK
    <2>4. paused_until' \in [Consumers -> [Partitions -> Nat]]
      <3> HIDE DEF w
      <3>1. QED
        BY <1>1, <2>3 DEF TypeOK
    <2>5. QED
      BY <2>1, <2>2, <2>4
  <1>12. co[c][p].pc # "idle"
    OBVIOUS
  <1>13. QED
    BY <1>1, <1>3, <1>4, <1>7, <1>8, <1>9, <1>10, <1>11, <1>12, MoveKeepsRInv

\* Seeking, or the end of the process when the partition is assigned elsewhere.
LEMMA SeekAndEndKeepsRInv ==
    ASSUME RInv, Grows, NEW c \in Consumers, NEW p \in Partitions, NEW until \in Nat,
           co[c][p].pc \in {"next", "publish"}, SeekAndEnd(c, p, until),
           until # 0 => until = Current(c, p).due,
           UNCHANGED <<committed, poison>>,
           faults' \in Nat, faults' = 0 => faults = 0
    PROVE  RInv'
  <1>1. CASE owner[p] = c
    BY <1>1, SeekKeepsRInv
  <1>2. CASE owner[p] # c
    <2>1. Stop(c)
      BY <1>2 DEF SeekAndEnd
    <2>2. faults # 0
      BY <1>2, StrayNeedsAFault
    <2>3. committed' \in [Partitions -> Nat] /\ \A q \in Partitions : committed'[q] \in Safe'[q]
      BY DEF RInv, TypeOK, CommittedSafe, Grows
    <2>4. QED
      BY <2>1, <2>2, <2>3, StopKeepsRInv
  <1>3. QED
    BY <1>1, <1>2

\* What Fault does to the count.
LEMMA FaultCounts ==
    ASSUME RInv
    PROVE  /\ Fault => faults' \in Nat /\ faults' # 0
           /\ faults' = faults => faults' \in Nat
  BY DEF RInv, TypeOK, Fault

\* The current message of a coroutine.
LEMMA CurrentMessage ==
    ASSUME RInv, NEW c \in Consumers, NEW p \in Partitions,
           co[c][p].pc \in {"next", "publish"}
    PROVE  /\ co[c][p].cur \in Nat /\ co[c][p].cur < Len(log[p])
           /\ Len(log[p]) \in Nat /\ co[c][p].cur \in Safe[p]
           /\ co[c][p].cur + 1 \in 1..Len(log[p])
           /\ Current(c, p) \in Message /\ Current(c, p) = log[p][co[c][p].cur + 1]
           /\ Current(c, p).id \in Nat /\ Current(c, p).count \in Nat
           /\ Current(c, p).due \in Nat
           /\ p \in MainPartitions => Current(c, p).due = 0
  <1>1. /\ co[c][p].cur \in Nat /\ co[c][p].end \in Nat /\ Len(log[p]) \in Nat
        /\ log[p] \in Seq(Message)
    BY Parts DEF RInv, TypeOK
  <1>2. /\ co[c][p].cur < co[c][p].end /\ co[c][p].end <= Len(log[p])
        /\ co[c][p].cur \in Safe[p]
    BY DEF RInv, CoroutinesSafe, CoroutineSafe
  <1>3. co[c][p].cur + 1 \in 1..Len(log[p]) /\ co[c][p].cur < Len(log[p])
    BY <1>1, <1>2
  <1>4. Current(c, p) \in Message /\ Current(c, p) = log[p][co[c][p].cur + 1]
    BY <1>1, <1>3 DEF Current
  <1>5. /\ Current(c, p).id \in Nat /\ Current(c, p).count \in Nat
        /\ Current(c, p).due \in Nat
    BY <1>4 DEF Message
  <1>6. p \in MainPartitions => Current(c, p).due = 0
    BY <1>3, <1>4, PartitionAssumption DEF RInv, HeadersSound
  <1>7. QED
    BY <1>1, <1>2, <1>3, <1>4, <1>5, <1>6

\* A safe offset can be moved past a message that is dealt with.
LEMMA SafeMoves ==
    ASSUME Grows, TypeOK, NEW p \in Partitions, NEW o \in Nat, o \in Safe[p],
           o < Len(log[p]), DealtWith(p, o)'
    PROVE  o + 1 \in Safe'[p]
  <1>1. o \in Safe'[p] /\ Len(log[p]) <= Len(log'[p]) /\ log'[p] \in Seq(Message)
    BY DEF Grows
  <1>2. Len(log[p]) \in Nat /\ Len(log'[p]) \in Nat
    BY <1>1 DEF TypeOK
  <1>3. \A n \in 0..(o - 1) : DealtWith(p, n)'
    BY <1>1 DEF Safe
  <1>4. o + 1 \in 0..Len(log'[p]) /\ \A n \in 0..((o + 1) - 1) : n \in 0..(o - 1) \/ n = o
    BY <1>1, <1>2
  <1>5. \A n \in 0..((o + 1) - 1) : DealtWith(p, n)'
    BY <1>3, <1>4
  <1>6. QED
    BY <1>4, <1>5 DEF Safe

\* A retry or a dead letter reaches Kafka: then the message is dealt with.
LEMMA RepublishedGrows ==
    ASSUME RInv, NEW c \in Consumers, NEW p \in Partitions, co[c][p].pc = "publish",
           Republished(c, p), UNCHANGED <<succeeded, clock>>,
           NEW o, o = co[c][p].cur
    PROVE  Grows /\ DealtWith(p, o)'
  <1> DEFINE m == Current(c, p)
  <1>1. /\ o \in Nat /\ o < Len(log[p]) /\ o + 1 \in 1..Len(log[p]) /\ m \in Message
        /\ m = log[p][o + 1] /\ m.id \in Nat /\ m.count \in Nat /\ m.due \in Nat
    BY CurrentMessage
  <1>2. ~IsForeign(p, m) /\ co[c][p].retry_at \in Nat
    <2>1. <<o, co[c][p].retry_at>> \in Owed[p]
      BY DEF RInv, CoroutinesSafe, CoroutineSafe
    <2>2. QED
      BY <1>1, <2>1 DEF Owed
  <1>3. OrigOf(m, p) = Main
    <2>1. IF p \in RetryPartitions THEN m.orig # NoHeader ELSE m.orig = NoHeader
      BY <1>1 DEF RInv, HeadersSound
    <2>2. QED
      BY <1>2, <2>1 DEF OrigOf, IsForeign, TopicOf
  <1>4. /\ log \in [Partitions -> Seq(Message)] /\ dlq \in Seq(Message) /\ clock \in Nat
        /\ succeeded \subseteq Partitions \X Nat /\ RetryMax \in Nat
        /\ TypeOK /\ HeadersSound /\ SucceededInLog
        /\ \A q \in Partitions : Len(log[q]) \in Nat
    BY RunnerAssumption DEF RInv, TypeOK
  <1> HIDE DEF m
  <1>5. CASE ~RetriesLeft(m)
    <2> DEFINE x == DeadLetterOf(m, p)
    <2>1. dlq' = Append(dlq, x) /\ log' = log
      BY <1>5 DEF Republished, m
    <2>2. x \in Message /\ x.id = m.id
      BY <1>1, <1>3 DEF DeadLetterOf, Message, Main
    <2> HIDE DEF x
    <2>3. /\ dlq' \in Seq(Message) /\ Len(dlq') = Len(dlq) + 1 /\ Len(dlq) \in Nat
          /\ \A n \in 1..Len(dlq) : dlq'[n] = dlq[n]
          /\ dlq'[Len(dlq) + 1] = x
      BY <1>4, <2>1, <2>2
    <2>4. Buried \subseteq Buried' /\ m.id \in Buried'
      <3>1. DOMAIN dlq = 1..Len(dlq) /\ DOMAIN dlq' = 1..Len(dlq')
        BY <1>4, <2>3
      <3>2. Len(dlq) + 1 \in 1..Len(dlq') /\ \A n \in 1..Len(dlq) : n \in 1..Len(dlq')
        BY <2>3
      <3>3. QED
        BY <2>2, <2>3, <3>1, <3>2 DEF Buried
    <2>5. Grows
      <3>1. HeadersSound' /\ SucceededInLog'
        BY <1>4, <2>1 DEF HeadersSound, SucceededInLog
      <3>2. /\ \A q \in Partitions : /\ Len(log[q]) <= Len(log'[q])
                                     /\ \A n \in 1..Len(log[q]) : log'[q][n] = log[q][n]
            /\ clock <= clock' /\ clock' \in Nat
        BY <1>4, <2>1
      <3>3. QED
        BY <1>4, <2>1, <2>3, <2>4, <3>1, <3>2, Growth
    <2>6. m.count >= RetryMax
      BY <1>1, <1>4, <1>5 DEF RetriesLeft
    <2>7. CopyAt(p, o)'.id = m.id /\ CopyAt(p, o)'.count = m.count
      BY <1>1, <2>1 DEF CopyAt
    <2>8. Abstract!AccountedFor(CopyAt(p, o))'
      BY <2>4, <2>6, <2>7 DEF Abstract!AccountedFor, Buried
    <2>9. QED
      BY <2>5, <2>8 DEF DealtWith
  <1>6. CASE RetriesLeft(m)
    <2> DEFINE r == RetryOf(m, p, co[c][p].retry_at)
    <2>1. PICK q \in RetryPartitions : log' = [log EXCEPT ![q] = Append(@, r)] /\ dlq' = dlq
      BY <1>6 DEF Republished, m
    <2>2. r \in Message /\ r.id = m.id /\ r.count = m.count + 1 /\ r.orig = Main
      BY <1>1, <1>2, <1>3 DEF RetryOf, Message, Main
    <2>3. q \in Partitions
      BY DEF Partitions
    <2> HIDE DEF r
    <2>4. /\ log' \in [Partitions -> Seq(Message)] /\ log'[q] = Append(log[q], r)
          /\ \A l \in Partitions \ {q} : log'[l] = log[l]
      BY <1>4, <2>1, <2>2, <2>3
    <2>5. /\ Len(log'[q]) = Len(log[q]) + 1 /\ log'[q][Len(log[q]) + 1] = r
          /\ \A n \in 1..Len(log[q]) : log'[q][n] = log[q][n]
      BY <1>4, <2>2, <2>3, <2>4
    <2>6. \A l \in Partitions : /\ Len(log[l]) <= Len(log'[l])
                                /\ \A n \in 1..Len(log[l]) : log'[l][n] = log[l][n]
      <3> TAKE l \in Partitions
      <3>1. CASE l = q
        BY <1>4, <2>3, <2>5, <3>1
      <3>2. CASE l # q
        BY <1>4, <2>4, <3>2
      <3>3. QED
        BY <3>1, <3>2
    <2>7. HeadersSound'
      <3> SUFFICES ASSUME NEW l \in Partitions, NEW n \in 1..Len(log'[l])
                   PROVE  IF l \in RetryPartitions THEN log'[l][n].orig # NoHeader
                          ELSE log'[l][n].orig = NoHeader /\ log'[l][n].due = 0
        BY DEF HeadersSound
      <3>1. CASE n \in 1..Len(log[l])
        BY <1>4, <2>6, <3>1 DEF HeadersSound
      <3>2. CASE n \notin 1..Len(log[l])
        <4>1. l = q
          BY <2>4, <3>2
        <4>2. n = Len(log[q]) + 1
          BY <1>4, <2>5, <3>2, <4>1
        <4>3. QED
          BY <2>2, <2>5, <4>1, <4>2 DEF Main, NoHeader
      <3>3. QED
        BY <3>1, <3>2
    <2>8. SucceededInLog'
      <3> SUFFICES ASSUME NEW d \in succeeded  PROVE d[2] < Len(log'[d[1]])
        BY DEF SucceededInLog
      <3>1. d[1] \in Partitions /\ d[2] \in Nat /\ d[2] < Len(log[d[1]])
        BY <1>4 DEF SucceededInLog
      <3>2. Len(log[d[1]]) <= Len(log'[d[1]]) /\ Len(log[d[1]]) \in Nat /\ Len(log'[d[1]]) \in Nat
        BY <1>4, <2>4, <2>6, <3>1
      <3>3. QED
        BY <3>1, <3>2
    <2>9. Grows
      <3>1. Buried' = Buried /\ clock <= clock' /\ clock' \in Nat
        BY <1>4, <2>1 DEF Buried
      <3>2. QED
        BY <1>4, <2>1, <2>4, <2>6, <2>7, <2>8, <3>1, Growth
    <2>10. PICK n \in Nat : n = Len(log[q])
      BY <1>4, <2>3
    <2>11. /\ CopyAt(q, n)' \in Copies'
           /\ CopyAt(q, n)'.id = m.id /\ CopyAt(q, n)'.count = m.count + 1
      <3>1. log'[q][n + 1] = r /\ n \in 0..(Len(log'[q]) - 1)
        BY <2>5, <2>10
      <3>2. ~IsForeign(q, log'[q][n + 1])
        BY <2>2, <3>1 DEF IsForeign
      <3>3. CopyAt(q, n)' \in Copies'
        BY <2>3, <3>1, <3>2 DEF Copies, CopiesFrom
      <3>4. CopyAt(q, n)'.id = m.id /\ CopyAt(q, n)'.count = m.count + 1
        BY <2>2, <3>1 DEF CopyAt
      <3>5. QED
        BY <3>3, <3>4
    <2>12. CopyAt(p, o)'.id = m.id /\ CopyAt(p, o)'.count = m.count
      BY <1>1, <2>6 DEF CopyAt
    <2>13. Abstract!AccountedFor(CopyAt(p, o))'
      BY <2>11, <2>12 DEF Abstract!AccountedFor, Copies
    <2>14. QED
      BY <2>9, <2>13 DEF DealtWith
  <1>7. QED
    BY <1>5, <1>6

\* A message whose handler is called is due.
LEMMA HandledIsDue ==
    ASSUME RInv, NEW c \in Consumers, NEW p \in Partitions, Handles(c, p)
    PROVE  /\ co[c][p].pc = "next" /\ Current(c, p).due <= clock /\ clock \in Nat
           /\ ~IsForeign(p, Current(c, p))
  <1>1. co[c][p].pc = "next" /\ IsDue(c, p) /\ ~IsForeign(p, Current(c, p))
    BY DEF Handles
  <1>2. clock \in Nat /\ (p \in MainPartitions => Current(c, p).due = 0)
    BY <1>1, CurrentMessage DEF RInv, TypeOK
  <1>3. QED
    BY <1>1, <1>2 DEF IsDue, Partitions

\* The handler succeeds: the delivery joins the history.
LEMMA SuccessGrows ==
    ASSUME RInv, NEW c \in Consumers, NEW p \in Partitions, co[c][p].pc = "next",
           NEW o, o = co[c][p].cur, succeeded' = succeeded \cup {<<p, o>>},
           UNCHANGED <<log, dlq, clock>>
    PROVE  Grows /\ DealtWith(p, o)'
  <1>1. /\ o \in Nat /\ o < Len(log[p])
    BY CurrentMessage
  <1>2. /\ log \in [Partitions -> Seq(Message)] /\ dlq \in Seq(Message) /\ clock \in Nat
        /\ succeeded \subseteq Partitions \X Nat
        /\ TypeOK /\ HeadersSound /\ SucceededInLog
        /\ \A q \in Partitions : Len(log[q]) \in Nat
    <2>1. TypeOK /\ HeadersSound /\ SucceededInLog
      BY DEF RInv
    <2>2. \A q \in Partitions : Len(log[q]) \in Nat
      BY <2>1, Parts
    <2>3. QED
      BY <2>1, <2>2 DEF TypeOK
  <1>3. HeadersSound' /\ SucceededInLog' /\ Buried' = Buried
    <2>1. HeadersSound' /\ Buried' = Buried
      BY <1>2 DEF HeadersSound, Buried
    <2>2. \A d \in succeeded' : d \in succeeded \/ (d[1] = p /\ d[2] = o)
      OBVIOUS
    <2>3. SucceededInLog'
      BY <1>1, <1>2, <2>2 DEF SucceededInLog
    <2>4. QED
      BY <2>1, <2>3
  <1>4. /\ succeeded \subseteq succeeded' /\ succeeded' \subseteq Partitions \X Nat
        /\ clock <= clock'
    BY <1>1, <1>2
  <1>5. Grows
    BY <1>2, <1>3, <1>4, Growth
  <1>6. CopyAt(p, o)' \in HandledCopies'
    <2>1. <<p, o>> \in succeeded' /\ <<p, o>>[1] = p /\ <<p, o>>[2] = o
      OBVIOUS
    <2>2. QED
      BY <2>1 DEF HandledCopies
  <1>7. QED
    BY <1>5, <1>6 DEF DealtWith, Abstract!AccountedFor, HandledCopies

\* The handler fails: the coroutine owes a retry or a dead letter.
LEMMA FailureKeepsRInv ==
    ASSUME RInv, NEW c \in Consumers, NEW p \in Partitions, HandleFails(c, p)
    PROVE  RInv'
  <1> USE DEF RInv
  <1> DEFINE o == co[c][p].cur
             m == Current(c, p)
  <1>1. /\ co[c][p].pc = "next" /\ m.due <= clock /\ clock \in Nat /\ ~IsForeign(p, m)
    BY HandledIsDue DEF HandleFails
  <1>2. /\ o \in Nat /\ o < Len(log[p]) /\ m = log[p][o + 1] /\ m.due \in Nat
        /\ co[c][p] \in Coroutine
    BY <1>1, CurrentMessage, Parts
  <1>3. UNCHANGED <<owner, phase, committed, poison, log, dlq, succeeded, clock, position,
                    paused, paused_until, faults>>
    BY DEF HandleFails, env, kafka, client
  <1>4. PICK at \in 0..MaxClock :
          /\ at = IF RetriesLeft(m)
                    THEN clock + _compute_retry_backoff_seconds(m.count + 1) ELSE 0
          /\ co' = [co EXCEPT ![c][p].pc = "publish", ![c][p].retry_at = at]
    BY DEF HandleFails
  <1> DEFINE k == [co[c][p] EXCEPT !.pc = "publish", !.retry_at = at]
  <1>5. co' = [co EXCEPT ![c] = [@ EXCEPT ![p] = k]]
    BY <1>4 DEF TypeOK
  <1>6. /\ k \in Coroutine /\ k.pc = "publish" /\ k.retry_at = at /\ k.cur = o
        /\ k.end = co[c][p].end /\ k.commit_offset = co[c][p].commit_offset
    <2>1. at \in Nat
      BY RunnerAssumption
    <2>2. QED
      BY <1>2, <2>1 DEF Coroutine
  <1> HIDE DEF k
  <1>7. co'[c][p] = k
    BY <1>5 DEF TypeOK
  <1>8. Grows
    BY <1>1, <1>3, NoGrowth
  <1>9. <<o, at>> \in Owed[p]
    <2>1. clock \in m.due..clock /\ at \in Nat
      BY <1>1, <1>2, RunnerAssumption
    <2>2. <<o, at>> \in Nat \X Nat /\ <<o, at>>[1] = o /\ <<o, at>>[2] = at
      BY <1>2, <2>1
    <2> HIDE DEF m, o
    <2>3. RetriesLeft(m) => \E t \in m.due..clock :
              at = t + _compute_retry_backoff_seconds(m.count + 1)
      BY <1>4, <2>1
    <2>4. QED
      BY <1>1, <1>2, <2>2, <2>3 DEF Owed
  <1>10. CoroutineSafe(c, p)'
    <2>1. CoroutineSafe(c, p) /\ Safe[p] \subseteq Safe'[p] /\ Owed[p] \subseteq Owed'[p]
      BY <1>8 DEF CoroutinesSafe, Grows
    <2>2. QED
      BY <1>1, <1>3, <1>6, <1>7, <1>9, <2>1 DEF CoroutineSafe
  <1>11. \A d \in Consumers \ {c} : co'[d][p] = co[d][p]
    BY <1>5 DEF TypeOK
  <1>12. PositionSafe(p)'
    <2>1. PositionSafe(p) /\ Safe[p] \subseteq Safe'[p]
      BY <1>8 DEF PositionsSafe, Grows
    <2>2. CASE owner[p] = c
      BY <1>3, <1>6, <1>7, <2>1, <2>2 DEF PositionSafe
    <2>3. CASE owner[p] # c
      BY <1>3, <1>11, <2>1, <2>3 DEF PositionSafe
    <2>4. QED
      BY <2>2, <2>3
  <1>13. PauseSound(p)'
    <2> SUFFICES ASSUME owner[p] \in Consumers, paused[p]  PROVE PauseSound(p)'
      BY <1>3 DEF PauseSound
    <2>1. co[owner[p]][p].pc \in {"idle", "done"}
      BY DEF PausedIsQuiet
    <2>2. co'[owner[p]][p] = co[owner[p]][p]
      BY <1>1, <1>11, <2>1
    <2>3. QED
      BY <1>3, <1>8, <2>1, <2>2, PauseKept DEF PauseSound
  <1>14. faults = 0 => InStep(c, p)'
    <2> SUFFICES ASSUME faults = 0  PROVE InStep(c, p)'
      OBVIOUS
    <2>1. InStep(c, p)
      BY DEF QuietBeforeFaults
    <2>2. QED
      BY <1>1, <1>3, <1>6, <1>7, <2>1 DEF InStep
  <1>15. /\ position' \in [Partitions -> Nat] /\ paused' \in [Partitions -> BOOLEAN]
         /\ paused_until' \in [Consumers -> [Partitions -> Nat]] /\ faults' \in Nat
         /\ co[c][p].pc # "idle"
    BY <1>1, <1>3 DEF TypeOK
  <1>16. QED
    BY <1>3, <1>5, <1>6, <1>8, <1>10, <1>12, <1>13, <1>14, <1>15, MoveKeepsRInv

\* The steps of a coroutine.
LEMMA CoroutineKeepsRInv ==
    ASSUME RInv, NEW c \in Consumers, NEW p \in Partitions,
           \/ Defer(c, p) \/ SkipForeign(c, p) \/ HandleSucceeds(c, p) \/ HandleRaises(c, p)
           \/ Republish(c, p) \/ RepublishRaises(c, p)
    PROVE  RInv'
  <1>1. clock \in Nat
    BY DEF RInv, TypeOK
  <1>2. CASE Defer(c, p)
    <2>1. /\ co[c][p].pc = "next" /\ SeekAndEnd(c, p, Current(c, p).due)
          /\ UNCHANGED <<clock, poison, log, committed, dlq, succeeded, faults>>
      BY <1>2 DEF Defer, env, kafka
    <2>2. Grows
      BY <1>1, <2>1, NoGrowth
    <2>3. Current(c, p).due \in Nat /\ faults' \in Nat
      BY <2>1, CurrentMessage, FaultCounts
    <2>4. QED
      BY <2>1, <2>2, <2>3, SeekAndEndKeepsRInv
  <1>3. CASE SkipForeign(c, p)
    <2>1. /\ co[c][p].pc = "next" /\ IsForeign(p, Current(c, p)) /\ Advance(c, p)
          /\ UNCHANGED <<log, dlq, succeeded, clock>>
      BY <1>3 DEF SkipForeign, Advance, env
    <2>2. Grows
      BY <1>1, <2>1, NoGrowth
    <2>3. PICK o \in Nat : o = co[c][p].cur /\ o \in Safe[p] /\ o < Len(log[p])
      BY <2>1, CurrentMessage
    <2>4. DealtWith(p, o)'
      BY <2>1, <2>3 DEF DealtWith, IsForeign, Current
    <2>5. o + 1 \in Safe'[p]
      BY <2>2, <2>3, <2>4, SafeMoves DEF RInv
    <2>6. QED
      BY <2>1, <2>2, <2>3, <2>5, AdvanceKeepsRInv
  <1>4. CASE HandleSucceeds(c, p)
    <2>1. /\ co[c][p].pc = "next" /\ Advance(c, p)
          /\ succeeded' = succeeded \cup {<<p, co[c][p].cur>>}
          /\ UNCHANGED <<log, dlq, clock>>
      BY <1>4 DEF HandleSucceeds, Handles, Advance, env
    <2>2. PICK o \in Nat : o = co[c][p].cur /\ o \in Safe[p] /\ o < Len(log[p])
      BY <2>1, CurrentMessage
    <2>3. Grows /\ DealtWith(p, o)'
      BY <2>1, <2>2, SuccessGrows
    <2>4. o + 1 \in Safe'[p]
      BY <2>2, <2>3, SafeMoves DEF RInv
    <2>5. QED
      BY <2>1, <2>2, <2>3, <2>4, AdvanceKeepsRInv
  <1>5. CASE HandleRaises(c, p)
    <2>1. /\ co[c][p].pc = "next" /\ SeekAndEnd(c, p, 0)
          /\ UNCHANGED <<clock, poison, log, committed, dlq, succeeded>>
          /\ Fault \/ faults' = faults
      BY <1>5 DEF HandleRaises, Handles, env, kafka
    <2>2. Grows
      BY <1>1, <2>1, NoGrowth
    <2>3. faults' \in Nat /\ (faults' = 0 => faults = 0)
      BY <2>1, FaultCounts
    <2>4. QED
      BY <2>1, <2>2, <2>3, SeekAndEndKeepsRInv
  <1>6. CASE Republish(c, p)
    <2>1. /\ co[c][p].pc = "publish" /\ Republished(c, p) /\ Advance(c, p)
          /\ UNCHANGED <<succeeded, clock>>
      BY <1>6 DEF Republish, Advance, env
    <2>2. PICK o \in Nat : o = co[c][p].cur /\ o \in Safe[p] /\ o < Len(log[p])
      BY <2>1, CurrentMessage
    <2>3. Grows /\ DealtWith(p, o)'
      BY <2>1, <2>2, RepublishedGrows
    <2>4. o + 1 \in Safe'[p]
      BY <2>2, <2>3, SafeMoves DEF RInv
    <2>5. QED
      BY <2>1, <2>2, <2>3, <2>4, AdvanceKeepsRInv
  <1>7. CASE RepublishRaises(c, p)
    <2>1. /\ co[c][p].pc = "publish" /\ SeekAndEnd(c, p, 0) /\ Fault
          /\ Republished(c, p) \/ UNCHANGED <<log, dlq>>
          /\ UNCHANGED <<clock, poison, committed, succeeded>>
      BY <1>7 DEF RepublishRaises, env
    <2>2. Grows
      <3>1. PICK o \in Nat : o = co[c][p].cur
        BY <2>1, CurrentMessage
      <3>2. QED
        BY <1>1, <2>1, <3>1, RepublishedGrows, NoGrowth
    <2>3. faults' \in Nat /\ (faults' = 0 => faults = 0)
      BY <2>1, FaultCounts
    <2>4. QED
      BY <2>1, <2>2, <2>3, SeekAndEndKeepsRInv
  <1>8. QED
    BY <1>2, <1>3, <1>4, <1>5, <1>6, <1>7

\* The initial log and the committed offsets satisfy the invariant.
LEMMA InitRInv == Init => RInv
  <1> SUFFICES ASSUME Init PROVE RInv
    OBVIOUS
  <1>1. /\ log = InitialLog /\ log \in [Partitions -> Seq(Message)]
        /\ \A p \in Partitions : Len(log[p]) \in Nat /\ DOMAIN log[p] = 1..Len(log[p])
    BY LogAssumption DEF Init
  <1>2. TypeOK
    <2>1. co \in [Consumers -> [Partitions -> Coroutine]]
      BY IdleType DEF Init
    <2>2. dlq \in Seq(Message) /\ poison \subseteq MayBePoison /\ succeeded \subseteq Partitions \X Nat
      BY DEF Init
    <2>3. paused_until \in [Consumers -> [Partitions -> Nat]]
      BY DEF Init
    <2>4. QED
      BY <1>1, <2>1, <2>2, <2>3 DEF Init, TypeOK
  <1>3. HeadersSound /\ SucceededInLog
    BY <1>1, HeaderAssumption DEF Init, HeadersSound, SucceededInLog
  <1>4. CommittedSafe
    <2>1. \A p \in Partitions : 0 \in Safe[p]
      BY <1>1 DEF Safe
    <2>2. QED
      BY <2>1 DEF CommittedSafe, Init
  <1>5. /\ \A c \in Consumers : \A p \in Partitions : co[c][p] = Idle /\ paused_until[c][p] = 0
        /\ \A p \in Partitions : owner[p] = NoConsumer
    BY DEF Init
  <1>6. CoroutinesSafe
    BY <1>5, IdleType DEF CoroutinesSafe, CoroutineSafe
  <1>7. PositionsSafe /\ PauseWaitsForItsMessage /\ PausedIsQuiet
    BY <1>5, PartitionAssumption
       DEF PositionsSafe, PositionSafe, PauseWaitsForItsMessage, PausedIsQuiet
  <1>8. QuietBeforeFaults
    BY <1>5, IdleType, PartitionAssumption DEF QuietBeforeFaults, OneAssignment, InStep
  <1>9. QED
    BY <1>2, <1>3, <1>4, <1>6, <1>7, <1>8 DEF RInv

\* Time passes, a process starts again, or nothing happens.
LEMMA IdleStepKeepsRInv ==
    ASSUME RInv, \/ Tick \/ UNCHANGED vars
                 \/ \E c \in Consumers : Restart(c)
    PROVE  RInv'
  <1> USE DEF RInv
  <1>1. /\ UNCHANGED <<log, committed, dlq, owner, position, paused, paused_until, co,
                       succeeded, poison, faults>>
        /\ clock' \in Nat /\ clock <= clock'
        /\ phase' \in [Consumers -> {"poll", "gather", "down"}]
        /\ \A c \in Consumers : phase'[c] = phase[c] \/ phase[c] = "down"
    <2>1. CASE Tick \/ UNCHANGED vars
      BY <2>1 DEF TypeOK, Tick, vars, env, kafka, client, process
    <2>2. CASE \E c \in Consumers : Restart(c)
      BY <2>2 DEF TypeOK, Restart, env, kafka, client
    <2>3. QED
      BY <2>1, <2>2
  <1>2. Grows
    BY <1>1, NoGrowth
  <1>3. TypeOK'
    BY <1>1, <1>2 DEF TypeOK, Grows
  <1>4. CommittedSafe'
    BY <1>1, <1>2 DEF CommittedSafe, Grows
  <1>5. CoroutinesSafe'
    <2> SUFFICES ASSUME NEW c \in Consumers, NEW p \in Partitions PROVE CoroutineSafe(c, p)'
      BY DEF CoroutinesSafe
    <2>1. phase[c] = "down" => co[c][p].pc = "idle"
      BY DEF CoroutinesSafe, CoroutineSafe
    <2>2. QED
      BY <1>1, <1>2, <2>1, CoroutineKept
  <1>6. PositionsSafe'
    <2> SUFFICES ASSUME NEW p \in Partitions, owner[p] \in Consumers PROVE PositionSafe(p)'
      BY <1>1 DEF PositionsSafe, PositionSafe
    <2>1. phase[owner[p]] # "down"
      BY DEF PositionsSafe, PositionSafe
    <2>2. QED
      BY <1>1, <1>2, <2>1, PositionKept
  <1>7. PauseWaitsForItsMessage'
    BY <1>1, <1>2, PauseKept DEF PauseWaitsForItsMessage
  <1>8. PausedIsQuiet'
    BY <1>1 DEF PausedIsQuiet
  <1>9. QuietBeforeFaults'
    BY <1>1 DEF QuietBeforeFaults, OneAssignment, InStep
  <1>10. QED
    BY <1>2, <1>3, <1>4, <1>5, <1>6, <1>7, <1>8, <1>9 DEF Grows

\* A new generation of the group: the positions start at the committed offsets.
LEMMA AssignmentKeepsRInv ==
    ASSUME RInv, Assign \/ Rebalance
    PROVE  RInv'
  <1> USE DEF RInv
  <1>1. /\ UNCHANGED <<clock, poison, log, committed, dlq, phase, paused_until, co, succeeded>>
        /\ position' = [p \in Partitions |-> committed[p]]
        /\ paused' = [p \in Partitions |-> FALSE]
        /\ faults' = faults \/ Fault
    BY DEF Assign, Rebalance, NewAssignment, StartPosition, env, kafka, process
  <1>2. /\ owner' \in [Partitions -> Consumers \cup {NoConsumer}]
        /\ \A p \in Partitions : owner'[p] \in Consumers => phase[owner'[p]] # "down"
    <2>1. CASE Assign
      <3>1. PICK c \in Live : owner' = [p \in Partitions |->
                                   IF owner[p] = NoConsumer THEN c ELSE owner[p]]
        BY <2>1 DEF Assign
      <3>2. c \in Consumers /\ phase[c] # "down"
        BY DEF Live
      <3>3. \A p \in Partitions : owner[p] \in Consumers => phase[owner[p]] # "down"
        BY DEF PositionsSafe, PositionSafe
      <3>4. QED
        BY <3>1, <3>2, <3>3 DEF TypeOK
    <2>2. CASE Rebalance
      BY <2>2 DEF Rebalance, Live
    <2>3. QED
      BY <2>1, <2>2
  <1>3. clock \in Nat /\ faults' \in Nat /\ (faults' = 0 => faults' = faults /\ Assign)
    <2>1. Rebalance => Fault
      BY DEF Rebalance
    <2>2. QED
      BY <1>1, <2>1, FaultCounts DEF TypeOK
  <1>4. Grows
    BY <1>1, <1>3, NoGrowth
  <1>5. TypeOK'
    BY <1>1, <1>2, <1>3, <1>4 DEF TypeOK, Grows
  <1>6. CommittedSafe'
    BY <1>1, <1>4 DEF CommittedSafe, Grows
  <1>7. CoroutinesSafe'
    BY <1>1, <1>4, CoroutineKept DEF CoroutinesSafe
  <1>8. PositionsSafe'
    <2>1. \A p \in Partitions : position'[p] \in Safe'[p]
      BY <1>1, <1>4 DEF CommittedSafe, Grows
    <2>2. QED
      BY <1>1, <1>2, <2>1 DEF PositionsSafe, PositionSafe
  <1>9. PauseWaitsForItsMessage' /\ PausedIsQuiet'
    BY <1>1 DEF PauseWaitsForItsMessage, PausedIsQuiet
  <1>10. QuietBeforeFaults'
    <2> SUFFICES ASSUME faults' = 0
                 PROVE  OneAssignment' /\ \A c \in Consumers : \A p \in Partitions : InStep(c, p)'
      BY DEF QuietBeforeFaults
    <2>1. faults = 0 /\ Assign
      BY <1>3
    <2>2. OneAssignment /\ \A c \in Consumers : \A p \in Partitions : InStep(c, p)
      BY <2>1 DEF QuietBeforeFaults
    <2>3. \A p \in Partitions : owner[p] = NoConsumer
      BY <2>1, <2>2, PartitionAssumption DEF Assign, OneAssignment
    <2>4. \A c \in Consumers : \A p \in Partitions : co[c][p].pc = "idle" /\ paused_until[c][p] = 0
      BY <2>2, <2>3, PartitionAssumption DEF InStep
    <2>5. OneAssignment'
      BY <2>1, <2>3 DEF Assign, OneAssignment, Live
    <2>6. QED
      BY <1>1, <2>4, <2>5 DEF InStep
  <1>11. QED
    BY <1>4, <1>5, <1>6, <1>7, <1>8, <1>9, <1>10 DEF Grows

\* What _resume_due_partitions leaves of the pauses.
LEMMA ResumeLeaves ==
    ASSUME RInv, NEW c \in Consumers, Resume(c)
    PROVE  /\ paused' \in [Partitions -> BOOLEAN]
           /\ paused_until' \in [Consumers -> [Partitions -> Nat]]
           /\ \A d \in Consumers \ {c} : paused_until'[d] = paused_until[d]
           /\ \A p \in Partitions :
                /\ paused_until'[c][p] \in {0, paused_until[c][p]}
                /\ paused'[p] => paused[p] /\ paused_until'[c][p] = paused_until[c][p]
  <1> DEFINE f == [p \in Partitions |-> IF p \in DueEntries(c) THEN 0 ELSE paused_until[c][p]]
  <1>1. /\ paused_until' = [paused_until EXCEPT ![c] = f]
        /\ paused' = [p \in Partitions |-> paused[p] /\ p \notin DueEntries(c)]
    BY DEF Resume, RInv, TypeOK
  <1>2. /\ paused_until \in [Consumers -> [Partitions -> Nat]]
        /\ paused \in [Partitions -> BOOLEAN]
    BY DEF RInv, TypeOK
  <1>3. f \in [Partitions -> Nat]
    BY <1>2
  <1>4. paused_until'[c] = f /\ \A d \in Consumers \ {c} : paused_until'[d] = paused_until[d]
    BY <1>1, <1>2
  <1>5. paused_until' \in [Consumers -> [Partitions -> Nat]]
    <2> HIDE DEF f
    <2>1. QED
      BY <1>1, <1>2, <1>3
  <1>6. paused' \in [Partitions -> BOOLEAN]
    BY <1>1, <1>2
  <1>7. QED
    BY <1>1, <1>4, <1>5, <1>6

\* Entries are popped and partitions resumed; polling, phase and coroutines as
\* the hypotheses say.
LEMMA PauseStaysSound ==
    ASSUME RInv, Grows, NEW c \in Consumers, Resume(c), NEW p \in Partitions,
           owner' = owner, paused'[p] => position'[p] = position[p],
           paused'[p] /\ owner[p] \in Consumers => co'[owner[p]][p].pc \in {"idle", "done"}
    PROVE  PauseSound(p)'
  <1> SUFFICES ASSUME owner[p] \in Consumers, paused'[p]  PROVE PauseSound(p)'
    BY DEF PauseSound
  <1>1. paused[p] /\ paused_until'[owner[p]][p] = paused_until[owner[p]][p]
    BY ResumeLeaves
  <1>2. QED
    BY <1>1, PauseKept DEF PauseSound

\* An empty poll resumes the partitions that are due and moves no position.
LEMMA PollNothingKeepsRInv ==
    ASSUME RInv, NEW c \in Consumers, PollNothing(c)
    PROVE  RInv'
  <1> USE DEF RInv
  <1>1. /\ Resume(c) /\ clock \in Nat
        /\ UNCHANGED <<clock, poison, log, committed, dlq, owner, position, phase, co,
                       succeeded, faults>>
    BY DEF PollNothing, env, kafka, TypeOK
  <1>2. Grows
    BY <1>1, NoGrowth
  <1>3. TypeOK'
    BY <1>1, <1>2, ResumeLeaves DEF TypeOK, Grows
  <1>4. CommittedSafe'
    BY <1>1, <1>2 DEF CommittedSafe, Grows
  <1>5. CoroutinesSafe'
    BY <1>1, <1>2, CoroutineKept DEF CoroutinesSafe
  <1>6. PositionsSafe'
    <2> SUFFICES ASSUME NEW p \in Partitions, owner[p] \in Consumers PROVE PositionSafe(p)'
      BY <1>1 DEF PositionsSafe, PositionSafe
    <2>1. QED
      BY <1>1, <1>2, PositionKept
  <1>7. PauseWaitsForItsMessage' /\ PausedIsQuiet'
    <2> SUFFICES ASSUME NEW p \in Partitions  PROVE PauseSound(p)'
      BY PausesSoundPrimed
    <2>1. paused'[p] /\ owner[p] \in Consumers => co'[owner[p]][p].pc \in {"idle", "done"}
      BY <1>1, ResumeLeaves DEF PausedIsQuiet
    <2>2. QED
      BY <1>1, <1>2, <2>1, PauseStaysSound
  <1>8. QuietBeforeFaults'
    <2> SUFFICES ASSUME faults = 0
                 PROVE  OneAssignment' /\ \A d \in Consumers : \A p \in Partitions : InStep(d, p)'
      BY <1>1 DEF QuietBeforeFaults
    <2>1. OneAssignment /\ \A d \in Consumers : \A p \in Partitions : InStep(d, p)
      BY DEF QuietBeforeFaults
    <2>2. OneAssignment'
      BY <1>1, <2>1 DEF OneAssignment
    <2>3. ASSUME NEW d \in Consumers, NEW p \in Partitions  PROVE InStep(d, p)'
      <3>1. paused_until'[d][p] # 0 => paused_until[d][p] # 0
        BY <1>1, ResumeLeaves
      <3>2. QED
        BY <1>1, <2>1, <3>1 DEF InStep
    <2>4. QED
      BY <2>2, <2>3
  <1>9. QED
    BY <1>2, <1>3, <1>4, <1>5, <1>6, <1>7, <1>8 DEF Grows

\* getmany: a coroutine starts for each partition that was polled.
LEMMA PollKeepsRInv ==
    ASSUME RInv, NEW c \in Consumers, Poll(c)
    PROVE  RInv'
  <1> USE DEF RInv
  <1>1. /\ phase[c] = "poll" /\ Resume(c) /\ clock \in Nat
        /\ phase' = [phase EXCEPT ![c] = "gather"]
        /\ UNCHANGED <<clock, poison, log, committed, dlq, owner, succeeded, faults>>
    BY DEF Poll, env, kafka, TypeOK
  <1>2. PICK e \in [Partitions -> 0..MaxRecords] :
          /\ \A p \in Partitions : e[p] > 0 =>
                owner[p] = c /\ ~paused'[p] /\ position[p] + e[p] <= Len(log[p])
          /\ position' = [p \in Partitions |-> position[p] + e[p]]
          /\ co' = [co EXCEPT ![c] = [p \in Partitions |->
                IF e[p] = 0 THEN Idle
                ELSE [Idle EXCEPT !.pc = "next", !.cur = position[p],
                                  !.end = position[p] + e[p]]]]
    BY DEF Poll
  <1>3. Grows
    BY <1>1, NoGrowth
  <1>4. \A p \in Partitions : /\ e[p] \in Nat /\ position[p] \in Nat /\ Len(log[p]) \in Nat
                              /\ position'[p] = position[p] + e[p]
    <2>1. \A p \in Partitions : e[p] \in 0..MaxRecords
      OBVIOUS
    <2>2. \A p \in Partitions : e[p] \in Nat
      BY <2>1, RunnerAssumption
    <2>3. \A p \in Partitions : position'[p] = position[p] + e[p]
      BY <1>2, Zenon
    <2>4. QED
      BY <2>2, <2>3, Parts
  <1>5. /\ \A d \in Consumers \ {c} : co'[d] = co[d] /\ phase'[d] = phase[d]
        /\ phase'[c] = "gather"
        /\ \A p \in Partitions :
              /\ e[p] = 0 => co'[c][p] = Idle /\ position'[p] = position[p]
              /\ e[p] # 0 => /\ co'[c][p].pc = "next" /\ co'[c][p].cur = position[p]
                             /\ co'[c][p].end = position[p] + e[p]
                             /\ co'[c][p].commit_offset = 0
                             /\ e[p] > 0 /\ owner[p] = c /\ ~paused'[p]
                             /\ position[p] < position[p] + e[p]
                             /\ position[p] + e[p] <= Len(log[p])
    <2>1. \A d \in Consumers \ {c} : co'[d] = co[d] /\ phase'[d] = phase[d]
      BY <1>1, <1>2 DEF TypeOK
    <2>2. phase'[c] = "gather"
      BY <1>1 DEF TypeOK
    <2>3. \A p \in Partitions : co'[c][p] =
                IF e[p] = 0 THEN Idle
                ELSE [Idle EXCEPT !.pc = "next", !.cur = position[p], !.end = position[p] + e[p]]
      BY <1>2 DEF TypeOK
    <2>4. ASSUME NEW p \in Partitions, e[p] # 0
          PROVE  /\ co'[c][p].pc = "next" /\ co'[c][p].cur = position[p]
                 /\ co'[c][p].end = position[p] + e[p] /\ co'[c][p].commit_offset = 0
      BY <2>3, <2>4 DEF Idle
    <2>5. ASSUME NEW p \in Partitions, e[p] # 0
          PROVE  /\ e[p] > 0 /\ owner[p] = c /\ ~paused'[p]
                 /\ position[p] < position[p] + e[p] /\ position[p] + e[p] <= Len(log[p])
      <3>1. e[p] > 0
        BY <1>4, <2>5
      <3>2. owner[p] = c /\ ~paused'[p] /\ position[p] + e[p] <= Len(log[p])
        BY <1>2, <3>1, Zenon
      <3>3. position[p] < position[p] + e[p]
        BY <1>4, <3>1
      <3>4. QED
        BY <3>1, <3>2, <3>3
    <2>6. ASSUME NEW p \in Partitions, e[p] = 0
          PROVE  co'[c][p] = Idle /\ position'[p] = position[p]
      <3>1. co'[c][p] = Idle
        BY <2>3, <2>6
      <3>2. position'[p] = position[p] + e[p] /\ position[p] \in Nat
        BY <1>4
      <3>3. position'[p] = position[p]
        BY <2>6, <3>2
      <3>4. QED
        BY <3>1, <3>3
    <2>7. QED
      BY <2>1, <2>2, <2>4, <2>5, <2>6
  <1>6. TypeOK'
    <2>1. position' \in [Partitions -> Nat]
      <3>1. \A p \in Partitions : position[p] + e[p] \in Nat
        BY <1>4
      <3>2. position' = [p \in Partitions |-> position[p] + e[p]]
        BY <1>2
      <3>3. QED
        BY <3>1, <3>2, Zenon
    <2>2. co' \in [Consumers -> [Partitions -> Coroutine]]
      <3>1. \A p \in Partitions :
               (IF e[p] = 0 THEN Idle
                ELSE [Idle EXCEPT !.pc = "next", !.cur = position[p],
                                  !.end = position[p] + e[p]]) \in Coroutine
        <4> TAKE p \in Partitions
        <4>1. position[p] \in Nat /\ position[p] + e[p] \in Nat
          BY <1>4
        <4>2. [Idle EXCEPT !.pc = "next", !.cur = position[p], !.end = position[p] + e[p]]
                \in Coroutine
          BY <4>1 DEF Idle, Coroutine
        <4>3. QED
          BY <4>2, IdleType
      <3>2. QED
        BY <1>2, <3>1 DEF TypeOK
    <2>3. phase' \in [Consumers -> {"poll", "gather", "down"}]
      BY <1>1 DEF TypeOK
    <2>4. QED
      BY <1>1, <1>3, <2>1, <2>2, <2>3, ResumeLeaves DEF TypeOK, Grows
  <1>7. \A p \in Partitions : co[c][p] = Idle /\ co[c][p].pc = "idle"
    BY <1>1, IdleType DEF CoroutinesSafe, CoroutineSafe
  <1>8. \A p \in Partitions : owner[p] = c => position[p] \in Safe[p]
    BY <1>7 DEF PositionsSafe, PositionSafe
  <1>9. \A p \in Partitions : Safe[p] \subseteq Safe'[p]
    BY <1>3 DEF Grows
  <1>10. CommittedSafe'
    BY <1>1, <1>3 DEF CommittedSafe, Grows
  <1>11. CoroutinesSafe'
    <2> SUFFICES ASSUME NEW d \in Consumers, NEW p \in Partitions PROVE CoroutineSafe(d, p)'
      BY DEF CoroutinesSafe
    <2>1. CASE d # c
      BY <1>3, <1>5, <2>1, CoroutineKept
    <2>2. CASE d = c /\ e[p] = 0
      BY <1>5, <2>2, IdleIsSafe
    <2>3. CASE d = c /\ e[p] # 0
      <3>1. co'[c][p].cur \in Safe'[p]
        BY <1>5, <1>8, <1>9, <2>3
      <3>2. co'[c][p].cur < co'[c][p].end /\ co'[c][p].cur <= co'[c][p].end
        BY <1>4, <1>5, <2>3
      <3>3. co'[c][p].end <= Len(log'[p])
        BY <1>1, <1>5, <2>3
      <3>4. QED
        BY <1>5, <2>3, <3>1, <3>2, <3>3 DEF CoroutineSafe
    <2>4. QED
      BY <2>1, <2>2, <2>3
  <1>12. PositionsSafe'
    <2> SUFFICES ASSUME NEW p \in Partitions, owner[p] \in Consumers PROVE PositionSafe(p)'
      BY <1>1 DEF PositionsSafe, PositionSafe
    <2>1. CASE owner[p] = c /\ e[p] = 0
      BY <1>1, <1>5, <1>8, <1>9, <2>1 DEF PositionSafe
    <2>2. CASE owner[p] = c /\ e[p] # 0
      BY <1>1, <1>4, <1>5, <2>2 DEF PositionSafe
    <2>3. CASE owner[p] # c
      <3>1. position'[p] = position[p]
        BY <1>5, <2>3
      <3>2. QED
        BY <1>1, <1>3, <1>5, <2>3, <3>1, PositionKept
    <2>4. QED
      BY <2>1, <2>2, <2>3
  <1>13. PauseWaitsForItsMessage' /\ PausedIsQuiet'
    <2> SUFFICES ASSUME NEW p \in Partitions  PROVE PauseSound(p)'
      BY PausesSoundPrimed
    <2>1. paused'[p] => position'[p] = position[p] /\ co'[c][p].pc = "idle"
      BY <1>5, IdleType
    <2>2. paused'[p] /\ owner[p] \in Consumers => co'[owner[p]][p].pc \in {"idle", "done"}
      BY <1>1, <1>5, <2>1, ResumeLeaves DEF PausedIsQuiet
    <2>3. QED
      BY <1>1, <1>3, <2>1, <2>2, PauseStaysSound
  <1>14. QuietBeforeFaults'
    <2> SUFFICES ASSUME faults = 0
                 PROVE  OneAssignment' /\ \A d \in Consumers : \A p \in Partitions : InStep(d, p)'
      BY <1>1 DEF QuietBeforeFaults
    <2>1. OneAssignment /\ \A d \in Consumers : \A p \in Partitions : InStep(d, p)
      BY DEF QuietBeforeFaults
    <2>2. OneAssignment'
      BY <1>1, <2>1 DEF OneAssignment
    <2>3. ASSUME NEW d \in Consumers, NEW p \in Partitions  PROVE InStep(d, p)'
      <3>1. (paused_until'[d][p] # 0 => paused_until[d][p] # 0) /\ InStep(d, p)
        BY <1>1, <2>1, ResumeLeaves
      <3>2. CASE d # c
        <4>1. owner[p] = d => position'[p] = position[p]
          BY <1>5, <3>2
        <4>2. QED
          BY <1>1, <1>5, <3>1, <3>2, <4>1 DEF InStep
      <3>3. CASE d = c /\ e[p] = 0
        BY <1>1, <1>5, <1>7, <3>1, <3>3, IdleType DEF InStep
      <3>4. CASE d = c /\ e[p] # 0
        BY <1>1, <1>4, <1>5, <1>7, <3>1, <3>4 DEF InStep
      <3>5. QED
        BY <3>2, <3>3, <3>4
    <2>4. QED
      BY <2>2, <2>3
  <1>15. QED
    BY <1>3, <1>6, <1>10, <1>11, <1>12, <1>13, <1>14 DEF Grows

\* What is committed was dealt with.
LEMMA NewCommittedSafe ==
    ASSUME RInv, NEW c \in Consumers, NEW p \in Partitions
    PROVE  /\ NewCommitted(c, p) \in Safe[p] /\ NewCommitted(c, p) \in Nat
           /\ p \notin ToCommit(c) => NewCommitted(c, p) = committed[p]
           /\ p \in ToCommit(c) => co[c][p].pc # "idle"
  <1>1. committed[p] \in Safe[p] /\ Safe[p] \subseteq Nat
    BY Parts DEF RInv, CommittedSafe
  <1>2. co[c][p].commit_offset # 0 =>
            co[c][p].pc # "idle" /\ co[c][p].commit_offset \in Safe[p]
    BY IdleType DEF RInv, CoroutinesSafe, CoroutineSafe
  <1>3. QED
    BY <1>1, <1>2 DEF NewCommitted, ToCommit

\* A commit moves the group's offset only past messages that are settled.
LEMMA CommitKeepsRInv ==
    ASSUME RInv, NEW c \in Consumers, Commit(c)
    PROVE  RInv'
  <1> USE DEF RInv
  <1>1. /\ phase[c] = "gather" /\ \A p \in Partitions : co[c][p].pc \in {"idle", "done"}
        /\ \A p \in ToCommit(c) : owner[p] = c
        /\ committed' = [p \in Partitions |-> NewCommitted(c, p)]
        /\ phase' = [phase EXCEPT ![c] = "poll"]
        /\ co' = [co EXCEPT ![c] = [p \in Partitions |-> Idle]]
        /\ UNCHANGED <<clock, poison, log, dlq, owner, position, paused, paused_until,
                       succeeded, faults>>
        /\ clock \in Nat
    BY DEF Commit, GatherDone, env, client, TypeOK
  <1>2. Grows
    BY <1>1, NoGrowth
  <1>3. /\ phase'[c] = "poll" /\ \A p \in Partitions : co'[c][p] = Idle
        /\ \A d \in Consumers \ {c} : phase'[d] = phase[d] /\ co'[d] = co[d]
    BY <1>1 DEF TypeOK
  <1>4. \A p \in Partitions : Safe[p] \subseteq Safe'[p]
    BY <1>2 DEF Grows
  <1>5. TypeOK'
    <2>1. committed' \in [Partitions -> Nat]
      BY <1>1, NewCommittedSafe
    <2>2. co' \in [Consumers -> [Partitions -> Coroutine]]
      BY <1>1, IdleType DEF TypeOK
    <2>3. phase' \in [Consumers -> {"poll", "gather", "down"}]
      BY <1>1 DEF TypeOK
    <2>4. QED
      BY <1>1, <1>2, <2>1, <2>2, <2>3 DEF TypeOK, Grows
  <1>6. CommittedSafe'
    BY <1>1, <1>4, NewCommittedSafe DEF CommittedSafe
  <1>7. CoroutinesSafe'
    <2> SUFFICES ASSUME NEW d \in Consumers, NEW p \in Partitions PROVE CoroutineSafe(d, p)'
      BY DEF CoroutinesSafe
    <2>1. CASE d = c
      BY <1>3, <2>1, IdleIsSafe
    <2>2. CASE d # c
      BY <1>2, <1>3, <2>2, CoroutineKept
    <2>3. QED
      BY <2>1, <2>2
  <1>8. PositionsSafe'
    <2> SUFFICES ASSUME NEW p \in Partitions, owner[p] \in Consumers PROVE PositionSafe(p)'
      BY <1>1 DEF PositionsSafe, PositionSafe
    <2>1. CASE owner[p] = c
      <3>1. position[p] \in Safe[p]
        BY <1>1, <2>1 DEF PositionsSafe, PositionSafe
      <3>2. QED
        BY <1>1, <1>3, <1>4, <2>1, <3>1 DEF PositionSafe
    <2>2. CASE owner[p] # c
      BY <1>1, <1>2, <1>3, <2>2, PositionKept
    <2>3. QED
      BY <2>1, <2>2
  <1>9. PauseWaitsForItsMessage'
    BY <1>1, <1>2, PauseKept DEF PauseWaitsForItsMessage
  <1>10. PausedIsQuiet'
    BY <1>1, <1>3, IdleType DEF PausedIsQuiet
  <1>11. QuietBeforeFaults'
    <2> SUFFICES ASSUME faults = 0
                 PROVE  OneAssignment' /\ \A d \in Consumers : \A p \in Partitions : InStep(d, p)'
      BY <1>1 DEF QuietBeforeFaults
    <2>1. OneAssignment /\ \A d \in Consumers : \A p \in Partitions : InStep(d, p)
      BY DEF QuietBeforeFaults
    <2>2. OneAssignment'
      BY <1>1, <2>1 DEF OneAssignment
    <2>3. ASSUME NEW d \in Consumers, NEW p \in Partitions  PROVE InStep(d, p)'
      <3>1. InStep(d, p) /\ committed'[p] = NewCommitted(c, p)
        BY <1>1, <2>1
      <3>2. CASE d # c
        <4>1. owner[p] = d => committed'[p] = committed[p]
          BY <1>1, <3>1, <3>2, NewCommittedSafe
        <4>2. QED
          BY <1>1, <1>3, <3>1, <3>2, <4>1 DEF InStep
      <3>3. CASE d = c
        <4>1. owner[p] = c => position[p] = NewCommitted(c, p)
          <5>1. CoroutineSafe(c, p)
            BY DEF CoroutinesSafe
          <5>2. CASE co[c][p].pc = "idle"
            BY <3>1, <3>3, <5>1, <5>2, IdleType DEF InStep, CoroutineSafe, NewCommitted
          <5>3. CASE co[c][p].pc = "done"
            BY <3>1, <3>3, <5>1, <5>3 DEF InStep, CoroutineSafe, NewCommitted
          <5>4. QED
            BY <1>1, <5>2, <5>3
        <4>2. QED
          BY <1>1, <1>3, <3>1, <3>3, <4>1, IdleType DEF InStep
      <3>4. QED
        BY <3>2, <3>3
    <2>4. QED
      BY <2>2, <2>3
  <1>12. QED
    BY <1>2, <1>5, <1>6, <1>7, <1>8, <1>9, <1>10, <1>11 DEF Grows

\* The ends of a process between its coroutines' steps.
LEMMA EndKeepsRInv ==
    ASSUME RInv, NEW c \in Consumers, ResumeRaises(c) \/ CommitRaises(c) \/ Crash(c)
    PROVE  RInv'
  <1>1. /\ Stop(c) /\ clock \in Nat
        /\ UNCHANGED <<clock, poison, log, dlq, succeeded>>
    BY DEF ResumeRaises, CommitRaises, Crash, env, kafka, RInv, TypeOK
  <1>2. Grows
    BY <1>1, NoGrowth
  <1>3. committed \in [Partitions -> Nat] /\ \A p \in Partitions : committed[p] \in Safe'[p]
    BY <1>2 DEF RInv, TypeOK, CommittedSafe, Grows
  <1>4. CASE ResumeRaises(c)
    <2>1. committed' = committed /\ faults' = faults
      BY <1>4 DEF ResumeRaises, kafka
    <2>2. PICK p \in Partitions : paused_until[c][p] # 0 /\ owner[p] # c
      BY <1>4 DEF ResumeRaises, DueEntries
    <2>3. faults # 0
      BY <2>2, StrayNeedsAFault
    <2>4. faults' \in Nat
      BY <2>1, FaultCounts
    <2>5. QED
      BY <1>1, <1>2, <1>3, <2>1, <2>3, <2>4, StopKeepsRInv
  <1>5. CASE CommitRaises(c)
    <2>1. committed' = committed \/ committed' = [p \in Partitions |-> NewCommitted(c, p)]
      BY <1>5 DEF CommitRaises
    <2>2. committed' \in [Partitions -> Nat] /\ \A p \in Partitions : committed'[p] \in Safe'[p]
      <3>1. \A p \in Partitions : NewCommitted(c, p) \in Nat /\ NewCommitted(c, p) \in Safe'[p]
        BY <1>2, NewCommittedSafe DEF Grows
      <3>2. QED
        BY <1>3, <2>1, <3>1
    <2>3. faults' \in Nat /\ faults' # 0
      <3>1. CASE Fault
        BY <3>1, FaultCounts
      <3>2. CASE ~Fault
        <4>1. PICK p \in ToCommit(c) : owner[p] # c
          BY <1>5, <3>2 DEF CommitRaises
        <4>2. faults' = faults
          BY <1>5, <3>2 DEF CommitRaises
        <4>3. p \in Partitions /\ co[c][p].pc # "idle"
          BY NewCommittedSafe DEF ToCommit
        <4>4. QED
          BY <4>1, <4>2, <4>3, StrayNeedsAFault, FaultCounts
      <3>3. QED
        BY <3>1, <3>2
    <2>4. QED
      BY <1>1, <1>2, <2>2, <2>3, StopKeepsRInv
  <1>6. CASE Crash(c)
    <2>1. committed' = committed /\ Fault
      BY <1>6 DEF Crash, kafka
    <2>2. QED
      BY <1>1, <1>2, <1>3, <2>1, FaultCounts, StopKeepsRInv
  <1>7. QED
    BY <1>4, <1>5, <1>6

\* Every step of a consumer, every rebalance and the clock keep the invariant.
LEMMA NextRInv == RInv /\ [Next]_vars => RInv'
  <1> SUFFICES ASSUME RInv, [Next]_vars PROVE RInv'
    OBVIOUS
  <1>1. ASSUME NEW c \in Consumers, Poll(c)  PROVE RInv'
    BY <1>1, PollKeepsRInv
  <1>2. ASSUME NEW c \in Consumers, PollNothing(c)  PROVE RInv'
    BY <1>2, PollNothingKeepsRInv
  <1>3. ASSUME NEW c \in Consumers, Commit(c)  PROVE RInv'
    BY <1>3, CommitKeepsRInv
  <1>4. ASSUME NEW c \in Consumers, ResumeRaises(c) \/ CommitRaises(c) \/ Crash(c)  PROVE RInv'
    BY <1>4, EndKeepsRInv
  <1>5. ASSUME NEW c \in Consumers, NEW p \in Partitions, HandleFails(c, p)  PROVE RInv'
    BY <1>5, FailureKeepsRInv
  <1>6. ASSUME NEW c \in Consumers, NEW p \in Partitions,
               \/ Defer(c, p) \/ SkipForeign(c, p) \/ HandleSucceeds(c, p)
               \/ HandleRaises(c, p) \/ Republish(c, p) \/ RepublishRaises(c, p)
        PROVE  RInv'
    BY <1>6, CoroutineKeepsRInv
  <1>7. CASE Assign \/ Rebalance
    BY <1>7, AssignmentKeepsRInv
  <1>8. CASE \/ Tick \/ UNCHANGED vars
             \/ \E c \in Consumers : Restart(c)
    BY <1>8, IdleStepKeepsRInv
  <1>9. QED
    BY <1>1, <1>2, <1>3, <1>4, <1>5, <1>6, <1>7, <1>8 DEF Next

-----------------------------------------------------------------------------
(* The loop implements Delivery.                                           *)

\* The copies that will be delivered (again).
Open == CopiesFrom(committed)

\* They lie at or after the committed offsets.
LEMMA InOpen ==
    ASSUME NEW x
    PROVE  x \in Open <=>
             \E p \in Partitions : \E o \in committed[p]..(Len(log[p]) - 1) :
                ~IsForeign(p, log[p][o + 1]) /\ x = CopyAt(p, o)
  BY DEF Open, CopiesFrom

\* What Delivery sees are the topics, the committed offsets and the history.
LEMMA Stutters ==
    ASSUME UNCHANGED <<clock, log, committed, dlq, succeeded>>
    PROVE  UNCHANGED Abstract!dvars
  <1>1. Copies' = Copies /\ Open' = Open
    BY DEF Copies, Open, CopiesFrom, CopyAt, IsForeign
  <1>2. HandledCopies' = HandledCopies /\ Buried' = Buried
    BY DEF HandledCopies, Buried, CopyAt
  <1>3. QED
    BY <1>1, <1>2 DEF Abstract!dvars, Copies, Open, HandledCopies, Buried

\* At the start the copies are the messages of the log, and all are open.
LEMMA InitDelivers == Init => Abstract!DInit
  <1> SUFFICES ASSUME Init  PROVE Abstract!DInit
    OBVIOUS
  <1> DEFINE C(m) == [id |-> m.id, count |-> m.count, due |-> m.due]
             M(p) == {InitialLog[p][n] : n \in {k \in DOMAIN InitialLog[p] :
                                ~IsForeign(p, InitialLog[p][k])}}
             Orig == {C(m) : m \in UNION {M(p) : p \in Partitions}}
  <1>1. /\ clock = 0 /\ log = InitialLog /\ committed = [p \in Partitions |-> 0]
        /\ dlq = <<>> /\ succeeded = {}
    BY DEF Init
  <1>2. Open = Copies
    BY <1>1 DEF Open, Copies
  <1>3. Copies = Orig
    <2>1. \A p \in Partitions : /\ Len(log[p]) \in Nat
                                /\ DOMAIN InitialLog[p] = 1..Len(log[p])
      BY <1>1, LogAssumption
    <2>2. ASSUME NEW x \in Copies  PROVE x \in Orig
      <3>1. PICK p \in Partitions : \E o \in 0..(Len(log[p]) - 1) :
                ~IsForeign(p, log[p][o + 1]) /\ x = CopyAt(p, o)
        BY <2>2, InCopies
      <3>2. PICK o \in 0..(Len(log[p]) - 1) :
                ~IsForeign(p, log[p][o + 1]) /\ x = CopyAt(p, o)
        BY <3>1
      <3>3. o + 1 \in DOMAIN InitialLog[p]
        BY <2>1
      <3>4. InitialLog[p][o + 1] \in M(p) /\ x = C(InitialLog[p][o + 1])
        BY <1>1, <3>2, <3>3 DEF CopyAt
      <3>5. QED
        BY <3>4
    <2>3. ASSUME NEW x \in Orig  PROVE x \in Copies
      <3>1. PICK p \in Partitions : \E m \in M(p) : x = C(m)
        OBVIOUS
      <3>2. PICK n \in DOMAIN InitialLog[p] :
                ~IsForeign(p, InitialLog[p][n]) /\ x = C(InitialLog[p][n])
        BY <3>1
      <3>3. n - 1 \in 0..(Len(log[p]) - 1) /\ (n - 1) + 1 = n
        BY <2>1
      <3>4. ~IsForeign(p, log[p][(n - 1) + 1]) /\ x = CopyAt(p, n - 1)
        BY <1>1, <3>2, <3>3 DEF CopyAt
      <3>5. QED
        BY <3>3, <3>4, InCopies
    <2>4. QED
      BY <2>2, <2>3
  <1>4. HandledCopies = {} /\ Buried = {}
    BY <1>1 DEF HandledCopies, Buried
  <1>5. QED
    BY <1>1, <1>2, <1>3, <1>4 DEF Abstract!DInit, Open, Copies, HandledCopies, Buried

\* A message a coroutine handles is a copy that Delivery may handle.
LEMMA CurrentIsHandleable ==
    ASSUME RInv, NEW c \in Consumers, NEW p \in Partitions,
           co[c][p].pc \in {"next", "publish"}, ~IsForeign(p, Current(c, p)),
           Current(c, p).due <= clock, NEW o, o = co[c][p].cur
    PROVE  CopyAt(p, o) \in Copies /\ Abstract!Handleable(CopyAt(p, o))
  <1>1. /\ o \in Nat /\ o < Len(log[p]) /\ Len(log[p]) \in Nat
        /\ Current(c, p) = log[p][o + 1]
    BY CurrentMessage
  <1>2. o \in 0..(Len(log[p]) - 1)
    BY <1>1
  <1>3. CopyAt(p, o) \in Copies
    BY <1>1, <1>2, InCopies
  <1>4. CopyAt(p, o).due = Current(c, p).due
    BY <1>1 DEF CopyAt
  <1>5. QED
    BY <1>3, <1>4 DEF Abstract!Handleable, Copies

\* A handler's success is Delivery's Succeed.
LEMMA SuccessDelivers ==
    ASSUME RInv, NEW c \in Consumers, NEW p \in Partitions, HandleSucceeds(c, p)
    PROVE  Abstract!DNext
  <1> PICK o : o = co[c][p].cur
    OBVIOUS
  <1>1. /\ Handles(c, p) /\ succeeded' = succeeded \cup {<<p, o>>}
        /\ UNCHANGED <<clock, log, committed, dlq>>
    BY DEF HandleSucceeds, Advance, env
  <1>2. CopyAt(p, o) \in Copies /\ Abstract!Handleable(CopyAt(p, o))
    BY <1>1, HandledIsDue, CurrentIsHandleable
  <1>3. HandledCopies' = HandledCopies \cup {CopyAt(p, o)}
    <2>1. <<p, o>>[1] = p /\ <<p, o>>[2] = o
      OBVIOUS
    <2>2. HandledCopies' = {CopyAt(d[1], d[2]) : d \in succeeded'}
      BY <1>1 DEF HandledCopies, CopyAt
    <2>3. QED
      BY <1>1, <2>1, <2>2 DEF HandledCopies
  <1>4. Copies' = Copies /\ Open' = Open /\ Buried' = Buried
    BY <1>1 DEF Copies, Open, Buried, CopiesFrom, CopyAt, IsForeign
  <1>5. Abstract!Succeed(CopyAt(p, o))
    BY <1>1, <1>2, <1>3, <1>4 DEF Abstract!Succeed, Copies, Open, HandledCopies, Buried
  <1>6. QED
    BY <1>2, <1>5 DEF Abstract!DNext, Copies

\* Delivery's Settle: what is no longer delivered is accounted for.
LEMMA CommitDelivers ==
    ASSUME RInv, RInv', UNCHANGED <<clock, log, dlq, succeeded>>
    PROVE  Abstract!DNext
  <1>1. /\ Copies' = Copies /\ HandledCopies' = HandledCopies /\ Buried' = Buried
    BY DEF Copies, HandledCopies, Buried, CopiesFrom, CopyAt, IsForeign
  <1>2. \A p \in Partitions : /\ committed[p] \in Nat /\ Len(log[p]) \in Nat
                              /\ committed'[p] \in Nat /\ committed'[p] \in Safe'[p]
    BY Parts DEF RInv, CommittedSafe, TypeOK
  <1>3. Open' = CopiesFrom(committed')
    BY DEF Open, CopiesFrom, CopyAt, IsForeign
  <1>4. Open' \subseteq Copies
    <2> SUFFICES ASSUME NEW x \in Open'  PROVE x \in Copies
      OBVIOUS
    <2>1. PICK p \in Partitions : \E o \in committed'[p]..(Len(log[p]) - 1) :
              ~IsForeign(p, log[p][o + 1]) /\ x = CopyAt(p, o)
      BY <1>3 DEF CopiesFrom
    <2>2. \A o \in committed'[p]..(Len(log[p]) - 1) : o \in 0..(Len(log[p]) - 1)
      BY <1>2
    <2>3. QED
      BY <2>1, <2>2, InCopies
  <1>5. ASSUME NEW x \in Open \ Open'  PROVE Abstract!AccountedFor(x)
    <2>1. PICK p \in Partitions : \E o \in committed[p]..(Len(log[p]) - 1) :
              ~IsForeign(p, log[p][o + 1]) /\ x = CopyAt(p, o)
      BY <1>5, InOpen
    <2>2. PICK o \in committed[p]..(Len(log[p]) - 1) :
              ~IsForeign(p, log[p][o + 1]) /\ x = CopyAt(p, o)
      BY <2>1
    <2>3. o \notin committed'[p]..(Len(log[p]) - 1)
      BY <1>3, <1>5, <2>2 DEF CopiesFrom
    <2>4. o \in 0..(committed'[p] - 1)
      BY <1>2, <2>3
    <2>5. Safe' = Safe
      BY DEF Safe, DealtWith, Abstract!AccountedFor, CopiesFrom, CopyAt, IsForeign
    <2>6. DealtWith(p, o)
      BY <1>2, <2>4, <2>5 DEF Safe
    <2>7. QED
      BY <2>2, <2>6 DEF DealtWith
  <1>6. Abstract!Settle
    BY <1>1, <1>4, <1>5 DEF Abstract!Settle, Copies, Open, HandledCopies, Buried
  <1>7. QED
    BY <1>6 DEF Abstract!DNext

\* One message is appended: the copies from any offsets on gain its copy.
LEMMA AppendedCopies ==
    ASSUME TypeOK, Grows, NEW q \in Partitions, NEW n \in Nat, n = Len(log[q]),
           Len(log'[q]) = n + 1, \A l \in Partitions \ {q} : log'[l] = log[l],
           ~IsForeign(q, log'[q][n + 1]), NEW y, y = CopyAt(q, n)',
           NEW from \in [Partitions -> Nat], \A l \in Partitions : from[l] <= Len(log[l])
    PROVE  CopiesFrom(from)' = CopiesFrom(from) \cup {y}
  <1> DEFINE In(l, o) == o \in from[l]..(Len(log[l]) - 1)
  <1>1. \A l \in Partitions : /\ from[l] \in Nat /\ Len(log[l]) \in Nat
                              /\ Len(log'[l]) \in Nat /\ Len(log[l]) <= Len(log'[l])
    BY DEF TypeOK, Grows
  <1>2. ASSUME NEW l \in Partitions, NEW o, In(l, o)
        PROVE  /\ o \in from[l]..(Len(log'[l]) - 1) /\ CopyAt(l, o)' = CopyAt(l, o)
               /\ IsForeign(l, log'[l][o + 1]) <=> IsForeign(l, log[l][o + 1])
    <2>1. o + 1 \in 1..Len(log[l]) /\ o \in from[l]..(Len(log'[l]) - 1)
      BY <1>1, <1>2
    <2>2. log'[l][o + 1] = log[l][o + 1]
      BY <2>1 DEF Grows
    <2>3. QED
      BY <2>1, <2>2 DEF CopyAt
  <1>3. ASSUME NEW l \in Partitions, NEW o, o \in from[l]..(Len(log'[l]) - 1), ~In(l, o)
        PROVE  l = q /\ o = n
    <2>1. l = q
      BY <1>3
    <2>2. QED
      BY <1>1, <1>3, <2>1
  <1>4. n \in from[q]..(Len(log'[q]) - 1)
    BY <1>1
  <1>5. \A z : z \in CopiesFrom(from)' <=>
           \E l \in Partitions : \E o \in from[l]..(Len(log'[l]) - 1) :
              ~IsForeign(l, log'[l][o + 1]) /\ z = CopyAt(l, o)'
    BY DEF CopiesFrom
  <1>6. \A z : z \in CopiesFrom(from) <=>
           \E l \in Partitions : \E o : In(l, o) /\ ~IsForeign(l, log[l][o + 1])
                                                 /\ z = CopyAt(l, o)
    BY DEF CopiesFrom
  <1> HIDE DEF In
  <1>7. ASSUME NEW z \in CopiesFrom(from)'  PROVE z \in CopiesFrom(from) \cup {y}
    <2>1. PICK l \in Partitions : \E o \in from[l]..(Len(log'[l]) - 1) :
              ~IsForeign(l, log'[l][o + 1]) /\ z = CopyAt(l, o)'
      BY <1>5, <1>7
    <2>2. PICK o \in from[l]..(Len(log'[l]) - 1) :
              ~IsForeign(l, log'[l][o + 1]) /\ z = CopyAt(l, o)'
      BY <2>1
    <2>3. CASE In(l, o)
      BY <1>2, <1>6, <2>2, <2>3
    <2>4. CASE ~In(l, o)
      BY <1>3, <2>2, <2>4
    <2>5. QED
      BY <2>3, <2>4
  <1>8. ASSUME NEW z \in CopiesFrom(from)  PROVE z \in CopiesFrom(from)'
    BY <1>2, <1>5, <1>6, <1>8
  <1>9. y \in CopiesFrom(from)'
    BY <1>4, <1>5
  <1>10. QED
    BY <1>7, <1>8, <1>9

\* A retry or a dead letter that reaches Kafka is Delivery's PassOn or Bury,
\* of a copy that was due when its handler failed.
LEMMA RepublishedDelivers ==
    ASSUME RInv, NEW c \in Consumers, NEW p \in Partitions, co[c][p].pc = "publish",
           Republished(c, p), UNCHANGED <<clock, committed, succeeded>>
    PROVE  Abstract!DNext
  <1> PICK o : o = co[c][p].cur
    OBVIOUS
  <1> DEFINE m == log[p][o + 1]
             x == CopyAt(p, o)
  <1>1. /\ o \in Nat /\ Current(c, p) = m /\ m \in Message
        /\ m.id \in Nat /\ m.count \in Nat /\ m.due \in Nat
    BY CurrentMessage
  <1>2. /\ ~IsForeign(p, m) /\ m.due <= clock
        /\ RetriesLeft(m) => \E t \in m.due..clock :
              co[c][p].retry_at = t + _compute_retry_backoff_seconds(m.count + 1)
    <2>1. <<o, co[c][p].retry_at>> \in Owed[p]
      BY DEF RInv, CoroutinesSafe, CoroutineSafe
    <2>2. QED
      BY <2>1 DEF Owed
  <1>3. x \in Copies /\ Abstract!Handleable(x)
    BY <1>1, <1>2, CurrentIsHandleable
  <1>4. x.id = m.id /\ x.count = m.count /\ x.due = m.due
    BY DEF CopyAt
  <1>5. /\ TypeOK /\ log \in [Partitions -> Seq(Message)] /\ dlq \in Seq(Message)
        /\ \A q \in Partitions : Len(log[q]) \in Nat
    BY DEF RInv, TypeOK
  <1>6. /\ Grows
    BY RepublishedGrows
  <1>7. HandledCopies' = HandledCopies
    <2>1. ASSUME NEW d \in succeeded  PROVE CopyAt(d[1], d[2])' = CopyAt(d[1], d[2])
      <3>1. /\ d[1] \in Partitions /\ d[2] \in Nat /\ d[2] < Len(log[d[1]])
            /\ Len(log[d[1]]) \in Nat
        BY <1>5 DEF RInv, TypeOK, SucceededInLog
      <3>2. d[2] + 1 \in 1..Len(log[d[1]])
        BY <3>1
      <3>3. log'[d[1]][d[2] + 1] = log[d[1]][d[2] + 1]
        BY <1>6, <3>1, <3>2 DEF Grows
      <3>4. QED
        BY <3>3 DEF CopyAt
    <2>2. HandledCopies' = {CopyAt(d[1], d[2])' : d \in succeeded}
      BY DEF HandledCopies
    <2>3. QED
      BY <2>1, <2>2 DEF HandledCopies
  <1>8. CASE ~RetriesLeft(m)
    <2>1. dlq' = Append(dlq, DeadLetterOf(m, p)) /\ log' = log
      BY <1>1, <1>8 DEF Republished
    <2>2. PICK l \in Message : l = DeadLetterOf(m, p)
      <3>1. OrigOf(m, p) \in {Main, Retry, Other, NoHeader}
        BY <1>1 DEF OrigOf, TopicOf, Message
      <3>2. DeadLetterOf(m, p) \in Message
        BY <1>1, <3>1 DEF DeadLetterOf, Message
      <3>3. QED
        BY <3>2
    <2>3. l.id = m.id
      BY <2>2 DEF DeadLetterOf
    <2>4. /\ Len(dlq) \in Nat /\ DOMAIN dlq = 1..Len(dlq) /\ DOMAIN dlq' = 1..(Len(dlq) + 1)
          /\ \A n \in 1..Len(dlq) : dlq'[n] = dlq[n]
          /\ dlq'[Len(dlq) + 1] = l
      BY <1>5, <2>1, <2>2
    <2>5. Buried' = Buried \cup {x.id}
      <3>1. 1..(Len(dlq) + 1) = (1..Len(dlq)) \cup {Len(dlq) + 1}
        BY <2>4
      <3>2. Buried' = {dlq'[n].id : n \in DOMAIN dlq'}
        BY DEF Buried
      <3> HIDE DEF x
      <3>3. QED
        BY <1>4, <2>3, <2>4, <3>1, <3>2 DEF Buried
    <2>6. Copies' = Copies /\ Open' = Open
      BY <2>1 DEF Copies, Open, CopiesFrom, CopyAt, IsForeign
    <2>7. x.count >= RetryMax
      BY <1>1, <1>4, <1>8, RunnerAssumption DEF RetriesLeft
    <2> HIDE DEF x
    <2>8. PICK e : e = x
      OBVIOUS
    <2>9. Abstract!Bury(e) /\ e \in Copies
      BY <1>3, <1>7, <2>5, <2>6, <2>7, <2>8
      DEF Abstract!Bury, Copies, Open, HandledCopies, Buried
    <2>10. QED
      BY <2>9 DEF Abstract!DNext, Copies
  <1>9. CASE RetriesLeft(m)
    <2>1. PICK q \in RetryPartitions :
             log' = [log EXCEPT ![q] = Append(@, RetryOf(m, p, co[c][p].retry_at))]
             /\ dlq' = dlq
      BY <1>1, <1>9 DEF Republished
    <2>2. PICK t \in m.due..clock :
             co[c][p].retry_at = t + _compute_retry_backoff_seconds(m.count + 1)
      BY <1>2, <1>9
    <2>3. PICK r : r = RetryOf(m, p, co[c][p].retry_at)
      OBVIOUS
    <2>4. OrigOf(m, p) = Main
      <3>1. o + 1 \in 1..Len(log[p])
        BY CurrentMessage
      <3>2. IF p \in RetryPartitions THEN m.orig # NoHeader ELSE m.orig = NoHeader
        BY <3>1 DEF RInv, HeadersSound
      <3>3. QED
        BY <1>2, <3>2 DEF OrigOf, IsForeign, TopicOf
    <2>5. r \in Message /\ r.id = m.id /\ r.count = m.count + 1 /\ r.orig = Main
          /\ r.due = t + _compute_retry_backoff_seconds(m.count + 1)
      <3>1. co[c][p].retry_at \in Nat
        BY <1>5, Parts
      <3>2. QED
        BY <1>1, <2>2, <2>3, <2>4, <3>1 DEF RetryOf, Message, Main
    <2>6. q \in Partitions /\ log'[q] = Append(log[q], r)
          /\ \A l \in Partitions \ {q} : log'[l] = log[l]
      BY <1>5, <2>1, <2>3 DEF Partitions
    <2>7. PICK n \in Nat : n = Len(log[q])
      BY <1>5, <2>6
    <2>8. Len(log'[q]) = n + 1 /\ log'[q][n + 1] = r
      BY <1>5, <2>5, <2>6, <2>7
    <2> HIDE DEF x, m
    <2> PICK y : y = [id |-> x.id, count |-> x.count + 1,
                      due |-> t + _compute_retry_backoff_seconds(x.count + 1)]
      OBVIOUS
    <2>9. y = CopyAt(q, n)' /\ ~IsForeign(q, log'[q][n + 1])
      BY <1>4, <2>5, <2>8 DEF CopyAt, IsForeign
    <2>10. Copies' = Copies \cup {y}
      <3>1. PICK from \in [Partitions -> Nat] : from = [l \in Partitions |-> 0]
        OBVIOUS
      <3>2. \A l \in Partitions : from[l] <= Len(log[l])
        BY <1>5, <3>1
      <3>3. CopiesFrom(from)' = CopiesFrom(from) \cup {y}
        BY <1>5, <1>6, <2>6, <2>7, <2>8, <2>9, <3>2, AppendedCopies
      <3>4. Copies' = CopiesFrom(from)' /\ Copies = CopiesFrom(from)
        BY <3>1 DEF Copies
      <3>5. QED
        BY <3>3, <3>4
    <2>11. Open' = Open \cup {y}
      <3>1. PICK from \in [Partitions -> Nat] : from = committed
        BY <1>5 DEF TypeOK
      <3>2. \A l \in Partitions : from[l] <= Len(log[l])
        BY <1>5, <3>1, Parts DEF RInv, CommittedSafe
      <3>3. CopiesFrom(from)' = CopiesFrom(from) \cup {y}
        BY <1>5, <1>6, <2>6, <2>7, <2>8, <2>9, <3>2, AppendedCopies
      <3>4. Open' = CopiesFrom(from)' /\ Open = CopiesFrom(from)
        BY <3>1 DEF Open
      <3>5. QED
        BY <3>3, <3>4
    <2>12. x.count < RetryMax /\ t \in x.due..clock
      BY <1>4, <1>9 DEF RetriesLeft
    <2>13. Buried' = Buried
      BY <2>1 DEF Buried
    <2>14. Abstract!PassOn(x)
      BY <1>3, <1>7, <2>10, <2>11, <2>12, <2>13
      DEF Abstract!PassOn, Copies, Open, HandledCopies, Buried
    <2>15. QED
      BY <1>3, <2>14 DEF Abstract!DNext, Copies
  <1>10. QED
    BY <1>8, <1>9

\* Every step of the loop is a step of Delivery or invisible to it.
LEMMA NextDelivers == RInv /\ RInv' /\ [Next]_vars => [Abstract!DNext]_(Abstract!dvars)
  <1> SUFFICES ASSUME RInv, RInv', [Next]_vars
               PROVE  Abstract!DNext \/ UNCHANGED Abstract!dvars
    OBVIOUS
  <1> DEFINE Quiet == UNCHANGED <<clock, log, committed, dlq, succeeded>>
  <1>1. Quiet => UNCHANGED Abstract!dvars
    BY Stutters
  <1> HIDE DEF Quiet
  <1>2. ASSUME NEW c \in Consumers,
               Poll(c) \/ PollNothing(c) \/ ResumeRaises(c) \/ Crash(c) \/ Restart(c)
        PROVE  Quiet
    BY <1>2 DEF Quiet, Poll, PollNothing, ResumeRaises, Crash, Restart, env, kafka
  <1>3. ASSUME NEW c \in Consumers, Commit(c) \/ CommitRaises(c)
        PROVE  Abstract!DNext
    <2>1. UNCHANGED <<clock, log, dlq, succeeded>>
      BY <1>3 DEF Commit, CommitRaises, env
    <2>2. QED
      BY <2>1, CommitDelivers
  <1>4. ASSUME NEW c \in Consumers, NEW p \in Partitions,
               Defer(c, p) \/ SkipForeign(c, p) \/ HandleFails(c, p) \/ HandleRaises(c, p)
        PROVE  Quiet
    BY <1>4 DEF Quiet, Defer, SkipForeign, HandleFails, HandleRaises, Advance, env, kafka
  <1>5. ASSUME NEW c \in Consumers, NEW p \in Partitions, HandleSucceeds(c, p)
        PROVE  Abstract!DNext
    BY <1>5, SuccessDelivers
  <1>6. ASSUME NEW c \in Consumers, NEW p \in Partitions,
               Republish(c, p) \/ RepublishRaises(c, p)
        PROVE  Abstract!DNext \/ Quiet
    <2>1. co[c][p].pc = "publish" /\ UNCHANGED <<clock, committed, succeeded>>
      BY <1>6 DEF Republish, RepublishRaises, Advance, env
    <2>2. CASE Republished(c, p)
      BY <2>1, <2>2, RepublishedDelivers
    <2>3. CASE UNCHANGED <<log, dlq>>
      BY <2>1, <2>3 DEF Quiet
    <2>4. QED
      BY <1>6, <2>2, <2>3 DEF Republish, RepublishRaises
  <1>7. CASE Assign \/ Rebalance \/ UNCHANGED vars
    BY <1>7, <1>1 DEF Quiet, Assign, Rebalance, NewAssignment, env, kafka, vars
  <1>8. CASE Tick
    <2>1. clock' = clock + 1 /\ UNCHANGED <<log, committed, dlq, succeeded>>
      BY <1>8 DEF Tick, kafka
    <2>2. Copies' = Copies /\ Open' = Open /\ HandledCopies' = HandledCopies /\ Buried' = Buried
      BY <2>1 DEF Copies, Open, HandledCopies, Buried, CopiesFrom, CopyAt, IsForeign
    <2>3. Abstract!Tick
      BY <2>1, <2>2 DEF Abstract!Tick, Copies, Open, HandledCopies, Buried
    <2>4. QED
      BY <2>3 DEF Abstract!DNext
  <1>9. QED
    BY <1>1, <1>2, <1>3, <1>4, <1>5, <1>6, <1>7, <1>8 DEF Next

-----------------------------------------------------------------------------
(* The theorems.                                                           *)

\* The inductive invariant holds in every reachable state of the group.
THEOREM RInvariance == Spec => []RInv
  BY InitRInv, NextRInv, PTL DEF Spec

\* Every variable of the consume loop keeps its type.
THEOREM RunnerTypeCorrect == Spec => []TypeOK
  BY RInvariance, PTL DEF RInv

\* The consume loop skips nothing: what lies behind the position of a polling
\* owner was handled, passed on or dead-lettered, whatever raised, crashed or
\* was rebalanced while coroutines were under way.
THEOREM LoopSkipsNothing == Spec => []NothingSkipped
  <1>1. RInv => NothingSkipped
    <2> SUFFICES ASSUME RInv, NEW p \in Partitions, owner[p] \in Consumers,
                        phase[owner[p]] = "poll", NEW o \in 0..(position[p] - 1)
                 PROVE  IsForeign(p, log[p][o + 1]) \/ Abstract!AccountedFor(CopyAt(p, o))
      BY DEF NothingSkipped
    <2>1. co[owner[p]][p].pc = "idle"
      BY DEF RInv, CoroutinesSafe, CoroutineSafe
    <2>2. position[p] \in Safe[p]
      BY <2>1 DEF RInv, PositionsSafe, PositionSafe
    <2>3. DealtWith(p, o)
      BY <2>2 DEF Safe
    <2>4. QED
      BY <2>3 DEF DealtWith
  <1>2. QED
    BY <1>1, RInvariance, PTL

\* A paused partition is paused for the message it stands at, in its present
\* owner's dictionary: _resume_due_partitions will resume it.
THEOREM PausesEnd == Spec => []PauseWaitsForItsMessage
  BY RInvariance, PTL DEF RInv

\* Before the first crash, exception or rebalance the client of a polling
\* owner stands at the committed offset.
THEOREM NothingIsReadAgain == Spec => []RereadingNeedsAFault
  <1>1. RInv => RereadingNeedsAFault
    <2> SUFFICES ASSUME RInv, faults = 0, NEW p \in Partitions, owner[p] \in Consumers,
                        phase[owner[p]] = "poll"
                 PROVE  position[p] = committed[p]
      BY DEF RereadingNeedsAFault
    <2>1. co[owner[p]][p].pc = "idle"
      BY DEF RInv, CoroutinesSafe, CoroutineSafe
    <2>2. InStep(owner[p], p)
      BY DEF RInv, QuietBeforeFaults
    <2>3. QED
      BY <2>1, <2>2 DEF InStep
  <1>2. QED
    BY <1>1, RInvariance, PTL

\* The consume loop implements Delivery for any consumers, partitions, batch
\* size and backoff, and any number of faults: nothing is committed that was not
\* handled, passed on or dead-lettered, nothing is handled before it is due, and
\* retries are counted, delayed by their backoff and limited.
THEOREM DeliveryRefinement == Spec => ImplementsDelivery
  <1>1. Spec => []RInv
    BY RInvariance
  <1>2. QED
    BY <1>1, InitDelivers, NextDelivers, PTL DEF Spec, ImplementsDelivery, Abstract!Spec
=============================================================================
