-------------------------- MODULE JobServiceProofs --------------------------
(***************************************************************************)
(* Proofs about JobService for any finite set of requests, any two TTLs of *)
(* which the one of a reservation is not the longer, and any number of     *)
(* interruptions.                                                          *)
(***************************************************************************)
EXTENDS JobService, FiniteSetTheorems, TLAPS

\* A request that reserved an id and still has to store or to confirm it.
InHand(q) == pc[q] \in {"insert", "complete"}

\* The requests an unfaulty reservation is accounted to.
Reservers == {q \in Requests : InHand(q) \/ pc[q] = "done"}

\* Every reserved id belongs to a request that is not over or was answered, or
\* was lost in a fault: a bound for the ids.
ReservationsAreFew == reservations <= Cardinality(Reservers) + faults

\* The id in hand is a real one, and it is committed before it is confirmed.
HandIsReal ==
    \A q \in Requests : /\ pc[q] = "insert" => job[q] \in Jobs
                        /\ pc[q] = "complete" => job[q] \in jobs

\* The record outlives the first ProcessingTtl of a reservation.
FreshIsHeld == \A j \in Jobs : fresh[j] > 0 => Held /\ fresh[j] <= redis.ttl

\* As long as no request was interrupted or outlived its reservation ...
Calm == faults = 0 /\ ~late

\* ... the record is the reservation of the one request that has it in hand,
HandHasRecord ==
    \A q \in Requests : InHand(q) =>
        /\ Held /\ redis.status = "PROCESSING" /\ redis.job = job[q]
        /\ \A p \in Requests : InHand(p) => p = q

\* ... the record is there as long as the promise of the first job holds,
PromiseIsKept ==
    promise > 0 =>
        /\ Held
        /\ \/ redis.status = "COMPLETED" /\ promise <= redis.ttl
           \/ redis.status = "PROCESSING" /\ \E q \in Requests : pc[q] = "complete"

\* ... and a repeated request never gets as far as a reservation.
RepeatsOnlyRead ==
    /\ \A q \in Requests : repeat[q] => pc[q] \notin {"reserve", "relookup"} /\ ~InHand(q)
    /\ duplicates = {}

\* The inductive invariant.
JInv ==
    /\ TypeOK
    /\ ReservationsAreFew
    /\ HandIsReal
    /\ ReplyIsCommitted
    /\ FreshIsHeld
    /\ ReservationsApart
    /\ Calm => HandHasRecord /\ PromiseIsKept /\ RepeatsOnlyRead

-----------------------------------------------------------------------------
(* Lemmas about the state and the operators.                               *)

Control == {"start", "reserve", "relookup", "fetch", "insert", "complete",
            "done", "failed"}

\* There are as many job ids as requests and interruptions.
LEMMA JobsCount ==
    /\ Cardinality(Requests) \in Nat
    /\ Cardinality(Jobs) = Cardinality(Requests) + MaxFaults
  <1>1. Cardinality(Requests) \in Nat
    BY RequestsAssumption, FS_CardinalityType
  <1>2. 1 \in Int /\ Cardinality(Requests) + MaxFaults \in Int
    BY <1>1, BoundAssumption
  <1>3. Cardinality(1..(Cardinality(Requests) + MaxFaults))
          = IF 1 > Cardinality(Requests) + MaxFaults THEN 0
            ELSE (Cardinality(Requests) + MaxFaults) - 1 + 1
    BY <1>2, FS_Interval
  <1>4. QED
    BY <1>1, <1>3, BoundAssumption DEF Jobs

\* How the number of reservers follows the control point of one request.
LEMMA ReserversCount ==
    ASSUME NEW q \in Requests, NEW c \in Control,
           pc \in [Requests -> Control], pc' = [pc EXCEPT ![q] = c]
    PROVE  /\ Cardinality(Reservers) \in Nat /\ Cardinality(Reservers') \in Nat
           /\ Cardinality(Reservers') <= Cardinality(Requests)
           /\ Cardinality(Reservers) <= Cardinality(Reservers') + 1
           /\ q \notin Reservers \/ c \in {"insert", "complete", "done"}
                => Cardinality(Reservers) <= Cardinality(Reservers')
           /\ q \notin Reservers /\ c = "insert"
                => Cardinality(Reservers') = Cardinality(Reservers) + 1
  <1>1. Reservers \subseteq Requests /\ Reservers' \subseteq Requests
    BY DEF Reservers
  <1>2. /\ IsFiniteSet(Reservers) /\ IsFiniteSet(Reservers')
        /\ Cardinality(Reservers') <= Cardinality(Requests)
    BY <1>1, RequestsAssumption, FS_Subset
  <1>3. Cardinality(Reservers) \in Nat /\ Cardinality(Reservers') \in Nat
    BY <1>2, FS_CardinalityType
  <1>4. CASE c \in {"insert", "complete", "done"}
    <2>1. Reservers' = Reservers \cup {q}
      BY <1>4 DEF Reservers, InHand
    <2>2. Cardinality(Reservers \cup {q})
            = IF q \in Reservers THEN Cardinality(Reservers) ELSE Cardinality(Reservers) + 1
      BY <1>2, FS_AddElement
    <2>3. QED
      BY <1>2, <1>3, <2>1, <2>2
  <1>5. CASE c \notin {"insert", "complete", "done"}
    <2>1. Reservers' = Reservers \ {q}
      BY <1>5 DEF Reservers, InHand
    <2>2. Cardinality(Reservers \ {q})
            = IF q \in Reservers THEN Cardinality(Reservers) - 1 ELSE Cardinality(Reservers)
      BY <1>2, FS_RemoveElement
    <2>3. QED
      BY <1>2, <1>3, <1>5, <2>1, <2>2
  <1>6. QED
    BY <1>4, <1>5

\* A record that is held is one that reserve_request or complete_request wrote.
LEMMA HeldRecord ==
    ASSUME redis \in Record \cup {NoRecord}
    PROVE  /\ Held <=> redis \in Record
           /\ Held => /\ redis.status \in {"PROCESSING", "COMPLETED"}
                      /\ redis.job \in Jobs /\ redis.ttl \in 1..Ttl
  <1>1. ASSUME NEW r \in Record PROVE r # NoRecord
    <2>1. r.status # "NONE"
      BY DEF Record
    <2>2. NoRecord.status = "NONE"
      BY DEF NoRecord
    <2>3. QED
      BY <2>1, <2>2
  <1>2. QED
    BY <1>1 DEF Held, Record

-----------------------------------------------------------------------------
(* The inductive invariant.                                                *)

\* The initial state satisfies the inductive invariant.
LEMMA InitJInv == Init => JInv
  <1> SUFFICES ASSUME Init PROVE JInv
    OBVIOUS
  <1>1. TypeOK
    <2>1. 0 \in 0..Cardinality(Jobs) /\ 0 \in 0..MaxFaults
      BY JobsCount, BoundAssumption
    <2>2. 0 \in 0..ProcessingTtl /\ 0 \in 0..Ttl
      BY TtlAssumption
    <2>3. QED
      BY <2>1, <2>2 DEF Init, TypeOK, NONE
  <1>2. \A q \in Requests : pc[q] = "start" /\ ~InHand(q)
    BY DEF Init, InHand
  <1>3. Reservers = {}
    BY <1>2 DEF Reservers
  <1>4. ReservationsAreFew
    BY <1>3, FS_EmptySet DEF Init, ReservationsAreFew
  <1>5. HandIsReal /\ ReplyIsCommitted
    BY <1>2 DEF HandIsReal, ReplyIsCommitted
  <1>6. FreshIsHeld /\ ReservationsApart
    BY DEF Init, FreshIsHeld, ReservationsApart
  <1>7. HandHasRecord /\ PromiseIsKept /\ RepeatsOnlyRead
    BY <1>2 DEF Init, HandHasRecord, PromiseIsKept, RepeatsOnlyRead
  <1>8. QED
    BY <1>1, <1>4, <1>5, <1>6, <1>7 DEF JInv

\* A step that writes neither Redis nor the database and reserves nothing.
LEMMA MoveKeepsJInv ==
    ASSUME JInv, NEW q \in Requests, pc[q] # "done",
           NEW c \in Control \ {"insert", "complete"}, Goto(q, c),
           NEW v \in Jobs \cup {NONE}, job' = [job EXCEPT ![q] = v],
           NEW b \in BOOLEAN, repeat' = [repeat EXCEPT ![q] = b],
           UNCHANGED <<redis, jobs, reservations, fresh, promise, duplicates, late>>,
           faults' \in 0..MaxFaults, faults' = faults \/ faults' = faults + 1,
           InHand(q) => faults' = faults + 1,
           c = "done" => v \in jobs,
           Calm /\ c \in {"reserve", "relookup"} => ~b
    PROVE  JInv'
  <1> USE DEF JInv
  <1>0. TypeOK /\ faults \in Nat
    BY DEF TypeOK
  <1>1. /\ pc \in [Requests -> Control] /\ pc' = [pc EXCEPT ![q] = c] /\ c \in Control
        /\ pc'[q] = c /\ job'[q] = v /\ repeat'[q] = b
        /\ \A p \in Requests : p # q => /\ pc'[p] = pc[p] /\ job'[p] = job[p]
                                        /\ repeat'[p] = repeat[p]
    BY <1>0 DEF TypeOK, Control, Goto
  <1>2. TypeOK'
    BY <1>0, <1>1 DEF TypeOK, Control
  <1>3. ReservationsAreFew'
    <2>1. q \in Reservers <=> InHand(q)
      BY DEF Reservers
    <2>2. reservations \in Nat
      BY <1>0, JobsCount, BoundAssumption DEF TypeOK
    <2>3. /\ Cardinality(Reservers) \in Nat /\ Cardinality(Reservers') \in Nat
          /\ Cardinality(Reservers) <= Cardinality(Reservers') + 1
          /\ q \notin Reservers => Cardinality(Reservers) <= Cardinality(Reservers')
      BY <1>1, ReserversCount
    <2>4. reservations <= Cardinality(Reservers) + faults
      BY DEF ReservationsAreFew
    <2>5. reservations <= Cardinality(Reservers') + faults'
      BY <1>0, <2>1, <2>2, <2>3, <2>4
    <2>6. QED
      BY <2>5 DEF ReservationsAreFew
  <1>4. \A p \in Requests : InHand(p)' => p # q /\ InHand(p)
    BY <1>1 DEF InHand
  <1>5. HandIsReal' /\ ReplyIsCommitted'
    BY <1>1 DEF HandIsReal, ReplyIsCommitted
  <1>6. FreshIsHeld' /\ ReservationsApart'
    BY DEF FreshIsHeld, ReservationsApart, Held
  <1>7. ASSUME Calm' PROVE HandHasRecord' /\ PromiseIsKept' /\ RepeatsOnlyRead'
    <2>1. Calm /\ ~InHand(q)
      BY <1>0, <1>7 DEF Calm
    <2>2. HandHasRecord'
      BY <2>1, <1>1, <1>4 DEF HandHasRecord, Held
    <2>3. PromiseIsKept'
      BY <2>1, <1>1 DEF PromiseIsKept, InHand, Held
    <2>4. RepeatsOnlyRead'
      BY <2>1, <1>1, <1>4 DEF RepeatsOnlyRead
    <2>5. QED
      BY <2>2, <2>3, <2>4
  <1>8. QED
    BY <1>2, <1>3, <1>5, <1>6, <1>7

\* How a call ends: the request goes on, or it is interrupted after the call
\* took effect.
Ends(q, next) ==
    \/ Goto(q, next) /\ faults' = faults
    \/ Goto(q, "failed") /\ faults < MaxFaults /\ faults' = faults + 1

\* SET NX succeeds only when no reservation is fresh and no promise holds.
LEMMA ReserveKeepsJInv ==
    ASSUME JInv, NEW q \in Requests, pc[q] = "reserve", reserve_request(q),
           Ends(q, "insert"), UNCHANGED <<jobs, promise, repeat, duplicates, late>>
    PROVE  JInv'
  <1> USE DEF JInv
  <1>0. TypeOK /\ faults \in 0..MaxFaults
    BY DEF TypeOK
  <1>1. PICK c \in {"insert", "failed"} :
            /\ pc' = [pc EXCEPT ![q] = c]
            /\ c = "insert" => faults' = faults
            /\ c = "failed" => faults' = faults + 1
            /\ faults' \in 0..MaxFaults
    BY <1>0, BoundAssumption DEF Ends, Goto
  <1>2. pc \in [Requests -> Control] /\ c \in Control
    BY <1>0 DEF TypeOK, Control
  <1>3. /\ ReservationsAreFew' /\ reservations \in Nat
        /\ reservations' = reservations + 1 /\ reservations' \in Jobs
        /\ reservations' <= Cardinality(Jobs)
    <2>1. /\ Cardinality(Reservers) \in Nat /\ Cardinality(Reservers') \in Nat
          /\ Cardinality(Reservers') <= Cardinality(Requests)
          /\ q \notin Reservers => Cardinality(Reservers) <= Cardinality(Reservers')
          /\ q \notin Reservers /\ c = "insert"
                => Cardinality(Reservers') = Cardinality(Reservers) + 1
      BY <1>1, <1>2, ReserversCount
    <2>2. q \notin Reservers
      BY DEF Reservers, InHand
    <2>3. reservations \in Nat /\ reservations' = reservations + 1
      BY <1>0, JobsCount, BoundAssumption DEF TypeOK, reserve_request
    <2>4. reservations <= Cardinality(Reservers) + faults
      BY DEF ReservationsAreFew
    <2>5. reservations' <= Cardinality(Reservers') + faults'
      BY <1>0, <1>1, <2>1, <2>2, <2>3, <2>4, BoundAssumption
    <2>6. reservations' <= Cardinality(Requests) + MaxFaults
      BY <1>1, <2>1, <2>3, <2>5, JobsCount, BoundAssumption
    <2>7. reservations' \in Jobs /\ reservations' <= Cardinality(Jobs)
      BY <2>3, <2>6, JobsCount, BoundAssumption DEF Jobs
    <2>8. QED
      BY <2>3, <2>5, <2>7 DEF ReservationsAreFew
  <1>4. /\ ~Held /\ redis' \in Record /\ redis'.status = "PROCESSING"
        /\ redis'.job = reservations' /\ redis'.ttl = ProcessingTtl
    BY <1>3, TtlAssumption DEF reserve_request, Record
  <1>5. Held'
    <2>1. redis' # NoRecord
      <3>1. NoRecord.status = "NONE"
        BY DEF NoRecord
      <3>2. QED
        BY <1>4, <3>1
    <2>2. QED
      BY <2>1 DEF Held
  <1>6. /\ pc'[q] = c /\ job'[q] = reservations' /\ fresh'[reservations'] = ProcessingTtl
        /\ \A p \in Requests : p # q => pc'[p] = pc[p] /\ job'[p] = job[p]
        /\ \A j \in Jobs : j # reservations' => fresh'[j] = fresh[j]
    BY <1>0, <1>1, <1>3 DEF TypeOK, reserve_request
  <1>7. TypeOK'
    <2>1. /\ redis' \in Record /\ reservations' \in 0..Cardinality(Jobs)
          /\ fresh' \in [Jobs -> 0..ProcessingTtl] /\ faults' \in 0..MaxFaults
      BY <1>0, <1>1, <1>3, <1>4, JobsCount, BoundAssumption, TtlAssumption
         DEF TypeOK, reserve_request
    <2>2. job' \in [Requests -> Jobs \cup {NONE}]
      BY <1>0, <1>3 DEF TypeOK, reserve_request
    <2>3. QED
      BY <1>0, <1>1, <2>1, <2>2 DEF TypeOK
  <1>8. HandIsReal' /\ ReplyIsCommitted'
    BY <1>1, <1>3, <1>6 DEF HandIsReal, ReplyIsCommitted
  <1>9. \A j \in Jobs : fresh[j] = 0
    BY <1>0, <1>4, TtlAssumption DEF FreshIsHeld, TypeOK
  <1>10. FreshIsHeld' /\ ReservationsApart'
    BY <1>4, <1>5, <1>6, <1>9, TtlAssumption DEF FreshIsHeld, ReservationsApart
  <1>11. ASSUME Calm' PROVE HandHasRecord' /\ PromiseIsKept' /\ RepeatsOnlyRead'
    <2>1. Calm /\ c = "insert"
      BY <1>0, <1>1, <1>11 DEF Calm
    <2>2. \A p \in Requests : ~InHand(p)
      BY <2>1, <1>4 DEF HandHasRecord
    <2>3. \A p \in Requests : InHand(p)' <=> p = q
      BY <2>1, <2>2, <1>6 DEF InHand
    <2>4. HandHasRecord'
      BY <2>3, <1>4, <1>5, <1>6 DEF HandHasRecord
    <2>5. PromiseIsKept'
      BY <2>1, <1>4 DEF PromiseIsKept
    <2>6. RepeatsOnlyRead'
      BY <2>1, <2>3, <1>6 DEF RepeatsOnlyRead
    <2>7. QED
      BY <2>4, <2>5, <2>6
  <1>12. QED
    BY <1>3, <1>7, <1>8, <1>10, <1>11

\* The job is committed by the request whose reservation the record is.
LEMMA AddJobKeepsJInv ==
    ASSUME JInv, NEW q \in Requests, pc[q] = "insert", AddJob(q),
           Ends(q, "complete"), UNCHANGED <<redis, reservations, job, fresh, repeat, late>>
    PROVE  JInv'
  <1> USE DEF JInv
  <1>0. TypeOK /\ faults \in 0..MaxFaults
    BY DEF TypeOK
  <1>1. PICK c \in {"complete", "failed"} :
            /\ pc' = [pc EXCEPT ![q] = c]
            /\ c = "complete" => faults' = faults
            /\ c = "failed" => faults' = faults + 1
            /\ faults' \in 0..MaxFaults
    BY <1>0, BoundAssumption DEF Ends, Goto
  <1>2. pc \in [Requests -> Control] /\ c \in Control
    BY <1>0 DEF TypeOK, Control
  <1>3. ReservationsAreFew'
    <2>1. /\ Cardinality(Reservers) \in Nat /\ Cardinality(Reservers') \in Nat
          /\ Cardinality(Reservers) <= Cardinality(Reservers') + 1
          /\ c = "complete" => Cardinality(Reservers) <= Cardinality(Reservers')
      BY <1>1, <1>2, ReserversCount
    <2>2. reservations \in Nat /\ reservations <= Cardinality(Reservers) + faults
      BY <1>0, JobsCount, BoundAssumption DEF TypeOK, ReservationsAreFew
    <2>3. reservations <= Cardinality(Reservers') + faults'
      BY <1>0, <1>1, <2>1, <2>2, BoundAssumption
    <2>4. QED
      BY <2>3 DEF ReservationsAreFew
  <1>4. job[q] \in Jobs /\ jobs' = jobs \cup {job[q]}
    BY DEF HandIsReal, AddJob
  <1>5. /\ pc'[q] = c
        /\ \A p \in Requests : p # q => pc'[p] = pc[p]
    BY <1>1, <1>2
  <1>6. TypeOK'
    <2>1. promise' \in 0..Ttl /\ duplicates' \in SUBSET Jobs
      BY <1>0, <1>4, TtlAssumption DEF TypeOK, AddJob
    <2>2. QED
      BY <1>0, <1>1, <1>4, <2>1 DEF TypeOK
  <1>7. HandIsReal' /\ ReplyIsCommitted'
    BY <1>1, <1>4, <1>5 DEF HandIsReal, ReplyIsCommitted
  <1>8. FreshIsHeld' /\ ReservationsApart'
    BY DEF FreshIsHeld, ReservationsApart, Held
  <1>9. ASSUME Calm' PROVE HandHasRecord' /\ PromiseIsKept' /\ RepeatsOnlyRead'
    <2>1. Calm /\ c = "complete" /\ InHand(q)
      BY <1>0, <1>1, <1>9 DEF Calm, InHand
    <2>2. \A p \in Requests : InHand(p)' <=> InHand(p)
      BY <2>1, <1>5 DEF InHand
    <2>3. HandHasRecord'
      BY <2>1, <2>2 DEF HandHasRecord, Held
    <2>4. PromiseIsKept'
      BY <2>1, <1>5 DEF PromiseIsKept, HandHasRecord, Held
    <2>5. ~repeat[q]
      BY <2>1 DEF RepeatsOnlyRead
    <2>6. RepeatsOnlyRead'
      BY <2>1, <2>2, <2>5, <1>5 DEF RepeatsOnlyRead, AddJob
    <2>7. QED
      BY <2>3, <2>4, <2>6
  <1>10. QED
    BY <1>3, <1>6, <1>7, <1>8, <1>9

\* The confirmation makes the record last as long as the promise.
LEMMA CompleteKeepsJInv ==
    ASSUME JInv, NEW q \in Requests, pc[q] = "complete", complete_request(q),
           Ends(q, "done"), UNCHANGED <<jobs, reservations, job, historyVars>>
    PROVE  JInv'
  <1> USE DEF JInv, historyVars
  <1>0. TypeOK /\ faults \in 0..MaxFaults
    BY DEF TypeOK
  <1>1. PICK c \in {"done", "failed"} :
            /\ pc' = [pc EXCEPT ![q] = c]
            /\ c = "done" => faults' = faults
            /\ c = "failed" => faults' = faults + 1
            /\ faults' \in 0..MaxFaults
    BY <1>0, BoundAssumption DEF Ends, Goto
  <1>2. pc \in [Requests -> Control] /\ c \in Control
    BY <1>0 DEF TypeOK, Control
  <1>3. ReservationsAreFew'
    <2>1. /\ Cardinality(Reservers) \in Nat /\ Cardinality(Reservers') \in Nat
          /\ Cardinality(Reservers) <= Cardinality(Reservers') + 1
          /\ c = "done" => Cardinality(Reservers) <= Cardinality(Reservers')
      BY <1>1, <1>2, ReserversCount
    <2>2. reservations \in Nat /\ reservations <= Cardinality(Reservers) + faults
      BY <1>0, JobsCount, BoundAssumption DEF TypeOK, ReservationsAreFew
    <2>3. reservations <= Cardinality(Reservers') + faults'
      BY <1>0, <1>1, <2>1, <2>2, BoundAssumption
    <2>4. QED
      BY <2>3 DEF ReservationsAreFew
  <1>4. job[q] \in jobs /\ job[q] \in Jobs
    BY <1>0 DEF HandIsReal, TypeOK
  <1>5. /\ redis' \in Record /\ redis'.status = "COMPLETED" /\ redis'.ttl = Ttl
    BY <1>4, TtlAssumption DEF complete_request, Record
  <1>6. Held'
    <2>1. NoRecord.status = "NONE"
      BY DEF NoRecord
    <2>2. redis' # NoRecord
      BY <1>5, <2>1
    <2>3. QED
      BY <2>2 DEF Held
  <1>7. pc'[q] = c /\ \A p \in Requests : p # q => pc'[p] = pc[p]
    BY <1>1, <1>2
  <1>8. TypeOK'
    BY <1>0, <1>1, <1>5 DEF TypeOK
  <1>9. HandIsReal' /\ ReplyIsCommitted'
    BY <1>1, <1>4, <1>7 DEF HandIsReal, ReplyIsCommitted
  <1>10. FreshIsHeld' /\ ReservationsApart'
    <2>1. \A j \in Jobs : fresh[j] \in 0..ProcessingTtl
      BY <1>0 DEF TypeOK
    <2>2. QED
      BY <2>1, <1>5, <1>6, TtlAssumption DEF FreshIsHeld, ReservationsApart
  <1>11. ASSUME Calm' PROVE HandHasRecord' /\ PromiseIsKept' /\ RepeatsOnlyRead'
    <2>1. Calm /\ c = "done" /\ InHand(q)
      BY <1>0, <1>1, <1>11 DEF Calm, InHand
    <2>2. \A p \in Requests : ~InHand(p)'
      BY <2>1, <1>7 DEF InHand, HandHasRecord
    <2>3. HandHasRecord'
      BY <2>2 DEF HandHasRecord
    <2>4. PromiseIsKept'
      BY <1>0, <1>5, <1>6, TtlAssumption DEF PromiseIsKept, TypeOK
    <2>5. RepeatsOnlyRead'
      BY <2>1, <2>2, <1>7 DEF RepeatsOnlyRead
    <2>6. QED
      BY <2>3, <2>4, <2>5
  <1>12. QED
    BY <1>3, <1>8, <1>9, <1>10, <1>11

\* Time shortens the record, the freshness and the promise alike, so none of
\* the last two outlives the record.
LEMMA TickKeepsJInv ==
    ASSUME JInv, Tick
    PROVE  JInv'
  <1> USE DEF JInv
  <1>0. TypeOK
    OBVIOUS
  <1>1. /\ redis' = Aged /\ promise' = Less(promise)
        /\ fresh' = [j \in Jobs |-> Less(fresh[j])]
        /\ late' = (late \/ ExpiresUnderRequest)
        /\ UNCHANGED <<jobs, reservations, pc, job, faults, repeat, duplicates>>
    BY DEF Tick
  <1>2. redis \in Record \cup {NoRecord}
    BY <1>0 DEF TypeOK
  <1>3. ASSUME Held, redis.ttl > 1
        PROVE  /\ redis' \in Record /\ Held' /\ redis'.ttl = redis.ttl - 1
               /\ redis'.status = redis.status /\ redis'.job = redis.job
    <2>1. redis \in Record
      BY <1>2, <1>3, HeldRecord
    <2>2. redis' = [redis EXCEPT !.ttl = redis.ttl - 1]
      BY <1>1, <1>3 DEF Aged
    <2>3. /\ redis' \in Record /\ redis'.ttl = redis.ttl - 1
          /\ redis'.status = redis.status /\ redis'.job = redis.job
      BY <2>1, <2>2, <1>3, TtlAssumption DEF Record
    <2>4. redis'.status # "NONE"
      BY <2>1, <2>3 DEF Record
    <2>5. redis' # NoRecord
      BY <2>4 DEF NoRecord
    <2>6. QED
      BY <2>3, <2>5 DEF Held
  <1>4. redis' \in Record \cup {NoRecord}
    BY <1>1, <1>3 DEF Aged
  <1>5. ASSUME NEW n \in Nat
        PROVE  /\ Less(n) \in Nat /\ Less(n) <= n
               /\ Less(n) > 0 => Less(n) = n - 1 /\ n > 1
    BY DEF Less
  <1>6. promise \in 0..Ttl /\ \A j \in Jobs : fresh[j] \in 0..ProcessingTtl
    BY <1>0 DEF TypeOK
  <1>7. TypeOK'
    <2>1. promise' \in 0..Ttl
      BY <1>1, <1>5, <1>6, TtlAssumption
    <2>2. fresh' \in [Jobs -> 0..ProcessingTtl]
      BY <1>1, <1>5, <1>6, TtlAssumption
    <2>3. late' \in BOOLEAN
      BY <1>0, <1>1 DEF TypeOK, ExpiresUnderRequest
    <2>4. QED
      BY <1>0, <1>1, <1>4, <2>1, <2>2, <2>3 DEF TypeOK
  <1>8. ReservationsAreFew' /\ HandIsReal' /\ ReplyIsCommitted'
    BY <1>1 DEF ReservationsAreFew, Reservers, InHand, HandIsReal, ReplyIsCommitted
  <1>9. Held => redis.ttl \in 1..Ttl
    BY <1>2, HeldRecord
  <1>10. FreshIsHeld'
    <2> SUFFICES ASSUME NEW j \in Jobs, fresh'[j] > 0
                 PROVE  Held' /\ fresh'[j] <= redis'.ttl
      BY DEF FreshIsHeld
    <2>1. fresh'[j] = fresh[j] - 1 /\ fresh[j] > 1 /\ fresh[j] \in Nat
      BY <1>1, <1>5, <1>6, TtlAssumption
    <2>2. Held /\ fresh[j] <= redis.ttl
      BY <2>1 DEF FreshIsHeld
    <2>3. redis.ttl > 1 /\ redis.ttl \in Nat
      BY <2>1, <2>2, <1>9, TtlAssumption
    <2>4. QED
      BY <2>1, <2>2, <2>3, <1>3
  <1>11. ReservationsApart'
    BY <1>1 DEF ReservationsApart, Less
  <1>12. ASSUME Calm' PROVE HandHasRecord' /\ PromiseIsKept' /\ RepeatsOnlyRead'
    <2>1. Calm /\ ~ExpiresUnderRequest
      BY <1>1, <1>12 DEF Calm
    <2>2. \A p \in Requests : InHand(p)' <=> InHand(p)
      BY <1>1 DEF InHand
    <2>3. ASSUME NEW q \in Requests, InHand(q)
          PROVE  /\ Held' /\ redis'.status = "PROCESSING" /\ redis'.job = job[q]
      <3>1. Held /\ redis.status = "PROCESSING" /\ redis.job = job[q]
        BY <2>1, <2>3 DEF HandHasRecord
      <3>2. redis.ttl # 1
        BY <2>1, <2>3, <3>1 DEF ExpiresUnderRequest, InHand
      <3>3. redis.ttl > 1
        BY <3>1, <3>2, <1>9, TtlAssumption
      <3>4. QED
        BY <3>1, <3>3, <1>3
    <2>4. HandHasRecord'
      BY <2>1, <2>2, <2>3, <1>1 DEF HandHasRecord
    <2>5. PromiseIsKept'
      <3> SUFFICES ASSUME promise' > 0
                   PROVE  /\ Held'
                          /\ \/ redis'.status = "COMPLETED" /\ promise' <= redis'.ttl
                             \/ /\ redis'.status = "PROCESSING"
                                /\ \E q \in Requests : pc'[q] = "complete"
        BY DEF PromiseIsKept
      <3>1. promise' = promise - 1 /\ promise > 1 /\ promise \in Nat
        BY <1>1, <1>5, <1>6, TtlAssumption
      <3>2. CASE redis.status = "COMPLETED" /\ promise <= redis.ttl
        <4>1. Held /\ redis.ttl > 1 /\ redis.ttl \in Nat
          BY <3>1, <3>2, <2>1, <1>9, TtlAssumption DEF PromiseIsKept
        <4>2. QED
          BY <3>1, <3>2, <4>1, <1>3
      <3>3. CASE \E q \in Requests : pc[q] = "complete"
        BY <3>3, <2>3, <1>1 DEF InHand
      <3>4. QED
        BY <3>1, <3>2, <3>3, <2>1 DEF PromiseIsKept
    <2>6. RepeatsOnlyRead'
      BY <2>1, <2>2, <1>1 DEF RepeatsOnlyRead
    <2>7. QED
      BY <2>4, <2>5, <2>6
  <1>13. QED
    BY <1>7, <1>8, <1>10, <1>11, <1>12

\* Every step keeps the inductive invariant.
LEMMA NextJInv == JInv /\ [Next]_vars => JInv'
  <1> SUFFICES ASSUME JInv, [Next]_vars PROVE JInv'
    OBVIOUS
  <1> USE DEF historyVars
  <1>0. TypeOK /\ faults \in 0..MaxFaults /\ faults \in Nat
    BY BoundAssumption DEF JInv, TypeOK
  <1>1. ASSUME NEW q \in Requests
        PROVE  /\ job[q] \in Jobs \cup {NONE} /\ repeat[q] \in BOOLEAN
               /\ job = [job EXCEPT ![q] = job[q]]
               /\ repeat = [repeat EXCEPT ![q] = repeat[q]]
    BY <1>0 DEF TypeOK
  <1>2. (IF Held THEN redis.job ELSE NONE) \in Jobs \cup {NONE}
    BY <1>0, HeldRecord DEF TypeOK
  <1>3. ASSUME NEW q \in Requests, Lookup(q) PROVE JInv'
    <2>1. /\ (IF Held THEN "fetch" ELSE "reserve") \in Control \ {"insert", "complete"}
          /\ (promise > 0) \in BOOLEAN
      BY DEF Control
    <2>2. Calm /\ ~Held => ~(promise > 0)
      BY DEF JInv, PromiseIsKept
    <2>3. QED
      BY <1>0, <1>2, <1>3, <2>1, <2>2, MoveKeepsJInv DEF Lookup, InHand
  <1>4. ASSUME NEW q \in Requests, Reserve(q) PROVE JInv'
    <2>1. CASE reserve_request(q) /\ Goto(q, "insert")
      BY <1>4, <2>1, ReserveKeepsJInv DEF Reserve, Ends
    <2>2. CASE Goto(q, "relookup") /\ UNCHANGED <<redis, reservations, job, fresh>>
      <3>1. Calm => ~repeat[q]
        BY <1>4 DEF JInv, RepeatsOnlyRead, Reserve
      <3>2. QED
        BY <1>0, <1>1, <1>4, <2>2, <3>1, MoveKeepsJInv DEF Reserve, Control, InHand
    <2>3. QED
      BY <1>4, <2>1, <2>2 DEF Reserve
  <1>5. ASSUME NEW q \in Requests, Relookup(q) PROVE JInv'
    <2> DEFINE c == IF Held THEN "fetch" ELSE "failed"
               v == IF Held THEN redis.job ELSE NONE
    <2>1. /\ c \in Control \ {"insert", "complete"} /\ c \notin {"done", "reserve", "relookup"}
          /\ v \in Jobs \cup {NONE}
      BY <1>2 DEF Control
    <2>2. /\ Goto(q, c) /\ job' = [job EXCEPT ![q] = v]
          /\ repeat' = [repeat EXCEPT ![q] = repeat[q]] /\ repeat[q] \in BOOLEAN
      BY <1>1, <1>5 DEF Relookup
    <2>3. /\ pc[q] # "done" /\ ~InHand(q) /\ faults' = faults /\ faults' \in 0..MaxFaults
          /\ UNCHANGED <<redis, jobs, reservations, fresh, promise, duplicates, late>>
      BY <1>0, <1>5 DEF Relookup, InHand
    <2> HIDE DEF c, v
    <2>4. QED
      BY <2>1, <2>2, <2>3, MoveKeepsJInv
  <1>6. ASSUME NEW q \in Requests, Fetch(q) PROVE JInv'
    <2>1. (IF job[q] \in jobs THEN "done" ELSE "failed") \in Control \ {"insert", "complete"}
      BY DEF Control
    <2>2. QED
      BY <1>0, <1>1, <1>6, <2>1, MoveKeepsJInv DEF Fetch, InHand
  <1>7. ASSUME NEW q \in Requests, Insert(q) PROVE JInv'
    BY <1>7, AddJobKeepsJInv DEF Insert, Ends
  <1>8. ASSUME NEW q \in Requests, Complete(q) PROVE JInv'
    BY <1>8, CompleteKeepsJInv DEF Complete, Ends
  <1>9. ASSUME NEW q \in Requests, Interrupted(q) PROVE JInv'
    <2>1. CASE UNCHANGED <<redis, jobs, reservations, job, historyVars>>
      <3>1. faults' \in 0..MaxFaults /\ faults' = faults + 1
        BY <1>0, <1>9, BoundAssumption DEF Interrupted
      <3>2. "failed" \in Control \ {"insert", "complete"}
        BY DEF Control
      <3>3. QED
        BY <1>1, <1>9, <2>1, <3>1, <3>2, MoveKeepsJInv DEF Interrupted
    <2>2. CASE pc[q] = "reserve" /\ reserve_request(q)
               /\ UNCHANGED <<jobs, promise, repeat, duplicates, late>>
      BY <1>9, <2>2, ReserveKeepsJInv DEF Interrupted, Ends
    <2>3. CASE pc[q] = "insert" /\ AddJob(q)
               /\ UNCHANGED <<redis, reservations, job, fresh, repeat, late>>
      BY <1>9, <2>3, AddJobKeepsJInv DEF Interrupted, Ends
    <2>4. CASE pc[q] = "complete" /\ complete_request(q)
               /\ UNCHANGED <<jobs, reservations, job, historyVars>>
      BY <1>9, <2>4, CompleteKeepsJInv DEF Interrupted, Ends
    <2>5. QED
      BY <1>9, <2>1, <2>2, <2>3, <2>4 DEF Interrupted
  <1>10. ASSUME NEW q \in Requests, Retry(q) PROVE JInv'
    <2>1. "start" \in Control \ {"insert", "complete"}
      BY DEF Control
    <2>2. QED
      BY <1>0, <1>1, <1>10, <2>1, MoveKeepsJInv DEF Retry, InHand
  <1>11. CASE UNCHANGED vars
    BY <1>11 DEF vars, JInv, TypeOK, ReservationsAreFew, Reservers, InHand,
       HandIsReal, ReplyIsCommitted, FreshIsHeld, ReservationsApart, Calm,
       HandHasRecord, PromiseIsKept, RepeatsOnlyRead, Held
  <1>12. QED
    BY <1>3, <1>4, <1>5, <1>6, <1>7, <1>8, <1>9, <1>10, <1>11, TickKeepsJInv
       DEF Next, Step

\* The invariant holds in every reachable state of any number of requests.
THEOREM JInvariance == Spec => []JInv
  BY InitJInv, NextJInv, PTL DEF Spec

-----------------------------------------------------------------------------
(* What follows from it.                                                   *)

\* Every reachable state of job creation is well typed; in particular no more
\* ids are reserved than requests and interruptions account for.
THEOREM CreationTypeCorrect == Spec => []TypeOK
  <1>1. JInv => TypeOK
    BY DEF JInv
  <1>2. QED
    BY <1>1, JInvariance, PTL

\* create_job answers only with a job that is committed.
THEOREM RepliesAreCommitted == Spec => []ReplyIsCommitted
  <1>1. JInv => ReplyIsCommitted
    BY DEF JInv
  <1>2. QED
    BY <1>1, JInvariance, PTL

\* SET NX keeps two reservations at least ProcessingTtl apart.
THEOREM ReservationsKeepApart == Spec => []ReservationsApart
  <1>1. JInv => ReservationsApart
    BY DEF JInv
  <1>2. QED
    BY <1>1, JInvariance, PTL

\* Within Ttl of the first job a repeated request creates no second one, as
\* long as nothing is interrupted and no request outlives its reservation.
THEOREM OneJobPerKey == Spec => []DuplicatesNeedAFault
  <1>1. JInv => DuplicatesNeedAFault
    <2> SUFFICES ASSUME JInv, duplicates # {} PROVE faults > 0 \/ late
      BY DEF DuplicatesNeedAFault
    <2>1. ~Calm
      BY DEF JInv, RepeatsOnlyRead
    <2>2. faults \in Nat
      BY BoundAssumption DEF JInv, TypeOK
    <2>3. QED
      BY <2>1, <2>2 DEF Calm
  <1>2. QED
    BY <1>1, JInvariance, PTL
=============================================================================
