--------------------------- MODULE JobStoreProofs ---------------------------
(***************************************************************************)
(* Lemmas about the UPDATE statements of JobStore, for any set of worker   *)
(* ids.                                                                    *)
(***************************************************************************)
EXTENDS JobStore, TLAPS

\* What the row operators do to each column, and that a row stays a row.
LEMMA RowOperators ==
    ASSUME NEW r \in Row, NEW o \in Workers, NEW n \in Nat, NEW l \in Nat
    PROVE  /\ Claimed(r, o, n, l) \in Row
           /\ Released(Succeeded(r, n)) \in Row
           /\ Released(Failed(r, n)) \in Row
  <1> USE DEF Row, NULL, JobStatus, PENDING, PROCESSING, SUCCESS, FAILED
  <1>1. Claimed(r, o, n, l) \in Row
    BY DEF Claimed
  <1>2. Succeeded(r, n) \in Row /\ Failed(r, n) \in Row
    BY DEF Succeeded, Failed
  <1>3. ASSUME NEW q \in Row PROVE Released(q) \in Row
    BY DEF Released
  <1>4. QED
    BY <1>1, <1>2, <1>3

\* What the transition table says of each target: a status is final once it
\* is SUCCESS, and only a job that is being processed may succeed.
LEMMA TransitionTable ==
    ASSUME NEW r \in Row
    PROVE  /\ MayBecome(r, SUCCESS) <=> r.status = PROCESSING
           /\ MayBecome(r, FAILED) <=> r.status \in {PENDING, PROCESSING}
           /\ MayBecome(r, PROCESSING) <=> r.status # SUCCESS
           /\ \A now \in Nat : Claimable(r, now) => MayBecome(r, PROCESSING)
  <1> USE DEF Row, JobStatus, PENDING, PROCESSING, SUCCESS, FAILED
  <1>1. /\ allowed_source_statuses(SUCCESS) = {PROCESSING}
        /\ allowed_source_statuses(FAILED) = {PENDING, PROCESSING}
        /\ allowed_source_statuses(PROCESSING) = {PENDING, FAILED, PROCESSING}
    BY DEF allowed_source_statuses
  <1>2. QED
    BY <1>1 DEF MayBecome, Claimable
=============================================================================
