---------------------------- MODULE MCJobService ----------------------------
(* Requests with one idempotency key.                                       *)
EXTENDS JobService

CONSTANTS q1, q2, q3

=============================================================================
