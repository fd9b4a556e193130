------------------------------ MODULE MCRunner ------------------------------
(* Two processes share a main partition with two messages, the second of   *)
(* which may always raise, and a retry partition with a message of another *)
(* role.                                                                   *)
EXTENDS Runner, TLC

CONSTANTS p1, q1, c1, c2

Fresh(i) == [id |-> i, count |-> 0, orig |-> NoHeader, due |-> 0]
Foreign == [id |-> 9, count |-> 1, orig |-> Other, due |-> 0]

MCLog == (p1 :> <<Fresh(1), Fresh(2)>>) @@ (q1 :> <<Foreign>>)
=============================================================================
