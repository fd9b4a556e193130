--------------------------- MODULE MCOutboxRelay ---------------------------
(* Two relays, and a row that cannot be published.                         *)
EXTENDS OutboxRelay

CONSTANTS r1, r2
=============================================================================
