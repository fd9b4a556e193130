------------------------------ MODULE Delivery ------------------------------
(***************************************************************************)
(* What the consume loop promises: at-least-once delivery with delayed and *)
(* counted retries.  A message exists in copies: the original and one for  *)
(* each retry.  A copy is handled when it is due: the handler succeeds, or *)
(* the message is passed on as a later copy with a higher count, or, when  *)
(* its retries are used up, buried in the dead-letter topic.  A copy may   *)
(* stop being delivered only when one of these has happened to it; until   *)
(* then, and sometimes after that, it is delivered again.                  *)
(* Partitions, offsets, batches, consumers and their crashes are not       *)
(* visible here.                                                           *)
(***************************************************************************)
EXTENDS Naturals

CONSTANTS
    Originals,   \* the copies that exist at the start
    RetryMax,
    Delay(_)     \* the backoff before the n-th retry

VARIABLES
    now,
    copies,      \* every copy ever published
    open,        \* the copies that will be delivered (again)
    handled,     \* the copies a handler succeeded with
    buried       \* ids of dead-lettered messages

dvars == <<now, copies, open, handled, buried>>

DInit ==
    /\ now = 0
    /\ copies = Originals /\ open = Originals
    /\ handled = {} /\ buried = {}

Handleable(c) == c \in copies /\ c.due <= now

Succeed(c) ==
    /\ Handleable(c)
    /\ handled' = handled \cup {c}
    /\ UNCHANGED <<now, copies, open, buried>>

\* The handler failed at some time since the copy was due.
PassOn(c) ==
    /\ Handleable(c) /\ c.count < RetryMax
    /\ \E t \in c.due..now :
          LET next == [id |-> c.id, count |-> c.count + 1,
                       due |-> t + Delay(c.count + 1)]
          IN  copies' = copies \cup {next} /\ open' = open \cup {next}
    /\ UNCHANGED <<now, handled, buried>>

Bury(c) ==
    /\ Handleable(c) /\ c.count >= RetryMax
    /\ buried' = buried \cup {c.id}
    /\ UNCHANGED <<now, copies, open, handled>>

AccountedFor(c) ==
    \/ c \in handled
    \/ c.id \in buried /\ c.count >= RetryMax
    \/ \E d \in copies : d.id = c.id /\ d.count = c.count + 1

\* Offsets are committed: copies that are accounted for are delivered no more;
\* others may be delivered again.
Settle ==
    /\ open' \subseteq copies
    /\ \A c \in open \ open' : AccountedFor(c)
    /\ UNCHANGED <<now, copies, handled, buried>>

Tick == now' = now + 1 /\ UNCHANGED <<copies, open, handled, buried>>

DNext ==
    \/ \E c \in copies : Succeed(c) \/ PassOn(c) \/ Bury(c)
    \/ Settle
    \/ Tick

Spec == DInit /\ [][DNext]_dvars
=============================================================================
