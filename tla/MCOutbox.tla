------------------------------ MODULE MCOutbox ------------------------------
(* Instances of Outbox for TLC.  The configurations choose Job and Worker. *)
EXTENDS Outbox

CONSTANTS j1, j2, w1, w2, resend, postmark

\* Every request is for the same user and purpose.
OneSlot == [j \in Job |-> 0]
\* Each request has a purpose of its own.
OwnSlots == [j \in Job |-> IF j = j1 THEN 1 ELSE 2]
\* The second job was queued before a change of provider.
Stranded == [j \in Job |-> IF j = j1 THEN resend ELSE postmark]
AllPostmark == [j \in Job |-> postmark]
ResendWorkers == [w \in Worker |-> resend]
PostmarkWorkers == [w \in Worker |-> postmark]
=============================================================================
