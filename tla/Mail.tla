-------------------------------- MODULE Mail --------------------------------
(***************************************************************************)
(* What the outbox promises whoever asks for a mail, with no rows, leases, *)
(* workers or transactions: a request is owed a mail until the provider is *)
(* known to have it or it is given up, both are final, and copies are      *)
(* bounded.  Copies may still leave after a request was given up: a worker *)
(* that already holds the message does not learn of it.                    *)
(***************************************************************************)
EXTENDS Naturals

CONSTANTS
  Request,
  Budget,   \* copies of one mail a provider may get
  Dedups    \* requests whose provider recognizes a second copy

VARIABLES fate, copies

mailState == <<fate, copies>>

MailInit == fate = [j \in Request |-> "none"] /\ copies = [j \in Request |-> 0]

Becomes(S, f) == [j \in Request |-> IF j \in S THEN f ELSE fate[j]]

Owed == {j \in Request : fate[j] = "owed"}

\* A new request, which may take the place of older ones.
Ask(j) ==
  /\ fate[j] = "none"
  /\ \E S \in SUBSET Owed : fate' = [Becomes(S, "dropped") EXCEPT ![j] = "owed"]
  /\ UNCHANGED copies

\* The provider takes a copy.
Take(j) ==
  /\ fate[j] # "none"
  /\ copies[j] < IF j \in Dedups THEN 1 ELSE Budget
  /\ copies' = [copies EXCEPT ![j] = @ + 1]
  /\ UNCHANGED fate

\* The request is known to be served.
Confirm(j) ==
  /\ fate[j] = "owed" /\ copies[j] > 0
  /\ fate' = Becomes({j}, "sent")
  /\ UNCHANGED copies

GiveUp == \E S \in SUBSET Owed : fate' = Becomes(S, "dropped") /\ UNCHANGED copies

\* The record of the request is deleted.
Forget(j) ==
  /\ fate[j] # "none"
  /\ fate' = Becomes({j}, "gone")
  /\ UNCHANGED copies

MailNext == GiveUp \/ \E j \in Request : Ask(j) \/ Take(j) \/ Confirm(j) \/ Forget(j)

MailSpec == MailInit /\ [][MailNext]_mailState
=============================================================================
