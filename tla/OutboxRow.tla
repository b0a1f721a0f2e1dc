----------------------------- MODULE OutboxRow -----------------------------
(***************************************************************************)
(* The life of one email_outbox row, whoever writes it: status and whether *)
(* provider_message_id is set, with no leases, workers, transactions or    *)
(* webhook handlers.  Outbox (every row, events at any time) and           *)
(* ProviderEvents (one row, the events about it stored, replayed and lost) *)
(* both implement it: what the one takes the other's row to do, it does.   *)
(***************************************************************************)
EXTENDS EventReducer

VARIABLES status, pmid

rowState == <<status, pmid>>

\* Before the INSERT, or a fresh row.
RowInit == status \in {"absent", "pending"} /\ pmid = FALSE

Queue ==
  /\ status = "absent"
  /\ status' = "pending"
  /\ UNCHANGED pmid

\* The provider has the mail: status and message id are written together, once.
Correlate ==
  /\ status = "pending" /\ ~pmid
  /\ status' = "accepted" /\ pmid' = TRUE

\* Canceled by a newer request, past its window, out of attempts or undeliverable.
Retire ==
  /\ status = "pending" /\ ~pmid
  /\ status' \in {"canceled", "expired", "failed"}
  /\ UNCHANGED pmid

\* An event finds the row by its message id.
Reduce(e) ==
  /\ pmid /\ status \in {"accepted", "delivered", "failed"}
  /\ status' = ReduceStatus(status, e)
  /\ UNCHANGED pmid

Purge ==
  /\ status \in RowStatus
  /\ status' = "purged" /\ pmid' = FALSE

RowNext == Queue \/ Correlate \/ Retire \/ Purge \/ \E e \in EventClass : Reduce(e)

\* A step of the row, or of somebody else.
RowStep == RowNext \/ UNCHANGED rowState

RowSpec == RowInit /\ [][RowNext]_rowState
=============================================================================
