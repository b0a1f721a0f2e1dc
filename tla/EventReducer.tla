---------------------------- MODULE EventReducer ----------------------------
(***************************************************************************)
(* The pure part of internal/email/outbox.go's reduceEvent: what one       *)
(* verified provider event does to the email_outbox row that carries its   *)
(* provider_message_id.  The four terminal event types (bounced,           *)
(* complained, failed, suppressed) share one branch of the switch and are  *)
(* one class here; an unrecognised type is "unknown".                      *)
(***************************************************************************)

\* The status column (its CHECK constraint), for a row that exists.
RowStatus == {"pending", "accepted", "delivered", "failed", "canceled", "expired"}

EventClass == {"sent", "delivered", "delayed", "failure", "unknown"}

\* The status a row has after the UPDATE that event class e runs on it.
ReduceStatus(s, e) ==
  CASE e = "delivered" -> IF s \in {"pending", "accepted"} THEN "delivered" ELSE s
    [] e = "failure"   -> "failed"
    [] e = "sent"      -> IF s = "pending" THEN "accepted" ELSE s
    [] OTHER           -> s

\* The UPDATEs that also set nonce and ciphertext to NULL.
ErasesPayload(e) == e \in {"delivered", "failure"}

\* The only UPDATE that stamps delivered_at.
StampsDelivery(e) == e = "delivered"

\* The order the reducer never walks backwards.  Canceled and expired rows are
\* final: they never had a provider_message_id, so no event can reach them.
Rank(s) ==
  CASE s = "pending"   -> 0
    [] s = "accepted"  -> 1
    [] s = "delivered" -> 2
    [] OTHER           -> 3
=============================================================================
