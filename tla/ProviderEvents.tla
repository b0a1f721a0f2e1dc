--------------------------- MODULE ProviderEvents ---------------------------
(***************************************************************************)
(* Delivery events of one mail meet the row that sent it:                  *)
(*   internal/http/webhook.go   handleResendWebhook                        *)
(*   internal/email/outbox.go   RecordProviderEvent, reduceEvent,          *)
(*                              Finalize, reconcileEvents, and what Claim  *)
(*                              makes of a row whose acceptance was lost   *)
(*                                                                         *)
(* The provider has taken the mail; a worker is about to record that.      *)
(* Webhooks for it may already be arriving: they find the row by its       *)
(* provider_message_id, which only Finalize writes.  None of these         *)
(* statements shares a transaction with another, so each is an action.     *)
(* An event is a number: svix ids in occurred_at order, the order          *)
(* reconcileEvents replays them in.                                        *)
(***************************************************************************)
EXTENDS Naturals, EventReducer

CONSTANTS
  Event,     \* svix ids, numbered in occurred_at order
  ClassOf,   \* [Event -> EventClass]
  Handler,   \* concurrent webhook requests
  MaxAttempts  \* attempts from the one on that the provider took

ASSUME EventAssumption == Event \subseteq Nat \ {0}
ASSUME ClassAssumption == ClassOf \in [Event -> EventClass]
ASSUME AttemptsAssumption == MaxAttempts \in Nat \ {0}

VARIABLES
  status,       \* email_outbox.status of the row
  deliveredAt,  \* email_outbox.delivered_at is set
  pmid,         \* email_outbox.provider_message_id is set
  finalizer,    \* the worker that holds the lease, inside Send and Finalize
  attempts,     \* email_outbox.attempt_count
  todo,         \* events reconcileEvents read and has not replayed yet
  stored,       \* email_events
  handling,     \* [Handler -> event it inserted and has to reduce, 0 if none]
  acked,        \* events the provider got a 200 for
  dropped       \* history: events whose last chance to be reduced failed

rowVars == <<status, deliveredAt, pmid>>
finVars == <<finalizer, attempts, todo>>
hookVars == <<stored, handling, acked, dropped>>
vars == <<rowVars, finVars, hookVars>>

TypeOK ==
  /\ status \in RowStatus
  /\ deliveredAt \in BOOLEAN
  /\ pmid \in BOOLEAN
  /\ finalizer \in {"sending", "lost", "accepted", "replaying", "done", "retired"}
  /\ attempts \in 1..MaxAttempts
  /\ todo \subseteq Event
  /\ stored \subseteq Event
  /\ handling \in [Handler -> Event \cup {0}]
  /\ acked \subseteq Event
  /\ dropped \subseteq Event

Init ==
  /\ status = "pending" /\ deliveredAt = FALSE /\ pmid = FALSE
  /\ finalizer = "sending" /\ attempts = 1 /\ todo = {}
  /\ stored = {} /\ handling = [h \in Handler |-> 0] /\ acked = {} /\ dropped = {}

\* Mutation: a late event clears the delivery stamp.
ReduceRestamps(e) ==
  /\ status' = IF pmid THEN ReduceStatus(status, ClassOf[e]) ELSE status
  /\ deliveredAt' = IF pmid THEN StampsDelivery(ClassOf[e]) ELSE deliveredAt
  /\ UNCHANGED pmid

\* reduceEvent: every UPDATE is WHERE provider_message_id = $1.
ReduceEvent(e) ==
  /\ status' = IF pmid THEN ReduceStatus(status, ClassOf[e]) ELSE status
  /\ deliveredAt' = (deliveredAt \/ (pmid /\ StampsDelivery(ClassOf[e])))
  /\ UNCHANGED pmid

\* The row shows event e: a failure dominates, a delivery is kept as evidence.
Reflected(e) ==
  /\ ClassOf[e] = "failure" => pmid /\ status = "failed"
  /\ ClassOf[e] = "delivered" => deliveredAt /\ status \in {"delivered", "failed"}

-----------------------------------------------------------------------------
(* The job's attempts, and Finalize with OutcomeAccepted.                  *)

\* The attempt ends and the row stays pending: the UPDATE fails, the process dies,
\* the lease ran out before it (ErrLeaseLost), or a later answer is transient.
AcceptLost ==
  /\ finalizer = "sending"
  /\ finalizer' = "lost"
  /\ UNCHANGED <<rowVars, attempts, todo, hookVars>>

\* Claim leases the job again.  The provider answers the same idempotency key with
\* the same message id.
Reclaim ==
  /\ finalizer = "lost" /\ attempts < MaxAttempts
  /\ finalizer' = "sending" /\ attempts' = attempts + 1
  /\ UNCHANGED <<rowVars, todo, hookVars>>

Retires(s) ==
  /\ status' = s /\ finalizer' = "retired"
  /\ UNCHANGED <<deliveredAt, pmid, attempts, todo, hookVars>>

\* ... or retires it: its window closed, it has no attempt left, or its link is dead
\* (the user followed it: the mail did arrive).
Retire ==
  /\ finalizer = "lost"
  /\ \/ Retires("expired") \/ Retires("canceled")
     \/ attempts >= MaxAttempts /\ Retires("failed")

\* A newer request cancels the pending row; a Finalize under way finds its lease gone.
Supersede ==
  /\ finalizer \in {"sending", "lost"}
  /\ Retires("canceled")

\* A later attempt is refused for good, or cannot open the payload: OutcomeFailed.
Refused ==
  /\ finalizer = "sending" /\ attempts > 1
  /\ Retires("failed")

\* Mutation: Finalize does not reconcile.
AcceptOnly ==
  /\ finalizer = "sending"
  /\ status' = "accepted" /\ pmid' = TRUE
  /\ finalizer' = "done"
  /\ UNCHANGED <<deliveredAt, attempts, todo, hookVars>>

\* The UPDATE of the lease's owner: accepted, with the provider's message id.
Accept ==
  /\ finalizer = "sending"
  /\ status' = "accepted" /\ pmid' = TRUE
  /\ finalizer' = "accepted"
  /\ UNCHANGED <<deliveredAt, attempts, todo, hookVars>>

\* reconcileEvents reads the events stored so far ...
ReadEvents ==
  /\ finalizer = "accepted"
  /\ todo' = stored
  /\ finalizer' = "replaying"
  /\ UNCHANGED <<rowVars, attempts, hookVars>>

\* ... and reduces them one by one, oldest first.
Replay(e) ==
  /\ finalizer = "replaying"
  /\ e \in todo /\ \A f \in todo : e <= f
  /\ ReduceEvent(e)
  /\ todo' = todo \ {e}
  /\ UNCHANGED <<finalizer, attempts, hookVars>>

ReplayDone ==
  /\ finalizer = "replaying" /\ todo = {}
  /\ finalizer' = "done"
  /\ UNCHANGED <<rowVars, attempts, todo, hookVars>>

\* The row is accepted and the rest of Finalize fails: deliver logs the error.  That
\* costs the events it was to replay and that neither the row nor a handler has.
FinalizerFails ==
  /\ finalizer \in {"accepted", "replaying"}
  /\ finalizer' = "done" /\ todo' = {}
  /\ dropped' = dropped \cup
       {e \in IF finalizer = "accepted" THEN stored ELSE todo :
          ~Reflected(e) /\ \A h \in Handler : handling[h] # e}
  /\ UNCHANGED <<rowVars, attempts, stored, handling, acked>>

-----------------------------------------------------------------------------
(* handleResendWebhook, for a request whose signature and body are good.   *)
(* The provider sends every event at least once.                           *)

\* RecordProviderEvent: INSERT ... ON CONFLICT DO NOTHING stored the event.
Receive(h, e) ==
  /\ handling[h] = 0
  /\ e \notin stored
  /\ stored' = stored \cup {e}
  /\ handling' = [handling EXCEPT ![h] = e]
  /\ UNCHANGED <<rowVars, finVars, acked, dropped>>

\* ... or found it already there: applied is false, the answer is 200.
ReceiveDuplicate(h, e) ==
  /\ handling[h] = 0
  /\ e \in stored
  /\ acked' = acked \cup {e}
  /\ UNCHANGED <<rowVars, finVars, stored, handling, dropped>>

Reduce(h) ==
  /\ handling[h] # 0
  /\ ReduceEvent(handling[h])
  /\ acked' = acked \cup {handling[h]}
  /\ handling' = [handling EXCEPT ![h] = 0]
  /\ UNCHANGED <<finVars, stored, dropped>>

\* Finalize has yet to read email_events, or has e in hand.
WillReplay(e) == finalizer \in {"sending", "lost", "accepted"} \/ e \in todo

\* reduceEvent fails or the process dies: a 500 or no answer, no ack.  That costs
\* the event, unless Finalize is going to replay it or the row shows it already.
HandlerFails(h) ==
  /\ handling[h] # 0
  /\ handling' = [handling EXCEPT ![h] = 0]
  /\ dropped' = dropped \cup
       {e \in {handling[h]} : ~WillReplay(e) /\ ~Reflected(e)}
  /\ UNCHANGED <<rowVars, finVars, stored, acked>>

-----------------------------------------------------------------------------
FinalizerStep == Accept \/ ReadEvents \/ (\E e \in Event : Replay(e)) \/ ReplayDone

Next ==
  \/ FinalizerStep \/ FinalizerFails
  \/ AcceptLost \/ Reclaim \/ Retire \/ Supersede \/ Refused
  \/ \E h \in Handler :
       \/ \E e \in Event : Receive(h, e) \/ ReceiveDuplicate(h, e)
       \/ Reduce(h) \/ HandlerFails(h)

Spec == Init /\ [][Next]_vars

\* Handlers and the worker finish what they began, an attempt ends (its calls have
\* timeouts), and a job left pending is claimed.  Nothing says how: every accept may
\* be lost until the attempts are used up.
FairSpec ==
  /\ Spec
  /\ \A h \in Handler : WF_vars(Reduce(h))
  /\ WF_vars(Accept \/ AcceptLost) /\ WF_vars(Reclaim \/ Retire)
  /\ WF_vars(ReadEvents) /\ WF_vars(\E e \in Event : Replay(e)) /\ WF_vars(ReplayDone)

-----------------------------------------------------------------------------
Quiescent == finalizer = "done" /\ \A h \in Handler : handling[h] = 0

\* Once nobody is half way through, every event the provider was told we have is
\* visible on the row: the webhook may have come before the accept, between it
\* and the read of email_events, during the replay or after it, in any order
\* and more than once.  A statement that fails loses the events it was for and
\* nobody else had, and no other.
AckedEventsReflected == Quiescent => \A e \in acked \ dropped : Reflected(e)

\* webhook.go: "A 500 makes the provider retry ...: the event is not lost, and the
\* svix-id dedup makes the retry safe".  Not even an event whose reduction failed
\* at first is acknowledged and missing.
RetryIsSafe == Quiescent => \A e \in acked : Reflected(e)

\* The status of a correlated row is one some event or the accept justifies: nothing
\* is invented.
StatusJustified ==
  /\ pmid /\ status = "failed" => \E e \in stored : ClassOf[e] = "failure"
  /\ status = "delivered" => \E e \in stored : ClassOf[e] = "delivered"

\* The reducer never walks the row backwards and never drops the evidence of a
\* delivery, whichever of the two writers fails half way.
RowKeepsEvidence ==
  [][Rank(status) <= Rank(status') /\ (deliveredAt => deliveredAt')]_vars

\* The status a row ends with, for the set of events stored about it: their order,
\* their number and who applied them play no part.
Outcome(S) ==
  IF \E e \in S : ClassOf[e] = "failure" THEN "failed"
  ELSE IF \E e \in S : ClassOf[e] = "delivered" THEN "delivered" ELSE "accepted"

\* Two deployments that get the same events end with the same row, however webhooks,
\* the accept and the replay were interleaved, if none of their statements failed.
Converges == Quiescent /\ dropped = {} => status = Outcome(stored)

\* Every acknowledged event shows on the row in the end, also one that came while the
\* acceptance was lost and recovered by a later lease, unless the statement that was
\* to put it there failed, or the row was retired before any lease recorded the
\* acceptance and will never know its message id.
EventuallyReflected ==
  \A e \in Event : e \in acked ~> Reflected(e) \/ e \in dropped \/ finalizer = "retired"

\* Does not hold (README, "Divergences").
\* outbox.go: "sent only rescues a row whose local accept update was lost".
SentRescues ==
  finalizer = "lost" /\ (\E e \in acked : ClassOf[e] = "sent")
    /\ (\A h \in Handler : handling[h] = 0) => status # "pending"

-----------------------------------------------------------------------------
(* The life of the row.                                                    *)

Row == INSTANCE OutboxRow

\* However webhooks, accept and replay interleave and fail, the row lives the life
\* of OutboxRow, which is the one module Outbox gives it.
ImplementsRow == Row!RowSpec

-----------------------------------------------------------------------------
\* The inductive invariant: a stored event is on the row, or somebody who will
\* put it there still has it, or was stopped by a failure.
Carried(e) ==
  \/ Reflected(e)
  \/ \E h \in Handler : handling[h] = e
  \/ finalizer \in {"sending", "lost", "accepted", "retired"}
  \/ finalizer = "replaying" /\ e \in todo

IInv ==
  /\ TypeOK
  /\ acked \subseteq stored
  /\ \A h \in Handler : handling[h] # 0 => handling[h] \in stored
  /\ todo \subseteq stored
  /\ pmid <=> finalizer \in {"accepted", "replaying", "done"}
  /\ pmid <=> status \in {"accepted", "delivered"} \/ (status = "failed" /\ finalizer # "retired")
  /\ status = "pending" <=> finalizer \in {"sending", "lost"}
  /\ todo # {} => finalizer = "replaying"
  /\ \A e \in stored \ dropped : Carried(e)
  /\ StatusJustified
=============================================================================
