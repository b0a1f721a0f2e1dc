------------------------------- MODULE Outbox -------------------------------
(***************************************************************************)
(* The durable email outbox of Sesamo and the workers that drain it:       *)
(*   internal/http/enduser.go   queueOneTimeLinkTx                         *)
(*   internal/email/token.go    IssueTx, consume, PurgeExpired             *)
(*   internal/email/outbox.go   QueueTx, Claim, Finalize, reduceEvent,     *)
(*                              PurgeFinished                              *)
(*   internal/email/worker.go   runOnce, deliver, classify                 *)
(*                                                                         *)
(* One request mints one one-time token and one outbox row in one          *)
(* transaction; both are named by the same element of Job.  Postgres runs  *)
(* at READ COMMITTED: the issuing transaction is split at the points where *)
(* its two UPDATEs take their snapshots, everything else the code does in  *)
(* a single statement or a single short transaction is one action.         *)
(*                                                                         *)
(* A lease token is gen_random_uuid(), fresh per claim.  Each claim also   *)
(* increments attempt_count, so the attempt number identifies the lease    *)
(* and stands for it; 0 is NULL.  Clocks are left out: a deadline is an    *)
(* action that may happen at any time after the thing it limits.           *)
(***************************************************************************)
EXTENDS Naturals, FiniteSets, EventReducer

CONSTANTS
  Job,          \* requests: the token and the outbox row they create
  SlotOf,       \* [Job -> (user, purpose)]: links of one slot supersede each other
  Worker,       \* worker loops, one per replica
  ProviderOf,   \* [Job -> provider frozen on the row at enqueue]
  Adapter,      \* [Worker -> provider of the one adapter the worker holds]
  Idempotent,   \* providers that deduplicate on the idempotency key (Resend)
  MaxAttempts,  \* outbox.go MaxAttempts
  ClaimBatch    \* worker.go claimBatch

ASSUME MaxAttemptsAssumption == MaxAttempts \in Nat \ {0}
ASSUME ClaimBatchAssumption == ClaimBatch \in Nat \ {0}
ASSUME WorkerAssumption == IsFiniteSet(Worker)

VARIABLES
  issue,        \* progress of the issuing transaction of each request
  seenTokens,   \* token rows its first UPDATE saw, then the ones it locked
  seenJobs,     \* outbox rows its second UPDATE saw
  before,       \* history: requests that had committed when it began
  token,        \* one_time_tokens row
  phase,        \* where the clock stands against send_before and expires_at
  status, payload, pmid, lease, leaseLive, attempts, ready, \* email_outbox row
  hand, held,   \* per worker: stage of each claimed job, and its lease token
  keys, mails   \* provider: idempotency keys seen, copies of a mail accepted

issueVars  == <<issue, seenTokens, seenJobs, before>>
rowVars    == <<status, payload, pmid, lease, leaseLive, attempts, ready>>
workerVars == <<hand, held>>
mailVars   == <<keys, mails>>
vars == <<issueVars, token, phase, rowVars, workerVars, mailVars>>

Status  == RowStatus \cup {"absent", "purged"}
Outcome == {"accepted", "retry", "failed"}
Stage   == {"none", "sealed", "open"} \cup Outcome

\* Mutation: the key is derived from the attempt as well.
IdempotencyKeyPerAttempt(j, n) == <<j, n>>

\* Job.IdempotencyKey: derived from the immutable outbox id, not the attempt n.
IdempotencyKey(j, n) == j

TypeOK ==
  /\ issue \in [Job -> {"idle", "superseding", "queueing", "committed", "aborted"}]
  /\ seenTokens \in [Job -> SUBSET Job]
  /\ seenJobs \in [Job -> SUBSET Job]
  /\ before \in [Job -> SUBSET Job]
  /\ token \in [Job -> {"none", "unused", "superseded", "spent", "deleted"}]
  /\ phase \in [Job -> {"open", "closing", "over"}]
  /\ status \in [Job -> Status]
  /\ payload \in [Job -> BOOLEAN]
  /\ pmid \in [Job -> BOOLEAN]
  /\ lease \in [Job -> 0..MaxAttempts]
  /\ leaseLive \in [Job -> BOOLEAN]
  /\ attempts \in [Job -> 0..MaxAttempts]
  /\ ready \in [Job -> BOOLEAN]
  /\ hand \in [Worker -> [Job -> Stage]]
  /\ held \in [Worker -> [Job -> 0..MaxAttempts]]
  /\ mails \in [Job -> Nat]

Init ==
  /\ issue = [j \in Job |-> "idle"]
  /\ seenTokens = [j \in Job |-> {}]
  /\ seenJobs = [j \in Job |-> {}]
  /\ before = [j \in Job |-> {}]
  /\ token = [j \in Job |-> "none"]
  /\ phase = [j \in Job |-> "open"]
  /\ status = [j \in Job |-> "absent"]
  /\ payload = [j \in Job |-> FALSE]
  /\ pmid = [j \in Job |-> FALSE]
  /\ lease = [j \in Job |-> 0]
  /\ leaseLive = [j \in Job |-> FALSE]
  /\ attempts = [j \in Job |-> 0]
  /\ ready = [j \in Job |-> TRUE]
  /\ hand = [w \in Worker |-> [j \in Job |-> "none"]]
  /\ held = [w \in Worker |-> [j \in Job |-> 0]]
  /\ keys = {}
  /\ mails = [j \in Job |-> 0]

-----------------------------------------------------------------------------
(* Issuing a link: queueOneTimeLinkTx inside the handler's transaction.    *)

Peers(j) == {k \in Job : SlotOf[k] = SlotOf[j]}

\* Row lock the token UPDATE of an open transaction holds until it ends.
TokenLocked(t) == \E k \in Job : issue[k] = "queueing" /\ t \in seenTokens[k]

\* Mutation: a link whose mail has already gone out is left alone.
UnusedUnsentTokens(j) == {k \in Peers(j) : token[k] = "unused" /\ status[k] = "pending"}

UnusedTokens(j) == {k \in Peers(j) : token[k] = "unused"}

\* Mutation: QueueTx leaves the jobs a worker is sending alone.
PendingUnleasedJobs(j) == {k \in Peers(j) : status[k] = "pending" /\ lease[k] = 0}

PendingJobs(j) == {k \in Peers(j) : status[k] = "pending"}

\* handleMagicLinkRequest, handleResetRequest and handleSignup open the
\* transaction for a known account; IssueTx's supersede UPDATE starts, on the
\* rows committed by now.
IssueBegin(j) ==
  /\ issue[j] = "idle"
  /\ issue' = [issue EXCEPT ![j] = "superseding"]
  /\ seenTokens' = [seenTokens EXCEPT ![j] = UnusedTokens(j)]
  /\ before' = [before EXCEPT ![j] = {k \in Job : issue[k] = "committed"}]
  /\ UNCHANGED <<seenJobs, token, phase, rowVars, workerVars, mailVars>>

\* The UPDATE waits for rows other transactions hold, rechecks consumed_at on
\* the rows it saw and locks what is left; the token is inserted; QueueTx's
\* cancel UPDATE starts, on the outbox rows committed by now.
IssueSupersede(j) ==
  /\ issue[j] = "superseding"
  /\ \A t \in seenTokens[j] : ~TokenLocked(t)
  /\ issue' = [issue EXCEPT ![j] = "queueing"]
  /\ seenTokens' = [seenTokens EXCEPT ![j] = @ \cap UnusedTokens(j)]
  /\ seenJobs' = [seenJobs EXCEPT ![j] = PendingJobs(j)]
  /\ UNCHANGED <<before, token, phase, rowVars, workerVars, mailVars>>

\* The rows QueueTx cancels: the ones it saw that are still pending.
Canceled(j) == {k \in seenJobs[j] : status[k] = "pending"}

CancelLease(j) == [k \in Job |-> IF k \in Canceled(j) THEN 0 ELSE lease[k]]

\* The cancel UPDATE, the INSERT of the new row and the commit.
IssueCommit(j) ==
  /\ issue[j] = "queueing"
  /\ issue' = [issue EXCEPT ![j] = "committed"]
  /\ token' = [k \in Job |-> IF k = j THEN "unused"
                             ELSE IF k \in seenTokens[j] THEN "superseded" ELSE token[k]]
  /\ status' = [k \in Job |-> IF k = j THEN "pending"
                              ELSE IF k \in Canceled(j) THEN "canceled" ELSE status[k]]
  /\ payload' = [k \in Job |-> k = j \/ (payload[k] /\ k \notin Canceled(j))]
  /\ lease' = CancelLease(j)
  /\ leaseLive' = [k \in Job |-> leaseLive[k] /\ k \notin Canceled(j)]
  /\ seenTokens' = [seenTokens EXCEPT ![j] = {}]
  /\ seenJobs' = [seenJobs EXCEPT ![j] = {}]
  /\ UNCHANGED <<before, phase, pmid, attempts, ready, workerVars, mailVars>>

\* Any failing statement, the strict audit insert included: all rolls back and
\* a reset or magic-link request is answered 200 all the same.
IssueAbort(j) ==
  /\ issue[j] \in {"superseding", "queueing"}
  /\ issue' = [issue EXCEPT ![j] = "aborted"]
  /\ seenTokens' = [seenTokens EXCEPT ![j] = {}]
  /\ seenJobs' = [seenJobs EXCEPT ![j] = {}]
  /\ UNCHANGED <<before, token, phase, rowVars, workerVars, mailVars>>

\* queueOneTimeLinkTx: IssueTx, then QueueTx, in the caller's transaction.
QueueOneTimeLink(j) ==
  IssueBegin(j) \/ IssueSupersede(j) \/ IssueCommit(j) \/ IssueAbort(j)

-----------------------------------------------------------------------------
(* The life of the token after the commit.                                 *)

TokenLive(j) == token[j] = "unused" /\ phase[j] # "over"

\* consume: one UPDATE ... RETURNING, waiting for a superseding transaction.
Consume(j) ==
  /\ TokenLive(j)
  /\ ~TokenLocked(j)
  /\ token' = [token EXCEPT ![j] = "spent"]
  /\ UNCHANGED <<issueVars, phase, rowVars, workerVars, mailVars>>

\* TokenStore.PurgeExpired; token_id is ON DELETE SET NULL.
PurgeToken(j) ==
  /\ token[j] \in {"superseded", "spent"} \/ (token[j] = "unused" /\ phase[j] = "over")
  /\ ~TokenLocked(j)
  /\ token' = [token EXCEPT ![j] = "deleted"]
  /\ UNCHANGED <<issueVars, phase, rowVars, workerVars, mailVars>>

-----------------------------------------------------------------------------
(* The clock: send_before is sendBeforeMargin earlier than expires_at.     *)

SendWindowElapses(j) ==
  /\ issue[j] = "committed" /\ phase[j] = "open"
  /\ phase' = [phase EXCEPT ![j] = "closing"]
  /\ UNCHANGED <<issueVars, token, rowVars, workerVars, mailVars>>

TokenExpires(j) ==
  /\ phase[j] = "closing"
  /\ phase' = [phase EXCEPT ![j] = "over"]
  /\ UNCHANGED <<issueVars, token, rowVars, workerVars, mailVars>>

LeaseExpires(j) ==
  /\ leaseLive[j]
  /\ leaseLive' = [leaseLive EXCEPT ![j] = FALSE]
  /\ UNCHANGED <<issueVars, token, phase, status, payload, pmid, lease, attempts,
                 ready, workerVars, mailVars>>

RetryDue(j) ==
  /\ ~ready[j]
  /\ ready' = [ready EXCEPT ![j] = TRUE]
  /\ UNCHANGED <<issueVars, token, phase, status, payload, pmid, lease, leaseLive,
                 attempts, workerVars, mailVars>>

-----------------------------------------------------------------------------
(* Outbox.Claim.                                                           *)

Idle(w) == \A j \in Job : hand[w][j] = "none"

\* Mutation: an expired lease is not taken over.
ClaimableUnleased(w, j) ==
  status[j] = "pending" /\ ProviderOf[j] = Adapter[w] /\ ready[j] /\ lease[j] = 0

Claimable(w, j) ==
  /\ status[j] = "pending"
  /\ ProviderOf[j] = Adapter[w]
  /\ ready[j]
  /\ ~leaseLive[j]

\* How Claim classifies a candidate: "lease", or the status it retires to.
Verdict(j) ==
  IF phase[j] # "open" THEN "expired"
  ELSE IF attempts[j] >= MaxAttempts THEN "failed"
  ELSE IF token[j] # "deleted" /\ ~TokenLive(j) THEN "canceled" ELSE "lease"

Leased(S)  == {j \in S : Verdict(j) = "lease"}
Retired(S) == S \ Leased(S)

\* Mutation: taking over an expired lease keeps its token.
ReuseAttempt(j) == IF attempts[j] = 0 THEN 1 ELSE attempts[j]

NextAttempt(j) == attempts[j] + 1

\* One transaction: lock the candidates S, retire the dead ones, lease the rest.
Claim(w, S) ==
  /\ Idle(w)
  /\ S # {} /\ \A j \in S : Claimable(w, j)
  /\ Cardinality(S) <= ClaimBatch
  /\ status' = [j \in Job |-> IF j \in Retired(S) THEN Verdict(j) ELSE status[j]]
  /\ payload' = [j \in Job |-> payload[j] /\ j \notin Retired(S)]
  /\ attempts' = [j \in Job |-> IF j \in Leased(S) THEN NextAttempt(j) ELSE attempts[j]]
  /\ lease' = [j \in Job |-> IF j \in Leased(S) THEN NextAttempt(j)
                             ELSE IF j \in Retired(S) THEN 0 ELSE lease[j]]
  /\ leaseLive' = [j \in Job |-> leaseLive[j] \/ j \in Leased(S)]
  /\ hand' = [hand EXCEPT ![w] = [j \in Job |-> IF j \in Leased(S) THEN "sealed" ELSE "none"]]
  /\ held' = [held EXCEPT ![w] = [j \in Job |-> IF j \in Leased(S) THEN NextAttempt(j) ELSE 0]]
  /\ UNCHANGED <<issueVars, token, phase, pmid, ready, mailVars>>

-----------------------------------------------------------------------------
(* The worker: Claim's decryption loop, deliver, classify, Finalize.       *)

Release(w, j) ==
  /\ hand' = [hand EXCEPT ![w][j] = "none"]
  /\ held' = [held EXCEPT ![w][j] = 0]

\* The WHERE id AND lease_token of every Finalize.
OwnsLease(w, j) == lease[j] = held[w][j]

\* Mutation: the failed UPDATE forgets nonce and ciphertext.
SettleRowKeepsPayload(j, s) ==
  /\ status' = [status EXCEPT ![j] = s]
  /\ payload' = [payload EXCEPT ![j] = s = "failed"]
  /\ pmid' = [pmid EXCEPT ![j] = @ \/ s = "accepted"]
  /\ lease' = [lease EXCEPT ![j] = 0]
  /\ leaseLive' = [leaseLive EXCEPT ![j] = FALSE]
  /\ UNCHANGED <<attempts, ready>>

\* The three UPDATEs of Finalize; Retry keeps the payload and the status.
SettleRow(j, s) ==
  /\ status' = [status EXCEPT ![j] = s]
  /\ payload' = [payload EXCEPT ![j] = FALSE]
  /\ pmid' = [pmid EXCEPT ![j] = @ \/ s = "accepted"]
  /\ lease' = [lease EXCEPT ![j] = 0]
  /\ leaseLive' = [leaseLive EXCEPT ![j] = FALSE]
  /\ UNCHANGED <<attempts, ready>>

RetryRow(j) ==
  /\ ready' = [ready EXCEPT ![j] = FALSE]
  /\ lease' = [lease EXCEPT ![j] = 0]
  /\ leaseLive' = [leaseLive EXCEPT ![j] = FALSE]
  /\ UNCHANGED <<status, payload, pmid, attempts>>

Opened(w, j) ==
  /\ hand[w][j] = "sealed"
  /\ hand' = [hand EXCEPT ![w][j] = "open"]
  /\ UNCHANGED <<issueVars, token, phase, rowVars, held, mailVars>>

\* A payload that does not decrypt is finalized as failed at once; if that
\* fails, or the lease is lost, the job is dropped all the same.
Undecryptable(w, j) ==
  /\ hand[w][j] = "sealed"
  /\ Release(w, j)
  /\ \/ OwnsLease(w, j) /\ SettleRow(j, "failed")
     \/ UNCHANGED rowVars
  /\ UNCHANGED <<issueVars, token, phase, mailVars>>

\* What an adapter's Send returns: a receipt, a retryable SendError (no answer
\* in time, 429, 5xx, a 2xx without an id, a concurrent request under the same
\* key) or a terminal one (any other status).
Reply == {"ok", "transient", "terminal"}

\* Replies that leave room for the provider having taken the message: a 2xx
\* without a MessageID and a lost answer are both retryable.
MayBeTaken == {"ok", "transient"}

\* Replies that leave room for it not having taken the message: transportError
\* cannot know whether the provider saw the request.
MayBeRefused == {"transient", "terminal"}

\* classify: the outcomes of attempt n for a provider reply.  A retry whose
\* backoff would end past send_before is failed instead.
Classify(j, n, reply) ==
  CASE reply = "ok"                             -> {"accepted"}
    [] reply = "transient" /\ n < MaxAttempts   -> IF phase[j] = "open" THEN {"retry", "failed"}
                                                   ELSE {"failed"}
    [] OTHER                                    -> {"failed"}

\* The provider takes the message, unless it knows the key already.
Accept(j, n) ==
  IF ProviderOf[j] \in Idempotent /\ IdempotencyKey(j, n) \in keys
  THEN UNCHANGED mailVars
  ELSE /\ keys' = keys \cup {IdempotencyKey(j, n)}
       /\ mails' = [mails EXCEPT ![j] = @ + 1]

\* One provider call and its classification.
Send(w, j, reply) ==
  /\ hand[w][j] = "open"
  /\ \A k \in Job : hand[w][k] \in {"none", "open"}
  /\ \/ reply \in MayBeTaken /\ Accept(j, held[w][j])
     \/ reply \in MayBeRefused /\ UNCHANGED mailVars
  /\ \E out \in Classify(j, held[w][j], reply) : hand' = [hand EXCEPT ![w][j] = out]
  /\ UNCHANGED <<issueVars, token, phase, rowVars, held>>

\* Finalize by the owner of the lease.
Finalize(w, j) ==
  /\ hand[w][j] \in Outcome
  /\ OwnsLease(w, j)
  /\ IF hand[w][j] = "retry" THEN status[j] = "pending" /\ RetryRow(j)
                             ELSE SettleRow(j, hand[w][j])
  /\ Release(w, j)
  /\ UNCHANGED <<issueVars, token, phase, mailVars>>

\* Finalize that matches no row: ErrLeaseLost, the outcome is dropped.
LeaseLost(w, j) ==
  /\ hand[w][j] \in Outcome
  /\ ~OwnsLease(w, j) \/ (hand[w][j] = "retry" /\ status[j] # "pending")
  /\ Release(w, j)
  /\ UNCHANGED <<issueVars, token, phase, rowVars, mailVars>>

\* Mutation: a failed finalize sends the mail again under the same claim.
FinalizeErrorResends(w, j) ==
  /\ hand[w][j] \in Outcome
  /\ hand' = [hand EXCEPT ![w][j] = "open"]
  /\ UNCHANGED <<issueVars, token, phase, rowVars, held, mailVars>>

\* Finalize fails (database down, finalizeTimeout): logged, the lease stays.
FinalizeError(w, j) ==
  /\ hand[w][j] \in Outcome
  /\ Release(w, j)
  /\ UNCHANGED <<issueVars, token, phase, rowVars, mailVars>>

\* The process dies with jobs in hand and comes back with none.
Crash(w) ==
  /\ ~Idle(w)
  /\ hand' = [hand EXCEPT ![w] = [j \in Job |-> "none"]]
  /\ held' = [held EXCEPT ![w] = [j \in Job |-> 0]]
  /\ UNCHANGED <<issueVars, token, phase, rowVars, mailVars>>

-----------------------------------------------------------------------------
(* Rows written from outside the worker.                                   *)

\* reduceEvent, from the webhook or from Finalize's reconcileEvents: one
\* UPDATE on the row that carries the event's provider_message_id.
ReduceEvent(j, e) ==
  /\ pmid[j]
  /\ status' = [status EXCEPT ![j] = ReduceStatus(@, e)]
  /\ payload' = [payload EXCEPT ![j] = @ /\ ~ErasesPayload(e)]
  /\ UNCHANGED <<issueVars, token, phase, pmid, lease, leaseLive, attempts, ready,
                 workerVars, mailVars>>

\* PurgeFinished: finished rows, and pending ones whose window is long gone.  Its DELETE
\* of old email_events, which no variable here stands for, is left out.
PurgeFinished(j) ==
  /\ status[j] \in RowStatus
  /\ status[j] = "pending" => phase[j] # "open"
  /\ status' = [status EXCEPT ![j] = "purged"]
  /\ payload' = [payload EXCEPT ![j] = FALSE]
  /\ pmid' = [pmid EXCEPT ![j] = FALSE]
  /\ lease' = [lease EXCEPT ![j] = 0]
  /\ leaseLive' = [leaseLive EXCEPT ![j] = FALSE]
  /\ UNCHANGED <<issueVars, token, phase, attempts, ready, workerVars, mailVars>>

-----------------------------------------------------------------------------
ClaimStep(w) == \E S \in SUBSET Job : Claim(w, S)

Deliver(w) ==
  \E j \in Job :
    \/ Opened(w, j) \/ Undecryptable(w, j)
    \/ \E reply \in Reply : Send(w, j, reply)
    \/ Finalize(w, j) \/ LeaseLost(w, j) \/ FinalizeError(w, j)

Next ==
  \/ \E j \in Job :
       \/ QueueOneTimeLink(j)
       \/ Consume(j) \/ PurgeToken(j)
       \/ SendWindowElapses(j) \/ TokenExpires(j) \/ LeaseExpires(j) \/ RetryDue(j)
       \/ \E e \in EventClass : ReduceEvent(j, e)
       \/ PurgeFinished(j)
  \/ \E w \in Worker : ClaimStep(w) \/ Deliver(w) \/ Crash(w)

Spec == Init /\ [][Next]_vars

\* Fairness: every replica keeps polling and finishing what it holds (a crashed
\* one is restarted), and time passes.  Claim takes jobs in available_at order,
\* so no claimable job is passed over forever.  The purge is counted on only for
\* a job that no worker has the adapter for, which nothing else retires.
Served(j) == \E w \in Worker : Adapter[w] = ProviderOf[j]

Fairness ==
  /\ \A w \in Worker : WF_vars(Deliver(w))
  /\ \A j \in Job : /\ WF_vars(\E w \in Worker, S \in SUBSET Job : j \in S /\ Claim(w, S))
                    /\ WF_vars(LeaseExpires(j))
                    /\ WF_vars(RetryDue(j))
                    /\ ~Served(j) => WF_vars(SendWindowElapses(j)) /\ WF_vars(PurgeFinished(j))

FairSpec == Spec /\ Fairness

-----------------------------------------------------------------------------
(* Properties.                                                             *)

\* The bearer link is in the database exactly while the job is deliverable
\* (migrations/0003: erased as soon as the job leaves 'pending'): seven places
\* in QueueTx, Claim, Finalize and reduceEvent write the status, each must
\* erase, and none may erase a job a worker still has to send.
PayloadIffPending == \A j \in Job : payload[j] <=> status[j] = "pending"

\* A row holds a lease token only while it is pending.  Finalize's accepted and
\* failed UPDATEs check the lease token and not the status, so this is what
\* keeps a late worker from moving a canceled, failed or delivered row.
LeaseOnlyWhilePending == \A j \in Job : lease[j] # 0 => status[j] = "pending"

\* At most one worker can finalize a job, however often leases ran out while
\* earlier workers were still sending.
SingleOwner ==
  \A j \in Job, w1, w2 \in Worker :
    lease[j] # 0 /\ held[w1][j] = lease[j] /\ held[w2][j] = lease[j] => w1 = w2

\* reduceEvent updates by provider_message_id alone, without looking at the
\* lease: sound because a row that has one was accepted and holds no lease.
CorrelatedRowIsSettled ==
  \A j \in Job : pmid[j] => status[j] \in {"accepted", "delivered", "failed"} /\ lease[j] = 0

\* A row says accepted or delivered only of a mail the provider took.
AcceptedWasSent == \A j \in Job : status[j] \in {"accepted", "delivered"} => mails[j] > 0

\* A provider that deduplicates on the idempotency key gets one copy of a mail,
\* whatever crashes, lost answers and expired leases happen around it.
IdempotentSendsOnce ==
  \A j \in Job : ProviderOf[j] \in Idempotent => mails[j] <= 1

\* No provider gets more copies than the attempt budget.
CopiesWithinBudget == \A j \in Job : mails[j] <= attempts[j]

\* A link superseded by a newer one no longer waits for delivery, under any
\* interleaving of issuing transactions: IssueTx's UPDATE runs before QueueTx's,
\* so every job whose token it supersedes is visible to the cancel.
SupersededIsCanceled ==
  \A j \in Job : token[j] = "superseded" => status[j] # "pending"

MovesForward(j) ==
  \/ status'[j] = status[j]
  \/ status[j] = "absent" /\ status'[j] = "pending"
  \/ status[j] \in RowStatus /\ status'[j] = "purged"
  \/ {status[j], status'[j]} \subseteq RowStatus /\ Rank(status[j]) < Rank(status'[j])

\* A row never walks backwards: terminal statuses are final, except that a
\* finished row is eventually deleted.
StatusMonotone == [][\A j \in Job : MovesForward(j)]_vars

AcceptedByOwner(j) ==
  status[j] = "pending" /\ status'[j] = "accepted" =>
    \E w \in Worker : hand[w][j] = "accepted" /\ held[w][j] = lease[j]

\* An acceptance is recorded only by the worker that still owns the lease and
\* saw the provider accept; an attempt that lost its lease changes nothing.
OwnerRecordsAcceptance == [][\A j \in Job : AcceptedByOwner(j)]_vars

\* Every job leaves 'pending', though each attempt may crash, time out or lose its
\* finalize: leases run out, attempts are counted, and the budget retires the job.
\* A job left behind by a change of provider, which no Claim looks at, is purged.
EveryJobSettles == \A j \in Job : status[j] = "pending" ~> status[j] # "pending"

\* token.go: "only the newest link works".  Once a request has committed, no link
\* of its slot that was out when the request began opens anything, however many
\* issuing transactions, consumes and purges fell between its two UPDATEs.
NewestLinkWins ==
  \A j \in Job : issue[j] = "committed" => \A k \in before[j] \cap Peers(j) : ~TokenLive(k)

\* Does not hold (README, "Divergences").
\* The same without "that was out when the request began".
OnlyNewestLinkWorks ==
  \A j, k \in Job : SlotOf[j] = SlotOf[k] /\ TokenLive(j) /\ TokenLive(k) => j = k

\* Does not hold (README, "Divergences").
\* token.go: "the worker re-checks that the link is still live before handing
\* it to a provider".
LeasedLinkIsLive == [][\A j \in Job : attempts'[j] > attempts[j] => TokenLive(j)]_vars

-----------------------------------------------------------------------------
(* What a requester sees of a row.                                         *)

Fate(j) ==
  CASE status[j] = "absent"  -> "none"
    [] status[j] = "purged"  -> "gone"
    [] status[j] = "pending" -> "owed"
    [] OTHER                 -> IF pmid[j] THEN "sent" ELSE "dropped"

Promise == INSTANCE Mail WITH
  Request <- Job,
  Budget <- MaxAttempts,
  Dedups <- {j \in Job : ProviderOf[j] \in Idempotent},
  fate <- [j \in Job |-> Fate(j)],
  copies <- mails

\* The outbox keeps the promise of Mail: with transactions, leases that run out,
\* overlapping sends, lost answers, crashes and webhooks, a request is settled
\* once, "sent" only after the provider took the mail, and no provider gets more
\* copies than attempts, or than one if it knows the idempotency key.
ImplementsMail == Promise!MailSpec

-----------------------------------------------------------------------------
(* The life of each row.                                                   *)

Row(j) == INSTANCE OutboxRow WITH status <- status[j], pmid <- pmid[j]

\* Whichever of the issuing transactions, the workers, the webhook and the purge
\* writes a row, it lives the life of OutboxRow: the message id comes with the
\* acceptance, only a row that has one is moved by events, and only by the reducer.
ImplementsRow ==
  /\ \A j \in Job : Row(j)!RowInit
  /\ [][\A j \in Job : Row(j)!RowStep]_vars

-----------------------------------------------------------------------------
(* The inductive invariant behind the safety properties.                   *)

\* A lease is the latest attempt of a pending row; a correlated row is settled.
RowInv ==
  \A j \in Job :
    /\ payload[j] <=> status[j] = "pending"
    /\ lease[j] # 0 => status[j] = "pending" /\ lease[j] = attempts[j]
    /\ pmid[j] => status[j] \in {"accepted", "delivered", "failed"}

\* No two workers hold the same lease token, current or lost.
WorkerInv ==
  \A w \in Worker, j \in Job :
    /\ hand[w][j] = "none" <=> held[w][j] = 0
    /\ held[w][j] <= attempts[j]
    /\ \A v \in Worker : held[w][j] # 0 /\ held[v][j] = held[w][j] => v = w

\* The provider remembers the key of every mail it took, and an acceptance in
\* hand or on record is one of those.
MailInv ==
  \A j \in Job :
    /\ mails[j] > 0 <=> j \in keys
    /\ ProviderOf[j] \in Idempotent => mails[j] <= 1
    /\ \A w \in Worker : hand[w][j] = "accepted" => mails[j] > 0
    /\ pmid[j] \/ status[j] \in {"accepted", "delivered"} => mails[j] > 0

\* An issuing transaction that locked a token has seen its job if it is pending.
IssueInv ==
  \A j \in Job :
    /\ issue[j] # "committed" => token[j] = "none" /\ status[j] = "absent"
    /\ \A k \in seenTokens[j] : issue[k] = "committed"
    /\ issue[j] = "queueing" => \A k \in seenTokens[j] : status[k] = "pending" => k \in seenJobs[j]
    /\ token[j] = "superseded" => status[j] # "pending"
    /\ \A k \in before[j] : issue[k] = "committed"
    /\ \A k \in before[j] \cap Peers(j) : token[k] = "unused" =>
         issue[j] = "aborted" \/ k \in seenTokens[j]
    /\ issue[j] \in {"idle", "committed", "aborted"} => seenTokens[j] = {}

\* The inductive invariant: what the rows, the workers, the provider and the
\* issuing transactions agree on between any two statements of the code.
IInv == TypeOK /\ RowInv /\ WorkerInv /\ MailInv /\ IssueInv
=============================================================================
