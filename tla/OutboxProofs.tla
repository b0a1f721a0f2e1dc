---------------------------- MODULE OutboxProofs ----------------------------
(* Machine-checked proofs about Outbox, for every value of its constants.   *)
EXTENDS Outbox, FiniteSetTheorems, TLAPS

\* The empty outbox is well typed.
LEMMA InitType == Init => TypeOK
  BY MaxAttemptsAssumption DEF Init, TypeOK, Status, Stage

\* What letting go of a job does to the worker's state.
LEMMA ReleaseType ==
  ASSUME TypeOK, NEW w \in Worker, NEW j \in Job, Release(w, j)
  PROVE  /\ hand' \in [Worker -> [Job -> Stage]]
         /\ held' \in [Worker -> [Job -> 0..MaxAttempts]]
<1>1. hand' \in [Worker -> [Job -> Stage]]
  BY DEF Release, TypeOK, Stage
<1>2. held' \in [Worker -> [Job -> 0..MaxAttempts]]
  BY MaxAttemptsAssumption DEF Release, TypeOK
<1> QED
  BY <1>1, <1>2

\* What the settling UPDATEs of Finalize do to the row.
LEMMA SettleType ==
  ASSUME TypeOK, NEW j \in Job, NEW s \in {"accepted", "failed"}, SettleRow(j, s)
  PROVE  /\ status' \in [Job -> Status]
         /\ payload' \in [Job -> BOOLEAN]
         /\ pmid' \in [Job -> BOOLEAN]
         /\ lease' \in [Job -> 0..MaxAttempts]
         /\ leaseLive' \in [Job -> BOOLEAN]
         /\ UNCHANGED <<attempts, ready>>
<1> USE MaxAttemptsAssumption DEF TypeOK, SettleRow
<1>1. status' \in [Job -> Status]
  BY DEF Status, RowStatus
<1>2. payload' \in [Job -> BOOLEAN] /\ leaseLive' \in [Job -> BOOLEAN]
  OBVIOUS
<1>3. pmid' \in [Job -> BOOLEAN]
  OBVIOUS
<1>4. lease' \in [Job -> 0..MaxAttempts]
  OBVIOUS
<1> QED
  BY <1>1, <1>2, <1>3, <1>4

\* Every action keeps the types: attempts stay within the budget because Claim
\* retires a row that has used it up.
LEMMA StepType == TypeOK /\ [Next]_vars => TypeOK'
<1> SUFFICES ASSUME TypeOK, [Next]_vars PROVE TypeOK'
  OBVIOUS
<1> USE MaxAttemptsAssumption DEF TypeOK, Stage, Status, RowStatus, Outcome, EventClass
<1>1. ASSUME NEW j \in Job, IssueBegin(j) PROVE TypeOK'
  BY <1>1 DEF IssueBegin, UnusedTokens, Peers, rowVars, workerVars, mailVars
<1>2. ASSUME NEW j \in Job, IssueSupersede(j) PROVE TypeOK'
  BY <1>2 DEF IssueSupersede, UnusedTokens, PendingJobs, Peers, rowVars, workerVars, mailVars
<1>3. ASSUME NEW j \in Job, IssueCommit(j) PROVE TypeOK'
  BY <1>3 DEF IssueCommit, CancelLease, workerVars, mailVars
<1>4. ASSUME NEW j \in Job, IssueAbort(j) PROVE TypeOK'
  BY <1>4 DEF IssueAbort, rowVars, workerVars, mailVars
<1>5. ASSUME NEW j \in Job, Consume(j) \/ PurgeToken(j) PROVE TypeOK'
  BY <1>5 DEF Consume, PurgeToken, issueVars, rowVars, workerVars, mailVars
<1>6. ASSUME NEW j \in Job, SendWindowElapses(j) \/ TokenExpires(j) PROVE TypeOK'
  BY <1>6 DEF SendWindowElapses, TokenExpires, issueVars, rowVars, workerVars, mailVars
<1>7. ASSUME NEW j \in Job, LeaseExpires(j) \/ RetryDue(j) PROVE TypeOK'
  BY <1>7 DEF LeaseExpires, RetryDue, issueVars, workerVars, mailVars
<1>8. ASSUME NEW j \in Job, NEW e \in EventClass, ReduceEvent(j, e) PROVE TypeOK'
  BY <1>8 DEF ReduceEvent, ReduceStatus, issueVars, workerVars, mailVars
<1>9. ASSUME NEW j \in Job, PurgeFinished(j) PROVE TypeOK'
  BY <1>9 DEF PurgeFinished, issueVars, workerVars, mailVars
<1>10. ASSUME NEW w \in Worker, NEW S \in SUBSET Job, Claim(w, S) PROVE TypeOK'
  BY <1>10 DEF Claim, Verdict, Leased, Retired, NextAttempt, issueVars, mailVars
<1>11. ASSUME NEW w \in Worker, NEW j \in Job, Opened(w, j) PROVE TypeOK'
  BY <1>11 DEF Opened, issueVars, rowVars, mailVars
<1>12. ASSUME NEW w \in Worker, NEW j \in Job, Undecryptable(w, j) PROVE TypeOK'
  <2>1. CASE SettleRow(j, "failed")
    BY <1>12, <2>1, ReleaseType, SettleType DEF Undecryptable, issueVars, mailVars
  <2>2. CASE UNCHANGED rowVars
    BY <1>12, <2>2, ReleaseType DEF Undecryptable, issueVars, rowVars, mailVars
  <2> QED
    BY <1>12, <2>1, <2>2 DEF Undecryptable
<1>13. ASSUME NEW w \in Worker, NEW j \in Job, NEW r \in Reply,
              Send(w, j, r)
       PROVE  TypeOK'
  BY <1>13 DEF Send, Accept, Classify, issueVars, rowVars, mailVars
<1>14. ASSUME NEW w \in Worker, NEW j \in Job, Finalize(w, j) PROVE TypeOK'
  <2>1. CASE hand[w][j] = "retry"
    <3>1. Release(w, j) /\ RetryRow(j) /\ UNCHANGED <<issueVars, token, phase, mailVars>>
      BY <1>14, <2>1 DEF Finalize
    <3>2. ready' \in [Job -> BOOLEAN] /\ leaseLive' \in [Job -> BOOLEAN]
      BY <3>1 DEF RetryRow
    <3>3. lease' \in [Job -> 0..MaxAttempts]
      BY <3>1 DEF RetryRow
    <3> QED
      BY <3>1, <3>2, <3>3, ReleaseType DEF RetryRow, issueVars, mailVars
  <2>2. CASE hand[w][j] # "retry"
    <3>1. hand[w][j] \in {"accepted", "failed"} /\ SettleRow(j, hand[w][j])
      BY <1>14, <2>2 DEF Finalize
    <3> QED
      BY <1>14, <3>1, ReleaseType, SettleType DEF Finalize, issueVars, mailVars
  <2> QED
    BY <2>1, <2>2
<1>15. ASSUME NEW w \in Worker, NEW j \in Job, LeaseLost(w, j) \/ FinalizeError(w, j) PROVE TypeOK'
  BY <1>15, ReleaseType DEF LeaseLost, FinalizeError, issueVars, rowVars, mailVars
<1>16. ASSUME NEW w \in Worker, Crash(w) PROVE TypeOK'
  BY <1>16 DEF Crash, issueVars, rowVars, mailVars
<1>17. CASE UNCHANGED vars
  BY <1>17 DEF vars, issueVars, rowVars, workerVars, mailVars
<1> QED
  BY <1>1, <1>2, <1>3, <1>4, <1>5, <1>6, <1>7, <1>8, <1>9, <1>10, <1>11, <1>12,
     <1>13, <1>14, <1>15, <1>16, <1>17
  DEF Next, QueueOneTimeLink, ClaimStep, Deliver, Reply

\* Type correctness of the outbox, its workers and the issuing transactions.
THEOREM TypeCorrect == Spec => []TypeOK
  BY InitType, StepType, PTL DEF Spec

-----------------------------------------------------------------------------
\* The empty outbox satisfies the inductive invariant.
LEMMA InitInv == Init => IInv
<1> SUFFICES ASSUME Init PROVE IInv
  OBVIOUS
<1>1. TypeOK
  BY InitType
<1>2. RowInv /\ WorkerInv
  BY MaxAttemptsAssumption DEF Init, RowInv, WorkerInv
<1>3. MailInv /\ IssueInv
  BY DEF Init, MailInv, IssueInv
<1> QED
  BY <1>1, <1>2, <1>3 DEF IInv

\* Each action keeps the rows consistent.
LEMMA RowStep == IInv /\ [Next]_vars => RowInv'
<1> SUFFICES ASSUME IInv, [Next]_vars PROVE RowInv'
  OBVIOUS
<1> USE MaxAttemptsAssumption DEF IInv, TypeOK, RowInv
<1>1. ASSUME NEW j \in Job, IssueBegin(j) \/ IssueSupersede(j) \/ IssueAbort(j) PROVE RowInv'
  BY <1>1 DEF IssueBegin, IssueSupersede, IssueAbort, rowVars
<1>2. ASSUME NEW j \in Job, IssueCommit(j) PROVE RowInv'
  BY <1>2 DEF IssueCommit, CancelLease, Canceled, IssueInv
<1>3. ASSUME NEW j \in Job,
             Consume(j) \/ PurgeToken(j) \/ SendWindowElapses(j) \/ TokenExpires(j)
      PROVE  RowInv'
  BY <1>3 DEF Consume, PurgeToken, SendWindowElapses, TokenExpires, rowVars
<1>4. ASSUME NEW j \in Job, LeaseExpires(j) \/ RetryDue(j) PROVE RowInv'
  BY <1>4 DEF LeaseExpires, RetryDue
<1>5. ASSUME NEW j \in Job, NEW e \in EventClass, ReduceEvent(j, e) PROVE RowInv'
  BY <1>5 DEF ReduceEvent, ReduceStatus, ErasesPayload, EventClass
<1>6. ASSUME NEW j \in Job, PurgeFinished(j) PROVE RowInv'
  BY <1>6 DEF PurgeFinished
<1>7. ASSUME NEW w \in Worker, NEW S \in SUBSET Job, Claim(w, S) PROVE RowInv'
  BY <1>7 DEF Claim, Claimable, Verdict, Leased, Retired, NextAttempt
<1>8. ASSUME NEW w \in Worker, NEW j \in Job, Undecryptable(w, j) PROVE RowInv'
  BY <1>8 DEF Undecryptable, SettleRow, rowVars
<1>9. ASSUME NEW w \in Worker, NEW j \in Job, Finalize(w, j) PROVE RowInv'
  BY <1>9 DEF Finalize, SettleRow, RetryRow, Outcome
<1>10. ASSUME NEW w \in Worker, NEW j \in Job, NEW r \in Reply,
              Opened(w, j) \/ Send(w, j, r) \/ LeaseLost(w, j) \/ FinalizeError(w, j)
       PROVE  RowInv'
  BY <1>10 DEF Opened, Send, LeaseLost, FinalizeError, rowVars
<1>11. ASSUME NEW w \in Worker, Crash(w) PROVE RowInv'
  BY <1>11 DEF Crash, rowVars
<1>12. CASE UNCHANGED vars
  BY <1>12 DEF vars, rowVars
<1> QED
  BY <1>1, <1>2, <1>3, <1>4, <1>5, <1>6, <1>7, <1>8, <1>9, <1>10, <1>11, <1>12
  DEF Next, QueueOneTimeLink, ClaimStep, Deliver, Reply

\* Each action keeps lease tokens unique among the workers.
LEMMA WorkerStep == IInv /\ [Next]_vars => WorkerInv'
<1> SUFFICES ASSUME IInv, [Next]_vars PROVE WorkerInv'
  OBVIOUS
<1> USE MaxAttemptsAssumption DEF IInv, TypeOK, WorkerInv
<1>1. ASSUME NEW j \in Job,
             \/ IssueBegin(j) \/ IssueSupersede(j) \/ IssueCommit(j) \/ IssueAbort(j)
             \/ Consume(j) \/ PurgeToken(j) \/ SendWindowElapses(j) \/ TokenExpires(j)
             \/ LeaseExpires(j) \/ RetryDue(j) \/ PurgeFinished(j)
      PROVE  WorkerInv'
  BY <1>1 DEF IssueBegin, IssueSupersede, IssueCommit, IssueAbort, Consume, PurgeToken,
     SendWindowElapses, TokenExpires, LeaseExpires, RetryDue, PurgeFinished, rowVars, workerVars
<1>2. ASSUME NEW j \in Job, NEW e \in EventClass, ReduceEvent(j, e) PROVE WorkerInv'
  BY <1>2 DEF ReduceEvent, workerVars
<1>3. ASSUME NEW w \in Worker, NEW S \in SUBSET Job, Claim(w, S) PROVE WorkerInv'
  BY <1>3 DEF Claim, Leased, NextAttempt, Idle
<1>4. ASSUME NEW w \in Worker, NEW j \in Job, Opened(w, j) PROVE WorkerInv'
  BY <1>4 DEF Opened, rowVars
<1>5. ASSUME NEW w \in Worker, NEW j \in Job, Release(w, j), UNCHANGED attempts PROVE WorkerInv'
  BY <1>5 DEF Release
<1>6. ASSUME NEW w \in Worker, NEW j \in Job,
             Undecryptable(w, j) \/ Finalize(w, j) \/ LeaseLost(w, j) \/ FinalizeError(w, j)
      PROVE  WorkerInv'
  BY <1>5, <1>6 DEF Undecryptable, Finalize, LeaseLost, FinalizeError, SettleRow, RetryRow, rowVars
<1>7. ASSUME NEW w \in Worker, NEW j \in Job, NEW r \in Reply,
             Send(w, j, r)
      PROVE  WorkerInv'
  BY <1>7 DEF Send, Classify, rowVars
<1>8. ASSUME NEW w \in Worker, Crash(w) PROVE WorkerInv'
  BY <1>8 DEF Crash, rowVars
<1>9. CASE UNCHANGED vars
  BY <1>9 DEF vars, rowVars, workerVars
<1> QED
  BY <1>1, <1>2, <1>3, <1>4, <1>6, <1>7, <1>8, <1>9
  DEF Next, QueueOneTimeLink, ClaimStep, Deliver

\* Letting go of a job forgets an acceptance and invents none.
LEMMA ReleaseHand ==
  ASSUME TypeOK, NEW w \in Worker, NEW j \in Job, Release(w, j)
  PROVE  \A v \in Worker, k \in Job : hand'[v][k] \in {hand[v][k], "none"}
  BY DEF TypeOK, Release

\* The provider's side of a call: nothing, or one more accepted mail.
LEMMA SendMails ==
  ASSUME TypeOK, MailInv, NEW w \in Worker, NEW j \in Job,
         NEW r \in Reply, Send(w, j, r)
  PROVE  /\ \A k \in Job : mails[k] > 0 => mails'[k] > 0
         /\ \A k \in Job : mails'[k] > 0 <=> k \in keys'
         /\ \A k \in Job : ProviderOf[k] \in Idempotent => mails'[k] <= 1
         /\ r = "ok" => mails'[j] > 0
<1>1. mails \in [Job -> Nat]
  BY DEF TypeOK
<1>2. \A k \in Job : /\ mails[k] > 0 <=> k \in keys
                     /\ ProviderOf[k] \in Idempotent => mails[k] <= 1
  BY DEF MailInv
<1>3. CASE UNCHANGED mailVars /\ (r # "ok" \/ j \in keys)
  BY <1>2, <1>3 DEF mailVars
<1>4. CASE /\ keys' = keys \cup {j}
           /\ mails' = [mails EXCEPT ![j] = @ + 1]
           /\ ProviderOf[j] \in Idempotent => j \notin keys
  <2>1. \A k \in Job : mails'[k] = IF k = j THEN mails[k] + 1 ELSE mails[k]
    BY <1>1, <1>4
  <2>2. \A k \in Job : mails[k] \in Nat
    BY <1>1
  <2>3. \A k \in Job : k \in keys' <=> k \in keys \/ k = j
    BY <1>4
  <2>4. ProviderOf[j] \in Idempotent => mails[j] = 0
    BY <1>2, <1>4, <2>2
  <2> QED
    BY <1>2, <2>1, <2>2, <2>3, <2>4
<1> QED
  BY <1>3, <1>4 DEF Send, Accept, IdempotencyKey, Reply, MayBeTaken, MayBeRefused

\* Steps that leave the provider alone, invent no acceptance in hand and put
\* none on record that it did not give.
LEMMA MailKeep ==
  ASSUME MailInv, UNCHANGED mailVars,
         \A w \in Worker, j \in Job : hand'[w][j] = "accepted" => hand[w][j] = "accepted",
         \A j \in Job : pmid'[j] \/ status'[j] \in {"accepted", "delivered"} => mails[j] > 0
  PROVE  MailInv'
  BY DEF MailInv, mailVars

\* Each action keeps the provider's memory ahead of what the rows claim.
LEMMA MailStep == IInv /\ [Next]_vars => MailInv'
<1> SUFFICES ASSUME IInv, [Next]_vars PROVE MailInv'
  OBVIOUS
<1> USE DEF IInv, TypeOK, MailInv
<1>1. ASSUME NEW j \in Job, IssueBegin(j) \/ IssueSupersede(j) \/ IssueAbort(j) PROVE MailInv'
  BY <1>1 DEF IssueBegin, IssueSupersede, IssueAbort, rowVars, workerVars, mailVars
<1>2. ASSUME NEW j \in Job, IssueCommit(j) PROVE MailInv'
  BY <1>2 DEF IssueCommit, workerVars, mailVars
<1>3. ASSUME NEW j \in Job,
             \/ Consume(j) \/ PurgeToken(j) \/ SendWindowElapses(j) \/ TokenExpires(j)
             \/ LeaseExpires(j) \/ RetryDue(j)
      PROVE  MailInv'
  BY <1>3 DEF Consume, PurgeToken, SendWindowElapses, TokenExpires, LeaseExpires, RetryDue,
     rowVars, workerVars, mailVars
<1>4. ASSUME NEW j \in Job, NEW e \in EventClass, ReduceEvent(j, e) PROVE MailInv'
  BY <1>4 DEF ReduceEvent, workerVars, mailVars
<1>5. ASSUME NEW j \in Job, PurgeFinished(j) PROVE MailInv'
  BY <1>5 DEF PurgeFinished, workerVars, mailVars
<1>6. ASSUME NEW w \in Worker, NEW S \in SUBSET Job, Claim(w, S) PROVE MailInv'
  BY <1>6 DEF Claim, Verdict, Retired, mailVars
<1>7. ASSUME NEW w \in Worker, NEW j \in Job, Opened(w, j) PROVE MailInv'
  BY <1>7 DEF Opened, rowVars, mailVars
<1>8. ASSUME NEW w \in Worker, NEW j \in Job, Undecryptable(w, j) PROVE MailInv'
  <2>1. \A k \in Job : pmid'[k] \/ status'[k] \in {"accepted", "delivered"} => mails[k] > 0
    BY <1>8 DEF Undecryptable, SettleRow, rowVars
  <2> QED
    BY <1>8, <2>1, ReleaseHand, MailKeep DEF Undecryptable
<1>9. ASSUME NEW w \in Worker, NEW j \in Job, NEW r \in Reply,
             Send(w, j, r)
      PROVE  MailInv'
  <2>1. \A v \in Worker, k \in Job :
           hand'[v][k] = "accepted" => hand[v][k] = "accepted" \/ (k = j /\ r = "ok")
    BY <1>9 DEF Send, Classify
  <2>2. UNCHANGED <<pmid, status>>
    BY <1>9 DEF Send, rowVars
  <2>3. /\ \A k \in Job : mails[k] > 0 => mails'[k] > 0
        /\ \A k \in Job : mails'[k] > 0 <=> k \in keys'
        /\ \A k \in Job : ProviderOf[k] \in Idempotent => mails'[k] <= 1
        /\ r = "ok" => mails'[j] > 0
    BY <1>9, SendMails
  <2>4. \A k \in Job :
           /\ \A v \in Worker : hand'[v][k] = "accepted" => mails'[k] > 0
           /\ pmid'[k] \/ status'[k] \in {"accepted", "delivered"} => mails'[k] > 0
    BY <2>1, <2>2, <2>3
  <2> QED
    BY <2>3, <2>4
<1>10. ASSUME NEW w \in Worker, NEW j \in Job, Finalize(w, j) PROVE MailInv'
  <2>1. \A k \in Job : pmid'[k] \/ status'[k] \in {"accepted", "delivered"} => mails[k] > 0
    BY <1>10 DEF Finalize, SettleRow, RetryRow, Outcome
  <2> QED
    BY <1>10, <2>1, ReleaseHand, MailKeep DEF Finalize
<1>11. ASSUME NEW w \in Worker, NEW j \in Job, LeaseLost(w, j) \/ FinalizeError(w, j) PROVE MailInv'
  BY <1>11, ReleaseHand, MailKeep DEF LeaseLost, FinalizeError, rowVars
<1>12. ASSUME NEW w \in Worker, Crash(w) PROVE MailInv'
  BY <1>12 DEF Crash, rowVars, mailVars
<1>13. CASE UNCHANGED vars
  BY <1>13 DEF vars, rowVars, workerVars, mailVars
<1> QED
  BY <1>1, <1>2, <1>3, <1>4, <1>5, <1>6, <1>7, <1>8, <1>9, <1>10, <1>11, <1>12, <1>13
  DEF Next, QueueOneTimeLink, ClaimStep, Deliver, Reply

\* Each action keeps what an issuing transaction saw ahead of what it supersedes.
LEMMA IssueStep == IInv /\ [Next]_vars => IssueInv'
<1> SUFFICES ASSUME IInv, [Next]_vars PROVE IssueInv'
  OBVIOUS
<1> USE DEF IInv, TypeOK, IssueInv
<1>1. ASSUME NEW j \in Job, IssueBegin(j) PROVE IssueInv'
  BY <1>1 DEF IssueBegin, UnusedTokens, Peers, rowVars
<1>2. ASSUME NEW j \in Job, IssueSupersede(j) PROVE IssueInv'
  BY <1>2 DEF IssueSupersede, UnusedTokens, PendingJobs, Peers, rowVars
<1>3. ASSUME NEW j \in Job, IssueCommit(j) PROVE IssueInv'
  BY <1>3 DEF IssueCommit, Canceled
<1>4. ASSUME NEW j \in Job, IssueAbort(j) PROVE IssueInv'
  BY <1>4 DEF IssueAbort, rowVars
<1>5. ASSUME NEW j \in Job, Consume(j) \/ PurgeToken(j) PROVE IssueInv'
  BY <1>5 DEF Consume, PurgeToken, TokenLive, issueVars, rowVars
<1>6. ASSUME NEW j \in Job,
             SendWindowElapses(j) \/ TokenExpires(j) \/ LeaseExpires(j) \/ RetryDue(j)
      PROVE  IssueInv'
  BY <1>6 DEF SendWindowElapses, TokenExpires, LeaseExpires, RetryDue, issueVars, rowVars
<1>7. ASSUME NEW j \in Job, NEW e \in EventClass, ReduceEvent(j, e) PROVE IssueInv'
  BY <1>7 DEF ReduceEvent, ReduceStatus, RowInv, issueVars
<1>8. ASSUME NEW j \in Job, PurgeFinished(j) PROVE IssueInv'
  BY <1>8 DEF PurgeFinished, RowStatus, issueVars
<1>9. ASSUME NEW w \in Worker, NEW S \in SUBSET Job, Claim(w, S) PROVE IssueInv'
  BY <1>9 DEF Claim, Claimable, Verdict, Retired, Leased, issueVars
<1>10. ASSUME NEW w \in Worker, NEW j \in Job, Undecryptable(w, j) PROVE IssueInv'
  BY <1>10 DEF Undecryptable, OwnsLease, SettleRow, RowInv, WorkerInv, issueVars, rowVars
<1>11. ASSUME NEW w \in Worker, NEW j \in Job, Finalize(w, j) PROVE IssueInv'
  BY <1>11 DEF Finalize, OwnsLease, SettleRow, RetryRow, Outcome, RowInv, WorkerInv, issueVars
<1>12. ASSUME NEW w \in Worker, NEW j \in Job, NEW r \in Reply,
              Opened(w, j) \/ Send(w, j, r) \/ LeaseLost(w, j) \/ FinalizeError(w, j)
       PROVE  IssueInv'
  BY <1>12 DEF Opened, Send, LeaseLost, FinalizeError, issueVars, rowVars
<1>13. ASSUME NEW w \in Worker, Crash(w) PROVE IssueInv'
  BY <1>13 DEF Crash, issueVars, rowVars
<1>14. CASE UNCHANGED vars
  BY <1>14 DEF vars, issueVars, rowVars
<1> HIDE DEF IInv, TypeOK, IssueInv
<1> QED
  BY <1>1, <1>2, <1>3, <1>4, <1>5, <1>6, <1>7, <1>8, <1>9, <1>10, <1>11, <1>12, <1>13, <1>14
  DEF Next, QueueOneTimeLink, ClaimStep, Deliver, Reply

\* The four parts of the inductive invariant are preserved together.
LEMMA StepInv == IInv /\ [Next]_vars => IInv'
<1> SUFFICES ASSUME IInv, [Next]_vars PROVE IInv'
  OBVIOUS
<1>1. TypeOK'
  BY StepType DEF IInv
<1> QED
  BY <1>1, RowStep, WorkerStep, MailStep, IssueStep DEF IInv

\* The inductive invariant holds of every behaviour.
THEOREM Inductive == Spec => []IInv
  BY InitInv, StepInv, PTL DEF Spec

-----------------------------------------------------------------------------
\* The encrypted link is stored exactly while the job can still be delivered.
THEOREM PayloadErased == Spec => []PayloadIffPending
<1>1. IInv => PayloadIffPending
  BY DEF IInv, RowInv, PayloadIffPending
<1> QED
  BY <1>1, Inductive, PTL

\* Finalize may leave the status out of its WHERE: a leased row is pending, its
\* lease has one owner, and a row webhooks can reach holds no lease.
THEOREM LeaseSafety ==
  Spec => [](LeaseOnlyWhilePending /\ SingleOwner /\ CorrelatedRowIsSettled)
<1>1. IInv => LeaseOnlyWhilePending /\ CorrelatedRowIsSettled
  BY DEF IInv, TypeOK, RowInv, LeaseOnlyWhilePending, CorrelatedRowIsSettled
<1>2. IInv => SingleOwner
  BY DEF IInv, TypeOK, WorkerInv, SingleOwner
<1> QED
  BY <1>1, <1>2, Inductive, PTL

\* One copy per mail at a provider with idempotency keys, and no acceptance on
\* record that the provider did not give.
THEOREM SendSafety == Spec => [](IdempotentSendsOnce /\ AcceptedWasSent)
<1>1. IInv => IdempotentSendsOnce /\ AcceptedWasSent
  BY DEF IInv, MailInv, IdempotentSendsOnce, AcceptedWasSent
<1> QED
  BY <1>1, Inductive, PTL

\* Under any interleaving of issuing transactions, a superseded link's job no
\* longer waits for delivery.
THEOREM SupersedeSafety == Spec => []SupersededIsCanceled
<1>1. IInv => SupersededIsCanceled
  BY DEF IInv, IssueInv, SupersededIsCanceled
<1> QED
  BY <1>1, Inductive, PTL

\* A committed request has closed every link of its slot that was out when it
\* began, whatever happened between its two UPDATEs.
THEOREM NewestLinkSafety == Spec => []NewestLinkWins
<1>1. IInv => NewestLinkWins
  BY DEF IInv, IssueInv, NewestLinkWins, TokenLive
<1> QED
  BY <1>1, Inductive, PTL

-----------------------------------------------------------------------------
\* What one step may do to the status of a row.
RowChange(j) ==
  \/ status'[j] = status[j]
  \/ status[j] = "absent" /\ status'[j] = "pending"
  \/ status[j] \in RowStatus /\ status'[j] = "purged"
  \/ status[j] = "pending" /\ status'[j] \in {"canceled", "expired", "failed"}
  \/ /\ status[j] = "pending" /\ status'[j] = "accepted"
     /\ \E w \in Worker : hand[w][j] = "accepted" /\ held[w][j] = lease[j]
  \/ status[j] = "accepted" /\ status'[j] \in {"delivered", "failed"}
  \/ status[j] = "delivered" /\ status'[j] = "failed"

\* Every step of every actor changes rows in one of those ways.
LEMMA StatusChange ==
  ASSUME IInv, Next
  PROVE  \A j \in Job : RowChange(j)
<1> DEFINE Good == \A j \in Job : RowChange(j)
<1> USE DEF IInv, TypeOK, RowChange
<1>1. ASSUME UNCHANGED status PROVE Good
  BY <1>1
<1>2. ASSUME NEW j \in Job, IssueCommit(j) PROVE Good
  BY <1>2 DEF IssueCommit, Canceled, IssueInv
<1>3. ASSUME NEW j \in Job, NEW e \in EventClass, ReduceEvent(j, e) PROVE Good
  BY <1>3 DEF ReduceEvent, ReduceStatus, RowInv
<1>4. ASSUME NEW j \in Job, PurgeFinished(j) PROVE Good
  BY <1>4 DEF PurgeFinished
<1>5. ASSUME NEW w \in Worker, NEW S \in SUBSET Job, Claim(w, S) PROVE Good
  BY <1>5 DEF Claim, Claimable, Verdict, Retired, Leased
<1>6. ASSUME NEW w \in Worker, NEW j \in Job, Undecryptable(w, j) PROVE Good
  BY <1>6 DEF Undecryptable, OwnsLease, SettleRow, RowInv, WorkerInv, rowVars
<1>7. ASSUME NEW w \in Worker, NEW j \in Job, Finalize(w, j) PROVE Good
  BY <1>7 DEF Finalize, OwnsLease, SettleRow, RetryRow, Outcome, RowInv, WorkerInv
<1>8. ASSUME NEW j \in Job,
             \/ IssueBegin(j) \/ IssueSupersede(j) \/ IssueAbort(j) \/ Consume(j) \/ PurgeToken(j)
             \/ SendWindowElapses(j) \/ TokenExpires(j) \/ LeaseExpires(j) \/ RetryDue(j)
      PROVE  UNCHANGED status
  BY <1>8 DEF IssueBegin, IssueSupersede, IssueAbort, Consume, PurgeToken, SendWindowElapses,
     TokenExpires, LeaseExpires, RetryDue, rowVars
<1>9. ASSUME NEW w \in Worker, NEW j \in Job, NEW r \in Reply,
             \/ Opened(w, j) \/ Send(w, j, r) \/ LeaseLost(w, j) \/ FinalizeError(w, j) \/ Crash(w)
      PROVE  UNCHANGED status
  BY <1>9 DEF Opened, Send, LeaseLost, FinalizeError, Crash, rowVars
<1>10. ASSUME NEW w \in Worker, Crash(w) PROVE UNCHANGED status
  BY <1>10 DEF Crash, rowVars
<1> HIDE DEF Good, IInv, TypeOK, RowChange
<1>11. Good
  BY <1>1, <1>2, <1>3, <1>4, <1>5, <1>6, <1>7, <1>8, <1>9, <1>10
  DEF Next, QueueOneTimeLink, ClaimStep, Deliver, Reply
<1> QED
  BY <1>11 DEF Good

\* A row never walks backwards, whichever of the workers, the webhook, a newer
\* request or the maintenance loop writes it.
THEOREM NeverBackwards == Spec => StatusMonotone
<1>1. IInv /\ [Next]_vars => [\A j \in Job : MovesForward(j)]_vars
  BY StatusChange DEF RowChange, MovesForward, RowStatus, Rank
<1> QED
  BY <1>1, Inductive, PTL DEF Spec, StatusMonotone

\* Only the current lease holder records an acceptance.
THEOREM OwnerAccepts == Spec => OwnerRecordsAcceptance
<1>1. IInv /\ [Next]_vars => [\A j \in Job : AcceptedByOwner(j)]_vars
  BY StatusChange DEF RowChange, AcceptedByOwner, RowStatus
<1> QED
  BY <1>1, Inductive, PTL DEF Spec, OwnerRecordsAcceptance

-----------------------------------------------------------------------------
(* The outbox implements Mail, for any requests, finite set of workers,    *)
(* providers and attempt budget.                                           *)

\* The workers that may still send a copy of j under the lease they hold.
Unsent(j) == {w \in Worker : hand[w][j] \in {"sealed", "open"}}

\* Every attempt was used for at most one copy or is still in some worker's hands.
BudgetInv ==
  \A j \in Job :
    /\ mails[j] + Cardinality(Unsent(j)) <= attempts[j]
    /\ status[j] = "absent" => attempts[j] = 0

\* Subsets of the workers have a cardinality.
LEMMA UnsentFinite ==
  \A j \in Job : IsFiniteSet(Unsent(j)) /\ Cardinality(Unsent(j)) \in Nat
BY WorkerAssumption, FS_Subset, FS_CardinalityType DEF Unsent

\* What one step may do to the copies of j still to come.
Quiet(j) ==
  /\ Unsent(j)' \subseteq Unsent(j)
  /\ mails'[j] = mails[j] /\ attempts'[j] = attempts[j]
Sends(w, j) ==
  /\ w \in Unsent(j) /\ Unsent(j)' = Unsent(j) \ {w}
  /\ mails'[j] \in {mails[j], mails[j] + 1} /\ attempts'[j] = attempts[j]
Leases(w, j) ==
  /\ status[j] = "pending"
  /\ w \notin Unsent(j) /\ Unsent(j)' = Unsent(j) \cup {w}
  /\ mails'[j] = mails[j] /\ attempts'[j] = attempts[j] + 1
Spends(j) == Quiet(j) \/ \E w \in Worker : Sends(w, j) \/ Leases(w, j)

\* Letting go of a job takes it out of one worker's hands.
LEMMA ReleaseQuiet ==
  ASSUME TypeOK, NEW w \in Worker, NEW j \in Job, Release(w, j), UNCHANGED <<attempts, mails>>
  PROVE  \A k \in Job : Spends(k)
<1>1. \A k \in Job : Unsent(k)' \subseteq Unsent(k)
  BY DEF Unsent, Release, TypeOK
<1> QED BY <1>1 DEF Spends, Quiet

\* A claim puts the leased jobs in the hands of an idle worker.
LEMMA ClaimSpends ==
  ASSUME TypeOK, NEW w \in Worker, NEW S \in SUBSET Job, Claim(w, S)
  PROVE  \A k \in Job : Spends(k)
<1> SUFFICES ASSUME NEW k \in Job PROVE Spends(k)
  OBVIOUS
<1>1. UNCHANGED mails BY DEF Claim, mailVars
<1>2. hand[w][k] = "none" BY DEF Claim, Idle
<1>3. CASE k \in Leased(S)
  <2>1. hand' = [hand EXCEPT ![w] = [j \in Job |-> IF j \in Leased(S) THEN "sealed" ELSE "none"]]
    BY DEF Claim
  <2>2. Unsent(k)' = Unsent(k) \cup {w}
    BY <1>2, <1>3, <2>1 DEF Unsent, TypeOK
  <2>3. w \notin Unsent(k) BY <1>2 DEF Unsent
  <2>4. attempts'[k] = attempts[k] + 1 BY <1>3 DEF Claim, NextAttempt
  <2>5. status[k] = "pending" BY <1>3 DEF Claim, Claimable, Leased
  <2> QED BY <1>1, <2>2, <2>3, <2>4, <2>5 DEF Spends, Leases
<1>4. CASE k \notin Leased(S)
  <2>1. Unsent(k)' \subseteq Unsent(k)
    BY <1>4 DEF Claim, Unsent, TypeOK
  <2>2. attempts'[k] = attempts[k] BY <1>4 DEF Claim
  <2> QED BY <1>1, <2>1, <2>2 DEF Spends, Quiet
<1> QED BY <1>3, <1>4

\* A provider call uses up the attempt it is made under.
LEMMA SendSpends ==
  ASSUME TypeOK, NEW w \in Worker, NEW j \in Job, NEW r \in Reply, Send(w, j, r)
  PROVE  \A k \in Job : Spends(k)
<1> SUFFICES ASSUME NEW k \in Job PROVE Spends(k)
  OBVIOUS
<1>1. UNCHANGED attempts BY DEF Send, rowVars
<1>2. PICK out \in Outcome : hand' = [hand EXCEPT ![w][j] = out]
  BY DEF Send, Classify, Outcome
<1>3. out \notin {"sealed", "open"} BY DEF Outcome
<1>4. CASE k = j
  <2>1. w \in Unsent(j) BY DEF Unsent, Send
  <2>2. Unsent(j)' = Unsent(j) \ {w} BY <1>2, <1>3 DEF Unsent, TypeOK
  <2>3. mails'[j] \in {mails[j], mails[j] + 1} BY DEF Send, Accept, mailVars, TypeOK
  <2> QED BY <1>1, <1>4, <2>1, <2>2, <2>3 DEF Spends, Sends
<1>5. CASE k # j
  <2>1. Unsent(k)' \subseteq Unsent(k) BY <1>2, <1>5 DEF Unsent, TypeOK
  <2>2. mails'[k] = mails[k] BY <1>5 DEF Send, Accept, mailVars, TypeOK
  <2> QED BY <1>1, <2>1, <2>2 DEF Spends, Quiet
<1> QED BY <1>4, <1>5

\* Every step of every actor spends the budget in one of those ways.
LEMMA StepSpends ==
  ASSUME TypeOK, Next
  PROVE  \A k \in Job : Spends(k)
<1> DEFINE Good == \A k \in Job : Spends(k)
<1>1. ASSUME UNCHANGED <<hand, attempts, mails>> PROVE Good
  BY <1>1 DEF Spends, Quiet, Unsent
<1>2. ASSUME NEW j \in Job,
             \/ IssueBegin(j) \/ IssueSupersede(j) \/ IssueCommit(j) \/ IssueAbort(j)
             \/ Consume(j) \/ PurgeToken(j) \/ SendWindowElapses(j) \/ TokenExpires(j)
             \/ LeaseExpires(j) \/ RetryDue(j) \/ PurgeFinished(j)
      PROVE  UNCHANGED <<hand, attempts, mails>>
  BY <1>2 DEF IssueBegin, IssueSupersede, IssueCommit, IssueAbort, Consume, PurgeToken,
     SendWindowElapses, TokenExpires, LeaseExpires, RetryDue, PurgeFinished, rowVars,
     workerVars, mailVars
<1>3. ASSUME NEW j \in Job, NEW e \in EventClass, ReduceEvent(j, e)
      PROVE  UNCHANGED <<hand, attempts, mails>>
  BY <1>3 DEF ReduceEvent, workerVars, mailVars
<1>4. ASSUME NEW w \in Worker, NEW j \in Job, Opened(w, j) PROVE Good
  <2>1. \A k \in Job : Unsent(k)' \subseteq Unsent(k)
    BY <1>4 DEF Opened, Unsent, TypeOK
  <2> QED BY <1>4, <2>1 DEF Opened, Spends, Quiet, rowVars, mailVars
<1>5. ASSUME NEW w \in Worker, NEW j \in Job,
             Undecryptable(w, j) \/ Finalize(w, j) \/ LeaseLost(w, j) \/ FinalizeError(w, j)
      PROVE  Good
  <2>1. Release(w, j) /\ UNCHANGED <<attempts, mails>>
    BY <1>5 DEF Undecryptable, Finalize, LeaseLost, FinalizeError, SettleRow, RetryRow,
       rowVars, mailVars
  <2> QED BY <2>1, ReleaseQuiet
<1>6. ASSUME NEW w \in Worker, Crash(w) PROVE Good
  <2>1. \A k \in Job : Unsent(k)' \subseteq Unsent(k)
    BY <1>6 DEF Crash, Unsent, TypeOK
  <2> QED BY <1>6, <2>1 DEF Crash, Spends, Quiet, rowVars, mailVars
<1> HIDE DEF Good
<1>7. Good
  BY <1>1, <1>2, <1>3, <1>4, <1>5, <1>6, ClaimSpends, SendSpends
  DEF Next, QueueOneTimeLink, ClaimStep, Deliver, Good
<1> QED BY <1>7 DEF Good

\* No step forgets a request, and attempts are counted only on pending rows.
LEMMA BudgetStep == IInv /\ BudgetInv /\ [Next]_vars => BudgetInv'
<1> SUFFICES ASSUME IInv, BudgetInv, [Next]_vars, NEW j \in Job
             PROVE  /\ mails'[j] + Cardinality(Unsent(j))' <= attempts'[j]
                    /\ status'[j] = "absent" => attempts'[j] = 0
  BY DEF BudgetInv
<1>1. CASE UNCHANGED vars
  BY <1>1 DEF BudgetInv, Unsent, vars, rowVars, workerVars, mailVars
<1>2. CASE Next
  <2>1. Spends(j) BY <1>2, StepSpends DEF IInv
  <2>2. RowChange(j) BY <1>2, StatusChange
  <2>3. mails[j] \in Nat /\ attempts[j] \in Nat
    BY MaxAttemptsAssumption DEF IInv, TypeOK
  <2>4. IsFiniteSet(Unsent(j)) /\ Cardinality(Unsent(j)) \in Nat BY UnsentFinite
  <2>5. mails[j] + Cardinality(Unsent(j)) <= attempts[j] BY DEF BudgetInv
  <2>6. status[j] = "absent" => attempts[j] = 0 BY DEF BudgetInv
  <2>7. status'[j] = "absent" => status[j] = "absent"
    BY <2>2 DEF RowChange, RowStatus
  <2>8. CASE Quiet(j)
    <3>1. /\ Cardinality(Unsent(j)') \in Nat
          /\ Cardinality(Unsent(j)') <= Cardinality(Unsent(j))
      BY <2>4, <2>8, FS_Subset, FS_CardinalityType DEF Quiet
    <3> QED BY <2>3, <2>4, <2>5, <2>6, <2>7, <2>8, <3>1 DEF Quiet
  <2>9. ASSUME NEW w \in Worker, Sends(w, j)
        PROVE  /\ mails'[j] + Cardinality(Unsent(j))' <= attempts'[j]
               /\ status'[j] = "absent" => attempts'[j] = 0
    <3>1. Cardinality(Unsent(j)') = Cardinality(Unsent(j)) - 1
      BY <2>4, <2>9, FS_RemoveElement DEF Sends
    <3> QED BY <2>3, <2>4, <2>5, <2>6, <2>7, <2>9, <3>1 DEF Sends
  <2>10. ASSUME NEW w \in Worker, Leases(w, j)
         PROVE  /\ mails'[j] + Cardinality(Unsent(j))' <= attempts'[j]
                /\ status'[j] = "absent" => attempts'[j] = 0
    <3>1. Cardinality(Unsent(j)') = Cardinality(Unsent(j)) + 1
      BY <2>4, <2>10, FS_AddElement DEF Leases
    <3> QED BY <2>3, <2>4, <2>5, <2>7, <2>10, <3>1 DEF Leases
  <2> QED BY <2>1, <2>8, <2>9, <2>10 DEF Spends
<1> QED BY <1>1, <1>2

\* No attempt has been made in the beginning.
LEMMA BudgetInit == Init => BudgetInv
<1> SUFFICES ASSUME Init, NEW j \in Job
             PROVE  mails[j] + Cardinality(Unsent(j)) <= attempts[j] /\ attempts[j] = 0
  BY DEF BudgetInv
<1>1. Unsent(j) = {} BY DEF Init, Unsent
<1> QED BY <1>1, FS_EmptySet DEF Init

\* No provider gets more copies of a mail than it was attempted.
THEOREM CopySafety == Spec => [](IInv /\ BudgetInv /\ CopiesWithinBudget)
<1>1. IInv /\ BudgetInv => CopiesWithinBudget
  <2> SUFFICES ASSUME IInv, BudgetInv, NEW j \in Job PROVE mails[j] <= attempts[j]
    BY DEF CopiesWithinBudget
  <2>1. mails[j] \in Nat /\ attempts[j] \in Nat
    BY MaxAttemptsAssumption DEF IInv, TypeOK
  <2> QED BY <2>1, UnsentFinite DEF BudgetInv
<1> QED BY <1>1, Inductive, BudgetInit, BudgetStep, PTL DEF Spec

-----------------------------------------------------------------------------
(* The refinement: every step of the outbox is a step of Mail or none.     *)

\* A step nobody outside sees.
LEMMA Unseen ==
  ASSUME UNCHANGED <<status, pmid, mails>>
  PROVE  UNCHANGED Promise!mailState
BY DEF Promise!mailState, Fate

\* A step that gives up a set of pending requests.
LEMMA Abandons ==
  ASSUME IInv, UNCHANGED <<pmid, mails>>, NEW S \in SUBSET Job,
         \A j \in S : status[j] = "pending" /\ status'[j] \in {"failed", "canceled", "expired"},
         \A j \in Job \ S : status'[j] = status[j]
  PROVE  Promise!GiveUp
<1>1. \A j \in S : Fate(j) = "owed" /\ Fate(j)' = "dropped"
  BY DEF IInv, RowInv, Fate
<1>2. \A j \in Job \ S : Fate(j)' = Fate(j)
  BY DEF Fate
<1>3. S \in SUBSET Promise!Owed
  BY <1>1 DEF Promise!Owed
<1>4. [j \in Job |-> Fate(j)]' = Promise!Becomes(S, "dropped")
  BY <1>1, <1>2 DEF Promise!Becomes
<1> QED BY <1>3, <1>4 DEF Promise!GiveUp

\* The commit of a request is its Ask; the jobs it cancels are given up with it.
LEMMA CommitAsks ==
  ASSUME IInv, NEW j \in Job, IssueCommit(j)
  PROVE  Promise!Ask(j)
<1>1. status[j] = "absent" /\ UNCHANGED <<pmid, mails>>
  BY DEF IInv, IssueInv, IssueCommit, mailVars
<1>2. j \notin Canceled(j) BY <1>1 DEF Canceled
<1>3. \A k \in Job : status'[k] = IF k = j THEN "pending"
                                  ELSE IF k \in Canceled(j) THEN "canceled" ELSE status[k]
  BY DEF IssueCommit
<1>4. Fate(j) = "none" /\ Fate(j)' = "owed"
  BY <1>1, <1>3 DEF Fate
<1>5. Canceled(j) \subseteq Job /\ \A k \in Canceled(j) : status[k] = "pending" /\ ~pmid[k]
  BY DEF Canceled, IInv, TypeOK, RowInv
<1>6. \A k \in Canceled(j) : Fate(k) = "owed" /\ Fate(k)' = "dropped"
  BY <1>1, <1>2, <1>3, <1>5 DEF Fate
<1>7. \A k \in Job : k # j /\ k \notin Canceled(j) => Fate(k)' = Fate(k)
  BY <1>1, <1>3 DEF Fate
<1>8. Canceled(j) \in SUBSET Promise!Owed
  BY <1>5, <1>6 DEF Promise!Owed
<1>9. [k \in Job |-> Fate(k)]' = [Promise!Becomes(Canceled(j), "dropped") EXCEPT ![j] = "owed"]
  BY <1>2, <1>4, <1>6, <1>7 DEF Promise!Becomes
<1> QED BY <1>1, <1>4, <1>8, <1>9 DEF Promise!Ask

\* An event about a correlated row confirms what is known.
LEMMA EventUnseen ==
  ASSUME IInv, NEW j \in Job, NEW e \in EventClass, ReduceEvent(j, e)
  PROVE  UNCHANGED Promise!mailState
<1>1. pmid[j] /\ status[j] \in {"accepted", "delivered", "failed"}
  BY DEF ReduceEvent, IInv, RowInv
<1>2. status'[j] \in {"accepted", "delivered", "failed"}
  BY <1>1 DEF ReduceEvent, ReduceStatus, IInv, TypeOK
<1>3. \A k \in Job : k # j => status'[k] = status[k]
  BY DEF ReduceEvent, IInv, TypeOK
<1>4. UNCHANGED <<pmid, mails>> BY DEF ReduceEvent, mailVars
<1>5. \A k \in Job : Fate(k)' = Fate(k)
  BY <1>1, <1>2, <1>3, <1>4 DEF Fate
<1> QED BY <1>4, <1>5 DEF Promise!mailState

\* Deleting a row forgets the request.
LEMMA PurgeForgets ==
  ASSUME IInv, NEW j \in Job, PurgeFinished(j)
  PROVE  Promise!Forget(j)
<1>1. status[j] \in RowStatus /\ status'[j] = "purged"
  BY DEF PurgeFinished, IInv, TypeOK
<1>2. \A k \in Job : k # j => status'[k] = status[k] /\ pmid'[k] = pmid[k]
  BY DEF PurgeFinished, IInv, TypeOK
<1>3. Fate(j) # "none" /\ Fate(j)' = "gone" BY <1>1 DEF Fate, RowStatus
<1>4. \A k \in Job : k # j => Fate(k)' = Fate(k) BY <1>2 DEF Fate
<1>5. [k \in Job |-> Fate(k)]' = Promise!Becomes({j}, "gone")
  BY <1>3, <1>4 DEF Promise!Becomes
<1> QED BY <1>3, <1>5 DEF Promise!Forget, PurgeFinished, mailVars

\* A claim gives up what it retires.
LEMMA ClaimAbandons ==
  ASSUME IInv, NEW w \in Worker, NEW S \in SUBSET Job, Claim(w, S)
  PROVE  Promise!GiveUp
<1>1. Retired(S) \in SUBSET Job BY DEF Retired
<1>2. \A j \in Retired(S) :
        status[j] = "pending" /\ status'[j] \in {"failed", "canceled", "expired"}
  BY DEF Claim, Claimable, Retired, Leased, Verdict
<1>3. \A j \in Job \ Retired(S) : status'[j] = status[j] BY DEF Claim
<1>4. UNCHANGED <<pmid, mails>> BY DEF Claim, mailVars
<1> QED BY <1>1, <1>2, <1>3, <1>4, Abandons

\* A provider call that takes the message takes one more copy, within the budget.
LEMMA SendTakes ==
  ASSUME IInv, BudgetInv, NEW w \in Worker, NEW j \in Job, NEW r \in Reply, Send(w, j, r)
  PROVE  Promise!Take(j) \/ UNCHANGED Promise!mailState
<1>1. UNCHANGED <<status, pmid>> BY DEF Send, rowVars
<1>2. CASE UNCHANGED mails BY <1>1, <1>2, Unseen
<1>3. CASE /\ mails' = [mails EXCEPT ![j] = @ + 1]
           /\ ProviderOf[j] \in Idempotent => j \notin keys
  <2>1. w \in Unsent(j) BY DEF Send, Unsent
  <2>2. Cardinality(Unsent(j)) > 0
    BY <2>1, UnsentFinite, FS_EmptySet
  <2>3. mails[j] \in Nat /\ attempts[j] \in Nat /\ attempts[j] <= MaxAttempts
    BY MaxAttemptsAssumption DEF IInv, TypeOK
  <2>4. mails[j] < MaxAttempts /\ attempts[j] # 0
    BY <2>2, <2>3, UnsentFinite, MaxAttemptsAssumption DEF BudgetInv
  <2>5. ProviderOf[j] \in Idempotent => mails[j] < 1
    BY <1>3, <2>3 DEF IInv, MailInv
  <2>6. Fate(j) # "none" BY <2>4 DEF BudgetInv, Fate
  <2>7. UNCHANGED [k \in Job |-> Fate(k)] BY <1>1 DEF Fate
  <2> QED BY <1>3, <2>4, <2>5, <2>6, <2>7 DEF Promise!Take
<1> QED BY <1>2, <1>3 DEF Send, Accept, IdempotencyKey, mailVars

\* Finalize confirms a mail the provider took, gives one up, or leaves it owed.
LEMMA FinalizeSettles ==
  ASSUME IInv, NEW w \in Worker, NEW j \in Job, Finalize(w, j)
  PROVE  Promise!Confirm(j) \/ Promise!GiveUp \/ UNCHANGED Promise!mailState
<1>1. status[j] = "pending" /\ ~pmid[j]
  BY DEF Finalize, OwnsLease, IInv, TypeOK, RowInv, WorkerInv, Outcome
<1>2. UNCHANGED mails BY DEF Finalize, mailVars
<1>3. CASE hand[w][j] = "retry"
  <2>1. UNCHANGED <<status, pmid>> BY <1>3 DEF Finalize, RetryRow
  <2> QED BY <1>2, <2>1, Unseen
<1>4. CASE hand[w][j] = "failed"
  <2>1. SettleRow(j, "failed") BY <1>4 DEF Finalize
  <2>2. pmid' = pmid BY <2>1 DEF SettleRow, IInv, TypeOK
  <2>3. status'[j] = "failed" /\ \A k \in Job : k # j => status'[k] = status[k]
    BY <2>1 DEF SettleRow, IInv, TypeOK
  <2>4. Promise!GiveUp
    BY <1>1, <1>2, <2>2, <2>3, Abandons, {j} \in SUBSET Job
  <2> QED BY <2>4
<1>5. CASE hand[w][j] = "accepted"
  <2>1. SettleRow(j, "accepted") BY <1>5 DEF Finalize
  <2>2. /\ status'[j] = "accepted" /\ pmid'[j]
        /\ \A k \in Job : k # j => status'[k] = status[k] /\ pmid'[k] = pmid[k]
    BY <2>1 DEF SettleRow, IInv, TypeOK
  <2>3. Fate(j) = "owed" /\ Fate(j)' = "sent" BY <1>1, <2>2 DEF Fate
  <2>4. \A k \in Job : k # j => Fate(k)' = Fate(k) BY <2>2 DEF Fate
  <2>5. [k \in Job |-> Fate(k)]' = Promise!Becomes({j}, "sent")
    BY <2>3, <2>4 DEF Promise!Becomes
  <2>6. mails[j] > 0 BY <1>5 DEF IInv, MailInv
  <2> QED BY <1>2, <2>3, <2>5, <2>6 DEF Promise!Confirm
<1> QED BY <1>3, <1>4, <1>5 DEF Finalize, Outcome

\* A payload that does not open is given up by the owner of the lease only.
LEMMA UndecryptableAbandons ==
  ASSUME IInv, NEW w \in Worker, NEW j \in Job, Undecryptable(w, j)
  PROVE  Promise!GiveUp \/ UNCHANGED Promise!mailState
<1>1. UNCHANGED mails BY DEF Undecryptable, mailVars
<1>2. CASE UNCHANGED rowVars
  BY <1>1, <1>2, Unseen DEF rowVars
<1>3. CASE OwnsLease(w, j) /\ SettleRow(j, "failed")
  <2>1. status[j] = "pending" /\ ~pmid[j]
    BY <1>3 DEF Undecryptable, OwnsLease, IInv, TypeOK, RowInv, WorkerInv
  <2>2. pmid' = pmid BY <1>3 DEF SettleRow, IInv, TypeOK
  <2>3. status'[j] = "failed" /\ \A k \in Job : k # j => status'[k] = status[k]
    BY <1>3 DEF SettleRow, IInv, TypeOK
  <2> QED BY <1>1, <2>1, <2>2, <2>3, Abandons, {j} \in SUBSET Job
<1> QED BY <1>2, <1>3 DEF Undecryptable

\* Every step of the outbox is a step of Mail, or nothing anybody outside sees.
LEMMA StepPromise ==
  IInv /\ BudgetInv /\ [Next]_vars => [Promise!MailNext]_(Promise!mailState)
<1> SUFFICES ASSUME IInv, BudgetInv, [Next]_vars
             PROVE  Promise!MailNext \/ UNCHANGED Promise!mailState
  OBVIOUS
<1> DEFINE Good == Promise!MailNext \/ UNCHANGED Promise!mailState
<1>1. ASSUME NEW j \in Job,
             Promise!Ask(j) \/ Promise!Take(j) \/ Promise!Confirm(j) \/ Promise!Forget(j)
      PROVE  Good
  BY <1>1 DEF Promise!MailNext
<1>2. Promise!GiveUp => Good BY DEF Promise!MailNext
<1>3. UNCHANGED Promise!mailState => Good OBVIOUS
<1>4. ASSUME NEW j \in Job,
             \/ IssueBegin(j) \/ IssueSupersede(j) \/ IssueAbort(j) \/ Consume(j) \/ PurgeToken(j)
             \/ SendWindowElapses(j) \/ TokenExpires(j) \/ LeaseExpires(j) \/ RetryDue(j)
      PROVE  UNCHANGED <<status, pmid, mails>>
  BY <1>4 DEF IssueBegin, IssueSupersede, IssueAbort, Consume, PurgeToken, SendWindowElapses,
     TokenExpires, LeaseExpires, RetryDue, rowVars, mailVars
<1>5. ASSUME NEW w \in Worker, NEW j \in Job,
             Opened(w, j) \/ LeaseLost(w, j) \/ FinalizeError(w, j) \/ Crash(w)
      PROVE  UNCHANGED <<status, pmid, mails>>
  BY <1>5 DEF Opened, LeaseLost, FinalizeError, Crash, rowVars, mailVars
<1>6. ASSUME NEW w \in Worker, Crash(w) PROVE UNCHANGED <<status, pmid, mails>>
  BY <1>6 DEF Crash, rowVars, mailVars
<1>7. CASE UNCHANGED vars
  BY <1>3, <1>7, Unseen DEF vars, rowVars, mailVars
<1> HIDE DEF Good
<1>8. ASSUME NEW j \in Job, QueueOneTimeLink(j) PROVE Good
  BY <1>1, <1>3, <1>4, <1>8, Unseen, CommitAsks DEF QueueOneTimeLink
<1>9. ASSUME NEW j \in Job, NEW e \in EventClass, ReduceEvent(j, e) PROVE Good
  BY <1>3, <1>9, EventUnseen
<1>10. ASSUME NEW w \in Worker, NEW S \in SUBSET Job, Claim(w, S) PROVE Good
  BY <1>2, <1>10, ClaimAbandons
<1>11. ASSUME NEW w \in Worker, NEW j \in Job, NEW r \in Reply, Send(w, j, r) PROVE Good
  BY <1>1, <1>3, <1>11, SendTakes
<1>12. ASSUME NEW w \in Worker, NEW j \in Job, Finalize(w, j) \/ Undecryptable(w, j) PROVE Good
  BY <1>1, <1>2, <1>3, <1>12, FinalizeSettles, UndecryptableAbandons
<1>13. ASSUME NEW w \in Worker, Deliver(w) PROVE Good
  BY <1>3, <1>5, <1>11, <1>12, <1>13, Unseen DEF Deliver
<1>14. ASSUME NEW j \in Job,
              \/ Consume(j) \/ PurgeToken(j)
              \/ SendWindowElapses(j) \/ TokenExpires(j) \/ LeaseExpires(j) \/ RetryDue(j)
       PROVE  Good
  BY <1>3, <1>4, <1>14, Unseen
<1>15. ASSUME NEW j \in Job, PurgeFinished(j) PROVE Good
  BY <1>1, <1>15, PurgeForgets
<1>16. ASSUME Next PROVE Good
  BY <1>3, <1>6, <1>8, <1>9, <1>10, <1>13, <1>14, <1>15, <1>16, Unseen DEF Next, ClaimStep
<1> QED BY <1>7, <1>16 DEF Good

\* The outbox keeps the promise of Mail, for any number of requests, workers and
\* attempts, under every interleaving of transactions, leases, sends and crashes.
THEOREM OutboxImplementsMail == Spec => ImplementsMail
<1>1. Init => Promise!MailInit
  BY DEF Init, Promise!MailInit, Fate
<1> QED BY <1>1, StepPromise, CopySafety, PTL DEF Spec, ImplementsMail, Promise!MailSpec

-----------------------------------------------------------------------------
(* Each row lives the life of OutboxRow.                                   *)

\* Every step of every actor is a step of each row or leaves it alone.
LEMMA StepRow ==
  ASSUME IInv, [Next]_vars, NEW j \in Job
  PROVE  Row(j)!RowStep
<1> DEFINE Good == Row(j)!RowStep
<1>t. /\ status \in [Job -> Status] /\ pmid \in [Job -> BOOLEAN]
      /\ pmid[j] => status[j] \in {"accepted", "delivered", "failed"}
  BY DEF IInv, TypeOK, RowInv
<1>1. ASSUME status'[j] = status[j], pmid'[j] = pmid[j] PROVE Good
  BY <1>1 DEF Row!RowStep, Row!rowState
<1>2. ASSUME status[j] = "pending", status'[j] \in {"canceled", "expired", "failed"},
             pmid'[j] = pmid[j]
      PROVE  Good
  BY <1>t, <1>2 DEF Row!RowStep, Row!RowNext, Row!Retire
<1>3. ASSUME NEW i \in Job, IssueCommit(i) PROVE Good
  <2>1. status[i] = "absent" /\ UNCHANGED pmid
    BY <1>3 DEF IInv, IssueInv, IssueCommit
  <2>2. status'[j] = IF j = i THEN "pending" ELSE IF j \in Canceled(i) THEN "canceled" ELSE status[j]
    BY <1>3 DEF IssueCommit
  <2>3. CASE j = i
    BY <2>1, <2>2, <2>3 DEF Row!RowStep, Row!RowNext, Row!Queue
  <2>4. CASE j # i
    BY <1>1, <1>2, <2>1, <2>2, <2>4 DEF Canceled
  <2> QED
    BY <2>3, <2>4
<1>4. ASSUME NEW i \in Job, NEW e \in EventClass, ReduceEvent(i, e) PROVE Good
  <2>1. pmid' = pmid /\ pmid[i] /\ status' = [status EXCEPT ![i] = ReduceStatus(@, e)]
    BY <1>4 DEF ReduceEvent
  <2>2. CASE i = j
    <3>1. status'[j] = ReduceStatus(status[j], e)
      BY <1>t, <2>1, <2>2
    <3>2. Row(j)!Reduce(e)
      BY <1>t, <2>1, <2>2, <3>1 DEF Row!Reduce, Row!ReduceStatus, ReduceStatus
    <3> QED
      BY <3>2 DEF Row!RowStep, Row!RowNext, Row!EventClass, EventClass
  <2>3. CASE i # j
    BY <1>t, <1>1, <2>1, <2>3
  <2> QED
    BY <2>2, <2>3
<1>5. ASSUME NEW i \in Job, PurgeFinished(i) PROVE Good
  <2>1. CASE i = j
    <3>1. status[j] \in RowStatus /\ status'[j] = "purged" /\ pmid'[j] = FALSE
      BY <1>t, <1>5, <2>1 DEF PurgeFinished
    <3> QED
      BY <3>1 DEF Row!RowStep, Row!RowNext, Row!Purge, Row!RowStatus, RowStatus
  <2>2. CASE i # j
    BY <1>t, <1>1, <1>5, <2>2 DEF PurgeFinished
  <2> QED
    BY <2>1, <2>2
<1>6. ASSUME NEW w \in Worker, NEW S \in SUBSET Job, Claim(w, S) PROVE Good
  <2>1. CASE j \in Retired(S)
    <3>1. status[j] = "pending" /\ status'[j] \in {"canceled", "expired", "failed"}
      BY <1>6, <2>1 DEF Claim, Claimable, Verdict, Retired, Leased
    <3> QED
      BY <1>2, <1>6, <3>1 DEF Claim
  <2>2. CASE j \notin Retired(S)
    BY <1>1, <1>6, <2>2 DEF Claim
  <2> QED
    BY <2>1, <2>2
<1>7. ASSUME NEW w \in Worker, NEW i \in Job, NEW s \in {"accepted", "failed"},
             OwnsLease(w, i), held[w][i] # 0, SettleRow(i, s)
      PROVE  Good
  <2>1. status[i] = "pending" /\ ~pmid[i]
    BY <1>7 DEF OwnsLease, IInv, RowInv
  <2>2. /\ i = j => status'[j] = s /\ (pmid'[j] <=> s = "accepted")
        /\ i # j => status'[j] = status[j] /\ pmid'[j] = pmid[j]
    BY <1>t, <1>7, <2>1 DEF SettleRow
  <2>3. pmid'[j] \in BOOLEAN
    BY <1>t, <1>7 DEF SettleRow
  <2>4. CASE i = j /\ s = "accepted"
    BY <2>1, <2>2, <2>3, <2>4 DEF Row!RowStep, Row!RowNext, Row!Correlate
  <2>5. CASE i = j /\ s = "failed"
    BY <1>2, <1>t, <2>1, <2>2, <2>3, <2>5
  <2> QED
    BY <1>1, <2>2, <2>4, <2>5
<1>8. ASSUME NEW w \in Worker, NEW i \in Job, Finalize(w, i) PROVE Good
  <2>1. held[w][i] # 0 /\ OwnsLease(w, i)
    BY <1>8 DEF Finalize, Outcome, IInv, WorkerInv
  <2>2. CASE hand[w][i] = "retry"
    BY <1>1, <1>8, <2>2 DEF Finalize, RetryRow
  <2>3. CASE hand[w][i] \in {"accepted", "failed"}
    BY <1>7, <1>8, <2>1, <2>3 DEF Finalize
  <2> QED
    BY <1>8, <2>2, <2>3 DEF Finalize, Outcome
<1>9. ASSUME NEW w \in Worker, NEW i \in Job, Undecryptable(w, i) PROVE Good
  <2>1. held[w][i] # 0
    BY <1>9 DEF Undecryptable, IInv, WorkerInv
  <2> QED
    BY <1>1, <1>7, <1>9, <2>1 DEF Undecryptable, rowVars
<1>10. ASSUME NEW i \in Job,
              \/ IssueBegin(i) \/ IssueSupersede(i) \/ IssueAbort(i) \/ Consume(i) \/ PurgeToken(i)
              \/ SendWindowElapses(i) \/ TokenExpires(i) \/ LeaseExpires(i) \/ RetryDue(i)
       PROVE  Good
  BY <1>1, <1>10 DEF IssueBegin, IssueSupersede, IssueAbort, Consume, PurgeToken,
     SendWindowElapses, TokenExpires, LeaseExpires, RetryDue, rowVars
<1>11. ASSUME NEW w \in Worker, NEW i \in Job,
              \/ Opened(w, i) \/ LeaseLost(w, i) \/ FinalizeError(w, i)
              \/ \E r \in Reply : Send(w, i, r)
       PROVE  Good
  BY <1>1, <1>11 DEF Opened, Send, LeaseLost, FinalizeError, rowVars
<1>12. ASSUME NEW w \in Worker, Crash(w) PROVE Good
  BY <1>1, <1>12 DEF Crash, rowVars
<1>13. CASE UNCHANGED vars
  BY <1>1, <1>13 DEF vars, rowVars
<1> HIDE DEF Good
<1>14. ASSUME NEW i \in Job, QueueOneTimeLink(i) PROVE Good
  BY <1>3, <1>10, <1>14 DEF QueueOneTimeLink
<1>15. ASSUME NEW w \in Worker, Deliver(w) PROVE Good
  BY <1>8, <1>9, <1>11, <1>15 DEF Deliver
<1>16. ASSUME NEW w \in Worker, ClaimStep(w) PROVE Good
  BY <1>6, <1>16 DEF ClaimStep
<1>17. ASSUME Next PROVE Good
  BY <1>4, <1>5, <1>10, <1>12, <1>14, <1>15, <1>16, <1>17 DEF Next
<1> QED
  BY <1>13, <1>17 DEF Good

\* Outbox and ProviderEvents mean the same row: for any jobs, workers and budget,
\* whoever writes a row of the outbox writes it as OutboxRow allows.
THEOREM OutboxImplementsRow == Spec => ImplementsRow
<1>1. Init => \A j \in Job : Row(j)!RowInit
  BY DEF Init, Row!RowInit
<1>2. IInv /\ [Next]_vars => [\A j \in Job : Row(j)!RowStep]_vars
  BY StepRow
<1> QED
  BY <1>1, <1>2, Inductive, PTL DEF Spec, ImplementsRow
=============================================================================
