------------------------------ MODULE Shutdown ------------------------------
(***************************************************************************)
(* The life of one replica: cmd/sesamo/serve.go serve, and the time its    *)
(* email worker (internal/email/worker.go Run, runOnce, deliver) takes.    *)
(*                                                                         *)
(* Every wait in these functions is bounded by a timeout, so the model     *)
(* counts the time spent in the current wait: a wait may end at any time,  *)
(* and time may not pass the end of one.  SIGTERM cancels the worker's     *)
(* context at once; runOnce looks at it only between batches.              *)
(***************************************************************************)
EXTENDS Naturals

CONSTANTS
  ClaimBatch, SendTimeout, FinalizeTimeout,   \* worker.go
  LeaseDuration,                              \* outbox.go
  ShutdownTimeout,                            \* serve.go
  ClaimTime    \* longest Claim, from its now() to its return: no timeout in the code

ASSUME TimeAssumption ==
  /\ ClaimBatch \in Nat /\ SendTimeout \in Nat /\ FinalizeTimeout \in Nat
  /\ LeaseDuration \in Nat /\ ShutdownTimeout \in Nat /\ ClaimTime \in Nat

\* worker.go: "the full batch MUST complete inside the two-minute lease".
ASSUME LeaseBudgetAssumption ==
  ClaimTime + ClaimBatch * (SendTimeout + FinalizeTimeout) < LeaseDuration

VARIABLES
  worker,    \* what the email worker is doing
  left,      \* jobs of its batch it has not finished
  spent,     \* time in its current call
  leaseAge,  \* time since the batch was leased
  serving,   \* where serve is
  waited,    \* time in serve's current wait
  cause      \* why serve returns

workerVars == <<worker, left, spent, leaseAge>>
serveVars == <<serving, waited, cause>>
vars == <<worker, left, spent, leaseAge, serving, waited, cause>>

Busy == worker \in {"claiming", "sending", "finalizing"}
Draining == serving \in {"httpDrain", "workerDrain"}

TypeOK ==
  /\ worker \in {"polling", "claiming", "sending", "finalizing", "stopped"}
  /\ left \in 0..ClaimBatch
  /\ spent \in Nat /\ leaseAge \in Nat /\ waited \in Nat
  /\ serving \in {"up", "httpDrain", "workerDrain", "closing", "exited"}
  /\ cause \in {"none", "signal", "listen"}

Init ==
  /\ worker = "polling" /\ left = 0 /\ spent = 0 /\ leaseAge = 0
  /\ serving = "up" /\ waited = 0 /\ cause = "none"

-----------------------------------------------------------------------------
\* The longest the worker's current call lasts.
CallLimit ==
  CASE worker = "claiming"   -> ClaimTime
    [] worker = "sending"    -> SendTimeout
    [] OTHER                 -> FinalizeTimeout

\* Time passes, but not in a wait that is over: polling and Claim end at once
\* when the worker's context is cancelled.
Tick ==
  /\ serving # "exited"
  /\ Busy \/ Draining
  /\ worker \in {"polling", "claiming"} => serving = "up"
  /\ Busy => spent < CallLimit
  /\ Draining => waited < ShutdownTimeout
  /\ spent' = IF Busy THEN spent + 1 ELSE spent
  /\ leaseAge' = IF Busy THEN leaseAge + 1 ELSE leaseAge
  /\ waited' = IF Draining THEN waited + 1 ELSE waited
  /\ UNCHANGED <<worker, left, serving, cause>>

-----------------------------------------------------------------------------
(* The worker.                                                             *)

\* Mutation: the context is not checked between two batches.
StartClaimUnchecked ==
  /\ worker = "polling" /\ serving # "exited"
  /\ worker' = "claiming" /\ left' = 0 /\ spent' = 0 /\ leaseAge' = 0
  /\ UNCHANGED serveVars

\* Run: the context is checked, then Claim starts.
StartClaim ==
  /\ worker = "polling" /\ serving = "up"
  /\ worker' = "claiming" /\ left' = 0 /\ spent' = 0 /\ leaseAge' = 0
  /\ UNCHANGED serveVars

\* Mutation: the limit is off by one.
BatchSizesTooMany == 0..ClaimBatch + 1

\* LIMIT claimBatch.
BatchSizes == 0..ClaimBatch

\* Claim returns n leased jobs; none if it fails.
ClaimReturns(n) ==
  /\ worker = "claiming"
  /\ worker' = IF n = 0 THEN "polling" ELSE "sending"
  /\ left' = n /\ spent' = 0
  /\ UNCHANGED <<leaseAge, serveVars>>

\* deliver: the provider answered or sendTimeout is over.  Both contexts are
\* detached, so a cancelled worker still delivers the rest of its batch.
SendReturns ==
  /\ worker = "sending"
  /\ serving \notin {"closing", "exited"}
  /\ worker' = "finalizing" /\ spent' = 0
  /\ UNCHANGED <<left, leaseAge, serveVars>>

\* Finalize returned or timed out: the next job of the batch, or the end of it.
FinalizeReturns ==
  /\ worker = "finalizing"
  /\ worker' = IF left > 1 THEN "sending" ELSE "polling"
  /\ left' = left - 1 /\ spent' = 0
  /\ UNCHANGED <<leaseAge, serveVars>>

\* Run returns: workerDone is closed.
WorkerStops ==
  /\ worker = "polling" /\ serving # "up"
  /\ worker' = "stopped"
  /\ UNCHANGED <<left, spent, leaseAge, serveVars>>

-----------------------------------------------------------------------------
(* serve.                                                                  *)

\* SIGTERM or SIGINT: srv.Shutdown starts.
Signal ==
  /\ serving = "up"
  /\ serving' = "httpDrain" /\ waited' = 0 /\ cause' = "signal"
  /\ UNCHANGED workerVars

\* Mutation: both phases share one deadline.
HTTPDrainedOneDeadline ==
  /\ serving = "httpDrain"
  /\ serving' = "workerDrain"
  /\ UNCHANGED <<workerVars, waited, cause>>

\* Requests are drained, or the grace is over: wait for the worker, with a
\* timeout of its own.
HTTPDrained ==
  /\ serving = "httpDrain"
  /\ serving' = "workerDrain" /\ waited' = 0
  /\ UNCHANGED <<workerVars, cause>>

WorkerDrained ==
  /\ serving = "workerDrain" /\ worker = "stopped"
  /\ serving' = "closing"
  /\ UNCHANGED <<workerVars, waited, cause>>

\* The worker is not done in time: serve returns without it.
DrainTimesOut ==
  /\ serving = "workerDrain" /\ waited = ShutdownTimeout
  /\ serving' = "closing"
  /\ UNCHANGED <<workerVars, waited, cause>>

\* ListenAndServe failed: serve returns at once.
ListenFails ==
  /\ serving = "up"
  /\ serving' = "closing" /\ cause' = "listen"
  /\ UNCHANGED <<workerVars, waited>>

\* runServe: pool.Close waits for connections in use and then the process ends.
\* A send in progress is not waited for, and could not be recorded any more.  A request
\* that outlives the HTTP grace may keep a connection as well; here only the worker does.
Exit ==
  /\ serving = "closing"
  /\ worker \notin {"claiming", "finalizing"}
  /\ serving' = "exited"
  /\ UNCHANGED <<workerVars, waited, cause>>

-----------------------------------------------------------------------------
WorkerStep ==
  \/ StartClaim \/ (\E n \in BatchSizes : ClaimReturns(n))
  \/ SendReturns \/ FinalizeReturns \/ WorkerStops

Next ==
  \/ Tick \/ WorkerStep
  \/ Signal \/ HTTPDrained \/ WorkerDrained \/ DrainTimesOut \/ ListenFails \/ Exit

Spec == Init /\ [][Next]_vars

\* Calls end by their timeouts and time passes; nobody has to send the signal.
FairSpec ==
  /\ Spec
  /\ WF_vars(Tick) /\ WF_vars(WorkerStep)
  /\ WF_vars(HTTPDrained) /\ WF_vars(WorkerDrained) /\ WF_vars(DrainTimesOut) /\ WF_vars(Exit)

-----------------------------------------------------------------------------
\* No lease runs out while its worker is still on the batch, whatever each call
\* takes and wherever a signal falls: no other replica sends the same mail.
LeaseCoversBatch == worker \in {"sending", "finalizing"} => leaseAge < LeaseDuration

\* A signalled process ends, whatever the worker and its provider do.
SignalEndsProcess == cause = "signal" ~> serving = "exited"

\* The drain covers a last delivery: if the worker has at most one job left at
\* some time after the signal, the pool closes only when the worker is done,
\* however long its send, its Finalize and the HTTP requests take.
OneDeliveryDrains ==
  [](serving = "httpDrain" /\ worker # "claiming" /\ left <= 1
       => [](serving \in {"closing", "exited"} => worker = "stopped"))

\* Does not hold (README, "Divergences").
\* serve: "drain the one email delivery that can be in flight.  Closing the pool
\* before the worker exits loses provider acceptance".  After a signal the pool
\* is closed only when the worker is done.
PoolOutlivesWorker ==
  cause = "signal" /\ serving \in {"closing", "exited"} => worker = "stopped"

\* The inductive invariant: what is left of the batch still fits in the lease.
BatchTime(n) == n * (SendTimeout + FinalizeTimeout)

TimeInv ==
  /\ worker = "claiming" => leaseAge = spent /\ spent <= ClaimTime
  /\ worker \in {"sending", "finalizing"} => left > 0
  /\ worker = "sending" =>
       /\ spent <= SendTimeout
       /\ leaseAge + BatchTime(left) <= ClaimTime + BatchTime(ClaimBatch) + spent
  /\ worker = "finalizing" =>
       /\ spent <= FinalizeTimeout
       /\ leaseAge + BatchTime(left) <= ClaimTime + BatchTime(ClaimBatch) + SendTimeout + spent

IInv == TypeOK /\ TimeInv

\* One delivery fits in the wait for the worker: 20 s and 5 s in 30 s.
DrainBudget == SendTimeout + FinalizeTimeout < ShutdownTimeout

\* From the drain on, with one job left at most: the worker starts nothing, and serve
\* has waited no longer than what the worker has spent on the job since.
DrainInv ==
  /\ serving # "up" /\ worker # "claiming" /\ left <= 1
  /\ serving = "workerDrain" =>
       /\ worker = "sending" => waited <= spent
       /\ worker = "finalizing" => waited <= SendTimeout + spent
       /\ worker = "polling" => waited <= SendTimeout + FinalizeTimeout
  /\ serving \in {"closing", "exited"} => worker = "stopped"
=============================================================================
