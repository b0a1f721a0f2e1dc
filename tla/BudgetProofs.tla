---------------------------- MODULE BudgetProofs ----------------------------
(***************************************************************************)
(* Budgets of time, for every value of the timeouts and rates. The worker: *)
(* if claiming and delivering a full batch fit in the lease, no delivery   *)
(* of the batch outlives it, and the delivery in hand at a shutdown ends   *)
(* before the process exits. The token bucket: no window of time grants    *)
(* more than a burst and what the window refills.                          *)
(***************************************************************************)
EXTENDS Shutdown, RateLimit, TLAPS

-----------------------------------------------------------------------------
(* The worker's lease and the drain at shutdown.                           *)

\* Finishing a job of the batch takes one job's time off what is left.
LEMMA BatchTimeStep ==
  ASSUME NEW n \in Nat, n > 0
  PROVE  /\ n - 1 \in Nat
         /\ BatchTime(n) \in Nat /\ BatchTime(n - 1) \in Nat
         /\ BatchTime(n) = BatchTime(n - 1) + SendTimeout + FinalizeTimeout
<1> DEFINE j == SendTimeout + FinalizeTimeout
<1>1. j \in Nat
  BY TimeAssumption
<1>2. n - 1 \in Nat /\ n = (n - 1) + 1
  OBVIOUS
<1>3. \A m \in Nat : (m + 1) * j = m * j + j /\ m * j \in Nat
  BY <1>1, SMT
<1> QED
  BY <1>1, <1>2, <1>3, TimeAssumption DEF BatchTime

\* A smaller batch takes no longer.
LEMMA BatchTimeMonotone ==
  ASSUME NEW n \in 0..ClaimBatch
  PROVE  /\ BatchTime(n) \in Nat /\ BatchTime(ClaimBatch) \in Nat
         /\ BatchTime(n) <= BatchTime(ClaimBatch)
<1> DEFINE j == SendTimeout + FinalizeTimeout
<1>1. j \in Nat /\ n \in Nat /\ ClaimBatch \in Nat /\ ClaimBatch - n \in Nat
  BY TimeAssumption
<1>2. n * j \in Nat /\ (ClaimBatch - n) * j \in Nat /\ ClaimBatch * j \in Nat
  BY <1>1, SMT
<1>3. ClaimBatch * j = n * j + (ClaimBatch - n) * j
  BY <1>1, SMT
<1>4. n * j <= ClaimBatch * j
  <2> HIDE DEF j
  <2> QED BY <1>2, <1>3, <1>1
<1> QED
  BY <1>2, <1>4 DEF BatchTime

\* The budget holds in every reachable state.
THEOREM Budget == Spec => []IInv
<1>1. Init => IInv
  BY TimeAssumption DEF Init, IInv, TypeOK, TimeInv
<1>2. IInv /\ [Next]_vars => IInv'
  <2> SUFFICES ASSUME IInv, [Next]_vars PROVE IInv'
    OBVIOUS
  <2> USE TimeAssumption
  <2>0. TypeOK /\ TimeInv
    BY DEF IInv
  <2>1. CASE Tick
    <3>1. TypeOK'
      BY <2>0, <2>1 DEF TypeOK, Tick
    <3>2. BatchTime(left) \in Nat /\ BatchTime(ClaimBatch) \in Nat
      BY <2>0, BatchTimeMonotone DEF TypeOK
    <3>3. TimeInv'
      BY <2>0, <2>1, <3>2 DEF TypeOK, TimeInv, Tick, Busy, CallLimit
    <3> QED BY <3>1, <3>3 DEF IInv
  <2>2. CASE StartClaim
    BY <2>0, <2>2 DEF IInv, TypeOK, TimeInv, StartClaim, serveVars
  <2>3. ASSUME NEW n \in BatchSizes, ClaimReturns(n) PROVE IInv'
    <3>1. TypeOK'
      BY <2>0, <2>3 DEF TypeOK, ClaimReturns, BatchSizes, serveVars
    <3>2. /\ BatchTime(n) \in Nat /\ BatchTime(ClaimBatch) \in Nat
          /\ BatchTime(n) <= BatchTime(ClaimBatch)
      BY BatchTimeMonotone DEF BatchSizes
    <3>3. TimeInv'
      BY <2>0, <2>3, <3>2 DEF TypeOK, TimeInv, ClaimReturns, BatchSizes
    <3> QED BY <3>1, <3>3 DEF IInv
  <2>4. CASE SendReturns
    <3>1. TypeOK'
      BY <2>0, <2>4 DEF TypeOK, SendReturns, serveVars
    <3>2. BatchTime(left) \in Nat /\ BatchTime(ClaimBatch) \in Nat
      BY <2>0, BatchTimeMonotone DEF TypeOK
    <3>3. TimeInv'
      BY <2>0, <2>4, <3>2 DEF TypeOK, TimeInv, SendReturns
    <3> QED BY <3>1, <3>3 DEF IInv
  <2>5. CASE FinalizeReturns
    <3>0. left \in Nat /\ left > 0
      BY <2>0, <2>5 DEF TypeOK, TimeInv, FinalizeReturns
    <3>1. TypeOK'
      BY <2>0, <2>5, <3>0 DEF TypeOK, FinalizeReturns, serveVars
    <3>2. /\ BatchTime(left) \in Nat /\ BatchTime(left - 1) \in Nat
          /\ BatchTime(left) = BatchTime(left - 1) + SendTimeout + FinalizeTimeout
      BY <3>0, BatchTimeStep
    <3>3. BatchTime(ClaimBatch) \in Nat
      BY <2>0, BatchTimeMonotone DEF TypeOK
    <3>4. TimeInv'
      BY <2>0, <2>5, <3>0, <3>2, <3>3 DEF TypeOK, TimeInv, FinalizeReturns
    <3> QED BY <3>1, <3>4 DEF IInv
  <2>6. CASE WorkerStops
    BY <2>0, <2>6 DEF IInv, TypeOK, TimeInv, WorkerStops, serveVars
  <2>7. CASE Signal \/ HTTPDrained \/ WorkerDrained \/ DrainTimesOut \/ ListenFails \/ Exit
    BY <2>0, <2>7 DEF IInv, TypeOK, TimeInv, BatchTime, workerVars, Signal, HTTPDrained,
         WorkerDrained, DrainTimesOut, ListenFails, Exit
  <2>8. CASE UNCHANGED vars
    BY <2>0, <2>8 DEF IInv, TypeOK, TimeInv, BatchTime, vars
  <2> QED
    BY <2>1, <2>2, <2>3, <2>4, <2>5, <2>6, <2>7, <2>8 DEF Next, WorkerStep
<1> QED
  BY <1>1, <1>2, PTL DEF Spec

\* A worker never works on a job whose lease another replica may take over.
THEOREM LeaseHeld == Spec => []LeaseCoversBatch
<1>1. IInv => LeaseCoversBatch
  <2> SUFFICES ASSUME IInv, worker \in {"sending", "finalizing"} PROVE leaseAge < LeaseDuration
    BY DEF LeaseCoversBatch
  <2>1. TypeOK /\ TimeInv /\ left \in Nat /\ left > 0
    BY TimeAssumption DEF IInv, TypeOK, TimeInv
  <2>2. /\ BatchTime(left) \in Nat /\ BatchTime(left - 1) \in Nat
        /\ BatchTime(left) = BatchTime(left - 1) + SendTimeout + FinalizeTimeout
    BY <2>1, BatchTimeStep
  <2>3. BatchTime(ClaimBatch) \in Nat
    BY <2>1, BatchTimeMonotone DEF TypeOK
  <2>4. ClaimTime + BatchTime(ClaimBatch) < LeaseDuration
    BY LeaseBudgetAssumption DEF BatchTime
  <2> QED
    BY <2>1, <2>2, <2>3, <2>4, TimeAssumption DEF TypeOK, TimeInv
<1> QED
  BY <1>1, Budget, PTL

\* The drain keeps up with a worker that has one job left at most.
LEMMA DrainStep ==
  ASSUME DrainBudget, IInv, DrainInv, [Next]_vars
  PROVE  DrainInv'
<1> USE TimeAssumption
<1>0. TypeOK /\ TimeInv /\ left \in Nat
  BY DEF IInv, TypeOK
<1>1. CASE Tick
  BY <1>0, <1>1 DEF DrainInv, TypeOK, Tick, Busy, Draining
<1>2. CASE StartClaim
  BY <1>2 DEF DrainInv, StartClaim
<1>3. ASSUME NEW n \in BatchSizes, ClaimReturns(n) PROVE DrainInv'
  BY <1>3 DEF DrainInv, ClaimReturns
<1>4. CASE SendReturns
  BY <1>0, <1>4 DEF DrainInv, TypeOK, TimeInv, SendReturns, serveVars
<1>5. CASE FinalizeReturns
  BY <1>0, <1>5 DEF DrainInv, TypeOK, TimeInv, FinalizeReturns, serveVars
<1>6. CASE WorkerStops
  BY <1>6 DEF DrainInv, WorkerStops, serveVars
<1>7. CASE DrainTimesOut
  <2>1. worker = "stopped"
    BY <1>0, <1>7 DEF DrainBudget, DrainInv, TypeOK, TimeInv, DrainTimesOut
  <2> QED BY <1>7, <2>1 DEF DrainInv, DrainTimesOut, workerVars
<1>8. CASE Signal \/ HTTPDrained \/ WorkerDrained \/ ListenFails \/ Exit
  BY <1>0, <1>8
  DEF DrainInv, TypeOK, workerVars, Signal, HTTPDrained, WorkerDrained, ListenFails, Exit
<1>9. CASE UNCHANGED vars
  BY <1>9 DEF DrainInv, vars
<1> QED
  BY <1>1, <1>2, <1>3, <1>4, <1>5, <1>6, <1>7, <1>8, <1>9 DEF Next, WorkerStep

\* serve: a worker with one delivery left at most when requests are being drained is
\* done before the pool closes.
THEOREM LastDeliveryDrains ==
  ASSUME DrainBudget
  PROVE  Spec => OneDeliveryDrains
<1>1. serving = "httpDrain" /\ worker # "claiming" /\ left <= 1 => DrainInv
  BY DEF DrainInv
<1>2. DrainInv => (serving \in {"closing", "exited"} => worker = "stopped")
  BY DEF DrainInv
<1>3. IInv /\ DrainInv /\ [Next]_vars => DrainInv'
  BY DrainStep
<1> QED
  BY <1>1, <1>2, <1>3, Budget, PTL DEF Spec, OneDeliveryDrains

-----------------------------------------------------------------------------
(* The token bucket.                                                       *)

\* Arithmetic on products, so that the steps below are linear.
LEMMA Scaled ==
  ASSUME NEW k \in Nat, NEW a \in Int, NEW b \in Int
  PROVE  /\ a * k \in Int /\ b * k \in Int
         /\ (a + b) * k = a * k + b * k
         /\ (a - b) * k = a * k - b * k
         /\ a <= b => a * k <= b * k
<1>1. a * k \in Int /\ b * k \in Int /\ (b - a) * k \in Int /\ b - a \in Int
  OBVIOUS
<1>2. (a + b) * k = a * k + b * k /\ (a - b) * k = a * k - b * k /\ (b - a) * k = b * k - a * k
  OBVIOUS
<1>3. a <= b => (b - a) * k >= 0
  <2>1. \A m, n \in Nat : m * n >= 0 OBVIOUS
  <2>2. a <= b => b - a \in Nat OBVIOUS
  <2> QED BY <2>1, <2>2
<1> QED BY <1>1, <1>2, <1>3

\* What holds of the products that the invariant is about.
LEMMA Points ==
  ASSUME BucketInv
  PROVE  /\ now * Refill \in Nat /\ updatedAt * Refill \in Nat /\ MaxFlight * Refill \in Nat
         /\ from * Refill \in Nat /\ to * Refill \in Nat /\ granted * Unit \in Nat
         /\ Level \in Int
         /\ from * Refill <= to * Refill
         /\ (to - from) * Refill = to * Refill - from * Refill
         /\ (now + 1) * Refill = now * Refill + Refill
         /\ (granted + 1) * Unit = granted * Unit + Unit
<1> USE RateAssumption DEF BucketInv, BucketTypeOK
<1>1. \A m, n \in Nat : m * n \in Nat
  OBVIOUS
<1>2. /\ now * Refill \in Nat /\ updatedAt * Refill \in Nat /\ MaxFlight * Refill \in Nat
      /\ from * Refill \in Nat /\ to * Refill \in Nat /\ granted * Unit \in Nat
  BY <1>1
<1>3. from * Refill <= to * Refill /\ (to - from) * Refill = to * Refill - from * Refill
  BY Scaled
<1>4. /\ (now + 1) * Refill = now * Refill + Refill
      /\ (granted + 1) * Unit = granted * Unit + Unit
  OBVIOUS
<1>5. Level \in Int
  BY <1>2 DEF Level
<1> QED
  BY <1>2, <1>3, <1>4, <1>5

\* A call under way, in points.
LEMMA FlightPoints ==
  ASSUME BucketInv, NEW c \in Call, began[c] # NoCall
  PROVE  /\ began[c] \in Nat /\ began[c] * Refill \in Nat
         /\ began[c] * Refill <= now * Refill
         /\ now * Refill <= began[c] * Refill + MaxFlight * Refill
         /\ (began[c] - updatedAt) * Refill = began[c] * Refill - updatedAt * Refill
         /\ from <= began[c] => from * Refill <= began[c] * Refill
         /\ began[c] <= to => began[c] * Refill <= to * Refill
<1> USE RateAssumption DEF BucketInv, BucketTypeOK
<1>1. /\ began[c] \in Nat /\ began[c] <= now /\ now <= began[c] + MaxFlight
  BY DEF FlightInv
<1>2. \A m, n \in Nat : m * n \in Nat
  OBVIOUS
<1>3. now * Refill <= (began[c] + MaxFlight) * Refill
  BY <1>1, Scaled
<1>4. (began[c] + MaxFlight) * Refill = began[c] * Refill + MaxFlight * Refill
  BY <1>1, Scaled
<1> QED
  BY <1>1, <1>2, <1>3, <1>4, Scaled

\* An empty table, and nobody has called.
LEMMA InitBucket ==
  ASSUME BucketInit PROVE BucketInv
<1>1. BucketTypeOK /\ from <= to
  <2>1. Horizon \in Nat BY RateAssumption
  <2>2. present \in BOOLEAN BY DEF BucketInit
  <2>3. began \in [Call -> Nat \cup {NoCall}] BY DEF BucketInit
  <2> QED BY <2>1, <2>2, <2>3 DEF BucketTypeOK, BucketInit
<1>2. FlightInv /\ DebtInv /\ GrantInv
  BY DEF BucketInit, FlightInv, DebtInv, GrantInv
<1>3. NoOversubscription
  <2>1. \A m, n \in Nat : m * n \in Nat OBVIOUS
  <2>2. to - from \in Nat /\ granted * Unit = 0 BY <1>1, RateAssumption DEF BucketTypeOK, BucketInit
  <2> QED BY <2>1, <2>2, RateAssumption DEF NoOversubscription
<1> QED
  BY <1>1, <1>2, <1>3 DEF BucketInv

\* Time only adds to what the bucket has.
LEMMA TickBucket ==
  ASSUME BucketInv, ClockTick PROVE BucketInv'
<1>1. BucketTypeOK' /\ from' <= to' /\ NoOversubscription'
  BY DEF BucketInv, BucketTypeOK, NoOversubscription, ClockTick
<1>2. FlightInv'
  BY RateAssumption DEF BucketInv, BucketTypeOK, FlightInv, ClockTick
<1>3. now' * Refill = now * Refill + Refill /\ Level' = Level
  BY Points DEF ClockTick, Level
<1>4. DebtInv' /\ GrantInv'
  <2> UNCHANGED <<present, tokens, began, from, granted>>
    BY DEF ClockTick
  <2> DebtInv /\ GrantInv /\ Refill \in Nat
    BY RateAssumption DEF BucketInv
  <2>1. DebtInv'
    BY <1>3, Points DEF DebtInv
  <2>2. GrantInv'
    BY <1>3, Points DEF GrantInv
  <2> QED BY <2>1, <2>2
<1> QED
  BY <1>1, <1>2, <1>4 DEF BucketInv

\* A call that begins or gives up does not touch the bucket.
LEMMA BeginBucket ==
  ASSUME BucketInv, NEW c \in Call, Begin(c) \/ FailOpen(c)
  PROVE  BucketInv'
<1> UNCHANGED <<now, present, tokens, updatedAt, from, to, granted>>
  BY DEF Begin, FailOpen
<1> BucketTypeOK /\ DebtInv /\ FlightInv
  BY DEF BucketInv
<1>1. \A d \in Call : began'[d] # NoCall => began'[d] \in {now, began[d]}
                      /\ (began'[d] = now \/ began[d] # NoCall)
  BY DEF BucketTypeOK, Begin, FailOpen
<1>2. began' \in [Call -> Nat \cup {NoCall}]
  BY DEF BucketTypeOK, Begin, FailOpen
<1>3. FlightInv'
  BY <1>1, RateAssumption DEF FlightInv, BucketTypeOK
<1>4. DebtInv'
  <2>1. present => \A d \in Call : began'[d] # NoCall =>
                     Level + began'[d] * Refill + MaxFlight * Refill >= 0
    BY <1>1, Points DEF DebtInv
  <2> QED BY <2>1 DEF DebtInv, Level
<1> QED
  BY <1>2, <1>3, <1>4
  DEF BucketInv, BucketTypeOK, GrantInv, Level, NoOversubscription

\* A stale bucket is full for every call that may still come.
LEMMA StalePoints ==
  ASSUME BucketInv, IsStale
  PROVE  Level + now * Refill - MaxFlight * Refill >= Capacity
<1> USE RateAssumption DEF BucketInv, BucketTypeOK
<1> DEFINE a == now - updatedAt
<1>1. present /\ a \in Nat /\ Stale <= a
  BY DEF IsStale
<1>2. Stale * Refill \in Int /\ a * Refill = now * Refill - updatedAt * Refill
  BY Scaled
<1>3. Stale * Refill <= a * Refill
  BY <1>1, Scaled
<1>4. Refill * (Stale - 2 * MaxFlight) = Stale * Refill - 2 * (MaxFlight * Refill)
  OBVIOUS
<1>5. tokens + MaxFlight * Refill >= 0
  BY <1>1 DEF DebtInv
<1>6. Capacity <= Stale * Refill - 2 * (MaxFlight * Refill) /\ Capacity \in Nat /\ tokens \in Int
  BY <1>4
<1> HIDE DEF a, BucketInv, BucketTypeOK
<1> QED
  BY <1>2, <1>3, <1>5, <1>6, Points DEF Level

\* PurgeStale: the grants of the interval have been refilled.
LEMMA PurgeBucket ==
  ASSUME BucketInv, PurgeStale PROVE BucketInv'
<1> UNCHANGED <<now, began, from, to, granted>>
  BY DEF PurgeStale
<1>1. BucketTypeOK' /\ ~present' /\ present
  <2>1. present' = FALSE /\ present BY DEF PurgeStale, IsStale
  <2>2. tokens' = 0 /\ updatedAt' = 0 BY DEF PurgeStale
  <2>3. present' \in BOOLEAN BY <2>1
  <2>4. BucketTypeOK' BY <2>2, <2>3 DEF BucketInv, BucketTypeOK
  <2> QED BY <2>1, <2>4
<1>2. GrantInv'
  <2>1. Level + now * Refill - MaxFlight * Refill >= Capacity
    BY StalePoints DEF PurgeStale
  <2>2. Capacity \in Nat /\ GrantInv
    BY RateAssumption DEF BucketInv
  <2> QED BY <1>1, <2>1, <2>2, Points DEF GrantInv
<1> QED
  BY <1>1, <1>2 DEF BucketInv, FlightInv, DebtInv, NoOversubscription

\* Upsert and spend: where the refill line goes.
LEMMA DecidePoints ==
  ASSUME BucketInv, NEW c \in Call, Decide(c)
  PROVE  LET v == Refilled(began[c])
             s == IF v >= Unit THEN Unit ELSE 0
         IN  /\ v \in Int /\ tokens' = v - s
             /\ Level' = v - s - began[c] * Refill
             /\ IF present /\ Level + began[c] * Refill <= Capacity
                THEN v = Level + began[c] * Refill
                ELSE v = Capacity
             /\ present => v <= Level + began[c] * Refill
<1> DEFINE v == Refilled(began[c])
           t == began[c] * Refill
<1>1. /\ began[c] \in Nat /\ t \in Nat /\ Capacity \in Nat /\ Unit \in Nat
      /\ (began[c] - updatedAt) * Refill = t - updatedAt * Refill
      /\ updatedAt * Refill \in Nat /\ tokens \in Int /\ Level \in Int
  BY FlightPoints, Points, RateAssumption DEF Decide, BucketInv, BucketTypeOK
<1>2. tokens' = Spend(began[c]) /\ updatedAt' = began[c]
  BY DEF Decide
<1>3. tokens + (t - updatedAt * Refill) = Level + t
  BY <1>1 DEF Level
<1>4. v = IF ~present THEN Capacity
          ELSE IF Level + t > Capacity THEN Capacity ELSE Level + t
  <2> HIDE DEF t
  <2> QED BY <1>1, <1>3 DEF Refilled
<1>5. tokens' = v - (IF v >= Unit THEN Unit ELSE 0) /\ v \in Int
  BY <1>1, <1>2, <1>4 DEF Spend
<1>6. Level' = tokens' - t
  BY <1>2 DEF Level
<1> HIDE DEF v, t
<1>7. /\ Level' = v - (IF v >= Unit THEN Unit ELSE 0) - t
      /\ IF present /\ Level + t <= Capacity THEN v = Level + t ELSE v = Capacity
      /\ present => v <= Level + t
  BY <1>1, <1>4, <1>5, <1>6
<1> QED
  BY <1>5, <1>7 DEF v, t

\* A decision lowers the refill line by what it grants.
LEMMA DecideBucket ==
  ASSUME BucketInv, NEW c \in Call, Decide(c)
  PROVE  BucketInv'
<1> DEFINE v == Refilled(began[c])
           s == IF v >= Unit THEN Unit ELSE 0
           t == began[c] * Refill
           L == Level
           m == MaxFlight * Refill
<1>0. began[c] # NoCall
  BY DEF Decide
<1>1. /\ v \in Int /\ tokens' = v - s /\ Level' = v - s - t
      /\ IF present /\ L + t <= Capacity THEN v = L + t ELSE v = Capacity
      /\ present => v <= L + t
  BY DecidePoints
<1>2. /\ began[c] \in Nat /\ t \in Nat /\ t <= now * Refill /\ now * Refill <= t + m
      /\ from <= began[c] => from * Refill <= t
      /\ began[c] <= to => t <= to * Refill
  BY <1>0, FlightPoints
<1>3. /\ now * Refill \in Nat /\ m \in Nat /\ from * Refill \in Nat /\ to * Refill \in Nat
      /\ granted * Unit \in Nat /\ L \in Int
      /\ (granted + 1) * Unit = granted * Unit + Unit
  BY Points
<1>4. /\ Capacity \in Nat /\ Unit \in Nat \ {0}
      /\ BucketTypeOK /\ FlightInv /\ DebtInv /\ GrantInv
  BY RateAssumption DEF BucketInv
<1>5. /\ present' = TRUE /\ updatedAt' = began[c]
      /\ granted' = IF v >= Unit /\ began[c] \in from..to THEN granted + 1 ELSE granted
      /\ began' = [began EXCEPT ![c] = NoCall]
      /\ UNCHANGED <<now, from, to>>
  BY DEF Decide
<1>6. \A d \in Call : began'[d] # NoCall => began'[d] = began[d] /\ began[d] # NoCall
  BY <1>4, <1>5 DEF BucketTypeOK
<1> HIDE DEF v, t, L, m
<1>7. tokens' \in Int
  BY <1>1, <1>4 DEF s
<1>8. BucketTypeOK'
  <2>1. present' \in BOOLEAN BY <1>5
  <2>2. began' \in [Call -> Nat \cup {NoCall}] BY <1>4, <1>5 DEF BucketTypeOK
  <2> QED BY <1>2, <1>4, <1>5, <1>7, <2>1, <2>2 DEF BucketTypeOK
<1>9. FlightInv'
  BY <1>4, <1>5, <1>6 DEF FlightInv
<1>10. DebtInv'
  <2>1. present => L + t + m >= 0 /\ L + now * Refill >= 0
    BY <1>0, <1>4 DEF DebtInv, L, t, m
  <2>2. tokens' + m >= 0 /\ Level' + now * Refill >= 0
    BY <1>1, <1>2, <1>3, <1>4, <2>1 DEF s
  <2>3. ASSUME NEW d \in Call, began[d] # NoCall
        PROVE  Level' + began[d] * Refill + m >= 0
    <3> DEFINE u == began[d] * Refill
    <3>1. u \in Nat /\ now * Refill <= u + m
      BY <2>3, FlightPoints DEF m
    <3>2. present => L + u + m >= 0
      BY <1>4, <2>3 DEF DebtInv, L, m
    <3> HIDE DEF u
    <3>3. Level' + u + m >= 0
      BY <1>1, <1>2, <1>3, <1>4, <3>1, <3>2 DEF s
    <3> QED BY <3>3 DEF u
  <2> QED BY <1>5, <1>6, <2>2, <2>3 DEF DebtInv, m
<1>11. GrantInv' /\ NoOversubscription'
  <2> DEFINE g == granted * Unit
             f == from * Refill
             e == to * Refill
  <2>1. granted > 0 => /\ present => g + L <= Capacity - f
                       /\ ~present => g <= now * Refill - m - f
    BY <1>4 DEF GrantInv, L, m
  <2>2. (to - from) * Refill = e - f
    BY Points
  <2>3. g <= Capacity + (e - f)
    BY <2>2 DEF BucketInv, NoOversubscription
  <2>4. granted = 0 => g = 0
    BY <1>4
  <2>5. granted \in Nat /\ g \in Nat /\ f \in Nat /\ e \in Nat
    BY <1>3, <1>4 DEF BucketTypeOK
  <2>6. granted' * Unit = IF granted' = granted THEN g ELSE g + Unit
    BY <1>3, <1>5, <2>5
  <2>7. began[c] \in from..to => f <= t /\ t <= e
    BY <1>2, <1>4 DEF BucketTypeOK
  <2> HIDE DEF g, f, e
  <2>8. CASE v >= Unit /\ began[c] \in from..to
    <3>1. granted' = granted + 1 /\ granted' * Unit = g + Unit /\ f <= t /\ t <= e
      BY <1>5, <2>5, <2>6, <2>7, <2>8
    <3>2. Level' = v - Unit - t
      BY <1>1, <2>8 DEF s
    <3>3. g + Unit + Level' <= Capacity - f
      BY <1>1, <1>2, <1>3, <1>4, <2>1, <2>4, <2>5, <3>1, <3>2
    <3>4. g + Unit <= Capacity + (e - f)
      BY <1>1, <1>2, <1>4, <2>5, <2>8, <3>1, <3>2, <3>3
    <3> QED
      BY <1>5, <2>2, <3>1, <3>3, <3>4 DEF GrantInv, NoOversubscription, f
  <2>9. CASE ~(v >= Unit /\ began[c] \in from..to)
    <3>1. granted' = granted /\ granted' * Unit = g
      BY <1>5, <2>6, <2>9
    <3>2. granted > 0 => g + Level' <= Capacity - f
      BY <1>1, <1>2, <1>3, <1>4, <2>1, <2>5 DEF s
    <3> QED
      BY <1>5, <2>2, <2>3, <3>1, <3>2 DEF GrantInv, NoOversubscription, f
  <2> QED BY <2>8, <2>9
<1> QED
  BY <1>5, <1>8, <1>9, <1>10, <1>11 DEF BucketInv

\* The bucket's invariant, for any number of calls, rates and purges.
THEOREM BucketInductive == BucketSpec => []BucketInv
<1>1. BucketInv /\ [BucketNext]_bucketVars => BucketInv'
  <2> SUFFICES ASSUME BucketInv, [BucketNext]_bucketVars PROVE BucketInv'
    OBVIOUS
  <2>1. CASE UNCHANGED bucketVars
    BY <2>1 DEF bucketVars, BucketInv, BucketTypeOK, FlightInv, DebtInv,
         GrantInv, Level, NoOversubscription
  <2> QED
    BY <2>1, TickBucket, BeginBucket, DecideBucket, PurgeBucket DEF BucketNext
<1> QED
  BY <1>1, InitBucket, PTL DEF BucketSpec

\* Allow: over no interval of time are more calls granted than the capacity and the
\* refill of the interval.
THEOREM NeverOversubscribed == BucketSpec => []NoOversubscription
<1>1. BucketInv => NoOversubscription
  BY DEF BucketInv
<1> QED
  BY <1>1, BucketInductive, PTL

\* PurgeStale deletes only full buckets.
THEOREM PurgeIsNoOp == BucketSpec => []StaleIsFull
<1>1. BucketInv => StaleIsFull
  <2> SUFFICES ASSUME BucketInv, IsStale
               PROVE  Refilled(now - MaxFlight) = Capacity
    BY DEF StaleIsFull
  <2> DEFINE a == now * Refill
             b == MaxFlight * Refill
             u == updatedAt * Refill
  <2>1. /\ (now - MaxFlight - updatedAt) * Refill = a - b - u
        /\ a \in Nat /\ b \in Nat /\ u \in Nat
    <3>1. now - MaxFlight \in Int /\ Refill \in Nat /\ now \in Int /\ MaxFlight \in Int
          /\ updatedAt \in Int
      BY RateAssumption DEF BucketInv, BucketTypeOK
    <3>2. (now - MaxFlight - updatedAt) * Refill = (now - MaxFlight) * Refill - u
      BY <3>1, Scaled
    <3>3. (now - MaxFlight) * Refill = a - b
      BY <3>1, Scaled
    <3> QED BY <3>2, <3>3, Points
  <2>2. Level + a - b >= Capacity
    BY StalePoints
  <2>3. tokens \in Int /\ Capacity \in Nat /\ present
    BY RateAssumption DEF BucketInv, BucketTypeOK, IsStale
  <2>4. Level = tokens - u
    BY DEF Level
  <2> HIDE DEF a, b, u
  <2> QED
    BY <2>1, <2>2, <2>3, <2>4 DEF Refilled
<1> QED
  BY <1>1, BucketInductive, PTL
=============================================================================
