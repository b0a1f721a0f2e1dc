----------------------------- MODULE RateLimit -----------------------------
(***************************************************************************)
(* internal/ratelimit/ratelimit.go: one token bucket, shared by all        *)
(* replicas through its Postgres row.                                      *)
(*                                                                         *)
(* Allow opens a transaction, and in Postgres now() is the time of that    *)
(* BEGIN.  The upsert then waits for the row lock, so calls reach the      *)
(* bucket in another order than their now(): a late one refills by a       *)
(* negative amount and moves updated_at backwards.  From the upsert to the *)
(* commit the row is locked, so that part is one action.                   *)
(*                                                                         *)
(* Tokens are counted in points, Unit points to a token, so that a tick    *)
(* refills a fraction of a token.                                          *)
(***************************************************************************)
EXTENDS Integers

CONSTANTS
  Call,       \* concurrent calls of Allow for the bucket's key
  Capacity,   \* Rule.Capacity, in points
  Refill,     \* Rule.RefillPerSec, in points per tick
  Unit,       \* points in a token
  Stale,      \* olderThan of PurgeStale
  MaxFlight,  \* longest time from a call's BEGIN to its commit
  Horizon     \* bound on the clock

\* The last conjunct: a bucket untouched for Stale has refilled, with room for late
\* calls.
ASSUME RateAssumption ==
  /\ Capacity \in Nat /\ Refill \in Nat /\ Unit \in Nat \ {0}
  /\ MaxFlight \in Nat /\ Stale \in Nat /\ Horizon \in Nat
  /\ Capacity <= Refill * (Stale - 2 * MaxFlight)

NoCall == -1

VARIABLES
  now,
  present, tokens, updatedAt,  \* the row of rate_limit_buckets
  began,                       \* per call: its now(), or NoCall
  from, to, granted            \* observer: calls allowed with now() in from..to

bucketVars == <<now, present, tokens, updatedAt, began, from, to, granted>>

BucketTypeOK ==
  /\ now \in Nat
  /\ present \in BOOLEAN /\ tokens \in Int /\ updatedAt \in Nat
  /\ began \in [Call -> Nat \cup {NoCall}]
  /\ from \in Nat /\ to \in Nat /\ granted \in Nat

BucketInit ==
  /\ now = 0
  /\ present = FALSE /\ tokens = 0 /\ updatedAt = 0
  /\ began = [c \in Call |-> NoCall]
  /\ from \in 0..Horizon /\ to \in from..Horizon /\ granted = 0

\* Time passes; a call that is under way ends within MaxFlight.
ClockTick ==
  /\ now < Horizon
  /\ \A c \in Call : began[c] # NoCall => now - began[c] < MaxFlight
  /\ now' = now + 1
  /\ UNCHANGED <<present, tokens, updatedAt, began, from, to, granted>>

\* BEGIN.
Begin(c) ==
  /\ began[c] = NoCall
  /\ began' = [began EXCEPT ![c] = now]
  /\ UNCHANGED <<now, present, tokens, updatedAt, from, to, granted>>

\* Mutation: a late call's negative refill is taken as none.
RefilledNeverBack(t) ==
  IF ~present THEN Capacity
  ELSE IF t < updatedAt THEN tokens
  ELSE IF tokens + (t - updatedAt) * Refill > Capacity THEN Capacity
  ELSE tokens + (t - updatedAt) * Refill

\* The upsert of a call whose now() is t: INSERT a full bucket, or refill it.
Refilled(t) ==
  IF ~present THEN Capacity
  ELSE IF tokens + (t - updatedAt) * Refill > Capacity THEN Capacity
  ELSE tokens + (t - updatedAt) * Refill

Spend(t) == IF Refilled(t) >= Unit THEN Refilled(t) - Unit ELSE Refilled(t)

\* Upsert, conditional spend, commit.
Decide(c) ==
  /\ began[c] # NoCall
  /\ present' = TRUE
  /\ tokens' = Spend(began[c])
  /\ updatedAt' = began[c]
  /\ granted' = IF Refilled(began[c]) >= Unit /\ began[c] \in from..to THEN granted + 1 ELSE granted
  /\ began' = [began EXCEPT ![c] = NoCall]
  /\ UNCHANGED <<now, from, to>>

\* A statement fails: rollback, and http/ratelimit.go lets the request pass.
FailOpen(c) ==
  /\ began[c] # NoCall
  /\ began' = [began EXCEPT ![c] = NoCall]
  /\ UNCHANGED <<now, present, tokens, updatedAt, from, to, granted>>

\* Mutation: the age is compared without the day.
IsStaleEarly == present /\ updatedAt < now - MaxFlight

IsStale == present /\ updatedAt < now - Stale

\* PurgeStale.
PurgeStale ==
  /\ IsStale
  /\ present' = FALSE /\ tokens' = 0 /\ updatedAt' = 0
  /\ UNCHANGED <<now, began, from, to, granted>>

BucketNext ==
  \/ ClockTick \/ PurgeStale
  \/ \E c \in Call : Begin(c) \/ Decide(c) \/ FailOpen(c)

BucketSpec == BucketInit /\ [][BucketNext]_bucketVars

-----------------------------------------------------------------------------
\* Allow: "concurrent instances serialize on the bucket and cannot
\* oversubscribe".  Over any interval of time the calls that started in it and
\* were allowed are at most the capacity plus what the interval refills, in
\* whatever order they reached the row and however often it was purged.
NoOversubscription == granted * Unit <= Capacity + (to - from) * Refill

\* PurgeStale: a stale bucket "has fully refilled, so deleting it is
\* behaviorally a no-op", for every call that may still come, late ones included.
StaleIsFull == IsStale => Refilled(now - MaxFlight) = Capacity

-----------------------------------------------------------------------------
(* The inductive invariant.                                                *)

\* The tokens the bucket would have had at time 0 if it had refilled ever since.
\* Time, refills and late calls leave it alone, a full bucket and a grant lower it.
Level == tokens - updatedAt * Refill

\* A call that is under way began at most MaxFlight ago.
FlightInv ==
  \A c \in Call : began[c] # NoCall => began[c] <= now /\ now <= began[c] + MaxFlight

\* The debt of late calls: no call still to come is more than MaxFlight behind the
\* one that emptied the bucket.
DebtInv ==
  present => /\ Level + now * Refill >= 0
             /\ tokens + MaxFlight * Refill >= 0
             /\ \A c \in Call : began[c] # NoCall =>
                  Level + began[c] * Refill + MaxFlight * Refill >= 0

\* The grants of the interval were taken from a bucket that was full, at best, when
\* it began; once it is purged they have been refilled for the latest of calls.
GrantInv ==
  granted > 0 =>
    /\ present => granted * Unit + Level <= Capacity - from * Refill
    /\ ~present => granted * Unit <= now * Refill - MaxFlight * Refill - from * Refill

BucketInv == BucketTypeOK /\ from <= to /\ FlightInv /\ DebtInv /\ GrantInv /\ NoOversubscription
=============================================================================
