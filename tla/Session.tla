------------------------------ MODULE Session ------------------------------
(***************************************************************************)
(* internal/session/session.go: opaque sessions with rolling renewal.      *)
(*                                                                         *)
(* Validate runs a SELECT, reads the clock, decides, and then runs at most *)
(* one write that only names the row by its hash; nothing ties the write   *)
(* to what the SELECT saw.  The gateway calls it for every request, so     *)
(* validations of one session overlap freely, with each other and with     *)
(* revocation, the admin kill switch and the maintenance purge.  A         *)
(* revocation of all sessions deletes those its DELETE saw, and it is a    *)
(* transaction: they end, and the kill switch falls, at its COMMIT.  All   *)
(* sessions belong to one user.  Time is a natural number of ticks.        *)
(***************************************************************************)
EXTENDS Naturals

CONSTANTS
  Session,      \* sessions, each created at most once
  Validator,    \* concurrent calls of Validate
  Revoker,      \* concurrent revocations of all sessions
  Lifetime,     \* Config.Lifetime
  Threshold,    \* Config.RollingRenewalThreshold
  MaxLifetime,  \* Config.MaxLifetime, 0 for no cap
  Horizon       \* bound on the clock

\* config.go refuses a cap below the lifetime.
ASSUME LifetimeAssumption == Lifetime \in Nat \ {0} /\ Threshold \in Nat /\ Horizon \in Nat
ASSUME CapAssumption == MaxLifetime \in Nat /\ (MaxLifetime > 0 => Lifetime <= MaxLifetime)

VARIABLES
  now,
  row,                          \* "none", "live" or "deleted"
  createdAt, lastUsed, expires, \* its columns
  disabled,                     \* users.disabled
  revoking,                     \* per revocation: "idle", "revoke" or, with the switch, "disable"
  found,                        \* and the sessions its DELETE saw
  pc, target,                   \* per validation: progress and session
  seen,                         \* what its SELECT returned
  readAt, answer,               \* its clock reading, and the expiry it answers
  overtaken                     \* history: validations whose row was renewed since they read it

rowVars == <<row, createdAt, lastUsed, expires>>
callVars == <<pc, target, seen, readAt, answer>>
revokeVars == <<revoking, found>>
codeVars ==
  <<now, row, createdAt, lastUsed, expires, disabled, revoking, found, pc, target, seen, readAt,
    answer>>
vars == <<codeVars, overtaken>>

Snapshot == [expires : Nat, lastUsed : Nat, disabled : BOOLEAN]

TypeOK ==
  /\ now \in Nat
  /\ row \in [Session -> {"none", "live", "deleted"}]
  /\ createdAt \in [Session -> Nat]
  /\ lastUsed \in [Session -> Nat]
  /\ expires \in [Session -> Nat]
  /\ disabled \in BOOLEAN
  /\ revoking \in [Revoker -> {"idle", "revoke", "disable"}]
  /\ found \in [Revoker -> SUBSET Session]
  /\ pc \in [Validator -> {"idle", "read", "deleting", "renewing", "touching", "valid"}]
  /\ target \in [Validator -> Session]
  /\ seen \in [Validator -> Snapshot]
  /\ readAt \in [Validator -> Nat]
  /\ answer \in [Validator -> Nat]
  /\ overtaken \subseteq Validator

Init ==
  /\ now = 0
  /\ row = [s \in Session |-> "none"]
  /\ createdAt = [s \in Session |-> 0]
  /\ lastUsed = [s \in Session |-> 0]
  /\ expires = [s \in Session |-> 0]
  /\ disabled = FALSE
  /\ revoking = [r \in Revoker |-> "idle"]
  /\ found = [r \in Revoker |-> {}]
  /\ pc = [v \in Validator |-> "idle"]
  /\ target \in [Validator -> Session]
  /\ seen = [v \in Validator |-> [expires |-> 0, lastUsed |-> 0, disabled |-> FALSE]]
  /\ readAt = [v \in Validator |-> 0]
  /\ answer = [v \in Validator |-> 0]
  /\ overtaken = {}

Tick ==
  /\ now < Horizon
  /\ now' = now + 1
  /\ UNCHANGED <<rowVars, disabled, revokeVars, callVars>>

\* create applies no cap: Lifetime <= MaxLifetime makes one unnecessary.  A
\* session is only created while its cap is within the bounded clock.
Create(s) ==
  /\ row[s] = "none"
  /\ now + MaxLifetime <= Horizon
  /\ row' = [row EXCEPT ![s] = "live"]
  /\ createdAt' = [createdAt EXCEPT ![s] = now]
  /\ lastUsed' = [lastUsed EXCEPT ![s] = now]
  /\ expires' = [expires EXCEPT ![s] = now + Lifetime]
  /\ UNCHANGED <<now, disabled, revokeVars, callVars>>

-----------------------------------------------------------------------------
(* Validate.                                                               *)

\* The rolled expiry, never past the absolute cap.
NewExpiry(s) ==
  IF MaxLifetime > 0 /\ now + Lifetime > createdAt[s] + MaxLifetime
  THEN createdAt[s] + MaxLifetime
  ELSE now + Lifetime

\* Mutation: a session expires only after its expiry instant.
DeadLate(r) == r.disabled \/ r.expires < now

\* Mutation: a session idle past the renewal threshold counts as expired.
DeadIdle(r) == r.disabled \/ r.lastUsed + Threshold <= now

\* The row that was read is disabled or expired by now.
Dead(r) == r.disabled \/ r.expires <= now

\* The branch Validate takes on the row r of session s that it read.
Branch(s, r) ==
  IF Dead(r) THEN "deleting"
  ELSE IF now < r.lastUsed + Threshold THEN "valid"
  ELSE IF NewExpiry(s) > r.expires THEN "renewing" ELSE "touching"

\* Mutation: the SELECT does not look at users.disabled.
LookupSessionOnly(v, s) ==
  /\ pc[v] = "idle"
  /\ row[s] = "live"
  /\ pc' = [pc EXCEPT ![v] = "read"]
  /\ target' = [target EXCEPT ![v] = s]
  /\ seen' = [seen EXCEPT ![v] =
       [expires |-> expires[s], lastUsed |-> lastUsed[s], disabled |-> FALSE]]
  /\ UNCHANGED <<now, rowVars, disabled, revokeVars, readAt, answer>>

\* The SELECT.  A missing row answers KindNotFound and changes nothing.
Lookup(v, s) ==
  /\ pc[v] = "idle"
  /\ row[s] = "live"
  /\ pc' = [pc EXCEPT ![v] = "read"]
  /\ target' = [target EXCEPT ![v] = s]
  /\ seen' = [seen EXCEPT ![v] =
       [expires |-> expires[s], lastUsed |-> lastUsed[s], disabled |-> disabled]]
  /\ UNCHANGED <<now, rowVars, disabled, revokeVars, readAt, answer>>

\* time.Now() and the decision on what the SELECT returned.
Decide(v) ==
  LET s == target[v]
      b == Branch(s, seen[v])
  IN  /\ pc[v] = "read"
      /\ pc' = [pc EXCEPT ![v] = b]
      /\ readAt' = [readAt EXCEPT ![v] = now]
      /\ answer' = [answer EXCEPT ![v] = IF b = "renewing" THEN NewExpiry(s)
                                                          ELSE seen[v].expires]
      /\ UNCHANGED <<now, rowVars, disabled, revokeVars, target, seen>>

\* DELETE WHERE id_hash: it was dead when it was read.
Expire(v) ==
  /\ pc[v] = "deleting"
  /\ row' = [row EXCEPT ![target[v]] = "deleted"]
  /\ pc' = [pc EXCEPT ![v] = "idle"]
  /\ UNCHANGED <<now, createdAt, lastUsed, expires, disabled, revokeVars, target, seen, readAt,
                 answer>>

\* Mutation: the renewal is written as an upsert.
RenewUpsert(v) ==
  /\ pc[v] = "renewing"
  /\ row' = [row EXCEPT ![target[v]] = "live"]
  /\ lastUsed' = [lastUsed EXCEPT ![target[v]] = readAt[v]]
  /\ expires' = [expires EXCEPT ![target[v]] = answer[v]]
  /\ pc' = [pc EXCEPT ![v] = "valid"]
  /\ UNCHANGED <<now, createdAt, disabled, revokeVars, target, seen, readAt, answer>>

\* UPDATE last_used_at, expires_at WHERE id_hash: no row, no effect.
Renew(v) ==
  /\ pc[v] = "renewing"
  /\ IF row[target[v]] = "live"
     THEN /\ lastUsed' = [lastUsed EXCEPT ![target[v]] = readAt[v]]
          /\ expires' = [expires EXCEPT ![target[v]] = answer[v]]
     ELSE UNCHANGED <<lastUsed, expires>>
  /\ pc' = [pc EXCEPT ![v] = "valid"]
  /\ UNCHANGED <<now, row, createdAt, disabled, revokeVars, target, seen, readAt, answer>>

\* Pinned against the cap: UPDATE last_used_at only.
Touch(v) ==
  /\ pc[v] = "touching"
  /\ lastUsed' = IF row[target[v]] = "live" THEN [lastUsed EXCEPT ![target[v]] = readAt[v]]
                                            ELSE lastUsed
  /\ pc' = [pc EXCEPT ![v] = "valid"]
  /\ UNCHANGED <<now, row, createdAt, expires, disabled, revokeVars, target, seen, readAt, answer>>

\* The caller gets KindValid with the expiry in answer.
Return(v) ==
  /\ pc[v] = "valid"
  /\ pc' = [pc EXCEPT ![v] = "idle"]
  /\ UNCHANGED <<now, rowVars, disabled, revokeVars, target, seen, readAt, answer>>

\* The write fails: Validate returns the error (a failed DELETE is ignored).
WriteFails(v) ==
  /\ pc[v] \in {"deleting", "renewing", "touching"}
  /\ pc' = [pc EXCEPT ![v] = "idle"]
  /\ UNCHANGED <<now, rowVars, disabled, revokeVars, target, seen, readAt, answer>>

-----------------------------------------------------------------------------
(* Revocation.                                                             *)

\* Revoke by token: logout and the service API.
Revoke(s) ==
  /\ row[s] = "live"
  /\ row' = [row EXCEPT ![s] = "deleted"]
  /\ UNCHANGED <<now, createdAt, lastUsed, expires, disabled, revokeVars, callVars>>

\* RevokeAllForUser(Tx), alone ("revoke": admin revoke-all, password reset) or after
\* the kill switch's UPDATE of users, whose row lock admits one "disable" at a time.
\* The step is the DELETE's snapshot: a session opened from here on is not deleted.
RevokeAll(r, kind) ==
  /\ revoking[r] = "idle"
  /\ kind = "disable" => \A q \in Revoker : revoking[q] # "disable"
  /\ revoking' = [revoking EXCEPT ![r] = kind]
  /\ found' = [found EXCEPT ![r] = {s \in Session : row[s] = "live"}]
  /\ UNCHANGED <<now, rowVars, disabled, callVars>>

\* The COMMIT.  A row the DELETE saw goes, also when it was renewed before the DELETE
\* locked it; a renewal that waits for the lock finds no row.
RevokeCommits(r) ==
  /\ revoking[r] # "idle"
  /\ row' = [s \in Session |-> IF s \in found[r] THEN "deleted" ELSE row[s]]
  /\ disabled' = (disabled \/ revoking[r] = "disable")
  /\ revoking' = [revoking EXCEPT ![r] = "idle"]
  /\ found' = [found EXCEPT ![r] = {}]
  /\ UNCHANGED <<now, createdAt, lastUsed, expires, callVars>>

\* A statement, the evidence written with it, or the COMMIT fails.
RevokeRollsBack(r) ==
  /\ revoking[r] # "idle"
  /\ revoking' = [revoking EXCEPT ![r] = "idle"]
  /\ found' = [found EXCEPT ![r] = {}]
  /\ UNCHANGED <<now, rowVars, disabled, callVars>>

\* It updates users too, so it waits for a disable in flight.
Enable ==
  /\ disabled
  /\ \A r \in Revoker : revoking[r] # "disable"
  /\ disabled' = FALSE
  /\ UNCHANGED <<now, rowVars, revokeVars, callVars>>

\* Mutation: the comparison is the wrong way round.
PurgeSwapped(s) ==
  /\ row[s] = "live"
  /\ expires[s] > now
  /\ row' = [row EXCEPT ![s] = "deleted"]
  /\ UNCHANGED <<now, createdAt, lastUsed, expires, disabled, revokeVars, callVars>>

\* PurgeExpired, from runMaintenance.
Purge(s) ==
  /\ row[s] = "live"
  /\ expires[s] <= now
  /\ row' = [row EXCEPT ![s] = "deleted"]
  /\ UNCHANGED <<now, createdAt, lastUsed, expires, disabled, revokeVars, callVars>>

-----------------------------------------------------------------------------
Revocation(r) ==
  \/ \E kind \in {"revoke", "disable"} : RevokeAll(r, kind)
  \/ RevokeCommits(r) \/ RevokeRollsBack(r)

Acts ==
  \/ Tick \/ Enable
  \/ \E s \in Session : Create(s) \/ Revoke(s) \/ Purge(s)
  \/ \E r \in Revoker : Revocation(r)
  \/ \E v \in Validator :
       \/ \E s \in Session : Lookup(v, s)
       \/ Decide(v) \/ Expire(v) \/ Renew(v) \/ Touch(v) \/ Return(v) \/ WriteFails(v)

\* The history variable, which no action reads.
Rewrites(v) == Renew(v) /\ row[target[v]] = "live"

Remember ==
  overtaken' = {v \in Validator :
    /\ pc'[v] # "idle"
    /\ \/ v \in overtaken
       \/ /\ pc[v] # "idle"
          /\ \E u \in Validator \ {v} : target[u] = target[v] /\ Rewrites(u)}

Next == Acts /\ Remember

Spec == Init /\ [][Next]_vars

\* Time passes, the maintenance loop keeps running, calls return.
FairSpec ==
  /\ Spec
  /\ WF_codeVars(Tick)
  /\ \A s \in Session : WF_codeVars(Purge(s))
  /\ \A v \in Validator :
       WF_codeVars(Decide(v) \/ Expire(v) \/ Renew(v) \/ Touch(v) \/ WriteFails(v))

-----------------------------------------------------------------------------
\* Rolling renewal never carries a session past created_at + MaxLifetime, not
\* even through a renewal computed from a row that changed since it was read.
CapRespected ==
  MaxLifetime > 0 =>
    \A s \in Session : row[s] # "none" => expires[s] <= createdAt[s] + MaxLifetime

\* A cookie replayed once per renewal window still dies: no validation that read
\* the clock at or after the cap answers "valid" (Config.MaxLifetime).
KeptWarmStillDies ==
  MaxLifetime > 0 =>
    \A v \in Validator :
      pc[v] \in {"renewing", "touching", "valid"} =>
        readAt[v] < createdAt[target[v]] + MaxLifetime

Stays(s) == row[s] = "deleted" => row'[s] = "deleted"

\* A deleted session stays deleted, whatever renewals were in flight when it
\* was revoked: logout, "log out everywhere" and the kill switch are final.
NoResurrection == [][\A s \in Session : Stays(s)]_vars

\* The write of a validation that shortens a session, or drops one that neither
\* expired nor belonged to a disabled user.
Shortens(v) ==
  LET s == target[v]
  IN  Renew(v) /\ row[s] = "live" /\ expires'[s] < expires[s]

DropsDead(v) ==
  LET s == target[v]
  IN  row[s] = "live" => seen[v].disabled \/ expires[s] <= now

\* Validate never ties its write to what it read.  What that can cost: a session
\* is shortened, or dropped before its expiry, only by a validation that another
\* one's renewal overtook, never by the clock, a revocation or the purge alone.
OnlyOvertakenShortens ==
  [][\A v \in Validator \ overtaken :
       ~Shortens(v) /\ (Expire(v) => DropsDead(v))]_vars

\* With a cap every session ends, however often it is used.
EverySessionEnds ==
  MaxLifetime > 0 => \A s \in Session : row[s] = "live" ~> row[s] = "deleted"

-----------------------------------------------------------------------------
(* What callers see.                                                       *)

\* A validation whose answer, as things stand, will be "valid".
Stands(v) ==
  \/ pc[v] \in {"renewing", "touching", "valid"}
  \/ pc[v] = "read" /\ ~Dead(seen[v])

Admitted(v) == IF Stands(v) THEN {target[v]} ELSE {}
Told(v) == IF pc[v] = "valid" THEN answer[v] ELSE 0

\* What a revocation in flight will end.
Asked(r) == IF revoking[r] = "idle" THEN {} ELSE {found[r]}

Promise == INSTANCE SessionPromise WITH
  Caller <- Validator,
  Life <- Lifetime,
  Cap <- MaxLifetime,
  clock <- now,
  state <- row,
  born <- createdAt,
  until <- expires,
  asked <- [r \in Revoker |-> Asked(r)],
  admitted <- [v \in Validator |-> Admitted(v)],
  told <- [v \in Validator |-> Told(v)]

\* Sessions keep the promise of SessionPromise, although Validate reads the row, then
\* the clock, and writes later by id alone: every "valid" was true at one moment of
\* the call, nothing revives a session that ended, no renewal, however stale, reaches
\* past the cap or past a lifetime from now, and a revocation or the kill switch that
\* succeeds ends every session that stood when its DELETE began.
ImplementsPromise == Promise!PromiseSpec

-----------------------------------------------------------------------------
\* The inductive invariant: what a validation read, and what it is about to
\* write, also respects the cap of a row whose created_at no longer changes.
CallInv ==
  \A v \in Validator :
    pc[v] # "idle" =>
      /\ row[target[v]] # "none"
      /\ MaxLifetime > 0 => seen[v].expires <= createdAt[target[v]] + MaxLifetime
      /\ MaxLifetime > 0 /\ pc[v] # "read" => answer[v] <= createdAt[target[v]] + MaxLifetime

\* What a validation that was not overtaken read is still in the row.
FreshInv ==
  \A v \in Validator \ overtaken :
    pc[v] # "idle" =>
      /\ pc[v] \in {"read", "deleting", "renewing"} /\ row[target[v]] = "live"
           => seen[v].expires = expires[target[v]]
      /\ pc[v] = "renewing" => answer[v] > seen[v].expires
      /\ pc[v] = "deleting" => seen[v].disabled \/ seen[v].expires <= now

\* A revocation in flight only deletes sessions that exist.
FoundInv == \A r \in Revoker : \A s \in found[r] : row[s] # "none"

IInv == TypeOK /\ CapRespected /\ KeptWarmStillDies /\ CallInv /\ FreshInv /\ FoundInv

\* No expiry, written or about to be, is more than a lifetime ahead.
LifeInv ==
  /\ \A s \in Session : expires[s] <= now + Lifetime
  /\ \A v \in Validator :
       /\ seen[v].expires <= now + Lifetime
       /\ answer[v] <= now + Lifetime

\* Does not hold (README, "Divergences").
\* admin.go says: "Disabling also revokes every live session".  A session that a login
\* opens between the DELETE and the COMMIT is live after it, and again after Enable.
DisableEndsEverySession ==
  [][~disabled /\ disabled' => \A s \in Session : row'[s] # "live"]_vars

\* Does not hold (README, "Divergences").
\* session.go says of Validate: "On a live session past the rolling threshold it
\* extends last_used_at + expires_at".  Two overlapping validations that write
\* in the other order shorten a session instead.
ExpiryNeverShrinks ==
  [][\A s \in Session : row[s] = "live" /\ row'[s] = "live" => expires'[s] >= expires[s]]_vars

\* Does not hold (README, "Divergences").
\* session.go says of Validate: "Expired sessions ... are deleted
\* opportunistically".  The DELETE of a validation that found the session
\* expired also hits one that was renewed since.
OnlyExpiredDropped == [][\A v \in Validator : Expire(v) => DropsDead(v)]_vars
=============================================================================
