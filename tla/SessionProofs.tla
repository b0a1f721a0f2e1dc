--------------------------- MODULE SessionProofs ---------------------------
(***************************************************************************)
(* Proofs about Session for every set of sessions and concurrent           *)
(* validations and revocations, and every lifetime, threshold and cap.     *)
(***************************************************************************)
EXTENDS Session, TLAPS

\* The bound that carries the argument: a rolled expiry never passes the cap.
LEMMA NewExpiryCapped ==
  ASSUME TypeOK, NEW s \in Session
  PROVE  /\ NewExpiry(s) \in Nat
         /\ MaxLifetime > 0 => NewExpiry(s) <= createdAt[s] + MaxLifetime
  BY LifetimeAssumption, CapAssumption DEF TypeOK, NewExpiry

\* A validation that does not delete read the clock before the expiry it saw.
LEMMA BranchSound ==
  ASSUME NEW s \in Session, NEW r \in Snapshot, now \in Nat
  PROVE  /\ Branch(s, r) \in {"deleting", "renewing", "touching", "valid"}
         /\ Branch(s, r) # "deleting" => now < r.expires
  BY DEF Branch, Dead, Snapshot

\* The initial state satisfies the inductive invariant.
LEMMA InitInv ==
  Init => IInv
<1> SUFFICES ASSUME Init PROVE IInv
  OBVIOUS
<1>1. [expires |-> 0, lastUsed |-> 0, disabled |-> FALSE] \in Snapshot
  BY DEF Snapshot
<1>2. TypeOK
  BY <1>1 DEF Init, TypeOK
<1>3. CapRespected /\ KeptWarmStillDies /\ CallInv /\ FreshInv /\ FoundInv
  BY DEF Init, CapRespected, KeptWarmStillDies, CallInv, FreshInv, FoundInv
<1> QED
  BY <1>2, <1>3 DEF IInv

\* Every step of the clock, of a validation or of a revocation preserves types.
LEMMA StepType ==
  TypeOK /\ [Next]_vars => TypeOK'
<1> SUFFICES ASSUME TypeOK, [Next]_vars PROVE TypeOK'
  OBVIOUS
<1> USE LifetimeAssumption, CapAssumption
<1>h. overtaken' \subseteq Validator
  BY DEF Next, Remember, vars, TypeOK
<1>1. CASE Tick
  BY <1>1, <1>h DEF Tick, TypeOK, rowVars, callVars, revokeVars
<1>2. CASE Enable
  BY <1>2, <1>h DEF Enable, TypeOK, rowVars, callVars, revokeVars
<1>3. ASSUME NEW s \in Session, Create(s) PROVE TypeOK'
  BY <1>3, <1>h DEF Create, TypeOK, callVars, revokeVars
<1>4. ASSUME NEW s \in Session, Revoke(s) \/ Purge(s) PROVE TypeOK'
  BY <1>4, <1>h DEF Revoke, Purge, TypeOK, callVars, revokeVars
<1>5. ASSUME NEW r \in Revoker, Revocation(r) PROVE TypeOK'
  <2>1. ASSUME NEW kind \in {"revoke", "disable"}, RevokeAll(r, kind) PROVE TypeOK'
    <3>1. {s \in Session : row[s] = "live"} \in SUBSET Session
      OBVIOUS
    <3> QED
      BY <1>h, <2>1, <3>1 DEF RevokeAll, TypeOK, rowVars, callVars, revokeVars
  <2>2. ASSUME RevokeCommits(r) PROVE TypeOK'
    <3>1. row' \in [Session -> {"none", "live", "deleted"}]
      BY <2>2 DEF RevokeCommits, TypeOK
    <3> QED
      BY <1>h, <2>2, <3>1 DEF RevokeCommits, TypeOK, callVars
  <2>3. ASSUME RevokeRollsBack(r) PROVE TypeOK'
    BY <1>h, <2>3 DEF RevokeRollsBack, TypeOK, rowVars, callVars, revokeVars
  <2> QED
    BY <1>5, <2>1, <2>2, <2>3 DEF Revocation
<1>6. ASSUME NEW v \in Validator, NEW s \in Session, Lookup(v, s) PROVE TypeOK'
  <2>1. [expires |-> expires[s], lastUsed |-> lastUsed[s], disabled |-> disabled] \in Snapshot
    BY DEF TypeOK, Snapshot
  <2> QED
    BY <1>6, <1>h, <2>1 DEF Lookup, TypeOK, rowVars, revokeVars
<1>7. ASSUME NEW v \in Validator, Decide(v) PROVE TypeOK'
  <2>1. target[v] \in Session /\ seen[v] \in Snapshot /\ now \in Nat
    BY DEF TypeOK
  <2>2. Branch(target[v], seen[v]) \in {"deleting", "renewing", "touching", "valid"}
    BY <2>1, BranchSound
  <2>3. NewExpiry(target[v]) \in Nat /\ seen[v].expires \in Nat
    BY <2>1, NewExpiryCapped DEF Snapshot
  <2> QED
    BY <1>7, <1>h, <2>1, <2>2, <2>3 DEF Decide, TypeOK, rowVars, revokeVars
<1>8. ASSUME NEW v \in Validator, Expire(v) PROVE TypeOK'
  BY <1>8, <1>h DEF Expire, TypeOK, revokeVars
<1>9. ASSUME NEW v \in Validator, Renew(v) PROVE TypeOK'
  BY <1>9, <1>h DEF Renew, TypeOK, revokeVars
<1>10. ASSUME NEW v \in Validator, Touch(v) PROVE TypeOK'
  BY <1>10, <1>h DEF Touch, TypeOK, revokeVars
<1>11. ASSUME NEW v \in Validator, Return(v) \/ WriteFails(v) PROVE TypeOK'
  BY <1>11, <1>h DEF Return, WriteFails, TypeOK, rowVars, revokeVars
<1>12. CASE UNCHANGED vars
  BY <1>12, <1>h DEF vars, codeVars, TypeOK
<1> QED
  BY <1>1, <1>2, <1>3, <1>4, <1>5, <1>6, <1>7, <1>8, <1>9, <1>10, <1>11, <1>12 DEF Next, Acts

\* Once it exists, a row keeps its created_at and never becomes "none" again.
LEMMA RowPersists ==
  ASSUME TypeOK, [Next]_vars, NEW s \in Session, row[s] # "none"
  PROVE  row'[s] # "none" /\ createdAt'[s] = createdAt[s]
<1>1. CASE Tick \/ Enable
  BY <1>1 DEF Tick, Enable, rowVars
<1>2. ASSUME NEW t \in Session, Create(t) PROVE row'[s] # "none" /\ createdAt'[s] = createdAt[s]
  BY <1>2 DEF Create, TypeOK
<1>3. ASSUME NEW t \in Session, Revoke(t) \/ Purge(t)
      PROVE  row'[s] # "none" /\ createdAt'[s] = createdAt[s]
  BY <1>3 DEF Revoke, Purge, TypeOK
<1>4. ASSUME NEW r \in Revoker, Revocation(r) PROVE row'[s] # "none" /\ createdAt'[s] = createdAt[s]
  BY <1>4 DEF Revocation, RevokeAll, RevokeCommits, RevokeRollsBack, rowVars
<1>5. ASSUME NEW v \in Validator,
             (\E t \in Session : Lookup(v, t)) \/ Decide(v) \/ Renew(v) \/ Touch(v)
               \/ Return(v) \/ WriteFails(v)
      PROVE  row'[s] # "none" /\ createdAt'[s] = createdAt[s]
  BY <1>5 DEF Lookup, Decide, Renew, Touch, Return, WriteFails, rowVars
<1>6. ASSUME NEW v \in Validator, Expire(v) PROVE row'[s] # "none" /\ createdAt'[s] = createdAt[s]
  BY <1>6 DEF Expire, TypeOK
<1>7. CASE UNCHANGED vars
  BY <1>7 DEF vars, codeVars
<1> QED
  BY <1>1, <1>2, <1>3, <1>4, <1>5, <1>6, <1>7 DEF Next, Acts

\* The cap survives every step: only Create and Renew write an expiry.
LEMMA StepCap ==
  ASSUME IInv, [Next]_vars
  PROVE  CapRespected'
<1> SUFFICES ASSUME MaxLifetime > 0, NEW s \in Session, row'[s] # "none"
             PROVE  expires'[s] <= createdAt'[s] + MaxLifetime
  BY DEF CapRespected
<1> USE LifetimeAssumption, CapAssumption
<1>t. TypeOK
  BY DEF IInv
<1>c. row[s] # "none" => expires[s] <= createdAt[s] + MaxLifetime
  BY DEF IInv, CapRespected
<1>k. row[s] # "none" => createdAt'[s] = createdAt[s]
  BY <1>t, RowPersists
<1>1. ASSUME NEW t \in Session, Create(t) PROVE expires'[s] <= createdAt'[s] + MaxLifetime
  BY <1>1, <1>t, <1>c DEF Create, TypeOK
<1>2. ASSUME NEW v \in Validator, Renew(v) PROVE expires'[s] <= createdAt'[s] + MaxLifetime
  <2>1. answer[v] <= createdAt[target[v]] + MaxLifetime
    BY <1>2 DEF Renew, IInv, CallInv
  <2> QED
    BY <1>2, <1>t, <1>c, <2>1 DEF Renew, TypeOK
<1>3. ASSUME UNCHANGED expires, row'[s] = row[s] \/ row[s] # "none"
      PROVE  expires'[s] <= createdAt'[s] + MaxLifetime
  BY <1>3, <1>c, <1>k
<1>4. ASSUME NEW t \in Session, Revoke(t) \/ Purge(t)
      PROVE  UNCHANGED expires /\ (row'[s] = row[s] \/ row[s] # "none")
  BY <1>4, <1>t DEF Revoke, Purge, TypeOK
<1>5. ASSUME NEW r \in Revoker, Revocation(r)
      PROVE  UNCHANGED expires /\ (row'[s] = row[s] \/ row[s] # "none")
  BY <1>5 DEF Revocation, RevokeAll, RevokeCommits, RevokeRollsBack, rowVars, IInv, FoundInv
<1>6. ASSUME NEW v \in Validator, Expire(v)
      PROVE  UNCHANGED expires /\ (row'[s] = row[s] \/ row[s] # "none")
  BY <1>6, <1>t DEF Expire, TypeOK, IInv, CallInv
<1>7. ASSUME \/ Tick \/ Enable \/ UNCHANGED vars
             \/ \E v \in Validator : \/ \E t \in Session : Lookup(v, t)
                                      \/ Decide(v) \/ Touch(v) \/ Return(v) \/ WriteFails(v)
      PROVE  UNCHANGED expires /\ row'[s] = row[s]
  BY <1>7 DEF Tick, Enable, vars, codeVars, Lookup, Decide, Touch, Return, WriteFails, rowVars
<1> QED
  BY <1>1, <1>2, <1>3, <1>4, <1>5, <1>6, <1>7 DEF Next, Acts

\* What a validation carries keeps respecting the cap while rows change under it.
LEMMA StepCall ==
  ASSUME IInv, [Next]_vars
  PROVE  CallInv' /\ KeptWarmStillDies'
<1> DEFINE Good(v) ==
      pc[v] # "idle" =>
        /\ row[target[v]] # "none"
        /\ MaxLifetime > 0 => seen[v].expires <= createdAt[target[v]] + MaxLifetime
        /\ MaxLifetime > 0 /\ pc[v] # "read" => answer[v] <= createdAt[target[v]] + MaxLifetime
        /\ MaxLifetime > 0 /\ pc[v] \in {"renewing", "touching", "valid"}
             => readAt[v] < createdAt[target[v]] + MaxLifetime
<1> SUFFICES ASSUME NEW v \in Validator PROVE Good(v)'
  BY Zenon DEF CallInv, KeptWarmStillDies
<1> USE LifetimeAssumption, CapAssumption
<1>t. TypeOK /\ TypeOK'
  BY StepType DEF IInv
<1>g. Good(v)
  BY DEF IInv, CallInv, KeptWarmStillDies
<1>k. pc[v] # "idle" => row'[target[v]] # "none" /\ createdAt'[target[v]] = createdAt[target[v]]
  <2>1. target[v] \in Session
    BY <1>t DEF TypeOK
  <2> QED
    BY <1>t, <1>g, <2>1, RowPersists
<1>1. ASSUME UNCHANGED <<target, seen, readAt, answer>>,
             pc'[v] = pc[v] \/ pc'[v] = "idle"
               \/ (pc[v] \in {"renewing", "touching"} /\ pc'[v] = "valid")
      PROVE  Good(v)'
  BY <1>1, <1>g, <1>k
<1>2. ASSUME NEW w \in Validator, Expire(w) \/ Renew(w) \/ Touch(w) \/ Return(w) \/ WriteFails(w)
      PROVE  Good(v)'
  <2>1. UNCHANGED <<target, seen, readAt, answer>>
    BY <1>2 DEF Expire, Renew, Touch, Return, WriteFails
  <2>2. \/ pc'[v] = pc[v] \/ pc'[v] = "idle"
        \/ pc[v] \in {"renewing", "touching"} /\ pc'[v] = "valid"
    BY <1>2, <1>t DEF Expire, Renew, Touch, Return, WriteFails, TypeOK
  <2> QED
    BY <1>1, <2>1, <2>2
<1>3. ASSUME NEW w \in Validator, NEW s \in Session, Lookup(w, s) PROVE Good(v)'
  <2>1. CASE v = w
    <3>1. pc'[v] = "read" /\ target'[v] = s /\ row'[s] = "live" /\ seen'[v].expires = expires[s]
      BY <1>3, <1>t, <2>1 DEF Lookup, TypeOK, rowVars
    <3>2. createdAt' = createdAt /\ (MaxLifetime > 0 => expires[s] <= createdAt[s] + MaxLifetime)
      BY <1>3 DEF Lookup, IInv, CapRespected, rowVars
    <3> QED
      BY <3>1, <3>2
  <2>2. CASE v # w
    <3>1. pc'[v] = pc[v] /\ target'[v] = target[v] /\ seen'[v] = seen[v]
      BY <1>3, <1>t, <2>2 DEF Lookup, TypeOK
    <3>2. UNCHANGED <<readAt, answer>>
      BY <1>3 DEF Lookup
    <3> QED
      BY <1>g, <1>k, <3>1, <3>2
  <2> QED
    BY <2>1, <2>2
<1>4. ASSUME NEW w \in Validator, Decide(w) PROVE Good(v)'
  <2>1. CASE v = w
    <3> DEFINE b == Branch(target[v], seen[v])
    <3>1. target[v] \in Session /\ seen[v] \in Snapshot /\ now \in Nat
      BY <1>t DEF TypeOK
    <3>2. /\ b \in {"deleting", "renewing", "touching", "valid"}
          /\ b # "deleting" => now < seen[v].expires
      BY <3>1, BranchSound
    <3>3. MaxLifetime > 0 => NewExpiry(target[v]) <= createdAt[target[v]] + MaxLifetime
      BY <1>t, <3>1, NewExpiryCapped
    <3>4. /\ pc[v] = "read" /\ pc'[v] = b /\ target' = target /\ seen' = seen
          /\ readAt'[v] = now
          /\ answer'[v] = IF b = "renewing" THEN NewExpiry(target[v]) ELSE seen[v].expires
      BY <1>4, <1>t, <2>1 DEF Decide, TypeOK
    <3>5. createdAt[target[v]] \in Nat /\ seen[v].expires \in Nat
      BY <3>1, <1>t DEF TypeOK, Snapshot
    <3> HIDE DEF b
    <3> QED
      BY <1>g, <1>k, <3>1, <3>2, <3>3, <3>4, <3>5
  <2>2. CASE v # w
    <3>1. pc'[v] = pc[v] /\ readAt'[v] = readAt[v] /\ answer'[v] = answer[v]
      BY <1>4, <1>t, <2>2 DEF Decide, TypeOK
    <3>2. UNCHANGED <<target, seen>>
      BY <1>4 DEF Decide
    <3> QED
      BY <1>g, <1>k, <3>1, <3>2
  <2> QED
    BY <2>1, <2>2
<1>5. ASSUME \/ Tick \/ Enable \/ UNCHANGED vars \/ \E r \in Revoker : Revocation(r)
             \/ \E s \in Session : Create(s) \/ Revoke(s) \/ Purge(s)
      PROVE  Good(v)'
  <2>1. UNCHANGED <<pc, target, seen, readAt, answer>>
    BY <1>5 DEF Tick, Enable, vars, codeVars, Revocation, RevokeAll, RevokeCommits,
                RevokeRollsBack, Create, Revoke, Purge, callVars
  <2> QED
    BY <1>1, <2>1
<1> HIDE DEF Good
<1> QED
  BY <1>2, <1>3, <1>4, <1>5 DEF Next, Acts

\* Only another validation's renewal changes an expiry under a validation, and
\* then it counts as overtaken.
LEMMA StepFresh ==
  ASSUME IInv, [Next]_vars
  PROVE  FreshInv'
<1> DEFINE Good(v) ==
      pc[v] # "idle" =>
        /\ pc[v] \in {"read", "deleting", "renewing"} /\ row[target[v]] = "live"
             => seen[v].expires = expires[target[v]]
        /\ pc[v] = "renewing" => answer[v] > seen[v].expires
        /\ pc[v] = "deleting" => seen[v].disabled \/ seen[v].expires <= now
<1> SUFFICES ASSUME NEW v \in Validator, v \notin overtaken' PROVE Good(v)'
  BY DEF FreshInv
<1> USE LifetimeAssumption, CapAssumption
<1>t. TypeOK /\ TypeOK'
  BY StepType DEF IInv
<1>s. target[v] \in Session /\ seen[v] \in Snapshot
  BY <1>t DEF TypeOK
<1>g. v \notin overtaken => Good(v)
  BY DEF IInv, FreshInv
<1>r. pc[v] # "idle" => row[target[v]] # "none"
  BY DEF IInv, CallInv
<1>1. CASE pc'[v] = "idle"
  BY <1>1
<1>2. CASE UNCHANGED vars
  BY <1>2, <1>g DEF vars, codeVars
<1>3. ASSUME Next, pc'[v] # "idle" PROVE Good(v)'
  <2>o. v \notin overtaken
    BY <1>3 DEF Next, Remember
  <2>w. ASSUME pc[v] # "idle", NEW u \in Validator \ {v}, Rewrites(u)
        PROVE  target[u] # target[v]
    BY <1>3, <2>w DEF Next, Remember
  <2>g. Good(v)
    BY <1>g, <2>o
  <2>1. ASSUME UNCHANGED <<target, seen, answer>>, pc'[v] = pc[v], now' >= now,
               pc[v] # "idle" =>
                 /\ expires'[target[v]] = expires[target[v]] \/ row[target[v]] # "live"
                 /\ row'[target[v]] = "live" => row[target[v]] = "live"
        PROVE  Good(v)'
    BY <2>1, <2>g, <1>s, <1>t DEF TypeOK, Snapshot
  <2>2. CASE Tick \/ Enable
    <3>1. now' >= now
      BY <2>2, <1>t DEF Tick, Enable, TypeOK
    <3> QED
      BY <2>1, <2>2, <3>1 DEF Tick, Enable, rowVars, callVars
  <2>3. ASSUME NEW s \in Session, Create(s) PROVE Good(v)'
    <3>1. pc[v] # "idle" => target[v] # s
      BY <2>3, <1>r DEF Create
    <3>2. now' >= now
      BY <2>3, <1>t DEF Create, TypeOK
    <3> QED
      BY <2>1, <2>3, <3>1, <3>2, <1>t, <1>s DEF Create, callVars, TypeOK
  <2>4. ASSUME NEW s \in Session, Revoke(s) \/ Purge(s) PROVE Good(v)'
    <3>1. now' >= now
      BY <2>4, <1>t DEF Revoke, Purge, TypeOK
    <3> QED
      BY <2>1, <2>4, <3>1, <1>t, <1>s DEF Revoke, Purge, callVars, TypeOK
  <2>5. ASSUME NEW r \in Revoker, Revocation(r) PROVE Good(v)'
    <3>1. now' >= now
      BY <2>5, <1>t DEF Revocation, RevokeAll, RevokeCommits, RevokeRollsBack, TypeOK
    <3>2. row'[target[v]] = "live" => row[target[v]] = "live"
      BY <2>5, <1>s DEF Revocation, RevokeAll, RevokeCommits, RevokeRollsBack, rowVars
    <3> QED
      BY <2>1, <2>5, <3>1, <3>2
      DEF Revocation, RevokeAll, RevokeCommits, RevokeRollsBack, rowVars, callVars
  <2>6. ASSUME NEW w \in Validator, NEW s \in Session, Lookup(w, s) PROVE Good(v)'
    <3>1. CASE v = w
      BY <2>6, <3>1, <1>t DEF Lookup, TypeOK, rowVars
    <3>2. CASE v # w
      BY <2>6, <3>2, <2>g, <1>t DEF Lookup, TypeOK, rowVars
    <3> QED
      BY <3>1, <3>2
  <2>7. ASSUME NEW w \in Validator, Decide(w) PROVE Good(v)'
    <3>1. CASE v = w
      <4> DEFINE b == Branch(target[v], seen[v])
      <4>1. /\ b = "renewing" => NewExpiry(target[v]) > seen[v].expires
            /\ b = "deleting" => seen[v].disabled \/ seen[v].expires <= now
        BY DEF Branch, Dead
      <4>2. /\ pc[v] = "read" /\ pc'[v] = b
            /\ answer'[v] = IF b = "renewing" THEN NewExpiry(target[v]) ELSE seen[v].expires
            /\ UNCHANGED <<now, row, expires, target, seen>>
        BY <2>7, <3>1, <1>t DEF Decide, TypeOK, rowVars
      <4> HIDE DEF b
      <4> QED
        BY <4>1, <4>2, <2>g
    <3>2. CASE v # w
      BY <2>7, <3>2, <2>g, <1>t DEF Decide, TypeOK, rowVars
    <3> QED
      BY <3>1, <3>2
  <2>8. ASSUME NEW w \in Validator, Expire(w) \/ Touch(w) \/ Return(w) \/ WriteFails(w)
        PROVE  Good(v)'
    <3>1. CASE v = w
      BY <2>8, <3>1, <1>3, <1>t DEF Expire, Touch, Return, WriteFails, TypeOK
    <3>2. CASE v # w
      <4>1. UNCHANGED <<now, expires, target, seen, answer>> /\ pc'[v] = pc[v]
        BY <2>8, <3>2, <1>t DEF Expire, Touch, Return, WriteFails, rowVars, TypeOK
      <4>2. row'[target[v]] = "live" => row[target[v]] = "live"
        BY <2>8, <1>t, <1>s DEF Expire, Touch, Return, WriteFails, rowVars, TypeOK
      <4> QED
        BY <4>1, <4>2, <2>g
    <3> QED
      BY <3>1, <3>2
  <2>9. ASSUME NEW w \in Validator, Renew(w) PROVE Good(v)'
    <3>1. CASE v = w
      BY <2>9, <3>1, <1>t DEF Renew, TypeOK
    <3>2. CASE v # w
      <4>1. UNCHANGED <<now, row, target, seen, answer>> /\ pc'[v] = pc[v]
        BY <2>9, <3>2, <1>t DEF Renew, TypeOK
      <4>2. pc[v] # "idle" /\ row[target[v]] = "live" => expires'[target[v]] = expires[target[v]]
        <5>1. CASE row[target[w]] = "live"
          <6>1. pc[v] # "idle" => target[w] # target[v]
            BY <2>9, <5>1, <2>w, <3>2 DEF Rewrites
          <6>2. expires' = [expires EXCEPT ![target[w]] = answer[w]]
            BY <2>9, <5>1 DEF Renew
          <6> QED
            BY <6>1, <6>2, <1>t, <1>s DEF TypeOK
        <5>2. CASE row[target[w]] # "live"
          BY <2>9, <5>2 DEF Renew
        <5> QED
          BY <5>1, <5>2
      <4> QED
        BY <4>1, <4>2, <2>g
    <3> QED
      BY <3>1, <3>2
  <2> HIDE DEF Good
  <2> QED
    BY <1>3, <2>2, <2>3, <2>4, <2>5, <2>6, <2>7, <2>8, <2>9 DEF Next, Acts
<1> HIDE DEF Good
<1> QED
  BY <1>1, <1>2, <1>3

\* Rows do not vanish, so a revocation in flight keeps naming sessions that exist.
LEMMA StepFound ==
  ASSUME IInv, [Next]_vars
  PROVE  FoundInv'
<1> SUFFICES ASSUME NEW r \in Revoker, NEW s \in found'[r] PROVE row'[s] # "none"
  BY DEF FoundInv
<1>t. TypeOK /\ TypeOK'
  BY StepType DEF IInv
<1>s. s \in Session
  BY <1>t DEF TypeOK
<1>1. row[s] # "none" => row'[s] # "none"
  BY <1>t, <1>s, RowPersists
<1>2. CASE s \in found[r]
  BY <1>1, <1>2 DEF IInv, FoundInv
<1>3. CASE s \notin found[r]
  <2>1. PICK q \in Revoker : Revocation(q)
    BY <1>3 DEF Next, Acts, Tick, Enable, vars, codeVars, Create, Revoke, Purge, Lookup, Decide,
                Expire, Renew, Touch, Return, WriteFails, revokeVars
  <2>2. row[s] = "live"
    BY <1>3, <1>t, <2>1 DEF Revocation, RevokeAll, RevokeCommits, RevokeRollsBack, TypeOK
  <2> QED
    BY <1>1, <2>2
<1> QED
  BY <1>2, <1>3

\* The inductive invariant holds throughout.
THEOREM Inductive ==
  Spec => []IInv
<1>1. IInv /\ [Next]_vars => IInv'
  BY StepType, StepCap, StepCall, StepFresh, StepFound DEF IInv
<1> QED
  BY <1>1, InitInv, PTL DEF Spec

\* No renewal, however stale the row it was computed from, carries a session
\* past created_at + MaxLifetime.
THEOREM Capped ==
  Spec => []CapRespected
<1>1. IInv => CapRespected
  BY DEF IInv
<1> QED
  BY <1>1, Inductive, PTL

\* No validation that read the clock at or after the cap answers "valid".
THEOREM CookieDies ==
  Spec => []KeptWarmStillDies
<1>1. IInv => KeptWarmStillDies
  BY DEF IInv
<1> QED
  BY <1>1, Inductive, PTL

\* A deleted session stays deleted, whatever renewals were in flight.
THEOREM Final ==
  Spec => NoResurrection
<1>1. ASSUME TypeOK, [Next]_vars PROVE [\A s \in Session : Stays(s)]_vars
  <2> SUFFICES ASSUME NEW s \in Session, row[s] = "deleted" PROVE row'[s] = "deleted"
    BY DEF Stays
  <2>1. ASSUME NEW t \in Session, Create(t) \/ Revoke(t) \/ Purge(t) PROVE row'[s] = "deleted"
    BY <1>1, <2>1 DEF Create, Revoke, Purge, TypeOK
  <2>2. ASSUME NEW r \in Revoker, Revocation(r) PROVE row'[s] = "deleted"
    BY <2>2 DEF Revocation, RevokeAll, RevokeCommits, RevokeRollsBack, rowVars
  <2>3. ASSUME NEW v \in Validator, Expire(v) PROVE row'[s] = "deleted"
    BY <1>1, <2>3 DEF Expire, TypeOK
  <2>4. ASSUME \/ Tick \/ Enable \/ UNCHANGED vars
               \/ \E v \in Validator : \/ \E t \in Session : Lookup(v, t)
                                        \/ Decide(v) \/ Renew(v) \/ Touch(v)
                                        \/ Return(v) \/ WriteFails(v)
        PROVE  row'[s] = "deleted"
    BY <2>4 DEF Tick, Enable, vars, codeVars, Lookup, Decide, Renew, Touch, Return,
               WriteFails, rowVars
  <2> QED
    BY <1>1, <2>1, <2>2, <2>3, <2>4 DEF Next, Acts
<1>2. IInv => TypeOK
  BY DEF IInv
<1> QED
  BY <1>1, <1>2, Inductive, PTL DEF Spec, NoResurrection

\* A validation that no other one's renewal overtook neither shortens a session
\* nor drops one that is neither expired nor of a disabled user.
THEOREM OvertakenOnly ==
  Spec => OnlyOvertakenShortens
<1>1. ASSUME IInv, [Next]_vars
      PROVE  [\A v \in Validator \ overtaken : ~Shortens(v) /\ (Expire(v) => DropsDead(v))]_vars
  <2> SUFFICES ASSUME NEW v \in Validator \ overtaken
               PROVE  ~Shortens(v) /\ (Expire(v) => DropsDead(v))
    OBVIOUS
  <2>t. TypeOK /\ target[v] \in Session /\ seen[v] \in Snapshot
    BY <1>1 DEF IInv, TypeOK
  <2>1. ~Shortens(v)
    <3> SUFFICES ASSUME Renew(v), row[target[v]] = "live"
                 PROVE  ~(expires'[target[v]] < expires[target[v]])
      BY DEF Shortens
    <3>1. answer[v] > expires[target[v]]
      BY <1>1 DEF IInv, FreshInv, Renew
    <3>2. expires'[target[v]] = answer[v] /\ answer[v] \in Nat /\ expires[target[v]] \in Nat
      BY <2>t DEF Renew, TypeOK
    <3> QED
      BY <3>1, <3>2
  <2>2. Expire(v) => DropsDead(v)
    BY <1>1 DEF IInv, FreshInv, Expire, DropsDead
  <2> QED
    BY <2>1, <2>2
<1> QED
  BY <1>1, Inductive, PTL DEF Spec, OnlyOvertakenShortens

-----------------------------------------------------------------------------
(* Sessions implement SessionPromise.                                      *)

\* Every rolled expiry is at most a lifetime ahead.
LEMMA NewExpiryAhead ==
  ASSUME TypeOK, NEW s \in Session
  PROVE  NewExpiry(s) <= now + Lifetime
  BY LifetimeAssumption, CapAssumption DEF TypeOK, NewExpiry

\* Expiries are computed from the clock, which never goes back.
LEMMA StepLife ==
  ASSUME IInv, LifeInv, [Next]_vars
  PROVE  LifeInv'
<1> USE LifetimeAssumption, CapAssumption
<1>t. TypeOK
  BY DEF IInv
<1>n. now \in Nat /\ now' \in Nat /\ now <= now'
  <2>1. now' = now \/ now' = now + 1
    BY DEF Next, Acts, vars, codeVars, Tick, Enable, Create, Revoke, Purge, Revocation,
           RevokeAll, RevokeCommits, RevokeRollsBack, Lookup, Decide, Expire, Renew, Touch,
           Return, WriteFails
  <2> QED
    BY <1>t, <2>1 DEF TypeOK
<1> DEFINE Ahead(x) == x \in Nat /\ x <= now + Lifetime
<1>o. /\ \A s \in Session : Ahead(expires[s])
      /\ \A v \in Validator : Ahead(seen[v].expires) /\ Ahead(answer[v]) /\ target[v] \in Session
  BY <1>t DEF LifeInv, TypeOK, Snapshot
<1>1. ASSUME /\ \A s \in Session : Ahead(expires'[s])
             /\ \A v \in Validator : Ahead(seen'[v].expires) /\ Ahead(answer'[v])
      PROVE  LifeInv'
  BY <1>1, <1>n DEF LifeInv
<1>2. CASE UNCHANGED <<expires, seen, answer>>
  BY <1>1, <1>2, <1>o
<1>3. ASSUME NEW s \in Session, Create(s) PROVE LifeInv'
  BY <1>1, <1>3, <1>o, <1>n, <1>t DEF Create, callVars, TypeOK
<1>4. ASSUME NEW w \in Validator, NEW s \in Session, Lookup(w, s) PROVE LifeInv'
  <2>1. \A v \in Validator : seen'[v].expires \in {seen[v].expires, expires[s]}
    BY <1>4, <1>t DEF Lookup, TypeOK
  <2> QED
    BY <1>1, <1>4, <1>o, <2>1 DEF Lookup, rowVars
<1>5. ASSUME NEW w \in Validator, Decide(w) PROVE LifeInv'
  <2>1. Ahead(NewExpiry(target[w]))
    BY <1>t, <1>o, NewExpiryAhead, NewExpiryCapped
  <2>2. \A v \in Validator :
          answer'[v] \in {answer[v], NewExpiry(target[w]), seen[w].expires}
    BY <1>5, <1>t DEF Decide, TypeOK
  <2> HIDE DEF Ahead
  <2> QED
    BY <1>1, <1>5, <1>o, <2>1, <2>2 DEF Decide, rowVars
<1>6. ASSUME NEW w \in Validator, Renew(w) PROVE LifeInv'
  <2>1. \A s \in Session : expires'[s] \in {expires[s], answer[w]}
    BY <1>6, <1>t DEF Renew, TypeOK
  <2> HIDE DEF Ahead
  <2> QED
    BY <1>1, <1>6, <1>o, <2>1 DEF Renew
<1>7. ASSUME \/ Tick \/ Enable \/ UNCHANGED vars \/ \E r \in Revoker : Revocation(r)
             \/ \E s \in Session : Revoke(s) \/ Purge(s)
             \/ \E v \in Validator : Expire(v) \/ Touch(v) \/ Return(v) \/ WriteFails(v)
      PROVE  UNCHANGED <<expires, seen, answer>>
  BY <1>7 DEF Tick, Enable, vars, codeVars, Revocation, RevokeAll, RevokeCommits,
              RevokeRollsBack, Revoke, Purge, Expire, Touch, Return, WriteFails, callVars, rowVars
<1> QED
  BY <1>2, <1>3, <1>4, <1>5, <1>6, <1>7 DEF Next, Acts

\* What a caller sees of its validation depends on its own variables and the clock.
LEMMA DeskSame ==
  ASSUME NEW v \in Validator, now' = now, pc'[v] = pc[v], target'[v] = target[v],
         seen'[v] = seen[v], answer'[v] = answer[v]
  PROVE  Admitted(v)' = Admitted(v) /\ Told(v)' = Told(v)
  BY DEF Admitted, Told, Stands, Dead

\* What a revocation will end depends on its own variables.
LEMMA AskedStays ==
  ASSUME UNCHANGED revokeVars
  PROVE  UNCHANGED [r \in Revoker |-> Asked(r)]
  BY DEF Asked, revokeVars

\* A step that is none of the callers'.
LEMMA DeskStays ==
  ASSUME UNCHANGED <<now, callVars>>
  PROVE  UNCHANGED Promise!desk
<1>1. \A v \in Validator : Admitted(v)' = Admitted(v) /\ Told(v)' = Told(v)
  BY DeskSame DEF callVars
<1> QED
  BY <1>1 DEF Promise!desk

\* One caller is served: the answer is within bounds, and so is what it writes.
LEMMA Served ==
  ASSUME IInv, LifeInv, NEW v \in Validator, Stands(v), pc[v] # "valid",
         pc' = [pc EXCEPT ![v] = "valid"], UNCHANGED <<now, disabled, row, createdAt, target, seen>>,
         UNCHANGED revokeVars, \A w \in Validator \ {v} : answer'[w] = answer[w],
         answer'[v] \in {answer[v], seen[v].expires}, pc[v] = "read" => answer'[v] = seen[v].expires,
         \/ UNCHANGED expires
         \/ row[target[v]] = "live" /\ expires' = [expires EXCEPT ![target[v]] = answer'[v]]
  PROVE  Promise!Serve(v, target[v])
<1>t. TypeOK /\ target[v] \in Session
  BY DEF IInv, TypeOK
<1>1. \A w \in Validator \ {v} : Admitted(w)' = Admitted(w) /\ Told(w)' = Told(w)
  BY <1>t, DeskSame DEF TypeOK
<1>2. pc'[v] = "valid" /\ Stands(v)'
  BY <1>t DEF TypeOK, Stands
<1>3. Admitted(v) = {target[v]} /\ Admitted(v)' = {target[v]} /\ Told(v) = 0
      /\ Told(v)' = answer'[v]
  BY <1>2 DEF Admitted, Told
<1>4. Promise!Within(target[v], answer'[v])
  <2>1. answer'[v] <= now + Lifetime
    BY DEF LifeInv
  <2>2. MaxLifetime > 0 => answer'[v] <= createdAt[target[v]] + MaxLifetime
    BY DEF IInv, CallInv, Stands
  <2> QED
    BY <2>1, <2>2 DEF Promise!Within
<1>5. [w \in Validator |-> Admitted(w)]' = [w \in Validator |-> Admitted(w)]
  BY <1>1, <1>3
<1>6. [w \in Validator |-> Told(w)]' = [[w \in Validator |-> Told(w)] EXCEPT ![v] = Told(v)']
  BY <1>1
<1> QED
  BY <1>3, <1>4, <1>5, <1>6, AskedStays DEF Promise!Serve

\* A caller that is not served leaves.
LEMMA Leaves ==
  ASSUME TypeOK, NEW v \in Validator, pc' = [pc EXCEPT ![v] = "idle"],
         UNCHANGED <<now, disabled, rowVars, revokeVars, target, seen, answer>>
  PROVE  Promise!Leave(v)
<1>1. \A w \in Validator \ {v} : Admitted(w)' = Admitted(w) /\ Told(w)' = Told(w)
  BY DeskSame DEF TypeOK
<1>2. Admitted(v)' = {} /\ Told(v)' = 0
  BY DEF TypeOK, Admitted, Told, Stands
<1> QED
  BY <1>1, <1>2, AskedStays DEF Promise!Leave, Promise!book, rowVars

\* Time may take an admission back before it is answered, and adds none.
LEMMA TickPasses ==
  ASSUME TypeOK, Tick
  PROVE  Promise!Pass
<1> DEFINE V == {v \in Validator : Stands(v) /\ ~Stands(v)'}
<1>1. /\ now \in Nat /\ now' = now + 1
      /\ UNCHANGED <<disabled, rowVars, revokeVars, pc, target, seen, answer>>
  BY DEF Tick, callVars, TypeOK
<1>2. ASSUME NEW v \in Validator
      PROVE  (Stands(v)' => Stands(v)) /\ (Stands(v) /\ ~Stands(v)' => pc[v] = "read")
  <2>1. seen[v].expires \in Nat
    BY DEF TypeOK, Snapshot
  <2> QED
    BY <1>1, <2>1 DEF Stands, Dead
<1>3. \A v \in V : Told(v) = 0
  BY <1>2 DEF Told
<1>4. \A v \in Validator : Told(v)' = Told(v)
  BY <1>1 DEF Told
<1>5. \A v \in Validator : Admitted(v)' = IF v \in V THEN {} ELSE Admitted(v)
  BY <1>1, <1>2 DEF Admitted
<1>6. V \in SUBSET {v \in Validator : [w \in Validator |-> Told(w)][v] = 0}
  BY <1>3
<1> HIDE DEF V
<1>7. [v \in Validator |-> Admitted(v)]' =
        [v \in Validator |-> IF v \in V THEN {} ELSE [w \in Validator |-> Admitted(w)][v]]
  BY <1>5
<1>8. UNCHANGED [v \in Validator |-> Told(v)]
  BY <1>4
<1> QED
  BY <1>1, <1>6, <1>7, <1>8, AskedStays DEF Promise!Pass, Promise!book, rowVars

\* Sessions that end do so for good.
LEMMA Ends ==
  ASSUME TypeOK, NEW S \in SUBSET Session, \A s \in S : row[s] = "live",
         row' = [s \in Session |-> IF s \in S THEN "deleted" ELSE row[s]],
         UNCHANGED <<now, disabled, createdAt, expires, revokeVars>>, UNCHANGED Promise!desk
  PROVE  Promise!PromiseNext
<1>1. S \in SUBSET Promise!Live
  BY DEF Promise!Live
<1>2. Promise!End(S)
  BY AskedStays DEF Promise!End, Promise!Ended
<1> QED
  BY <1>1, <1>2 DEF Promise!PromiseNext

\* Every step of a validation, a revocation or the clock is a step of the promise.
LEMMA StepPromise ==
  ASSUME IInv, LifeInv, [Next]_vars
  PROVE  Promise!PromiseNext \/ UNCHANGED Promise!promiseVars
<1> DEFINE Good == Promise!PromiseNext \/ UNCHANGED Promise!promiseVars
<1>t. TypeOK
  BY DEF IInv
<1>n. UNCHANGED <<now, disabled, row, createdAt, expires, revokeVars>> /\ UNCHANGED Promise!desk
        => Good
  BY AskedStays DEF Promise!promiseVars, Promise!book
<1>1. CASE Tick
  BY <1>t, <1>1, TickPasses DEF Promise!PromiseNext
<1>2. CASE Enable
  <2>1. Promise!Enabled
    BY <1>2, DeskStays, AskedStays DEF Enable, rowVars, Promise!Enabled, Promise!book
  <2> QED
    BY <2>1 DEF Promise!PromiseNext
<1>3. ASSUME NEW s \in Session, Create(s) PROVE Good
  <2>1. Promise!Open(s)
    BY <1>3, DeskStays, AskedStays DEF Create, Promise!Open
  <2> QED
    BY <2>1 DEF Promise!PromiseNext
<1>4. ASSUME NEW s \in Session, Revoke(s) \/ Purge(s) PROVE Good
  <2>1. /\ row[s] = "live" /\ row' = [row EXCEPT ![s] = "deleted"]
        /\ UNCHANGED <<now, disabled, createdAt, expires, revokeVars, callVars>>
    BY <1>4 DEF Revoke, Purge
  <2>2. row' = [u \in Session |-> IF u \in {s} THEN "deleted" ELSE row[u]]
    BY <1>t, <2>1 DEF TypeOK
  <2> QED
    BY <1>t, <2>1, <2>2, Ends, DeskStays
<1>5. ASSUME NEW r \in Revoker, Revocation(r) PROVE Good
  <2> DEFINE A == [q \in Revoker |-> Asked(q)]
  <2>d. UNCHANGED Promise!desk
    BY <1>5, DeskStays DEF Revocation, RevokeAll, RevokeCommits, RevokeRollsBack
  <2>1. ASSUME NEW kind \in {"revoke", "disable"}, RevokeAll(r, kind) PROVE Good
    <3>1. Asked(r) = {} /\ Asked(r)' = {Promise!Live}
      BY <1>t, <2>1 DEF RevokeAll, Asked, TypeOK, Promise!Live
    <3>2. \A q \in Revoker \ {r} : Asked(q)' = Asked(q)
      BY <1>t, <2>1 DEF RevokeAll, Asked, TypeOK
    <3>3. A' = [A EXCEPT ![r] = {Promise!Live}]
      BY <3>1, <3>2
    <3>4. Promise!Ask(r)
      BY <2>1, <2>d, <3>1, <3>3 DEF Promise!Ask, Promise!book, RevokeAll, rowVars
    <3> QED
      BY <3>4 DEF Promise!PromiseNext
  <2>2. ASSUME RevokeCommits(r) \/ RevokeRollsBack(r) PROVE A' = [A EXCEPT ![r] = {}]
    <3>1. Asked(r)' = {} /\ \A q \in Revoker \ {r} : Asked(q)' = Asked(q)
      BY <1>t, <2>2 DEF RevokeCommits, RevokeRollsBack, Asked, TypeOK
    <3> QED
      BY <3>1
  <2>3. ASSUME RevokeCommits(r) PROVE Good
    <3>1. found[r] \in A[r] /\ row' = Promise!Ended(found[r])
      BY <2>3 DEF RevokeCommits, Asked, Promise!Ended
    <3>2. Promise!Done(r, revoking[r] = "disable")
      BY <2>2, <2>3, <2>d, <3>1 DEF Promise!Done, RevokeCommits
    <3> QED
      BY <3>2 DEF Promise!PromiseNext
  <2>4. ASSUME RevokeRollsBack(r) PROVE Good
    <3>1. Promise!GiveUp(r)
      BY <2>2, <2>4, <2>d DEF Promise!GiveUp, Promise!book, RevokeRollsBack, rowVars
    <3> QED
      BY <3>1 DEF Promise!PromiseNext
  <2> HIDE DEF Good
  <2> QED
    BY <1>5, <2>1, <2>3, <2>4 DEF Revocation
<1>6. ASSUME NEW v \in Validator, NEW s \in Session, Lookup(v, s) PROVE Good
  <2>1. \A w \in Validator \ {v} : Admitted(w)' = Admitted(w) /\ Told(w)' = Told(w)
    BY <1>t, <1>6, DeskSame DEF Lookup, TypeOK
  <2>2. Admitted(v) = {} /\ Told(v) = 0 /\ Told(v)' = 0
    BY <1>t, <1>6 DEF Lookup, TypeOK, Admitted, Told, Stands
  <2>3. UNCHANGED [w \in Validator |-> Told(w)]
    BY <2>1, <2>2
  <2>4. /\ pc'[v] = "read" /\ target'[v] = s /\ row[s] = "live"
        /\ seen'[v].expires = expires[s] /\ seen'[v].disabled = disabled
        /\ UNCHANGED <<now, row, createdAt, expires, disabled, revokeVars>>
    BY <1>t, <1>6 DEF Lookup, TypeOK, rowVars
  <2>5. CASE disabled \/ expires[s] <= now
    <3>1. Admitted(v)' = {}
      BY <2>4, <2>5 DEF Admitted, Stands, Dead
    <3>2. UNCHANGED [w \in Validator |-> Admitted(w)]
      BY <2>1, <2>2, <3>1
    <3> QED
      BY <1>n, <2>3, <2>4, <3>2 DEF Promise!desk
  <2>6. CASE ~(disabled \/ expires[s] <= now)
    <3>1. Admitted(v)' = {s}
      BY <2>4, <2>6 DEF Admitted, Stands, Dead
    <3>2. now < expires[s] /\ ~disabled
      BY <1>t, <2>6 DEF TypeOK
    <3>3. [w \in Validator |-> Admitted(w)]' = [[w \in Validator |-> Admitted(w)] EXCEPT ![v] = {s}]
      BY <2>1, <3>1
    <3>4. Promise!Admit(v, s)
      BY <2>2, <2>3, <2>4, <3>2, <3>3, AskedStays DEF Promise!Admit, Promise!book
    <3> QED
      BY <3>4 DEF Promise!PromiseNext
  <2> QED
    BY <2>5, <2>6
<1>7. ASSUME NEW v \in Validator, Promise!Serve(v, target[v]) PROVE Good
  BY <1>t, <1>7 DEF Promise!PromiseNext, TypeOK
<1>8. ASSUME NEW v \in Validator, Decide(v) PROVE Good
  <2> DEFINE b == Branch(target[v], seen[v])
  <2>1. /\ pc[v] = "read" /\ pc' = [pc EXCEPT ![v] = b]
        /\ UNCHANGED <<now, disabled, row, createdAt, expires, revokeVars, target, seen>>
        /\ answer'[v] = IF b = "renewing" THEN NewExpiry(target[v]) ELSE seen[v].expires
        /\ \A w \in Validator \ {v} : answer'[w] = answer[w]
    BY <1>t, <1>8 DEF Decide, TypeOK, rowVars
  <2>2. /\ b \in {"deleting", "renewing", "touching", "valid"}
        /\ b = "deleting" <=> Dead(seen[v])
    BY DEF Branch
  <2> HIDE DEF b
  <2>3. pc'[v] = b /\ \A w \in Validator \ {v} : pc'[w] = pc[w]
    BY <1>t, <2>1 DEF TypeOK
  <2>4. CASE b = "valid"
    <3>1. Stands(v) /\ pc[v] # "valid"
      BY <2>1, <2>2, <2>4 DEF Stands
    <3> QED
      BY <1>7, <2>1, <2>4, <3>1, Served
  <2>5. CASE b # "valid"
    <3>1. \A w \in Validator \ {v} : Admitted(w)' = Admitted(w) /\ Told(w)' = Told(w)
      BY <2>1, <2>3, DeskSame
    <3>2. Admitted(v)' = Admitted(v) /\ Told(v)' = Told(v)
      BY <2>1, <2>2, <2>3, <2>5 DEF Admitted, Told, Stands
    <3>3. UNCHANGED Promise!desk
      BY <3>1, <3>2 DEF Promise!desk
    <3> QED
      BY <1>n, <2>1, <3>3
  <2> QED
    BY <2>4, <2>5
<1>9. ASSUME NEW v \in Validator, Expire(v) PROVE Good
  <2>1. /\ pc[v] = "deleting" /\ pc' = [pc EXCEPT ![v] = "idle"]
        /\ row' = [row EXCEPT ![target[v]] = "deleted"]
        /\ UNCHANGED <<now, createdAt, expires, disabled, revokeVars, target, seen, answer>>
    BY <1>9 DEF Expire
  <2>2. \A w \in Validator : Admitted(w)' = Admitted(w) /\ Told(w)' = Told(w)
    <3>1. \A w \in Validator \ {v} : Admitted(w)' = Admitted(w) /\ Told(w)' = Told(w)
      BY <1>t, <2>1, DeskSame DEF TypeOK
    <3>2. Admitted(v)' = Admitted(v) /\ Told(v)' = Told(v)
      BY <1>t, <2>1 DEF Admitted, Told, Stands, TypeOK
    <3> QED
      BY <3>1, <3>2
  <2>3. UNCHANGED Promise!desk
    BY <2>2 DEF Promise!desk
  <2>4. target[v] \in Session /\ row[target[v]] \in {"live", "deleted"}
    BY <1>t, <2>1 DEF IInv, CallInv, TypeOK
  <2>5. CASE row[target[v]] = "live"
    <3>1. row' = [u \in Session |-> IF u \in {target[v]} THEN "deleted" ELSE row[u]]
      BY <1>t, <2>1 DEF TypeOK
    <3> QED
      BY <1>t, <2>1, <2>3, <2>4, <2>5, <3>1, Ends
  <2>6. CASE row[target[v]] = "deleted"
    <3>1. row' = row
      BY <1>t, <2>1, <2>4, <2>6 DEF TypeOK
    <3> QED
      BY <1>n, <2>1, <2>3, <3>1
  <2> QED
    BY <2>4, <2>5, <2>6
<1>10. ASSUME NEW v \in Validator, Renew(v) \/ Touch(v) PROVE Good
  <2>1. /\ Stands(v) /\ pc[v] \notin {"read", "valid"} /\ pc' = [pc EXCEPT ![v] = "valid"]
        /\ UNCHANGED <<now, disabled, row, createdAt, revokeVars, target, seen, answer>>
        /\ \/ UNCHANGED expires
           \/ row[target[v]] = "live" /\ expires' = [expires EXCEPT ![target[v]] = answer'[v]]
    BY <1>10 DEF Renew, Touch, Stands
  <2> QED
    BY <1>7, <2>1, Served
<1>11. ASSUME NEW v \in Validator, Return(v) \/ WriteFails(v) PROVE Good
  <2>1. Promise!Leave(v)
    BY <1>t, <1>11, Leaves DEF Return, WriteFails
  <2> QED
    BY <2>1 DEF Promise!PromiseNext
<1>12. CASE UNCHANGED vars
  BY <1>n, <1>12, DeskStays DEF vars, codeVars, callVars, revokeVars
<1> HIDE DEF Good
<1>13. ASSUME Next PROVE Good
  BY <1>1, <1>2, <1>3, <1>4, <1>5, <1>6, <1>8, <1>9, <1>10, <1>11, <1>13 DEF Next, Acts, Good
<1> QED
  BY <1>12, <1>13 DEF Good

\* Sessions keep the promise of SessionPromise, for any number of sessions and
\* concurrent validations and revocations, and any lifetime, threshold, cap and horizon.
THEOREM SessionImplementsPromise == Spec => ImplementsPromise
<1>1. Init => LifeInv /\ Promise!PromiseInit
  BY LifetimeAssumption
  DEF Init, LifeInv, Promise!PromiseInit, Admitted, Told, Stands, Asked
<1>2. IInv /\ LifeInv /\ [Next]_vars => LifeInv'
  BY StepLife
<1>3. IInv /\ LifeInv /\ [Next]_vars => [Promise!PromiseNext]_(Promise!promiseVars)
  BY StepPromise
<1> QED
  BY <1>1, <1>2, <1>3, Inductive, PTL DEF Spec, ImplementsPromise, Promise!PromiseSpec
=============================================================================
