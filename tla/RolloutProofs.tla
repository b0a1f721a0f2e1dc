--------------------------- MODULE RolloutProofs ---------------------------
(***************************************************************************)
(* The migration runner for any replicas and builds, and the key rotation  *)
(* for any number of jobs, keys and stages whose neighbours overlap.       *)
(***************************************************************************)
EXTENDS Rollout, TLAPS

-----------------------------------------------------------------------------
(* Migrate.                                                                *)

\* Initially nothing is applied and nobody runs.
LEMMA MigrateInvInit == Init => MigrateInv
<1> SUFFICES ASSUME Init PROVE MigrateInv OBVIOUS
<1>1. TypeOK BY DEF Init, TypeOK
<1>2. MigratedOnce /\ InOrder BY DEF Init, MigratedOnce, InOrder
<1> QED BY <1>1, <1>2 DEF Init, MigrateInv

\* Booting, waiting for the lock and scanning a recorded file change no record.
LEMMA MigrateInvScan ==
  ASSUME MigrateInv, NEW r \in Replica, Boot(r) \/ Acquire(r) \/ Check(r) \/ ScanDone(r)
  PROVE  MigrateInv'
<1> USE ReplicaAssumption
<1>1. CASE Boot(r)
  BY <1>1 DEF MigrateInv, TypeOK, MigratedOnce, InOrder, Boot, Goes
<1>2. CASE Acquire(r)
  BY <1>2 DEF MigrateInv, TypeOK, MigratedOnce, InOrder, Acquire, Goes, Runs
<1>3. CASE Check(r)
  BY <1>3 DEF MigrateInv, TypeOK, MigratedOnce, InOrder, Check, Goes, Runs
<1>4. CASE ScanDone(r)
  BY <1>4 DEF MigrateInv, TypeOK, MigratedOnce, InOrder, ScanDone, Goes
<1> QED BY <1>1, <1>2, <1>3, <1>4

\* The body of a migration and its record commit together, under the lock.
LEMMA MigrateInvApply ==
  ASSUME MigrateInv, NEW r \in Replica, Apply(r)
  PROVE  MigrateInv'
<1> USE ReplicaAssumption
<1> DEFINE f == file[r]
<1>1. f \in File /\ f \in 1..FilesOf[r] /\ f \notin applied /\ 1..(f - 1) \subseteq applied
  BY DEF MigrateInv, TypeOK, Apply, Runs, File
<1>2. applied' = applied \cup {f} /\ runs' = [runs EXCEPT ![f] = @ + 1]
  BY DEF Apply
<1>3. TypeOK' BY <1>1 DEF MigrateInv, TypeOK, Apply, Goes, Runs
<1>4. MigratedOnce' BY <1>1, <1>2 DEF MigrateInv, TypeOK, MigratedOnce, File
<1>5. InOrder' BY <1>1, <1>2 DEF MigrateInv, TypeOK, InOrder
<1>6. ASSUME NEW q \in Replica
      PROVE  /\ pc'[q] \in {"scanning", "applying", "unlocking"} => lock' = q
             /\ pc'[q] \in {"scanning", "applying"} =>
                  file'[q] # 0 /\ 1..(file'[q] - 1) \subseteq applied'
             /\ pc'[q] = "applying" => file'[q] \in 1..FilesOf[q]
             /\ pc'[q] \in {"unlocking", "serving"} => 1..FilesOf[q] \subseteq applied'
  <2>1. CASE q = r
    BY <1>1, <1>2, <2>1 DEF MigrateInv, TypeOK, Apply, Goes, Runs
  <2>2. CASE q # r
    BY <1>1, <1>2, <2>2 DEF MigrateInv, TypeOK, Apply, Goes, Runs
  <2> QED BY <2>1, <2>2
<1> QED BY <1>3, <1>4, <1>5, <1>6 DEF MigrateInv

\* Releasing, a signal and a death touch no record; the lock goes with its owner.
LEMMA MigrateInvEnd ==
  ASSUME MigrateInv, NEW r \in Replica, Release(r) \/ Signal(r) \/ Exit(r)
  PROVE  MigrateInv'
<1> USE ReplicaAssumption
<1>1. CASE Release(r)
  BY <1>1 DEF MigrateInv, TypeOK, MigratedOnce, InOrder, Release, Goes
<1>2. CASE Signal(r)
  BY <1>2 DEF MigrateInv, TypeOK, MigratedOnce, InOrder, Signal
<1>3. CASE Exit(r)
  BY <1>3 DEF MigrateInv, TypeOK, MigratedOnce, InOrder, Exit, Goes
<1> QED BY <1>1, <1>2, <1>3

\* The migration invariant is inductive.
LEMMA MigrateInvStep == MigrateInv /\ [Next]_vars => MigrateInv'
<1>1. CASE UNCHANGED vars
  BY <1>1 DEF MigrateInv, TypeOK, MigratedOnce, InOrder, vars
<1>2. ASSUME NEW r \in Replica, MigrateInv, Boot(r) \/ Step(r) \/ Signal(r) \/ Exit(r)
      PROVE  MigrateInv'
  BY <1>2, MigrateInvScan, MigrateInvApply, MigrateInvEnd DEF Step
<1> QED BY <1>1, <1>2 DEF Next

\* Whoever boots, dies or is signalled, the migration invariant holds.
LEMMA MigrateInvAlways == Spec => []MigrateInv
BY MigrateInvInit, MigrateInvStep, PTL DEF Spec

\* Whoever boots, dies or is signalled, a migration is committed at most once, and
\* its record says so.
THEOREM MigrationSafety == Spec => []MigratedOnce
<1>1. MigrateInv => MigratedOnce BY DEF MigrateInv
<1> QED BY <1>1, MigrateInvAlways, PTL

\* Every migration is committed on top of all the earlier ones.
THEOREM MigrationsInOrder == Spec => []InOrder
<1>1. MigrateInv => InOrder BY DEF MigrateInv
<1> QED BY <1>1, MigrateInvAlways, PTL

\* A replica that serves has every migration of its build in the database,
\* whoever committed them.
THEOREM ServesAfterMigrating == Spec => []ServesMigrated
<1>1. MigrateInv => ServesMigrated BY DEF MigrateInv, ServesMigrated
<1> QED BY <1>1, MigrateInvAlways, PTL

-----------------------------------------------------------------------------
(* The rotation.                                                           *)

\* A rollout is a migration with other things going on around it.
THEOREM RolloutMigrates == RolloutSpec => Spec
<1>1. RolloutInit => Init BY DEF RolloutInit
<1>2. [RolloutNext]_allVars => [Next]_vars
  BY DEF RolloutNext, allVars, Next, BootConfigured, Migrates, NewServer, Ends, Queue,
         Open, Advance
<1> QED BY <1>1, <1>2, PTL DEF RolloutSpec, Spec

\* A spec is a non-empty sequence of keys, and its active key is one of them.
LEMMA StageKeys ==
  ASSUME NEW i \in 1..Len(Stages)
  PROVE  /\ Stages[i] \in Seq(Key) /\ Stages[i] # <<>>
         /\ Head(Stages[i]) \in Keys(Stages[i]) /\ Head(Stages[i]) \in Key
BY StagesAssumption DEF Keys

\* Nothing is queued in the beginning.
LEMMA RotationInvInit == RolloutInit => RotationInv
BY MigrateInvInit, StagesAssumption
DEF RolloutInit, RotationInv, RolloutTypeOK, NothingUnreadable, Init, MigrateInv

\* Migrating replicas stay running and on the spec they read.
LEMMA RotationInvMigrate ==
  ASSUME RotationInv, NEW r \in Replica, TypeOK',
         Migrates(r) \/ (Signal(r) /\ UNCHANGED rollVars)
  PROVE  RotationInv'
<1>1. /\ \A q \in Replica : pc'[q] # "off" => pc[q] # "off"
      /\ \A q \in Replica : pc[q] = "serving" => pc'[q] = "serving"
  BY DEF RotationInv, RolloutTypeOK, TypeOK, Migrates, Step, Acquire, Check, Apply,
         ScanDone, Release, Signal, Goes, Runs
<1> QED BY <1>1 DEF RotationInv, RolloutTypeOK, NothingUnreadable, Migrates, rollVars

\* A booting replica reads the current spec, which has the key of every queued job.
LEMMA RotationInvProcess ==
  ASSUME RotationInv, NEW r \in Replica, TypeOK',
         BootConfigured(r) \/ NewServer(r) \/ Ends(r)
  PROVE  RotationInv'
<1>1. CASE BootConfigured(r)
  <2>1. Stages[stage] \in Seq(Key) BY StageKeys DEF RotationInv, RolloutTypeOK
  <2>2. /\ pc' = [pc EXCEPT ![r] = "locking"] /\ pc[r] = "off"
        /\ conf' = [conf EXCEPT ![r] = Stages[stage]]
        /\ UNCHANGED <<stage, up, mail, key>>
    BY <1>1 DEF BootConfigured, Boot, Goes
  <2>3. RolloutTypeOK' /\ NothingUnreadable'
    BY <2>1, <2>2 DEF RotationInv, RolloutTypeOK, NothingUnreadable
  <2>4. ASSUME NEW q \in Replica
        PROVE  /\ up'[q] => pc'[q] = "serving"
               /\ pc'[q] # "off" => \/ conf'[q] = Stages[stage']
                                    \/ stage' > 1 /\ conf'[q] = Stages[stage' - 1]
               /\ \A j \in Job : mail'[j] = "queued" /\ pc'[q] # "off" => key'[j] \in Keys(conf'[q])
    <3>1. CASE q = r BY <2>2, <3>1 DEF RotationInv, RolloutTypeOK, TypeOK
    <3>2. CASE q # r BY <2>2, <3>2 DEF RotationInv, RolloutTypeOK, TypeOK
    <3> QED BY <3>1, <3>2
  <2> QED BY <2>2, <2>3, <2>4 DEF RotationInv
<1>2. CASE NewServer(r)
  BY <1>2 DEF RotationInv, RolloutTypeOK, TypeOK, NothingUnreadable, NewServer, vars
<1>3. CASE Ends(r)
  BY <1>3 DEF RotationInv, RolloutTypeOK, TypeOK, NothingUnreadable, Ends, Exit, Goes
<1> QED BY <1>1, <1>2, <1>3

\* The key a replica seals under is known to both specs that may be running.
LEMMA RotationInvQueue ==
  ASSUME Overlapped, RotationInv, NEW r \in Replica, NEW j \in Job, Queue(r, j)
  PROVE  RotationInv'
<1> DEFINE k == Head(conf[r])
<1>1. stage \in 1..Len(Stages) /\ pc[r] # "off"
  BY DEF RotationInv, RolloutTypeOK, Queue
<1>2. /\ k \in Key /\ k \in Keys(Stages[stage])
      /\ stage > 1 => k \in Keys(Stages[stage - 1])
  <2>1. CASE conf[r] = Stages[stage]
    BY <1>1, <2>1, StageKeys, StagesAssumption DEF Overlapped
  <2>2. CASE stage > 1 /\ conf[r] = Stages[stage - 1]
    BY <1>1, <2>2, StageKeys, StagesAssumption DEF Overlapped
  <2> QED BY <1>1, <2>1, <2>2 DEF RotationInv
<1>3. \A q \in Replica : pc[q] # "off" => k \in Keys(conf[q])
  BY <1>2 DEF RotationInv
<1> QED
  BY <1>2, <1>3
  DEF RotationInv, RolloutTypeOK, TypeOK, NothingUnreadable, Queue, ActiveKey, vars

\* Whichever replica claims a job, it has the key.
LEMMA RotationInvOpen ==
  ASSUME RotationInv, NEW r \in Replica, NEW j \in Job, Open(r, j)
  PROVE  RotationInv'
<1>1. key[j] \in Keys(conf[r]) BY DEF RotationInv, Open
<1> QED BY <1>1 DEF RotationInv, RolloutTypeOK, TypeOK, NothingUnreadable, Open, vars

\* The operator moves on when nobody runs, and no job needs, what is dropped.
LEMMA RotationInvAdvance ==
  ASSUME RotationInv, Advance
  PROVE  RotationInv'
<1>1. stage \in Nat /\ stage' \in 1..Len(Stages) /\ stage' > 1 /\ stage' - 1 = stage
  BY StagesAssumption DEF RotationInv, RolloutTypeOK, Advance
<1> QED BY <1>1 DEF RotationInv, RolloutTypeOK, TypeOK, NothingUnreadable, Advance, vars

\* The rotation invariant is inductive where neighbouring specs overlap.
LEMMA RotationInvStep ==
  ASSUME Overlapped, RotationInv, TypeOK', [RolloutNext]_allVars
  PROVE  RotationInv'
<1>1. CASE UNCHANGED allVars
  BY <1>1
  DEF RotationInv, RolloutTypeOK, TypeOK, NothingUnreadable, allVars, vars, rollVars
<1>2. CASE RolloutNext
  BY <1>2, RotationInvMigrate, RotationInvProcess, RotationInvQueue, RotationInvOpen,
     RotationInvAdvance DEF RolloutNext
<1> QED BY <1>1, <1>2

\* However many replicas restart in whatever order, no queued mail is ever claimed
\* by a replica that cannot open it, provided neighbouring specs overlap.
THEOREM RotationSafety ==
  ASSUME Overlapped
  PROVE  RolloutSpec => []NothingUnreadable
<1>1. Spec => []TypeOK
  BY MigrateInvInit, MigrateInvStep, PTL DEF Spec, MigrateInv
<1>2. RotationInv /\ TypeOK' /\ [RolloutNext]_allVars => RotationInv'
  BY RotationInvStep
<1>3. RotationInv => NothingUnreadable BY DEF RotationInv
<1> QED BY <1>1, <1>2, <1>3, RotationInvInit, RolloutMigrates, PTL DEF RolloutSpec
=============================================================================
