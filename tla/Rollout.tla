------------------------------ MODULE Rollout ------------------------------
(***************************************************************************)
(* Rotating the outbox keyring while replicas restart one by one: Migrate  *)
(* with what runServe does around it.  A replica reads its configuration   *)
(* when it boots (config.Load), migrates, and builds its keyring           *)
(* (NewServer, ParseKeyring); its handlers seal links (Keyring.Encrypt in  *)
(* QueueTx) and its worker opens what any replica sealed (Keyring.Decrypt  *)
(* in Claim).                                                              *)
(*                                                                         *)
(* An entry of a keyring spec is its key id.  The operator walks through a *)
(* list of specs, each deployed everywhere before the next.  A job is a    *)
(* row of the outbox that is used again once its mail is out.              *)
(***************************************************************************)
EXTENDS Migrate, Sequences

CONSTANTS
  Job,
  Key,
  Stages   \* the values SESAMO_EMAIL_OUTBOX_KEYS takes, in order

\* config.go: production does not start without a keyring.
ASSUME StagesAssumption == Stages \in Seq(Seq(Key) \ {<<>>}) /\ Stages # <<>>

VARIABLES
  stage,      \* the spec deployed now
  conf,       \* per replica: the spec it read at boot
  up,         \* per replica: NewServer has returned
  mail, key   \* per job: empty, queued or unreadable; key_id of its payload

rollVars == <<stage, conf, up, mail, key>>
allVars  == <<vars, rollVars>>

Keys(s) == {s[i] : i \in 1..Len(s)}

RolloutTypeOK ==
  /\ TypeOK
  /\ stage \in 1..Len(Stages)
  /\ conf \in [Replica -> Seq(Key)]
  /\ up \in [Replica -> BOOLEAN]
  /\ mail \in [Job -> {"empty", "queued", "unreadable"}]
  /\ key \in [Job -> Key \cup {None}]

RolloutInit ==
  /\ Init
  /\ stage = 1
  /\ conf = [r \in Replica |-> <<>>]
  /\ up = [r \in Replica |-> FALSE]
  /\ mail = [j \in Job |-> "empty"]
  /\ key = [j \in Job |-> None]

BootConfigured(r) ==
  /\ Boot(r)
  /\ conf' = [conf EXCEPT ![r] = Stages[stage]]
  /\ UNCHANGED <<stage, up, mail, key>>

\* A duplicate id is refused.
Parses(s) == s # <<>> /\ \A i, j \in 1..Len(s) : s[i] = s[j] => i = j

Ends(r) ==
  /\ Exit(r)
  /\ conf' = [conf EXCEPT ![r] = <<>>]
  /\ up' = [up EXCEPT ![r] = FALSE]
  /\ UNCHANGED <<stage, mail, key>>

\* buildOutboxKeyring; all a spec that does not parse leaves is Ends.
NewServer(r) ==
  /\ pc[r] = "serving" /\ ~up[r]
  /\ Parses(conf[r])
  /\ up' = [up EXCEPT ![r] = TRUE]
  /\ UNCHANGED <<vars, stage, conf, mail, key>>

\* Mutation: the last entry of the spec encrypts.
ActiveLast(s) == s[Len(s)]

\* ParseKeyring: "first entry encrypts".
ActiveKey(s) == Head(s)

\* QueueTx: the payload is sealed under the active key of the replica that
\* handles the request.
Queue(r, j) ==
  /\ up[r] /\ mail[j] = "empty"
  /\ mail' = [mail EXCEPT ![j] = "queued"]
  /\ key' = [key EXCEPT ![j] = ActiveKey(conf[r])]
  /\ UNCHANGED <<vars, stage, conf, up>>

\* Claim opens the payload after the lease; one it has no key for is finalized
\* as failed at once, by whichever replica claimed it.
Open(r, j) ==
  /\ up[r] /\ mail[j] = "queued"
  /\ mail' = [mail EXCEPT ![j] = IF key[j] \in Keys(conf[r]) THEN "empty" ELSE "unreadable"]
  /\ key' = [key EXCEPT ![j] = None]
  /\ UNCHANGED <<vars, stage, conf, up>>

\* The operator (.env.example: "prepend a new key, deploy, drop the old one
\* after the queue drains"): every running replica has the current spec, and no
\* queued payload needs a key the next one lacks.
Advance ==
  /\ stage < Len(Stages)
  /\ \A r \in Replica : pc[r] # "off" => conf[r] = Stages[stage]
  /\ \A j \in Job : mail[j] = "queued" => key[j] \in Keys(Stages[stage + 1])
  /\ stage' = stage + 1
  /\ UNCHANGED <<vars, conf, up, mail, key>>

Migrates(r) == Step(r) /\ UNCHANGED rollVars

RolloutNext ==
  \/ \E r \in Replica :
       \/ BootConfigured(r) \/ Migrates(r) \/ NewServer(r) \/ Ends(r)
       \/ Signal(r) /\ UNCHANGED rollVars
       \/ \E j \in Job : Queue(r, j) \/ Open(r, j)
  \/ Advance

RolloutSpec == RolloutInit /\ [][RolloutNext]_allVars

\* As in Migrate.
FairRollout ==
  /\ RolloutSpec
  /\ \A r \in Replica : SF_allVars(Migrates(r)) /\ WF_allVars(cancelled[r] /\ Ends(r))

-----------------------------------------------------------------------------
\* Specs deployed one after the other run side by side: each must read what the
\* other seals.
Overlapped ==
  \A i \in 1..Len(Stages) - 1 :
    Head(Stages[i]) \in Keys(Stages[i + 1]) /\ Head(Stages[i + 1]) \in Keys(Stages[i])

\* keyring.go, of overlapped rotation: "no window where a queued job becomes
\* unreadable".  A claim by a replica without the job's key loses the mail for
\* good, so at every moment each replica must have the key of every queued job,
\* whoever sealed it and whichever replicas still run the previous spec.
NothingUnreadable == \A j \in Job : mail[j] # "unreadable"

-----------------------------------------------------------------------------
(* The inductive invariants.                                               *)

\* Of Migrate: who is past the lock holds it, what lies before the file in hand
\* is applied, and a replica that came through has all its files.
MigrateInv ==
  /\ TypeOK /\ MigratedOnce /\ InOrder
  /\ \A r \in Replica :
       /\ pc[r] \in {"scanning", "applying", "unlocking"} => lock = r
       /\ pc[r] \in {"scanning", "applying"} => file[r] # 0 /\ 1..(file[r] - 1) \subseteq applied
       /\ pc[r] = "applying" => file[r] \in 1..FilesOf[r]
       /\ pc[r] \in {"unlocking", "serving"} => 1..FilesOf[r] \subseteq applied

\* Of the rotation: a running replica has the current spec or the one before, and
\* it and every replica yet to boot have the key of every queued job.
RotationInv ==
  /\ RolloutTypeOK /\ NothingUnreadable
  /\ \A r \in Replica :
       /\ up[r] => pc[r] = "serving"
       /\ pc[r] # "off" => \/ conf[r] = Stages[stage]
                           \/ stage > 1 /\ conf[r] = Stages[stage - 1]
       /\ \A j \in Job : mail[j] = "queued" /\ pc[r] # "off" => key[j] \in Keys(conf[r])
  /\ \A j \in Job : mail[j] = "queued" => key[j] \in Keys(Stages[stage])
=============================================================================
