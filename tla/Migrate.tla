------------------------------ MODULE Migrate ------------------------------
(***************************************************************************)
(* internal/db/db.go Migrate, run by every replica on boot (cmd/sesamo     *)
(* runServe) under a Postgres advisory lock.                               *)
(*                                                                         *)
(* A migration is a number: its place in the sorted file list.  Replicas   *)
(* of an older build know a shorter list.  The lock belongs to a database  *)
(* session, and that to a pooled connection: pgx refuses a statement whose *)
(* context is done but keeps the connection, and Release returns it to the *)
(* pool, lock included.                                                    *)
(***************************************************************************)
EXTENDS Naturals

CONSTANTS
  Replica,
  FilesOf,   \* [Replica -> number of migrations its build embeds]
  None

ASSUME ReplicaAssumption == None \notin Replica /\ FilesOf \in [Replica -> Nat]

VARIABLES
  lock,       \* the replica whose session holds the advisory lock
  applied,    \* schema_migrations
  runs,       \* per migration: how often its body was committed
  pc, file,   \* per replica: progress of Migrate, and the file it is at
  cancelled   \* per replica: SIGTERM arrived

vars == <<lock, applied, runs, pc, file, cancelled>>

File == UNION {1..FilesOf[r] : r \in Replica}

TypeOK ==
  /\ lock \in Replica \cup {None}
  /\ applied \subseteq File
  /\ runs \in [File -> Nat]
  /\ pc \in [Replica -> {"off", "locking", "scanning", "applying", "unlocking", "serving"}]
  /\ file \in [Replica -> Nat]
  /\ cancelled \in [Replica -> BOOLEAN]

Init ==
  /\ lock = None
  /\ applied = {}
  /\ runs = [f \in File |-> 0]
  /\ pc = [r \in Replica |-> "off"]
  /\ file = [r \in Replica |-> 0]
  /\ cancelled = [r \in Replica |-> FALSE]

\* A statement of r is only sent while its context lives.
Runs(r, step) == pc[r] = step /\ ~cancelled[r]
Goes(r, step) == pc' = [pc EXCEPT ![r] = step]

Boot(r) ==
  /\ pc[r] = "off"
  /\ Goes(r, "locking")
  /\ cancelled' = [cancelled EXCEPT ![r] = FALSE]
  /\ UNCHANGED <<lock, applied, runs, file>>

\* pg_advisory_lock, CREATE TABLE IF NOT EXISTS, listMigrations.
Acquire(r) ==
  /\ Runs(r, "locking")
  /\ lock = None
  /\ lock' = r
  /\ Goes(r, "scanning")
  /\ file' = [file EXCEPT ![r] = 1]
  /\ UNCHANGED <<applied, runs, cancelled>>

\* Mutation: a file found applied ends the scan.
CheckStops(r) ==
  /\ Runs(r, "scanning")
  /\ file[r] <= FilesOf[r]
  /\ Goes(r, IF file[r] \in applied THEN "unlocking" ELSE "applying")
  /\ UNCHANGED <<lock, applied, runs, file, cancelled>>

\* SELECT EXISTS: the next file is skipped or has to be applied.
Check(r) ==
  /\ Runs(r, "scanning")
  /\ file[r] <= FilesOf[r]
  /\ IF file[r] \in applied
     THEN file' = [file EXCEPT ![r] = @ + 1] /\ UNCHANGED pc
     ELSE Goes(r, "applying") /\ UNCHANGED file
  /\ UNCHANGED <<lock, applied, runs, cancelled>>

\* Mutation: the files come in directory order, newest first.
ApplyNewest(r) ==
  /\ Runs(r, "applying")
  /\ \E f \in (1..FilesOf[r]) \ applied :
       /\ \A g \in (1..FilesOf[r]) \ applied : g <= f
       /\ applied' = applied \cup {f}
       /\ runs' = [runs EXCEPT ![f] = @ + 1]
  /\ Goes(r, "scanning")
  /\ UNCHANGED <<lock, file, cancelled>>

\* Mutation: the body commits on its own, and its record may fail.
ApplyAutocommit(r) ==
  /\ Runs(r, "applying")
  /\ file[r] \notin applied
  /\ applied' \in {applied, applied \cup {file[r]}}
  /\ runs' = [runs EXCEPT ![file[r]] = @ + 1]
  /\ Goes(r, "scanning")
  /\ UNCHANGED <<lock, file, cancelled>>

\* The body and its record, in one transaction.
Apply(r) ==
  /\ Runs(r, "applying")
  /\ file[r] \notin applied
  /\ applied' = applied \cup {file[r]}
  /\ runs' = [runs EXCEPT ![file[r]] = @ + 1]
  /\ Goes(r, "scanning")
  /\ file' = [file EXCEPT ![r] = @ + 1]
  /\ UNCHANGED <<lock, cancelled>>

ScanDone(r) ==
  /\ pc[r] = "scanning"
  /\ file[r] > FilesOf[r]
  /\ Goes(r, "unlocking")
  /\ UNCHANGED <<lock, applied, runs, file, cancelled>>

\* The deferred unlock, which a cancelled context skips, and conn.Release;
\* Migrate returns nil and serve starts.
Release(r) ==
  /\ pc[r] = "unlocking"
  /\ lock' = IF lock = r /\ ~cancelled[r] THEN None ELSE lock
  /\ Goes(r, "serving")
  /\ UNCHANGED <<applied, runs, file, cancelled>>

Signal(r) ==
  /\ pc[r] # "off" /\ ~cancelled[r]
  /\ cancelled' = [cancelled EXCEPT ![r] = TRUE]
  /\ UNCHANGED <<lock, applied, runs, pc, file>>

\* Mutation: a dead replica's lock stays.
ExitLocked(r) ==
  /\ pc[r] # "off"
  /\ Goes(r, "off")
  /\ file' = [file EXCEPT ![r] = 0]
  /\ UNCHANGED <<lock, applied, runs, cancelled>>

\* A statement fails, serve ends or the process dies: an open transaction rolls
\* back, the pool closes, and the session's lock with it.
Exit(r) ==
  /\ pc[r] # "off"
  /\ Goes(r, "off")
  /\ file' = [file EXCEPT ![r] = 0]
  /\ lock' = IF lock = r THEN None ELSE lock
  /\ UNCHANGED <<applied, runs, cancelled>>

Step(r) == Acquire(r) \/ Check(r) \/ Apply(r) \/ ScanDone(r) \/ Release(r)

Next == \E r \in Replica : Boot(r) \/ Step(r) \/ Signal(r) \/ Exit(r)

Spec == Init /\ [][Next]_vars

\* A replica that is up keeps going, Postgres grants the lock to its waiters in
\* turn, and a signalled process ends.
FairSpec ==
  /\ Spec
  /\ \A r \in Replica : SF_vars(Step(r)) /\ WF_vars(cancelled[r] /\ Exit(r))

-----------------------------------------------------------------------------
\* Migrate: "N instances starting at once do not race".  A migration is committed
\* once and recorded exactly then, whoever crashes between two statements.
MigratedOnce == \A f \in File : runs[f] = IF f \in applied THEN 1 ELSE 0

\* A migration is applied on top of all earlier ones, also when builds that know
\* different numbers of them boot together.
InOrder == \A f \in applied : 1..f \subseteq applied

\* A replica serves only on a schema that has every migration of its build.
ServesMigrated == \A r \in Replica : pc[r] = "serving" => 1..FilesOf[r] \subseteq applied

\* A booting replica comes up or goes away: nobody waits for the lock of a replica
\* that is gone.
BootEnds == \A r \in Replica : pc[r] = "locking" ~> pc[r] \in {"serving", "off"}

\* Does not hold (README, "Divergences").
\* db.go, of the unlock: "Best-effort unlock; the session ends on Release anyway".
LockEndsWithRelease == \A r \in Replica : pc[r] = "serving" => lock # r
=============================================================================
