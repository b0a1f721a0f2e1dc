---------------------------- MODULE Registration ----------------------------
(***************************************************************************)
(* How accounts come into being, by three writers that know nothing of     *)
(* each other and meet in the unique index on users.email:                 *)
(*   internal/http/enduser.go  handleSignup                                *)
(*   internal/user/store.go    UpsertByOAuth                               *)
(*   cmd/sesamo/import.go      runImport, with internal/user/import.go     *)
(*                             ImportBatch and Import                      *)
(*                                                                         *)
(* An uncommitted INSERT holds its email in the unique index: a second one *)
(* waits for it and then conflicts or goes ahead.  A row is named by its   *)
(* creator, the request or the line of the export, which also stands for   *)
(* the password hash it brought.                                           *)
(***************************************************************************)
EXTENDS Naturals, FiniteSets

CONSTANTS
  Email, Identity,   \* Identity: (provider, provider_sub)
  ProfileEmail,      \* [Identity -> Email]
  Request,           \* signups and OAuth callbacks, each runs at most once
  Lines,             \* number of lines of the export; blank ones are skipped uncounted
  Exports,           \* files: [1..Lines -> Email or None for a malformed line]
  Rejects,           \* sets of lines whose INSERT Postgres may reject
  ChunkSize,         \* importChunkSize
  SignupOpen,        \* SESAMO_SIGNUP
  Restarts,          \* bound on how often a dead import is run again
  None

Line == 1..Lines

ASSUME LinesAssumption ==
  /\ Lines \in Nat /\ ChunkSize \in Nat \ {0} /\ Restarts \in Nat
  /\ Exports \subseteq [Line -> Email \cup {None}] /\ Rejects \subseteq SUBSET Line
  /\ ProfileEmail \in [Identity -> Email]
  /\ None \notin Email \cup Identity \cup Request \cup Line
  /\ Request \cap Line = {} /\ Email \cap Identity = {} /\ SignupOpen \in BOOLEAN

VARIABLES
  user,      \* users: [Email -> creator of the row, or None]
  identity,  \* identities: [Identity -> email of its user, or None]
  mail,      \* emails a verification mail is queued for
  index,     \* [Email -> request whose uncommitted INSERT holds it, or None]
  pc, want,  \* per request: progress; the email or identity it is about
  export, bad,  \* the file, and its lines Postgres rejects; fixed
  importer,  \* progress of the import process
  at,        \* lines read
  pending,   \* lines read and not imported
  created, skipped, failed,
  restarts

fileVars == <<export, bad>>
webVars == <<identity, mail, index, pc, want>>
importVars == <<importer, at, pending, created, skipped, failed, restarts>>
vars == <<user, fileVars, webVars, importVars>>

TypeOK ==
  /\ user \in [Email -> Request \cup Line \cup {None}]
  /\ identity \in [Identity -> Email \cup {None}]
  /\ mail \subseteq Email
  /\ index \in [Email -> Request \cup {None}]
  /\ pc \in [Request -> {"idle", "sCommit", "oFind", "oInsert", "oLink", "done"}]
  /\ want \in [Request -> Email \cup Identity \cup {None}]
  /\ export \in [Line -> Email \cup {None}] /\ bad \subseteq Line
  /\ importer \in {"reading", "flushing", "replaying", "finishing", "ok", "error"}
  /\ at \in 0..Lines /\ pending \subseteq Line
  /\ {created, skipped, failed, restarts} \subseteq Nat

Init ==
  /\ user = [e \in Email |-> None]
  /\ identity = [i \in Identity |-> None]
  /\ mail = {}
  /\ index = [e \in Email |-> None]
  /\ pc = [r \in Request |-> "idle"] /\ want = [r \in Request |-> None]
  /\ export \in Exports /\ bad \in Rejects
  /\ importer = "reading" /\ at = 0 /\ pending = {}
  /\ created = 0 /\ skipped = 0 /\ failed = 0 /\ restarts = 0

-----------------------------------------------------------------------------
(* Requests.                                                               *)

Free(e) == user[e] = None /\ index[e] = None
Holds(r, e) == index' = [index EXCEPT ![e] = r]
LetsGo(r) == index' = [e \in Email |-> IF index[e] = r THEN None ELSE index[e]]
Goes(r, step, w) == pc' = [pc EXCEPT ![r] = step] /\ want' = [want EXCEPT ![r] = w]

\* Mutation: the account is written with an upsert.
SignupInsertUpserts(r, e) ==
  /\ SignupOpen
  /\ pc[r] = "idle" /\ index[e] = None
  /\ Goes(r, "sCommit", e)
  /\ Holds(r, e)
  /\ UNCHANGED <<user, identity, mail, fileVars, importVars>>

\* handleSignup: CreateWithPasswordTx.  A conflict is masked and changes nothing.
SignupInsert(r, e) ==
  /\ SignupOpen
  /\ pc[r] = "idle" /\ Free(e)
  /\ Goes(r, "sCommit", e)
  /\ Holds(r, e)
  /\ UNCHANGED <<user, identity, mail, fileVars, importVars>>

\* Mutation: the mail is queued outside the transaction, and that may fail.
SignupCommitThenQueue(r) ==
  /\ pc[r] = "sCommit"
  /\ user' = [user EXCEPT ![want[r]] = r]
  /\ mail' \in {mail, mail \cup {want[r]}}
  /\ Goes(r, "done", want[r])
  /\ LetsGo(r)
  /\ UNCHANGED <<identity, fileVars, importVars>>

\* The verification mail is queued in the same transaction; commit.
SignupCommit(r) ==
  /\ pc[r] = "sCommit"
  /\ user' = [user EXCEPT ![want[r]] = r]
  /\ mail' = mail \cup {want[r]}
  /\ Goes(r, "done", want[r])
  /\ LetsGo(r)
  /\ UNCHANGED <<identity, fileVars, importVars>>

\* UpsertByOAuth, its first SELECT: no identity yet.  A known one makes no account.
OAuthLookup(r, i) ==
  /\ pc[r] = "idle" /\ identity[i] = None
  /\ Goes(r, "oFind", i)
  /\ UNCHANGED <<user, identity, mail, index, fileVars, importVars>>

\* The second SELECT, by email: link to the account, or create one.  With signup
\* closed there is nothing to create, ErrSignupDisabled.
OAuthFind(r) ==
  /\ pc[r] = "oFind"
  /\ \/ user[ProfileEmail[want[r]]] # None /\ Goes(r, "oLink", want[r])
     \/ user[ProfileEmail[want[r]]] = None /\ SignupOpen /\ Goes(r, "oInsert", want[r])
  /\ UNCHANGED <<user, identity, mail, index, fileVars, importVars>>

\* Mutation: the new account commits before its identity.
OAuthInsertAlone(r) ==
  /\ pc[r] = "oInsert" /\ Free(ProfileEmail[want[r]])
  /\ user' = [user EXCEPT ![ProfileEmail[want[r]]] = r]
  /\ Goes(r, "oLink", want[r])
  /\ UNCHANGED <<identity, mail, index, fileVars, importVars>>

\* INSERT INTO users; a conflict with a row committed since is an error.
OAuthInsert(r) ==
  /\ pc[r] = "oInsert" /\ Free(ProfileEmail[want[r]])
  /\ Goes(r, "oLink", want[r])
  /\ Holds(r, ProfileEmail[want[r]])
  /\ UNCHANGED <<user, identity, mail, fileVars, importVars>>

\* INSERT INTO identities, unless someone linked it meanwhile; commit.
OAuthLink(r) ==
  LET e == ProfileEmail[want[r]]
  IN  /\ pc[r] = "oLink" /\ identity[want[r]] = None
      /\ user' = [user EXCEPT ![e] = IF index[e] = r THEN r ELSE @]
      /\ identity' = [identity EXCEPT ![want[r]] = e]
      /\ Goes(r, "done", want[r])
      /\ LetsGo(r)
      /\ UNCHANGED <<mail, fileVars, importVars>>

\* Mutation: the handler returns without a rollback, and the transaction stays open.
RequestFailsOpen(r) ==
  /\ pc[r] \in {"sCommit", "oFind", "oInsert", "oLink"}
  /\ Goes(r, "done", want[r])
  /\ UNCHANGED <<user, identity, mail, index, fileVars, importVars>>

\* A conflict, a failing statement, the strict evidence or the process: rollback.
RequestFails(r) ==
  /\ pc[r] \in {"sCommit", "oFind", "oInsert", "oLink"}
  /\ Goes(r, "done", want[r])
  /\ LetsGo(r)
  /\ UNCHANGED <<user, identity, mail, fileVars, importVars>>

-----------------------------------------------------------------------------
(* The import.                                                             *)

\* One line that is not blank: malformed, or appended to the chunk, which is flushed when full.
ReadLine ==
  /\ importer = "reading" /\ at < Lines
  /\ at' = at + 1
  /\ IF export[at + 1] = None
     THEN failed' = failed + 1 /\ UNCHANGED <<pending, importer>>
     ELSE /\ pending' = pending \cup {at + 1}
          /\ importer' = IF Cardinality(pending') >= ChunkSize THEN "flushing" ELSE "reading"
          /\ UNCHANGED failed
  /\ UNCHANGED <<user, webVars, fileVars, created, skipped, restarts>>

\* The scanner fails: exit 1, the pending chunk is dropped.
ReadError ==
  /\ importer = "reading" /\ at < Lines
  /\ importer' = "error"
  /\ UNCHANGED <<user, webVars, fileVars, at, pending, created, skipped, failed, restarts>>

EndOfFile ==
  /\ importer = "reading" /\ at = Lines
  /\ importer' = IF pending = {} THEN "finishing" ELSE "flushing"
  /\ UNCHANGED <<user, webVars, fileVars, at, pending, created, skipped, failed, restarts>>

\* ON CONFLICT DO NOTHING: the lines of S that insert a row.
NewLines(S) ==
  {n \in S : user[export[n]] = None /\ \A m \in S : export[m] = export[n] => n <= m}

Inserts(S) ==
  user' = [e \in Email |-> IF \E n \in NewLines(S) : export[n] = e
                           THEN CHOOSE n \in NewLines(S) : export[n] = e ELSE user[e]]

\* Every INSERT waits for the transactions that hold its email.
Unblocked(S) == \A n \in S : index[export[n]] = None

\* After a flush: more of the file, or the end of it.
Resumes == importer' = IF at = Lines THEN "finishing" ELSE "reading"

\* ImportBatch, one implicit transaction.
BatchCommits ==
  /\ importer = "flushing" /\ Unblocked(pending) /\ pending \cap bad = {}
  /\ Inserts(pending)
  /\ created' = created + Cardinality(NewLines(pending))
  /\ skipped' = skipped + Cardinality(pending \ NewLines(pending))
  /\ pending' = {}
  /\ Resumes
  /\ UNCHANGED <<webVars, fileVars, at, failed, restarts>>

\* Mutation: a failed batch is taken for skipped rows.
BatchFailsSkips ==
  /\ importer = "flushing"
  /\ skipped' = skipped + Cardinality(pending)
  /\ pending' = {}
  /\ Resumes
  /\ UNCHANGED <<user, webVars, fileVars, at, created, failed, restarts>>

\* An error: a rejected row, or a connection lost before or after the commit.
BatchFails ==
  /\ importer = "flushing"
  /\ \/ UNCHANGED user
     \/ Unblocked(pending) /\ pending \cap bad = {} /\ Inserts(pending)
  /\ importer' = "replaying"
  /\ UNCHANGED <<webVars, fileVars, at, pending, created, skipped, failed, restarts>>

\* Import, row by row: created, skipped, or failed (with the same doubt).
ReplayRow(n, ok) ==
  /\ importer = "replaying"
  /\ n \in pending /\ \A m \in pending : n <= m
  /\ IF ok THEN /\ Unblocked({n}) /\ n \notin bad
                /\ Inserts({n})
                /\ created' = created + Cardinality(NewLines({n}))
                /\ skipped' = skipped + Cardinality({n} \ NewLines({n}))
                /\ UNCHANGED failed
           ELSE /\ failed' = failed + 1
                /\ UNCHANGED user \/ (Unblocked({n}) /\ n \notin bad /\ Inserts({n}))
                /\ UNCHANGED <<created, skipped>>
  /\ pending' = pending \ {n}
  /\ IF pending' = {} THEN Resumes ELSE UNCHANGED importer
  /\ UNCHANGED <<webVars, fileVars, at, restarts>>

\* The exit status.
Finish ==
  /\ importer = "finishing"
  /\ importer' = IF failed > 0 THEN "error" ELSE "ok"
  /\ UNCHANGED <<user, webVars, fileVars, at, pending, created, skipped, failed, restarts>>

\* The process dies or reported an error, and the operator runs it again.
Rerun ==
  /\ importer # "ok" /\ restarts < Restarts
  /\ importer' = "reading" /\ at' = 0 /\ pending' = {}
  /\ created' = 0 /\ skipped' = 0 /\ failed' = 0
  /\ restarts' = restarts + 1
  /\ UNCHANGED <<user, webVars, fileVars>>

-----------------------------------------------------------------------------
RequestStep(r) ==
  SignupCommit(r) \/ OAuthFind(r) \/ OAuthInsert(r) \/ OAuthLink(r) \/ RequestFails(r)

ImportStep ==
  \/ ReadLine \/ EndOfFile \/ BatchCommits \/ BatchFails \/ Finish
  \/ \E n \in Line, ok \in BOOLEAN : ReplayRow(n, ok)

Next ==
  \/ \E r \in Request :
       \/ \E e \in Email : SignupInsert(r, e)
       \/ \E i \in Identity : OAuthLookup(r, i)
       \/ RequestStep(r)
  \/ ImportStep \/ ReadError \/ Rerun

Spec == Init /\ [][Next]_vars

\* The statement of r that comes next cannot succeed.
Refused(r) ==
  LET e == ProfileEmail[want[r]]
  IN  \/ pc[r] = "oFind" /\ user[e] = None /\ ~SignupOpen
      \/ pc[r] = "oInsert" /\ user[e] # None
      \/ pc[r] = "oLink" /\ identity[want[r]] # None

RequestProgress(r) ==
  \/ SignupCommit(r) \/ OAuthFind(r) \/ OAuthInsert(r) \/ OAuthLink(r)
  \/ Refused(r) /\ RequestFails(r)

ImportProgress ==
  \/ ReadLine \/ EndOfFile \/ BatchCommits \/ Finish
  \/ BatchFails /\ Unblocked(pending) /\ pending \cap bad # {}
  \/ \E n \in Line : \/ ReplayRow(n, TRUE)
                     \/ ReplayRow(n, FALSE) /\ Unblocked({n}) /\ n \in bad

\* Statements that can succeed do, and those Postgres refuses fail.  No other failure
\* is relied upon: an INSERT of the import waits as long as its email is held.
FairSpec ==
  Spec /\ WF_vars(ImportProgress) /\ \A r \in Request : WF_vars(RequestProgress(r))

-----------------------------------------------------------------------------
\* README: "existing emails are skipped".  No writer ever replaces an account
\* another one created, whatever interleaves with the import, fails after its
\* commit or is run again.
FirstWriterWins == [][\A e \in Email : user[e] # None => user'[e] = user[e]]_vars

\* runImport: exit status 0 means that every line of the export has an account and
\* that the summary counted each exactly once, also after a batch that was lost,
\* replayed or committed without an answer, and after a run that died half way.
CleanImportIsComplete ==
  importer = "ok" => /\ \A n \in Line : export[n] # None /\ user[export[n]] # None
                     /\ created + skipped = Lines

\* handleSignup: "a rolled-back signup leaves no mail promising an account that
\* does not exist", and an account from a signup has its mail.
MailIffSignup ==
  \A e \in Email : e \in mail <=> \E r \in Request : user[e] = r /\ want[r] = e

\* An identity belongs to an account, and an account made by OAuth can be logged
\* into: its identity came with it.
OAuthAccountIsLinked ==
  /\ \A i \in Identity : identity[i] # None => user[identity[i]] # None
  /\ \A e \in Email, r \in Request :
       user[e] = r /\ want[r] \in Identity => identity[want[r]] = e

\* Statements that wait for each other in the index, roll back or are replayed add up
\* to atomic ones: the three writers implement the directory, in which an account
\* appears once, complete, for an email that had none, and while SESAMO_SIGNUP is off
\* only from the export.
Dir == INSTANCE Directory
ImplementsDirectory == Dir!DirectorySpec

\* The import, whose statements wait without a timeout for the web requests that hold
\* their emails, ends: no request, however it ends, leaves an email held.
ImportEnds == importer = "flushing" ~> importer \in {"ok", "error"}

-----------------------------------------------------------------------------
(* The inductive invariant.                                                *)

\* What a request in the middle of its statements relies on: its INSERT holds the
\* email, and an account to link to exists or is its own.
RequestInv ==
  \A r \in Request :
    /\ pc[r] = "sCommit" => want[r] \in Email /\ index[want[r]] = r
    /\ pc[r] \in {"oFind", "oInsert", "oLink"} => want[r] \in Identity
    /\ pc[r] = "oLink" => LET e == ProfileEmail[want[r]]
                         IN  user[e] # None \/ index[e] = r

\* An email that is held is free, and its holder is about to commit it.
IndexInv ==
  \A e \in Email : index[e] # None =>
    /\ user[e] = None
    /\ \/ pc[index[e]] = "sCommit" /\ want[index[e]] = e
       \/ pc[index[e]] = "oLink" /\ ProfileEmail[want[index[e]]] = e

\* Who created an account is done, and the account has what came with it.
AccountInv ==
  /\ \A e \in Email : user[e] \in Request => pc[user[e]] = "done"
  /\ MailIffSignup /\ OAuthAccountIsLinked

\* Only an open signup inserts.
OpenInv ==
  ~SignupOpen => /\ \A r \in Request : pc[r] \notin {"sCommit", "oInsert"}
                 /\ \A e \in Email : index[e] = None

\* Every line read is counted once or pending, and while nothing has failed those
\* that are not pending have an account.
ImportInv ==
  /\ pending \subseteq 1..at /\ \A n \in pending : export[n] # None
  /\ created + skipped + failed + Cardinality(pending) = at
  /\ failed = 0 => \A n \in (1..at) \ pending : export[n] # None /\ user[export[n]] # None
  /\ importer \in {"finishing", "ok"} => at = Lines /\ pending = {}
  /\ importer = "ok" => failed = 0

IInv == TypeOK /\ RequestInv /\ IndexInv /\ AccountInv /\ ImportInv
=============================================================================
