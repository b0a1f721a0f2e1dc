------------------------------ MODULE Accounts ------------------------------
(***************************************************************************)
(* The credential flows of internal/http/enduser.go and admin.go on one    *)
(* account: password, OAuth and magic-link login, reset and verification   *)
(* links, logout, the admin kill switch and the revocation endpoints.      *)
(*                                                                         *)
(* A request is a sequence of statements on Postgres (READ COMMITTED).  In *)
(* a transaction an UPDATE holds its row's lock to the end: here the lock  *)
(* of a one-time token (linkLock) and of the users row (userLock).  A      *)
(* plain SELECT neither takes nor awaits a lock, and the INSERT of a       *)
(* session takes only FOR KEY SHARE on the users row, which an UPDATE of   *)
(* its non-key columns does not block.                                     *)
(***************************************************************************)
CONSTANTS
  Request,     \* concurrent HTTP requests
  MagicLink, ResetLink, VerifyLink,   \* one-time tokens that were mailed
  Session,     \* session ids, each used once: a bound on logins
  Password,    \* passwords users type
  FirstPassword,
  Strict,      \* SESAMO_AUDIT_STRICT
  None

Link == MagicLink \cup ResetLink \cup VerifyLink

ASSUME ConstantAssumption ==
  /\ None \notin Request \cup Link \cup Password
  /\ Password \cap MagicLink = {} /\ (Password \cup MagicLink) \cap {"none", "oauth"} = {}
  /\ MagicLink \cap ResetLink = {} /\ MagicLink \cap VerifyLink = {}
  /\ ResetLink \cap VerifyLink = {}
  /\ FirstPassword \in Password /\ Strict \in BOOLEAN

VARIABLES
  password, legacy,    \* users.password_hash: of which password, and bcrypt?
  disabled, verified,  \* users.disabled, users.email_verified
  linked,              \* the OAuth identity is linked
  link, linkLock,      \* per token: "live", "spent" or "expired"; row lock
  userLock,            \* lock on the users row
  session, origin,     \* per id: "none", "live" or "gone"; how it was opened
  evidence,            \* audit_log: logins, resets and verifications
  req,                 \* per request: progress and local variables
  overtaken,           \* history: logins under way when a reset or disable committed
  overlap,             \* history: live sessions whose opening overlapped a reset or disable
  chosen, undone       \* history: the password last reset to; written over by a rehash?

history == <<overtaken, overlap, chosen, undone>>
vars == <<password, legacy, disabled, verified, linked, link, linkLock, userLock,
          session, origin, evidence, req, history>>

Origin == {"none", "oauth"} \cup Password \cup MagicLink
Event == {"login", "revoked"} \X Session \cup {"reset"} \X ResetLink \cup {"verified"} \X VerifyLink
Step == {"idle", "rehash", "refresh", "link", "login", "mCheck", "mVerify", "mCommit",
         "rSet", "rRevoke", "rCommit", "dRevoke", "dCommit", "eCommit", "vMark", "record"}

\* link: the token it consumed; typed: the password it was sent; doomed: the
\* sessions its uncommitted DELETE has hit; due: the evidence still to write.
Req == [pc : Step, link : Link \cup {None}, typed : Password \cup {None},
        doomed : SUBSET Session, due : SUBSET Event]

NoReq == [pc |-> "idle", link |-> None, typed |-> None, doomed |-> {}, due |-> {}]

TypeOK ==
  /\ password \in Password /\ {legacy, disabled, verified, linked} \subseteq BOOLEAN
  /\ link \in [Link -> {"live", "spent", "expired"}]
  /\ linkLock \in [Link -> Request \cup {None}]
  /\ userLock \in Request \cup {None}
  /\ session \in [Session -> {"none", "live", "gone"}]
  /\ origin \in [Session -> Origin]
  /\ evidence \subseteq Event
  /\ req \in [Request -> Req]
  /\ overtaken \subseteq Request /\ overlap \subseteq Session
  /\ chosen \in Password /\ undone \in BOOLEAN

\* An account that signed up, or one imported with a bcrypt hash.
Init ==
  /\ password = FirstPassword
  /\ legacy \in BOOLEAN
  /\ disabled = FALSE /\ verified = FALSE
  /\ linked \in BOOLEAN
  /\ link = [t \in Link |-> "live"]
  /\ linkLock = [t \in Link |-> None]
  /\ userLock = None
  /\ session = [s \in Session |-> "none"]
  /\ origin = [s \in Session |-> "none"]
  /\ evidence = {}
  /\ req = [r \in Request |-> NoReq]
  /\ overtaken = {} /\ overlap = {}
  /\ chosen = FirstPassword /\ undone = FALSE

-----------------------------------------------------------------------------
(* What requests have in common.                                           *)

At(r, step) == req[r].pc = step
Becomes(r, q) == req' = [req EXCEPT ![r] = q]
Goes(r, from, to) == At(r, from) /\ Becomes(r, [req[r] EXCEPT !.pc = to])

LiveSessions == {s \in Session : session[s] = "live"}
Ended(S) == [s \in Session |-> IF s \in S /\ session[s] = "live" THEN "gone" ELSE session[s]]

\* The end of r's transaction gives its row locks back.
Unlocked(r) ==
  /\ linkLock' = [t \in Link |-> IF linkLock[t] = r THEN None ELSE linkLock[t]]
  /\ userLock' = IF userLock = r THEN None ELSE userLock

\* Mutation: strict mode writes the evidence like best-effort mode does.
AuditedLate(r, from, E) ==
  /\ At(r, from)
  /\ Becomes(r, [NoReq EXCEPT !.pc = "record", !.due = E])
  /\ evidence' = evidence

\* auditedTx commits: strict mode has put the evidence E in the transaction,
\* best-effort mode tries to write it afterwards.
Audited(r, from, E) ==
  /\ At(r, from)
  /\ Becomes(r, IF Strict THEN NoReq ELSE [NoReq EXCEPT !.pc = "record", !.due = E])
  /\ evidence' = IF Strict THEN evidence \cup E ELSE evidence

\* audit.Record outside a transaction.
Record(r) ==
  /\ At(r, "record")
  /\ Becomes(r, NoReq)
  /\ evidence' = evidence \cup req[r].due
  /\ UNCHANGED <<password, legacy, disabled, verified, linked, link, linkLock, userLock,
                 session, origin>>

\* Mutation: a failed request keeps its row locks.
FailLocked(r) ==
  /\ ~At(r, "idle")
  /\ Becomes(r, NoReq)
  /\ UNCHANGED <<password, legacy, disabled, verified, linked, link, linkLock, userLock,
                 session, origin, evidence>>

\* A statement, the strict evidence or the process fails: rollback.
Fail(r) ==
  /\ ~At(r, "idle")
  /\ Becomes(r, NoReq)
  /\ Unlocked(r)
  /\ UNCHANGED <<password, legacy, disabled, verified, linked, link, session, origin,
                 evidence>>

\* session.CreateTx: a fresh token.
Opens(s, how) ==
  /\ session[s] = "none"
  /\ session' = [session EXCEPT ![s] = "live"]
  /\ origin' = [origin EXCEPT ![s] = how]

\* Mutation: the token is looked up and marked in two statements.
ConsumableUnlocked(t) == link[t] = "live"

\* consume: one UPDATE, which waits for the row lock and then re-checks.
Consumable(t) == link[t] = "live" /\ linkLock[t] = None

\* ConsumeTx at the start of a confirmation.
SpendsInTx(r, t, p, to) ==
  /\ Consumable(t)
  /\ linkLock' = [linkLock EXCEPT ![t] = r]
  /\ At(r, "idle")
  /\ Becomes(r, [NoReq EXCEPT !.pc = to, !.link = t, !.typed = p])

\* An UPDATE of the users row inside r's transaction.
LocksUser(r) == userLock = None /\ userLock' = r

-----------------------------------------------------------------------------
(* Logins.                                                                 *)

\* PasswordCredential and VerifyPassword; a refusal changes nothing.
PasswordLogin(r, p) ==
  /\ p = password /\ ~disabled
  /\ At(r, "idle")
  /\ Becomes(r, [NoReq EXCEPT !.pc = IF legacy THEN "rehash" ELSE "login", !.typed = p])
  /\ UNCHANGED <<password, legacy, disabled, verified, linked, link, linkLock, userLock,
                 session, origin, evidence>>

\* Lazy migration: SetPassword on what was typed; its failure is ignored.
Rehash(r, ok) ==
  /\ Goes(r, "rehash", "login")
  /\ ok => userLock = None
  /\ password' = IF ok THEN req[r].typed ELSE password
  /\ legacy' = (legacy /\ ~ok)
  /\ UNCHANGED <<disabled, verified, linked, link, linkLock, userLock, session, origin,
                 evidence>>

\* UpsertByOAuth: the SELECTs.
OAuthLogin(r) ==
  /\ ~disabled
  /\ Goes(r, "idle", IF linked THEN "refresh" ELSE "link")
  /\ UNCHANGED <<password, legacy, disabled, verified, linked, link, linkLock, userLock,
                 session, origin, evidence>>

\* UpsertByOAuth: UPDATE the profile, or INSERT the identity (unique).
OAuthUpsert(r) ==
  /\ \/ Goes(r, "refresh", "login") /\ userLock = None
     \/ At(r, "link") /\ Becomes(r, IF linked THEN NoReq ELSE [req[r] EXCEPT !.pc = "login"])
  /\ linked' = TRUE
  /\ UNCHANGED <<password, legacy, disabled, verified, link, linkLock, userLock, session,
                 origin, evidence>>

\* loginTx of a user that was resolved beforehand.
LoginCommit(r, s) ==
  /\ Opens(s, IF req[r].typed = None THEN "oauth" ELSE req[r].typed)
  /\ Audited(r, "login", {<<"login", s>>})
  /\ UNCHANGED <<password, legacy, disabled, verified, linked, link, linkLock, userLock>>

\* Mutation: the token is consumed outside the login's transaction.
MagicConsumeAlone(r, t) ==
  /\ Consumable(t)
  /\ At(r, "idle")
  /\ Becomes(r, [NoReq EXCEPT !.pc = "mCheck", !.link = t])
  /\ link' = [link EXCEPT ![t] = "spent"]
  /\ UNCHANGED <<password, legacy, disabled, verified, linked, linkLock, userLock, session,
                 origin, evidence>>

\* handleMagicLinkConfirm: spend the token, ...
MagicConsume(r, t) ==
  /\ SpendsInTx(r, t, None, "mCheck")
  /\ UNCHANGED <<password, legacy, disabled, verified, linked, link, userLock, session, origin,
                 evidence>>

\* ... DisabledTx, which refuses and so un-spends it, ...
MagicCheck(r) ==
  /\ At(r, "mCheck")
  /\ IF disabled THEN Becomes(r, NoReq) /\ Unlocked(r)
                 ELSE Goes(r, "mCheck", "mVerify") /\ UNCHANGED <<linkLock, userLock>>
  /\ UNCHANGED <<password, legacy, disabled, verified, linked, link, session, origin,
                 evidence>>

\* Mutation: the email is marked verified without writing the users row.
MagicVerifyUnlocked(r) ==
  /\ Goes(r, "mVerify", "mCommit")
  /\ UNCHANGED <<password, legacy, disabled, verified, linked, link, linkLock, userLock,
                 session, origin, evidence>>

\* ... MarkEmailVerifiedTx, ...
MagicVerify(r) ==
  /\ Goes(r, "mVerify", "mCommit")
  /\ LocksUser(r)
  /\ UNCHANGED <<password, legacy, disabled, verified, linked, link, linkLock, session, origin,
                 evidence>>

\* ... the session, the evidence and the commit.
MagicCommit(r, s) ==
  /\ Opens(s, req[r].link)
  /\ Audited(r, "mCommit", {<<"login", s>>})
  /\ link' = [link EXCEPT ![req[r].link] = "spent"]
  /\ verified' = TRUE
  /\ Unlocked(r)
  /\ UNCHANGED <<password, legacy, disabled, linked>>

-----------------------------------------------------------------------------
(* Links that change the account.                                          *)

\* handleResetConfirm: spend the token, ...
ResetConsume(r, t, p) ==
  /\ SpendsInTx(r, t, p, "rSet")
  /\ UNCHANGED <<password, legacy, disabled, verified, linked, link, userLock, session, origin,
                 evidence>>

\* ... SetPasswordTx, ...
ResetSet(r) ==
  /\ Goes(r, "rSet", "rRevoke")
  /\ LocksUser(r)
  /\ UNCHANGED <<password, legacy, disabled, verified, linked, link, linkLock, session, origin,
                 evidence>>

\* ... RevokeAllForUserTx: a DELETE of the sessions it can see, also the last
\* statement of the disable transaction, ...
RevokeInTx(r) ==
  /\ At(r, "rRevoke") \/ At(r, "dRevoke")
  /\ Becomes(r, [req[r] EXCEPT !.pc = IF At(r, "rRevoke") THEN "rCommit" ELSE "dCommit",
                               !.doomed = LiveSessions])
  /\ UNCHANGED <<password, legacy, disabled, verified, linked, link, linkLock, userLock,
                 session, origin, evidence>>

\* Mutation: the sessions stay.
ResetCommitKeepsSessions(r) ==
  /\ Audited(r, "rCommit", {<<"reset", req[r].link>>})
  /\ password' = req[r].typed
  /\ legacy' = FALSE
  /\ link' = [link EXCEPT ![req[r].link] = "spent"]
  /\ Unlocked(r)
  /\ UNCHANGED <<disabled, verified, linked, session, origin>>

\* ... and the commit.
ResetCommit(r) ==
  /\ Audited(r, "rCommit", {<<"reset", req[r].link>>})
  /\ password' = req[r].typed
  /\ legacy' = FALSE
  /\ link' = [link EXCEPT ![req[r].link] = "spent"]
  /\ session' = Ended(req[r].doomed)
  /\ Unlocked(r)
  /\ UNCHANGED <<disabled, verified, linked, origin>>

\* handleVerify: Consume and MarkEmailVerified commit on their own, and the
\* evidence comes last.
VerifyConsume(r, t) ==
  /\ Consumable(t)
  /\ At(r, "idle")
  /\ Becomes(r, [NoReq EXCEPT !.pc = "vMark", !.link = t])
  /\ link' = [link EXCEPT ![t] = "spent"]
  /\ UNCHANGED <<password, legacy, disabled, verified, linked, linkLock, userLock, session,
                 origin, evidence>>

VerifyMark(r) ==
  /\ At(r, "vMark")
  /\ Becomes(r, [NoReq EXCEPT !.pc = "record", !.due = {<<"verified", req[r].link>>}])
  /\ userLock = None
  /\ verified' = TRUE
  /\ UNCHANGED <<password, legacy, disabled, linked, link, linkLock, userLock, session, origin,
                 evidence>>

\* Time passes: the token can no longer be consumed.
ExpireLink(t) ==
  /\ link[t] = "live" /\ linkLock[t] = None
  /\ link' = [link EXCEPT ![t] = "expired"]
  /\ UNCHANGED <<password, legacy, disabled, verified, linked, linkLock, userLock, session,
                 origin, evidence, req>>

-----------------------------------------------------------------------------
(* Revocation.                                                             *)

\* handleLogout: one transaction with its evidence.
Logout(r, s) ==
  /\ session[s] = "live"
  /\ session' = Ended({s})
  /\ Audited(r, "idle", {<<"revoked", s>>})
  /\ UNCHANGED <<password, legacy, disabled, verified, linked, link, linkLock, userLock,
                 origin>>

\* Mutation: the evidence is written first, then the DELETE is tried.
RevokeNowRecordsFirst(r, S) ==
  /\ S \in {LiveSessions} \cup {{s} : s \in LiveSessions}
  /\ At(r, "idle")
  /\ evidence' = evidence \cup {"revoked"} \X S
  /\ session' \in {session, Ended(S)}
  /\ UNCHANGED <<password, legacy, disabled, verified, linked, link, linkLock, userLock, origin,
                 req>>

\* handleAdminRevokeUserSessions (all sessions) and handleSessionRevoke (one):
\* the DELETE commits, then the evidence is tried.
RevokeNow(r, S) ==
  /\ S \in {LiveSessions} \cup {{s} : s \in LiveSessions}
  /\ At(r, "idle")
  /\ Becomes(r, [NoReq EXCEPT !.pc = "record", !.due = {"revoked"} \X S])
  /\ session' = Ended(S)
  /\ UNCHANGED <<password, legacy, disabled, verified, linked, link, linkLock, userLock, origin,
                 evidence>>

\* handleAdminSetUserDisabled: SetDisabledTx; disabling also revokes.
SetDisabled(r, d) ==
  /\ Goes(r, "idle", IF d THEN "dRevoke" ELSE "eCommit")
  /\ LocksUser(r)
  /\ UNCHANGED <<password, legacy, disabled, verified, linked, link, linkLock, session, origin,
                 evidence>>

DisableCommit(r) ==
  /\ Audited(r, "dCommit", {})
  /\ disabled' = TRUE
  /\ session' = Ended(req[r].doomed)
  /\ Unlocked(r)
  /\ UNCHANGED <<password, legacy, verified, linked, link, origin>>

EnableCommit(r) ==
  /\ Audited(r, "eCommit", {})
  /\ disabled' = FALSE
  /\ Unlocked(r)
  /\ UNCHANGED <<password, legacy, verified, linked, link, session, origin>>

-----------------------------------------------------------------------------
Starts(r) ==
  \/ \E p \in Password : PasswordLogin(r, p)
  \/ OAuthLogin(r)
  \/ \E t \in MagicLink : MagicConsume(r, t)
  \/ \E t \in ResetLink, p \in Password : ResetConsume(r, t, p)
  \/ \E t \in VerifyLink : VerifyConsume(r, t)
  \/ \E s \in Session : Logout(r, s)
  \/ \E S \in SUBSET Session : RevokeNow(r, S)
  \/ \E d \in BOOLEAN : SetDisabled(r, d)

Continues(r) ==
  \/ \E ok \in BOOLEAN : Rehash(r, ok)
  \/ OAuthUpsert(r) \/ MagicCheck(r) \/ MagicVerify(r)
  \/ \E s \in Session : LoginCommit(r, s) \/ MagicCommit(r, s)
  \/ ResetSet(r) \/ RevokeInTx(r) \/ ResetCommit(r)
  \/ VerifyMark(r) \/ DisableCommit(r) \/ EnableCommit(r) \/ Record(r)

Acts ==
  \/ \E r \in Request : Starts(r) \/ Continues(r) \/ Fail(r)
  \/ \E t \in Link : ExpireLink(t)

\* The history variables, which no action reads.
CutsOff(r) == ResetCommit(r) \/ DisableCommit(r)
LoggingIn(r) ==
  req[r].pc \in {"rehash", "refresh", "link", "login", "mCheck", "mVerify", "mCommit"}
Cutting(r) == req[r].pc \in {"rSet", "rRevoke", "rCommit", "dRevoke", "dCommit"}

Remember ==
  /\ overtaken' = {r \in Request :
       /\ req'[r].pc # "idle"
       /\ r \in overtaken \/ (LoggingIn(r) /\ \E q \in Request \ {r} : CutsOff(q))}
  /\ overlap' = {s \in Session :
       /\ session'[s] = "live"
       /\ \/ s \in overlap
          \/ /\ session[s] = "none"
             /\ \/ \E r \in Request : Cutting(r)
                \/ \E r \in overtaken : req'[r] # req[r]}
  /\ IF \E r \in Request : ResetCommit(r)
     THEN chosen' = password' /\ undone' = FALSE
     ELSE /\ chosen' = chosen
          /\ undone' = (undone \/ \E r \in overtaken : At(r, "rehash") /\ password' # password)

Next == Acts /\ Remember

Spec == Init /\ [][Next]_vars

-----------------------------------------------------------------------------
\* A magic link opens at most one session, however many requests present it at
\* once and whichever of them fail and are retried (consume).
LinkOpensOneSession ==
  \A s1, s2 \in Session : origin[s1] \in MagicLink /\ origin[s1] = origin[s2] => s1 = s2

\* loginTx and handleMagicLinkConfirm: "a failure anywhere leaves the link
\* usable instead of burning it for nothing".  A spent magic link opened a
\* session; one that opened none is not spent.
SpentLinkTookEffect ==
  \A t \in MagicLink : link[t] = "spent" <=> \E s \in Session : origin[s] = t

\* In strict mode a login and a reset are in the audit log exactly when they
\* happened (auditedTx).
StrictEvidence ==
  Strict => /\ \A s \in Session : session[s] # "none" <=> <<"login", s>> \in evidence
            /\ \A t \in ResetLink : link[t] = "spent" <=> <<"reset", t>> \in evidence

\* A reset or a disable leaves no magic-link session alive when it commits, not
\* even one whose confirmation overlapped it: both update the users row, and
\* the second waits for the first.
CommitClosesMagic ==
  [][(\E r \in Request : ResetCommit(r) \/ DisableCommit(r))
       => \A s \in Session : session'[s] = "live" => origin[s] \notin MagicLink]_vars

\* What the events in E say has happened.
Happened(E) ==
  /\ \A s \in Session :
       /\ <<"login", s>> \in E => session[s] # "none"
       /\ <<"revoked", s>> \in E => session[s] = "gone"
  /\ \A t \in ResetLink : <<"reset", t>> \in E => link[t] = "spent"
  /\ \A t \in VerifyLink : <<"verified", t>> \in E => link[t] = "spent" /\ verified

\* Strict or best effort, complete or not: what the audit log says happened did,
\* although logins, resets, verifications, logouts and revocations record before,
\* with or after what they do, and any statement may fail.
EvidenceIsTrue == Happened(evidence)

\* README: "password reset and account disable revoke all sessions"; the kill
\* switch blocks logins.  What a reset or a disable meant to cut off survives it
\* only through a request that was under way at the time: a session opened with
\* the old password or on a disabled account overlapped one, and the password
\* is the one last chosen unless the rehash of an overlapping login undid it.
OnlyOverlapEscapes ==
  \/ undone
  \/ /\ password = chosen
     /\ \A s \in LiveSessions :
          disabled \/ origin[s] \in Password \ {chosen} => s \in overlap

\* The steps whose statement is an UPDATE of the users row, and the requests that
\* wait at one because another transaction holds the row.  The row locks of DELETEs on
\* sessions are not modelled: these requests take them last, after the users row.
UpdatesUser == {"rehash", "refresh", "mVerify", "rSet", "vMark"}
Waits(r) == req[r].pc \in UpdatesUser /\ userLock # None

\* Requests never wait for each other in a circle, nor for a lock nobody will give
\* back: tokens are locked before the users row, and every path unlocks.  While a
\* request is under way, one of them waits for nobody, and a token that others wait
\* for is locked by a request that is under way.
SomeoneProceeds ==
  /\ \/ \A r \in Request : At(r, "idle")
     \/ \E r \in Request : ~At(r, "idle") /\ ~Waits(r)
  /\ \A t \in Link : linkLock[t] # None => ~At(linkLock[t], "idle")

-----------------------------------------------------------------------------
(* The inductive invariant.                                                *)

\* What a request r in state q may rely on: a link it is spending is its own until
\* it commits, it holds the users row from its UPDATE on, since its DELETE no
\* magic-link session has appeared, and the evidence it owes is true.
Sound(r, q) ==
  /\ q.pc = "rehash" => q.typed \in Password
  /\ q.pc \in {"mCheck", "mVerify", "mCommit"} =>
       q.link \in MagicLink /\ linkLock[q.link] = r /\ link[q.link] = "live"
  /\ q.pc \in {"rSet", "rRevoke", "rCommit"} =>
       /\ q.link \in ResetLink /\ linkLock[q.link] = r /\ link[q.link] = "live"
       /\ q.typed \in Password
  /\ q.pc = "vMark" => q.link \in VerifyLink /\ link[q.link] = "spent"
  /\ q.pc \in {"mCommit", "rRevoke", "rCommit", "dRevoke", "dCommit", "eCommit"} => userLock = r
  /\ q.pc \in {"rCommit", "dCommit"} =>
       \A s \in LiveSessions : origin[s] \in MagicLink => s \in q.doomed
  /\ Happened(q.due)

FlowInv == \A r \in Request : Sound(r, req[r])

LinkInv ==
  /\ \A s \in Session : session[s] = "none" => origin[s] = "none"
  /\ LinkOpensOneSession /\ SpentLinkTookEffect

EvidenceInv == EvidenceIsTrue /\ StrictEvidence

IInv == TypeOK /\ FlowInv /\ LinkInv /\ EvidenceInv

\* What the escape of a session rests on: a login that no reset or disable has
\* overtaken was admitted by the password and the switch that still stand, and a
\* reset or disable about to commit ends every live session whose opening did not
\* overlap it.
Admitted(r, q) ==
  /\ q.pc = "idle" => q.typed = None
  /\ q.pc \in {"rehash", "refresh", "link", "login", "mVerify", "mCommit"} =>
       r \in overtaken \/ ~disabled
  /\ q.pc \in {"rehash", "refresh", "link", "login"} =>
       r \in overtaken \/ undone \/ q.typed \in {None, chosen}
  /\ q.pc \in {"rCommit", "dCommit"} => LiveSessions \subseteq q.doomed \cup overlap

EscapeInv == OnlyOverlapEscapes /\ \A r \in Request : Admitted(r, req[r])

\* Why nobody waits in a circle: a lock is held by a request that is under way and
\* will give it back; whoever holds the users row waits for nobody, and whoever
\* holds a token waits at most for the users row.
HoldersProceed ==
  /\ userLock # None =>
       req[userLock].pc \in {"mCommit", "rRevoke", "rCommit", "dRevoke", "dCommit", "eCommit"}
  /\ \A t \in Link : linkLock[t] # None =>
       LET q == req[linkLock[t]]
       IN  /\ q.link = t
           /\ q.pc \in {"mCheck", "mVerify", "mCommit", "rSet", "rRevoke", "rCommit"}

-----------------------------------------------------------------------------
\* Does not hold (README, "Divergences").
\* The same without the overlap: no session opened with an earlier password lives.
OldPasswordSessionsDie ==
  \A s \in Session : session[s] = "live" /\ origin[s] \in Password => origin[s] = password

\* Does not hold (README, "Divergences").
\* README: "disabled=true blocks password, OAuth and magic link login".
KillSwitchBlocksLogin ==
  [][\A s \in Session : session[s] = "none" /\ session'[s] = "live" => ~disabled]_vars

\* Does not hold (README, "Divergences").
\* enduser.go calls the rehash at login a "Lazy migration": it changes how the
\* password is stored and never which password it is.
OnlyResetChangesPassword ==
  [][password' # password => \E t \in ResetLink : link[t] # "spent" /\ link'[t] = "spent"]_vars

\* Does not hold (README, "Divergences").
\* README: in strict mode "action and audit evidence share one transaction:
\* either both commit or neither does".
VerifiedHasEvidence ==
  Strict /\ verified /\ (\A r \in Request : At(r, "idle"))
    => \/ \E t \in VerifyLink : <<"verified", t>> \in evidence
       \/ \E s \in Session : origin[s] \in MagicLink
=============================================================================
