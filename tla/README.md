# Sesamo in TLA+

Sesamo is an authentication service: one Go binary, several replicas, all state
in Postgres. The modules here model the parts whose correctness depends on what
happens *between* two statements: other requests, other replicas, the clock, a
crash, a provider that answers late. TLC checks them on small instances, and
TLAPS proves the central results for every value of the constants.

All code paths below are relative to the repository.

## The system and its parts

| Part | Code | State it keeps | Operations | Module |
|---|---|---|---|---|
| Email outbox and worker | `internal/email/outbox.go`, `worker.go` | `email_outbox` rows: status, encrypted payload, lease, attempts, provider message id | QueueTx, Claim, Finalize, PurgeFinished; Run, deliver, classify | `Outbox` |
| One-time tokens | `internal/email/token.go` | `one_time_tokens` rows | IssueTx, Consume(Tx), PurgeExpired | `Outbox`, `Accounts` |
| Provider events | `internal/http/webhook.go`, `outbox.go` | `email_events` rows, status and `delivered_at` of the outbox row | RecordProviderEvent, reduceEvent, reconcileEvents | `ProviderEvents`, `EventReducer` |
| Sessions | `internal/session/session.go` | `sessions` rows | Create, Validate, Revoke, RevokeAllForUser, PurgeExpired | `Session` |
| Credential flows, admin | `internal/http/enduser.go`, `admin.go`, `service.go`, `internal/user` | `users`, tokens, sessions, `audit_log` | login (password, OAuth, magic link), reset, verify, logout, disable, enable, revoke | `Accounts` |
| Registration, import | `enduser.go`, `internal/user/store.go`, `import.go`, `cmd/sesamo/import.go` | `users`, `identities`, queued mail, import counters | handleSignup, UpsertByOAuth, runImport | `Registration` |
| Rate limiter | `internal/ratelimit/ratelimit.go` | `rate_limit_buckets` row | Allow, PurgeStale | `RateLimit` |
| Serve and shutdown | `cmd/sesamo/serve.go`, `worker.go` | the process and its timeouts | serve, Run, runOnce, deliver | `Shutdown` |
| Migrations | `internal/db/db.go` | `schema_migrations`, an advisory lock | Migrate | `Migrate` |
| Outbox keyring | `internal/email/keyring.go`, `internal/http/server.go` | the keys a replica read when it booted | ParseKeyring, Encrypt, Decrypt | `Rollout` |
| OAuth clients, key cache | `enduser.go`, `internal/http/cookies.go`, `internal/oauth` | the browser's state and PKCE cookies, `jwksCache.keys` | handleOAuthStart, handleOAuthCallback, Exchange, key, refresh | `OAuth` |

How they interact:

* A request (signup, reset, magic link) mints a token and an outbox row in one
  transaction. The worker of any replica claims the row under a lease, calls the
  mail provider outside any transaction, and records the outcome in another.
* The provider calls back with delivery events. They find the row by a message
  id that only the worker's last statement writes, and may come before it.
* Spending a token changes the account and opens or closes sessions. Every
  authenticated request validates its session, which may rewrite or delete it.
* An hourly maintenance loop in every replica deletes what is expired, under
  everybody's feet.
* On boot every replica migrates the schema and builds its keyring; what it seals
  any other replica may have to open. On SIGTERM it drains.
* An OAuth trip leaves nothing on the server: two cookies carry it to the callback,
  which redeems the code and checks the id_token against a key set that all
  requests share and refresh.

What is hard about it: Postgres runs at READ COMMITTED and most flows are
several statements; checks are often made on rows read before the write; leases,
sends and finalizes are timed separately; nothing tells a worker whether a mail
whose answer it lost was sent; webhooks are duplicated and reordered. The
`hazards` in `PROJECT.json` list these at their lines, with the properties that
watch them.

## Modules

Each module splits the code where another process can act, and nowhere else: a
single SQL statement, or a transaction that holds the row locks its outcome
depends on, is one action. Operators introduced by "Mutation:" are deliberate
faults. They are not part of any specification; each property has one that
breaks it, to show that the property watches the code it is about.

**`EventReducer`** is the CASE of `reduceEvent`: what an event class does to a
status, whether it erases the payload and whether it stamps `delivered_at`. `Rank`
orders the statuses.

**`Outbox`**. A `Job` names a request, its token and its outbox row.

* `QueueOneTimeLink` is the issuing transaction (`IssueBegin`, `IssueSupersede`,
  `IssueCommit`, `IssueAbort`), split where its two UPDATEs take their snapshots;
  `seenTokens` and `seenJobs` are those snapshots, `TokenLocked` the row locks.
* `Claim(w, S)` is the claim transaction: `Verdict` is its switch (expired,
  exhausted, dead link, leasable). `Opened`, `Undecryptable` are its decryption
  loop after the commit.
* `Send` is a provider call with its classification. `Reply` is what an adapter
  returns; a transient one is in both `MayBeTaken` and `MayBeRefused`, because it
  leaves open whether the provider took the mail. `Finalize`, `LeaseLost`,
  `FinalizeError` are the three ways to record it. `Crash` loses what a worker
  holds.
* `ReduceEvent` and `PurgeFinished` write the row from outside; `Consume` and
  `PurgeToken` write the token.
* Clocks are left out: a deadline passes at any time after what it limits. So an
  expired lease may meet a send that has only begun, whatever the timeouts.
  `Shutdown` is where the timeouts count.
* A lease token is a fresh UUID per claim; the attempt number, which every claim
  increments, stands for it.
* `before` is a history variable: the links that were out when a request began.

**`Mail`** is what the outbox promises whoever asks for a mail, without rows,
leases, workers or transactions: a request is owed a mail until the provider is
known to have it or it is given up, both are final, and the provider takes at most
one copy if it recognizes a second one and at most `Budget` otherwise. `Outbox`
implements it: `ImplementsMail` is `Mail`'s specification with `Fate` (computed
from the issuing transaction and the row's status), the copies in the provider's
mailbox and `MaxAttempts` in place of its variables and `Budget`.

**`ProviderEvents`** takes one accepted mail and looks closer at the race between
webhooks and the worker: INSERT and reduce of the handler, the accept UPDATE, the
read of `email_events` and each replayed event are separate actions, any of which
but the first may fail (`HandlerFails`, `FinalizerFails`, `AcceptLost`). A row whose
acceptance was lost is still pending: Claim leases it again while it has attempts
(`Reclaim`) or retires it (`Retire`: the window closed, no attempt left, or the link
dead, perhaps because its reader followed it), a newer request cancels it
(`Supersede`), or a later attempt fails for good (`Refused`). A retired row never
learns its message id, and events about it stay in `email_events` alone. `dropped` is
a history variable: the events that a failed statement was the last to have.

**`OutboxRow`** is the life of one row, whoever writes it: queued, correlated with its
provider message id or retired, moved by events from then on, purged. `Outbox` takes
Finalize and an event's reduction to be atomic; `ProviderEvents` takes them apart.
Both implement `OutboxRow` (`ImplementsRow` in each), so the coarse view of the row and
the fine one allow it the same life.

**`Session`**. `Lookup` is Validate's SELECT, `Decide` its clock reading and
branch, `Expire`, `Renew`, `Touch` the write. Nothing ties the write to what the
SELECT saw, so other validations, `Revoke`, a revocation of all sessions and `Purge`
come between. Such a revocation, alone or with the kill switch, is a transaction too:
`RevokeAll` is the snapshot of its DELETE (`found`), `RevokeCommits` the COMMIT that
ends those sessions and disables the user, `RevokeRollsBack` its failure. A login may
open a session, and validations may renew, between the two. A second kill switch and
`Enable` wait for the lock on the users row.
`overtaken` is a history variable: the calls whose row was written since they read
it.

**`SessionPromise`** is what a session promises, without rows that are read first and
written later: it is opened once and ends for good; whoever is told "valid" was
admitted at one moment of the call at which the session was alive and the user enabled;
only such an answer moves the expiry, to what it tells, within the lifetime from now and
the cap from the opening. A revocation or disable is asked for and done later: done, it
has ended every session that stood when it was asked for, and not those opened since.
`Session` implements it (`ImplementsPromise`): a call counts as
admitted (`Admitted`) from the SELECT on while what it read still justifies an answer
(`Stands`), `Told` is the expiry it is about to return, and `Asked` the sessions the
DELETE of a revocation under way has seen.

**`Accounts`** is one account and concurrent requests, each a sequence of
statements: `PasswordLogin` reads and verifies, `Rehash` writes, `LoginCommit`
opens the session; `MagicConsume`, `MagicCheck`, `MagicVerify`, `MagicCommit`
share a transaction and its row locks; `ResetConsume` to `ResetCommit` likewise;
`VerifyConsume`, `VerifyMark`, `Record` do not. `Audited` is `auditedTx` in its
strict and best-effort form. `RevokeNow` deletes first and leaves its evidence to
`Record`. `Fail` rolls back at any statement. `overtaken`, `overlap`, `chosen` and
`undone` are history variables: the logins a reset or disable overtook, the sessions
opened by a login under way at such a moment, the password last chosen, and
whether an overtaken rehash undid that choice.

**`Registration`**. Signups, OAuth callbacks and the import insert into `users`;
`index` holds uncommitted emails in the unique index. The two SELECTs of
`UpsertByOAuth` are `OAuthLookup` and `OAuthFind`; its branches for a disabled account,
which make none, are in `Accounts`. The import reads lines (blank ones, which
`runImport` skips without counting, are not lines of the model's export),
flushes chunks, falls back to single rows after a failed batch (which may have
committed), and may be run again.

**`Directory`** is what these writers add up to: an account is made in one step,
together with its mail (`SignUp`) or its identity (`Join`), only for an email that has
none, at most one per request and none while signup is closed; `Link` ties an identity
to an account that is there; `Import` makes accounts of lines with their email.
`Registration` implements it (`ImplementsDirectory`).

**`RateLimit`** is one bucket. `now()` is the start of the transaction, so calls
reach the row out of order. `from`, `to`, `granted` observe one interval of time,
chosen initially.

**`Shutdown`** counts the time of the worker's calls and of serve's waits.
**`Migrate`** has replicas of different builds on one advisory lock that belongs
to a pooled connection.

**`Rollout`** extends `Migrate` with what `runServe` does around it: a replica reads
its keyring when it boots, seals mail with the first key and opens what any replica
sealed. The operator (`Advance`) walks through `Stages`, a list of keyrings, each
deployed everywhere before the next, and drops no key a queued mail needs.

**`OAuth`** is one browser with several tabs. A callback carries the cookies of the
moment it is sent, and its answer clears them whenever it arrives. A trip stands for
the state and the verifier drawn for it. `LookUp`, `Fetch`, `Store` and `Reread` are
the four places where `key` and `refresh` take or leave the mutex. `Exchange` and
`Answered` are Google's and Apple's `Exchange`, and GitHub's up to its profile
(`FetchProfile`). Consent, the redemption of codes and the rotation of signing keys
are the provider's and external. `overtaken` is a history variable, as in `Session`.

History variables are written by `Remember` and read by no action; fairness is
stated over the variables of the code alone.

The `MC*` modules give constants their values.

## Runs

| Run | Instance | What it shows |
|---|---|---|
| `Outbox_race` | two requests of one slot, one worker, two attempts, no idempotency | payload exactly while pending, older links dead and their jobs canceled, and the refinement of `Mail` |
| `Outbox_lease` | a job of Resend, one of a provider no worker serves, two workers, two attempts | one owner per lease, one copy per mail, every job leaves `pending` |
| `ProviderEvents` | four events of all classes, two handlers, two attempts | acknowledged events reach the row; the evidence of a delivery stays |
| `ProviderEvents_lost` | three events; only handlers fail | **violated**: a handler's reduction fails (500), the retry is a duplicate (200), and the row never shows the event |
| `Session` | one session, two validations, one revocation, cap at 4, horizon 5 | the refinement of `SessionPromise`, no "valid" from beyond the cap, no resurrection, no session cut short but by an overtaken call, every session ends |
| `Accounts` | two requests of any kind, one link of each kind, two sessions, strict | one session per magic link, no link burned for nothing, evidence complete and true, only an overlapping login escapes a reset or disable, no mutual waiting |
| `RateLimit` | two tokens, half a token per tick, three calls, horizon 11 | no interval grants more than capacity plus refill; a stale bucket is full |
| `Shutdown` | the code's timeouts in units of 5 s | a batch fits in its lease, a signalled process ends, one last delivery fits in the drain |
| `Rollout` | three replicas, builds of one and two files, five keyrings (one does not parse), one mail | each file once, in order, before serving; boots end; no mail becomes unreadable |
| `Rollout_documented` | the same, the three keyrings of the documented rotation | **violated**: a mail sealed under the new key meets a replica without it |
| `Registration` | two requests, two emails, two identities, exports of three lines, chunks of two, one rerun | the refinement of `Directory` (so the first writer wins), a clean import is complete and its counts add up, mail and identities match accounts, the import ends |
| `OAuth` | two callbacks, three trips (id_token, GitHub, another browser's), two keys | codes meet their own verifier, refreshes interfere only when they overlap, rotation heals |

Why the bounds are enough for the interesting cases:

* *Outbox*. Superseding needs two requests and a worker between them. A lost
  lease needs two workers; two attempts allow a loss, a takeover that overlaps the
  first send and is itself lost, and the third claim, which retires the job. The two
  questions do not meet (superseding looks at rows, not at who holds them), so they
  have a run each.
* *ProviderEvents*. `ReduceStatus` separates four classes; one event of each in
  every arrival order, two handlers so that two reductions overlap; two attempts, so
  that a lost acceptance is recovered, lost again, or retired.
* *Session*. The cap is twice the lifetime, so a session is renewed in full,
  renewed up to the cap, and then pinned. One revocation meets a session opened before
  its DELETE or after it; a second one would wait for the first or find less.
* *Accounts*. All locks and stale reads are between two requests. A third one
  would only repeat what one of them did.
* *RateLimit*. Capacity, refill and staleness keep the code's proportions; the
  horizon leaves room for a purge between calls.
* *Registration*. Three lines in chunks of two give a full chunk and a rest, with
  a duplicate across the two. Signup is open in this run; that a closed one makes no
  account is part of `RegistrationImplementsDirectory`, and TLC agrees when the
  configuration is given `SignupOpen = FALSE`.
* *Rollout*. Two replicas race for the lock and a third, of the older build, finds
  files it does not know. A mail is used again once it is out, so one is enough for
  a seal and a claim on either side of every deploy.
* *OAuth*. Two callbacks are a stale refresh and the one that overtakes it; a trip
  is used again when nothing holds it, so two own trips give any number.

`CHECK_DEADLOCK FALSE` stands in every configuration because requests, sessions,
links and time are bounded: a model that has used them up stops. Mutual waiting is
the subject of `SomeoneProceeds`, `ImportEnds` and `BootEnds`. (`OAuth` has no last
state; a browser may simply stop.)

Symmetry is used where only safety is checked: requests and sessions in
`Accounts`, calls in `RateLimit`.

## Fairness

* `Outbox`: workers finish what they hold (calls have timeouts, a dead process is
  restarted), leases and back-offs run out, and a job that stays claimable is
  claimed, because Claim orders by `available_at`. For a job no worker serves, the
  send window lapses and the hourly purge runs; for the others neither is assumed.
  Nothing is assumed about providers, crashes or Finalize: each attempt may fail.
* `ProviderEvents`: handlers and Finalize run their next statement, an attempt ends
  (its calls have timeouts), and a job left pending is claimed. Nothing is assumed of
  how: every acceptance may be lost until Claim retires the row, which is the case
  `EventuallyReflected` excepts.
* `Session`: time passes, maintenance runs, calls return.
* `Shutdown`: time passes and calls end by their timeouts.
* `Migrate`, `Rollout`: a replica that is up goes on, and one that was signalled
  exits; Postgres queues the waiters of the advisory lock, so none is overtaken for
  ever (strong fairness). Nothing makes anybody boot, deploy or send.
* `OAuth`: a handler runs to its end (the outbound client times out after 15 s), and
  a provider that is asked for its key set again and again answers again and again
  (strong fairness of a successful `Fetch`). Nothing is assumed of the browser.
* `Registration`: a statement that can succeed does, and one that Postgres refuses (a
  rejected row, a conflict, a closed signup) fails. No other failure is relied upon:
  the INSERTs of the import have no timeout (`context.Background()`), so while a request
  holds an email the import waits, and `ImportEnds` needs every request to let go.

## Proofs

| Module | Theorem | Result |
|---|---|---|
| `OutboxProofs` | `TypeCorrect`, `Inductive` | type correctness; the inductive invariant `IInv` |
| | `PayloadErased`, `LeaseSafety`, `SendSafety`, `SupersedeSafety`, `NewestLinkSafety` | the outbox invariants of the runs, and `AcceptedWasSent` |
| | `NeverBackwards`, `OwnerAccepts` | `StatusMonotone` and `OwnerRecordsAcceptance`: a status only moves forward, and only the lease's owner records an acceptance |
| | `CopySafety` | `CopiesWithinBudget`: no more copies than attempts |
| | `OutboxImplementsMail` | `ImplementsMail`: the outbox implements `Mail` |
| | `OutboxImplementsRow` | every row of the outbox implements `OutboxRow` |
| `RolloutProofs` | `MigrationSafety`, `MigrationsInOrder`, `ServesAfterMigrating` | `MigratedOnce`, `InOrder`, `ServesMigrated` |
| | `RolloutMigrates` | `Rollout` implements `Migrate` |
| | `RotationSafety` | `NothingUnreadable`, for every list of keyrings that is `Overlapped` |
| `ProviderEventsProofs` | `ReducerCommutes`, `ReducerIdempotent` | order and repetition of events do not matter to a correlated row's status |
| | `NoEventLost`, `NothingInvented` | `AckedEventsReflected`; a status is one some event justifies (`StatusJustified`) |
| | `EvidenceKept` | `RowKeepsEvidence`: neither writer walks the row backwards |
| | `OrderIrrelevant` | `Converges`: the status in the end is a function of the set of stored events |
| | `EventsImplementRow` | the same row, with webhook, accept and replay taken apart, implements `OutboxRow` |
| `SessionProofs` | `Inductive`, `Capped`, `CookieDies`, `Final`, `OvertakenOnly` | `CapRespected`, `KeptWarmStillDies`, `NoResurrection`, `OnlyOvertakenShortens` |
| | `SessionImplementsPromise` | `ImplementsPromise`: overlapping validations and revocations implement `SessionPromise` |
| `OAuthProofs` | `Inductive`, `PairingSafety`, `RefreshSafety` | `ExchangePaired`, `UnknownKeyMeansOverlap` |
| `AccountsProofs` | `Inductive`, `OneSessionPerLink`, `NoLinkBurned` | `LinkOpensOneSession`, `SpentLinkTookEffect` |
| | `EvidenceComplete`, `EvidenceSound` | `StrictEvidence` (strict mode) and `EvidenceIsTrue` (both modes) |
| | `ResetClosesMagic` | `CommitClosesMagic` |
| | `EscapeOnlyByOverlap` | `OnlyOverlapEscapes` |
| | `LocksComeBack` | `HoldersProceed`: who holds a row lock is under way, and locks are taken in one order |
| | `NobodyBlocksEverybody` | `SomeoneProceeds`: requests never all wait |
| `RegistrationProofs` | `Inductive`, `AccountsStay`, `ImportComplete` | `FirstWriterWins`, `CleanImportIsComplete` |
| | `SignupMails`, `OAuthLinks` | `MailIffSignup`, `OAuthAccountIsLinked` |
| | `RegistrationImplementsDirectory` | `ImplementsDirectory`: the statements of the three writers implement `Directory` |
| `BudgetProofs` | `Budget`, `LeaseHeld` | the time invariant and `LeaseCoversBatch` of `Shutdown` |
| | `LastDeliveryDrains` | `OneDeliveryDrains`, for all timeouts that satisfy `DrainBudget` |
| | `BucketInductive`, `NeverOversubscribed`, `PurgeIsNoOp` | `NoOversubscription` and `StaleIsFull` of `RateLimit` |

They hold for any number of jobs, workers, attempts, events, handlers, sessions,
validations, replicas, files, keys, trips, callbacks, account requests and links,
emails, identities, lines of an export and overlapping calls of the rate limiter,
and for any timeouts, chunk sizes and rates that satisfy the assumptions. Those are
typing of the constants, that different kinds of things have names of their own
(passwords and magic links, emails and identities, requests and lines), and:

* the cap is no shorter than the lifetime (`CapAssumption`, refused otherwise by
  `config.go`);
* a claim and a full batch of sends and finalizes fit in the lease
  (`LeaseBudgetAssumption`, the sentence in `worker.go`; with the code's constants it
  leaves less than 20 s for Claim, which has no timeout of its own);
* `DrainBudget`, a hypothesis of `LastDeliveryDrains` alone: one send and its finalize
  are shorter than the wait for the worker (20 s and 5 s against 30 s);
* the time without use after which a bucket is purged, less twice the longest call, is
  enough to fill it (`RateAssumption`; a day in the code, against rules that fill in a
  minute).

`BudgetProofs` extends two modules that share nothing, `Shutdown` and `RateLimit`,
whose definitions therefore have names of their own (`BucketSpec`, `BucketInv`).
`Horizon` bounds the clock only for TLC; the theorems hold for every horizon.

The arguments:

* **Outbox.** No safety property is inductive by itself. That Finalize, which
  checks the lease token and not the status, never touches a settled row needs
  "a lease is the latest attempt of a pending row" (`RowInv`); that two workers
  never match the same lease needs "no two workers hold the same token, not even
  a lost one, and none is above the attempt counter" (`WorkerInv`); one copy per
  mail needs "the provider knows the key of every mail it took" (`MailInv`); and
  that superseded links are canceled needs the order of the two snapshots in the
  issuing transaction: a token it locked belongs to a job it has seen, if pending
  (`IssueInv`). The same order gives `NewestLinkWins`: a link that was out when the
  request began is live only until the request has taken its first snapshot. One
  proof step per action, one lemma per part.
* **The refinement of `Mail`.** Most steps map to a step of `Mail` or to none; the
  interesting one is a send, which may be a copy of a request that was given up or
  forgotten. That it is within the budget needs copies counted against attempts:
  the mailbox and the leases in workers' hands that have not sent yet together
  number no more than the attempts made (`BudgetInv`).
* **Rollout.** Whoever is past the advisory lock holds it, what lies before the
  file in hand is applied, and a replica that came through has all its files
  (`MigrateInv`). A running replica has the keyring deployed now or the one before
  it, and it and every replica yet to boot have the key of every queued mail
  (`RotationInv`); `Overlapped` keeps this when a replica on either side seals.
* **ProviderEvents.** Every stored event that no failure was about is on the row
  or *carried*: by a handler about to reduce it, or by the finalizer, which has
  not read `email_events` yet or has the event still to replay (`Carried`), or the row
  was retired before it was correlated. The
  critical step is a handler that reduces before the accept: its UPDATE finds no
  row, and the event is carried by the finalizer alone.
  `Carried` gives `OrderIrrelevant` as well: when nobody carries anything, every stored
  event is on the row, and the row shows no more than what is stored.
* **The two views of a row** (`OutboxRow`). In `Outbox` a row is correlated only by the
  owner of its lease, which by `RowInv` finds it pending and without a message id, and an
  event moves only a row that has one. In `ProviderEvents` the same two facts come out of
  the order of the finalizer's statements; a reduction that finds no row is a stutter.
* **Session.** A renewal writes what was computed from an old read. It is capped
  all the same because the cap depends only on `created_at`, which no step
  changes while the row exists (`CallInv`). A call that nobody overtook still sees
  the row it read (`FreshInv`), so its write neither shortens nor drops a session
  that has not run out.
* **The refinement of `SessionPromise`.** The moment that makes an answer true is the
  SELECT, so the call is admitted there, and admission is computed, not recorded: it
  lapses when the clock passes the expiry that was read before the call has decided.
  What a call is about to write then lies within lifetime and cap of the moment it
  writes, although it was computed from an older clock (`LifeInv`, with `CallInv`); and a
  Renew or Touch that finds no row moves nothing, which is the `UNCHANGED` branch of
  `Serve`. A revocation keeps the sessions its DELETE saw until the COMMIT, and they
  exist (`FoundInv`), so the COMMIT ends those, one renewed in between included, and no
  row turns up out of nothing.
* **OAuth.** Both cookies are always of one trip of this browser, or absent, and a
  callback carries both at once (`PairInv`). After a refresh that nobody overtook,
  the cache is what it returned (`CacheInv`).
* **Accounts.** What a request in the middle of its statements relies on is `Sound`:
  a link it is spending is live and its own until it commits, it holds the users row
  from its UPDATE on, no magic-link session has appeared since its DELETE, and the
  evidence it still owes is true. `FlowInv` says this of every request; another
  request's step keeps it because it takes neither lock and opens a magic-link
  session only while holding the users row. `LinkInv` (sessions and spent links
  match) and `EvidenceInv` follow from it at the commits.
* **What escapes a reset** (`EscapeInv`). A login that no reset or disable has
  overtaken was admitted by the password and the switch that still stand, and a reset
  or disable about to commit has listed every live session whose opening did not
  overlap it (`Admitted`). A commit moves every other login in progress to
  `overtaken`; what such a login opens is in `overlap`, and what its rehash writes
  over sets `undone`.
* **Row locks.** `Sound` says which locks a request has; `HoldersProceed` is the
  converse, that a lock has a holder with statements to come: the users row is held
  only by requests that wait for nothing, and a token by requests that wait at most
  for the users row. `SomeoneProceeds` follows: if the users row is locked, its holder
  waits for nobody, and if it is not, nobody does. It is stated through what the
  statements wait for (`Waits`), without ENABLED, which the provers do not know; TLC has
  compared the two forms on the run's instance.
* **Registration.** A request holds the index entry of the email it inserts until it
  ends, so a free row may be filled by one writer only (`IndexInv`); an account names
  its writer, and what the writer wanted says whether it comes with a mail or an
  identity (`AccountInv`). The importer's counts and the lines in
  hand add up to the lines read, and while nothing has failed every line that is not
  in hand has an account (`ImportInv`): a line that committed without an answer is
  found on the replay and counted as skipped.
* **The refinement of `Directory`.** A commit maps to the step that makes the account,
  every other statement to none. That the row is still free when a request commits is
  `IndexInv`; that the request made no other account is `AccountInv`; that signup was open
  is `OpenInv`, for an INSERT made earlier; and that imported rows carry the email of
  their line, on a batch or a replay whose answer may be lost, is `Fills`.
* **Shutdown.** The age of the lease plus the time for what is left of the batch
  never exceeds the claim time plus the time of a full batch (`TimeInv`). Once at most
  one job is left in the drain, `serve` has waited for the worker no longer than the
  worker has spent on that job, so `DrainBudget` lets it finish first (`DrainInv`).
  `OneDeliveryDrains` is of the form [](P => []Q): P makes `DrainInv` true, which no
  step makes false, and which implies Q.
* **RateLimit.** Calls overtake each other and write `updated_at` with a clock that
  seems to run backwards. `Level`, the tokens minus what has been refilled up to
  `updated_at`, does not see this: time and late calls leave it alone, a full bucket
  and a grant lower it. The grants of an interval plus the level never exceed a full
  bucket at the beginning of the interval (`GrantInv`). That a purge does not raise it
  needs the other direction: a bucket is never more than the refill of `MaxFlight` in
  debt, however late its calls (`DebtInv`), and a stale one has been refilled since.

TLC has checked each of these invariants on the run of its module first.

Only model-checked: the liveness properties (`EveryJobSettles`, `EventuallyReflected`,
`EverySessionEnds`, `SignalEndsProcess`, `BootEnds`, `ImportEnds`, `RotationHeals`), which
are out of reach of the prover. Every other property of a passing run is a theorem.
`ImplementsRow`, `CapRespected`, `FirstWriterWins` and the other properties of the table
that no run lists have been given to TLC on the instances above as well.

## Divergences

Two disagreements between the code and what it says have a run that reproduces
them (`findings` in `PROJECT.json`):

* `ProviderEvents_lost`: `webhook.go` says of a 500 that "the event is not lost,
  and the svix-id dedup makes the retry safe". The retry finds the event stored,
  and is acknowledged without reducing it.
* `Rollout_documented`: `keyring.go` says of a rotation that puts the new key in
  front, is deployed, and then drops the old one: "no window where a queued job
  becomes unreadable". During the deploy a replica that has restarted seals with the
  new key, and one that has not claims the mail and retires it. The rotation of run
  `Rollout` deploys the new key *behind* the old one first, and has no such window.

The modules also define these statements of the code, which TLC refutes when they
are given to it as an invariant or property of the module's configuration:

| Statement | Where | What happens |
|---|---|---|
| `OnlyNewestLinkWorks` (`Outbox`) | `token.go:35`: "only the newest link works" | two concurrent requests each miss the other's uncommitted token; `NewestLinkWins` is what holds |
| `OldPasswordSessionsDie` (`Accounts`) | `README.md:273`: a reset revokes all sessions | a login that verified the old hash before the reset opens its session after it; `OnlyOverlapEscapes` is what holds |
| `RefreshOnceSuffices` (`OAuth`) | `jwks.go:68`: "refresh once (handles rotation)" | an older answer is stored between a refresh and the second look; `UnknownKeyMeansOverlap` is what holds. The cache's `ttl` is computed and not used: a withdrawn key stays until another one is missed |
| `LeasedLinkIsLive` (`Outbox`) | `token.go:59`: the worker "re-checks that the link is still live" | the purge of a spent token sets `token_id` to NULL, which Claim takes for a job without a token (`outbox.go:250`) |
| `SentRescues` (`ProviderEvents`) | `outbox.go:489`: "sent only rescues a row whose local accept update was lost" | such a row has no provider message id, and the UPDATE does not find it |
| `DisableEndsEverySession` (`Session`) | `admin.go:48`: "Disabling also revokes every live session" | a login opens a session between the DELETE and the COMMIT; it answers "valid" until the COMMIT, and again if the user is enabled before a validation deletes it. `ImplementsPromise` is what holds |
| `ExpiryNeverShrinks` (`Session`) | `session.go:117`: Validate "extends" | two renewals write in the opposite order of their clock readings |
| `OnlyExpiredDropped` (`Session`) | `session.go:120`: expired sessions are deleted | the DELETE follows a renewal it has not seen |
| `KillSwitchBlocksLogin` (`Accounts`) | `README.md:276`: `disabled=true` blocks login | a login that read the flag earlier opens a session; the next Validate deletes it |
| `OnlyResetChangesPassword` (`Accounts`) | `enduser.go:270`: "Lazy migration" | the rehash overwrites a password a reset set in between |
| `VerifiedHasEvidence` (`Accounts`) | `README.md:176`: action and evidence "share one transaction" in strict mode | handleVerify records its evidence after the UPDATE committed |
| `PoolOutlivesWorker` (`Shutdown`) | `serve.go:73`: "the one email delivery that can be in flight" | runOnce finishes its batch of up to four without looking at the context, which outlasts the drain |
| `LockEndsWithRelease` (`Migrate`) | `db.go:50`: "the session ends on Release anyway" | Release returns the connection, and its lock, to the pool |

## Not modelled

* *Wire formats, HTML, the session, CSRF and post-login cookies, redirect checks,
  configuration, the self-description, metrics*: stateless or immutable.
* *Cryptography* (hashing, AES-GCM, the signatures of webhooks and id_tokens):
  primitives. A check is an action that may fail; which key it needs is modelled.
* *The provider of an OAuth callback* comes from its path and is in no cookie. The
  model fixes it per trip; a code sent to another provider's path is refused there.
* *Row locks on sessions* (the DELETEs of revocations and of `PurgeExpired`): in
  `Accounts` they come after every other lock of a request; two such DELETEs that meet
  are not modelled. *Connections of requests* that outlive the HTTP grace, for which
  `pool.Close` waits too, are not in `Shutdown`.
* *The purge of `email_events`* (`PurgeFinished`): after the retention a duplicate is
  reduced again, which by `ReducerIdempotent` changes no correlated row's status.
* *A restart in the middle of an OAuth trip*: it empties the key cache, which the
  next miss fills, and loses nothing else.
* *An RSA exponent of more than eight bytes* in a provider's key set, which makes
  `toRSA` panic; the request answers 500, which in the model is a failed `Fetch`.
* *Mail providers* are external: one that deduplicates on the idempotency key does
  so for ever in the model (Resend keeps keys for 24 hours; a job's send window is
  shorter).
* *Postgres* is READ COMMITTED as described in each module; disk loss and failover
  to a stale replica are not considered.
* *The verification link* may be spent for nothing: handleVerify marks the address
  after the token is gone. `SpentLinkTookEffect` is about magic links.

## What is left

* Best-effort audit mode has no run of `Accounts` of its own; the theorems cover both
  modes.
* `Accounts` has no abstract specification as `Outbox`, `Session` and `Registration` do:
  what escapes a reset by overlapping it has no short atomic description.
