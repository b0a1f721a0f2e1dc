------------------------------- MODULE OAuth -------------------------------
(***************************************************************************)
(* The OAuth round trip of one browser: handleOAuthStart and               *)
(* handleOAuthCallback of internal/http/enduser.go, the transient cookies  *)
(* that carry state and PKCE verifier between them, Exchange of            *)
(* internal/oauth, and the key cache of jwks.go.                           *)
(*                                                                         *)
(* The server keeps nothing of a trip: the browser's two cookies are its   *)
(* only memory, and all tabs share them.  A request carries the cookies of *)
(* the moment it is sent; its response changes them when it arrives.  The  *)
(* key cache is shared by all requests and held under its mutex only for a *)
(* lookup or an assignment, never while the key set is fetched.            *)
(*                                                                         *)
(* The session, CSRF and post-login cookies are left out.                  *)
(*                                                                         *)
(* A trip stands for the state and the verifier that were drawn for it; it *)
(* is used for new ones when nothing holds these any more.                 *)
(***************************************************************************)
EXTENDS Integers

CONSTANTS
  Request,     \* concurrent callback requests
  Trip,        \* round trips to the provider
  Elsewhere,   \* the trips another browser started
  ApiTrip,     \* trips to GitHub, which signs nothing; the others get an id_token
  MaxKey,      \* signing keys 1 .. MaxKey, in the order the provider uses them
  None

Key == 1..MaxKey
OtherKey == 0  \* the key set also lists a key of another type

ASSUME TripAssumption ==
  /\ Elsewhere \subseteq Trip /\ ApiTrip \subseteq Trip
  /\ MaxKey \in Nat \ {0}
  /\ None \notin Trip \cup {OtherKey}

VARIABLES
  jar,         \* the browser's cookies sesamo_oauth_state and sesamo_pkce
  code,        \* per trip, at the provider: its authorization code
  req,         \* per request: progress and local variables
  signing, published,  \* the provider's signing key and the RSA keys it publishes
  cache,       \* jwksCache.keys
  overtaken    \* history: requests since whose fetch another one stored its own

codeVars == <<jar, code, req, signing, published, cache>>
vars == <<codeVars, overtaken>>

NoCookies == [state |-> None, verifier |-> None]

\* trip and verifier: the code and the PKCE cookie it came with, until the Exchange;
\* kid and answer: the key its id_token names and the key set it fetched, until the
\* key is found or not.
Req == [pc : {"idle", "exchange", "profile", "lookup", "fetch", "store", "reread", "claims",
              "login", "in", "failed"},
        trip : Trip \cup {None}, verifier : Trip \cup {None},
        kid : Key \cup {None}, answer : SUBSET (Key \cup {OtherKey})]

NoReq == [pc |-> "idle", trip |-> None, verifier |-> None, kid |-> None, answer |-> {}]

TypeOK ==
  /\ jar \in [state : Trip \cup {None}, verifier : Trip \cup {None}]
  /\ code \in [Trip -> {"none", "asked", "issued", "spent"}]
  /\ req \in [Request -> Req]
  /\ signing \in Key /\ published \subseteq Key
  /\ cache \subseteq Key \cup {OtherKey}
  /\ overtaken \subseteq Request

Init ==
  /\ jar = NoCookies
  /\ code = [t \in Trip |-> "none"]
  /\ req = [r \in Request |-> NoReq]
  /\ signing = 1 /\ published = {1}
  /\ cache = {}
  /\ overtaken = {}

At(r, step) == req[r].pc = step
Becomes(r, q) == req' = [req EXCEPT ![r] = q]
GoesOn(r, from, to) == At(r, from) /\ Becomes(r, [req[r] EXCEPT !.pc = to])
Now(step) == [NoReq EXCEPT !.pc = step]

-----------------------------------------------------------------------------
(* The browser.                                                            *)

Held(t) == jar.state = t \/ jar.verifier = t \/ \E r \in Request : req[r].trip = t

\* Mutation: a verifier left by an earlier trip is used again.
CookiesKept(t) ==
  [state |-> t, verifier |-> IF jar.verifier = None THEN t ELSE jar.verifier]

\* setTransient of state and verifier, both new.
Cookies(t) == [state |-> t, verifier |-> t]

\* handleOAuthStart, and the browser at the provider's consent page.
OAuthStart(t) ==
  /\ ~Held(t)
  /\ jar' = IF t \in Elsewhere THEN jar ELSE Cookies(t)
  /\ code' = [code EXCEPT ![t] = "asked"]
  /\ UNCHANGED <<req, signing, published, cache>>

\* stateC # "" and SafeEqual.
StateMatches(stateC, stateQ) == stateC = stateQ

\* handleOAuthCallback up to the Exchange: the provider's redirect, with a code or
\* (denied) without, reaches the browser, perhaps twice, perhaps not the browser
\* that started the trip.  The path names the provider and no cookie does: a redirect
\* to another provider's path fails at that provider's Exchange, as a denied one does.
OAuthCallback(r, t, denied) ==
  /\ At(r, "idle")
  /\ IF denied THEN code[t] = "asked" ELSE code[t] \in {"issued", "spent"}
  /\ Becomes(r, IF ~denied /\ StateMatches(jar.state, t)
                 THEN [Now("exchange") EXCEPT !.trip = t, !.verifier = jar.verifier]
                 ELSE Now("failed"))
  /\ UNCHANGED <<jar, code, signing, published, cache>>

\* Every answer of the callback clears both cookies, whosever they are by now;
\* it may also be lost on the way.
Respond(r, lost) ==
  /\ req[r].pc \in {"in", "failed"}
  /\ Becomes(r, NoReq)
  /\ jar' = IF lost THEN jar ELSE NoCookies
  /\ UNCHANGED <<code, signing, published, cache>>

\* oauthCookieMaxAge, the same for both.
CookiesExpire ==
  /\ jar # NoCookies
  /\ jar' = NoCookies
  /\ UNCHANGED <<code, req, signing, published, cache>>

-----------------------------------------------------------------------------
(* The provider.                                                           *)

Consent(t) ==
  /\ code[t] = "asked"
  /\ code' = [code EXCEPT ![t] = "issued"]
  /\ UNCHANGED <<jar, req, signing, published, cache>>

\* It signs with a new key and may withdraw the old ones at once.
Rotate(keep) ==
  /\ signing < MaxKey
  /\ signing' = signing + 1
  /\ published' = IF keep THEN published \cup {signing + 1} ELSE {signing + 1}
  /\ UNCHANGED <<jar, code, req, cache>>

\* A code is good once, with the verifier of its trip.
Redeems(r) == code[req[r].trip] = "issued" /\ req[r].verifier = req[r].trip

-----------------------------------------------------------------------------
(* Exchange.                                                               *)

\* An access token, or an id_token that the provider signs now.
Answered(r) ==
  IF req[r].trip \in ApiTrip THEN Now("profile") ELSE [Now("lookup") EXCEPT !.kid = signing]

\* The POST for tokens: refused, lost or garbled (~ok), or answered.
Exchange(r, ok) ==
  /\ At(r, "exchange")
  /\ Becomes(r, IF Redeems(r) /\ ok THEN Answered(r) ELSE Now("failed"))
  /\ code' = IF Redeems(r) THEN [code EXCEPT ![req[r].trip] = "spent"] ELSE code
  /\ UNCHANGED <<jar, signing, published, cache>>

\* GitHub: fetchUser and fetchPrimaryEmail.
FetchProfile(r, ok) ==
  /\ GoesOn(r, "profile", IF ok THEN "login" ELSE "failed")
  /\ UNCHANGED <<jar, code, signing, published, cache>>

\* cache.key: the first look.
LookUp(r) ==
  /\ At(r, "lookup")
  /\ Becomes(r, IF req[r].kid \in cache THEN Now("claims") ELSE [req[r] EXCEPT !.pc = "fetch"])
  /\ UNCHANGED <<jar, code, signing, published, cache>>

\* refresh: the GET.
Fetch(r, ok) ==
  /\ At(r, "fetch")
  /\ Becomes(r, IF ok THEN [req[r] EXCEPT !.pc = "store", !.answer = published \cup {OtherKey}]
                      ELSE Now("failed"))
  /\ UNCHANGED <<jar, code, signing, published, cache>>

\* Mutation: a key that is no RSA key spoils the set.
ParsedAll(answer) == IF OtherKey \in answer THEN {} ELSE answer

\* The keys of other types are skipped.
Parsed(answer) == answer \ {OtherKey}

\* Mutation: keys fetched before are trusted.
StoreOnce(r) ==
  /\ GoesOn(r, "store", "reread")
  /\ cache' = IF cache = {} THEN Parsed(req[r].answer) ELSE cache
  /\ UNCHANGED <<jar, code, signing, published>>

\* ... and the assignment, of a whole new map.
Store(r) ==
  /\ GoesOn(r, "store", "reread")
  /\ cache' = Parsed(req[r].answer)
  /\ UNCHANGED <<jar, code, signing, published>>

\* cache.key: the second look.
Reread(r) ==
  /\ At(r, "reread")
  /\ Becomes(r, Now(IF req[r].kid \in cache THEN "claims" ELSE "failed"))
  /\ UNCHANGED <<jar, code, signing, published, cache>>

\* verifyIDToken with the key: signature, issuer, audience, expiry; and the email.
Claims(r, ok) ==
  /\ GoesOn(r, "claims", IF ok THEN "login" ELSE "failed")
  /\ UNCHANGED <<jar, code, signing, published, cache>>

\* UpsertByOAuth (module Registration) and loginTx (module Accounts).
Login(r, ok) ==
  /\ GoesOn(r, "login", IF ok THEN "in" ELSE "failed")
  /\ UNCHANGED <<jar, code, signing, published, cache>>

-----------------------------------------------------------------------------
Serves(r) ==
  \/ \E ok \in BOOLEAN : \/ Exchange(r, ok) \/ FetchProfile(r, ok)
                         \/ Fetch(r, ok) \/ Claims(r, ok) \/ Login(r, ok)
  \/ LookUp(r) \/ Store(r) \/ Reread(r)

Acts ==
  \/ \E t \in Trip : OAuthStart(t) \/ Consent(t)
  \/ \E r \in Request, t \in Trip, denied \in BOOLEAN : OAuthCallback(r, t, denied)
  \/ \E r \in Request, lost \in BOOLEAN : Respond(r, lost)
  \/ \E r \in Request : Serves(r)
  \/ \E keep \in BOOLEAN : Rotate(keep)
  \/ CookiesExpire

\* The history variable, which no action reads.
Remember ==
  overtaken' = {r \in Request :
    /\ req'[r].pc \in {"store", "reread"}
    /\ \/ r \in overtaken
       \/ req[r].pc \in {"store", "reread"} /\ \E q \in Request \ {r} : Store(q)}

Next == Acts /\ Remember

Spec == Init /\ [][Next]_vars

\* A handler runs to its end, and a provider that is asked again and again for its
\* key set answers again and again.
FairSpec ==
  /\ Spec
  /\ \A r \in Request : WF_codeVars(Serves(r)) /\ SF_codeVars(Fetch(r, TRUE))

-----------------------------------------------------------------------------
\* handleOAuthCallback: "state from cookie must match state from provider".  With
\* several tabs starting trips, answers clearing each other's cookies, reloads and
\* redirects that reach another browser, a code is offered to the provider only
\* with the verifier of its own trip, and only for a trip of this browser.
ExchangePaired ==
  \A r \in Request :
    At(r, "exchange") => req[r].verifier = req[r].trip /\ req[r].trip \notin Elsewhere

\* cache.key refreshes once, and no lock covers the fetch.  A login is refused for
\* an unknown key that its own refresh returned only when another refresh was
\* stored in between.
UnknownKeyMeansOverlap ==
  \A r \in Request \ overtaken :
    At(r, "reread") /\ req[r].kid \in req[r].answer => req[r].kid \in cache

\* jwksCache: "refreshing on cache miss (e.g. after key rotation introduces a new
\* kid)".  While id_tokens keep arriving, the cache ends up with the provider's
\* last key for good, also when a refresh begun before the rotation is stored
\* after it.
RotationHeals ==
  []<>(\E r \in Request : At(r, "lookup")) => <>[](signing \in cache)

\* The inductive invariant: both cookies are of one trip of this browser, and so is
\* what a callback carries; after a refresh the cache is what it returned.
PairInv ==
  /\ jar.state = jar.verifier /\ jar.state \notin Elsewhere
  /\ \A r \in Request :
       At(r, "exchange") => req[r].verifier = req[r].trip /\ req[r].trip \in Trip \ Elsewhere

CacheInv ==
  \A r \in Request \ overtaken : At(r, "reread") => cache = Parsed(req[r].answer)

\* Does not hold (README, "Divergences").
\* jwks.go: "refresh once (handles rotation)".
RefreshOnceSuffices ==
  \A r \in Request : At(r, "reread") /\ req[r].kid \in req[r].answer => req[r].kid \in cache
=============================================================================
