---------------------------- MODULE OAuthProofs ----------------------------
(***************************************************************************)
(* Proofs about OAuth for every set of trips and concurrent callbacks, and *)
(* every number of key rotations.                                          *)
(***************************************************************************)
EXTENDS OAuth, TLAPS

\* Requests start with no trip and no key, and no request has run yet.
LEMMA InitInv ==
  Init => TypeOK /\ PairInv /\ CacheInv
<1> SUFFICES ASSUME Init PROVE TypeOK /\ PairInv /\ CacheInv
  OBVIOUS
<1>1. NoReq \in Req
  BY DEF NoReq, Req
<1>2. TypeOK
  BY <1>1, TripAssumption DEF Init, TypeOK, NoCookies, Key
<1>3. PairInv /\ CacheInv
  BY TripAssumption DEF Init, PairInv, CacheInv, NoCookies, At, NoReq
<1> QED
  BY <1>2, <1>3

\* A step of request r leaves every other request alone.
LEMMA OthersStay ==
  ASSUME NEW r \in Request, NEW q \in Request, q # r, TypeOK,
         Serves(r) \/ (\E lost \in BOOLEAN : Respond(r, lost))
           \/ (\E t \in Trip, denied \in BOOLEAN : OAuthCallback(r, t, denied))
  PROVE  req'[q] = req[q]
  BY DEF Serves, Respond, OAuthCallback, Exchange, FetchProfile, Fetch, Claims, Login, LookUp,
         Store, Reread, GoesOn, Becomes, TypeOK

\* Where a step of the handler leads: never back to the Exchange, and to the second
\* look only from a store.
LEMMA Onward ==
  ASSUME TypeOK, NEW r \in Request, Serves(r) \/ (\E lost \in BOOLEAN : Respond(r, lost))
  PROVE  req'[r].pc # "exchange" /\ (req'[r].pc = "reread" => Store(r))
<1>f. ASSUME NEW step PROVE Now(step).pc = step /\ [Now(step) EXCEPT !.kid = signing].pc = step
  BY DEF Now, NoReq
<1>b. ASSUME NEW q, Becomes(r, q) PROVE req'[r] = q
  BY <1>b DEF Becomes, TypeOK
<1>g. ASSUME NEW from, NEW to, GoesOn(r, from, to) PROVE req'[r].pc = to
  <2>1. req'[r] = [req[r] EXCEPT !.pc = to]
    BY <1>b, <1>g DEF GoesOn
  <2> QED
    BY <2>1 DEF TypeOK, Req
<1>1. ASSUME NEW ok \in BOOLEAN, Exchange(r, ok)
      PROVE  req'[r].pc \in {"failed", "profile", "lookup"}
  <2>1. \/ req'[r] = Now("failed") \/ req'[r] = Now("profile")
        \/ req'[r] = [Now("lookup") EXCEPT !.kid = signing]
    BY <1>1, <1>b DEF Exchange, Answered
  <2> QED
    BY <2>1, <1>f
<1>2. ASSUME NEW ok \in BOOLEAN, FetchProfile(r, ok) \/ Claims(r, ok) \/ Login(r, ok)
      PROVE  req'[r].pc \in {"login", "in", "failed"}
  BY <1>2, <1>g DEF FetchProfile, Claims, Login
<1>3. ASSUME NEW ok \in BOOLEAN, Fetch(r, ok) PROVE req'[r].pc \in {"store", "failed"}
  <2>1. \/ req'[r] = [req[r] EXCEPT !.pc = "store", !.answer = published \cup {OtherKey}]
        \/ req'[r] = Now("failed")
    BY <1>3, <1>b DEF Fetch
  <2> QED
    BY <2>1, <1>f DEF TypeOK, Req
<1>4. CASE LookUp(r)
  <2>1. req'[r] = Now("claims") \/ req'[r] = [req[r] EXCEPT !.pc = "fetch"]
    BY <1>4, <1>b DEF LookUp
  <2>2. req'[r].pc \in {"claims", "fetch"}
    BY <2>1, <1>f DEF TypeOK, Req
  <2> QED
    BY <2>2
<1>5. CASE Reread(r)
  <2>1. req'[r] = Now("claims") \/ req'[r] = Now("failed")
    BY <1>5, <1>b DEF Reread
  <2> QED
    BY <2>1, <1>f
<1>6. CASE Store(r)
  BY <1>6, <1>g DEF Store
<1>7. ASSUME NEW lost \in BOOLEAN, Respond(r, lost) PROVE req'[r].pc = "idle"
  BY <1>7, <1>b DEF Respond, NoReq
<1> QED
  BY <1>1, <1>2, <1>3, <1>4, <1>5, <1>6, <1>7 DEF Serves

\* Every step preserves types.
LEMMA StepType ==
  ASSUME TypeOK, [Next]_vars
  PROVE  TypeOK'
<1> USE TripAssumption
<1>h. overtaken' \subseteq Request
  BY DEF Next, Remember, vars, TypeOK
<1>n. \A step \in {"idle", "exchange", "profile", "lookup", "fetch", "store", "reread", "claims",
                   "login", "in", "failed"} : Now(step) \in Req
  BY DEF Now, NoReq, Req
<1>r. \A r \in Request : req[r] \in Req
  BY DEF TypeOK
<1>b. ASSUME NEW r \in Request, NEW q \in Req, Becomes(r, q) PROVE req' \in [Request -> Req]
  BY <1>b DEF Becomes, TypeOK
<1>g. ASSUME NEW r \in Request, NEW to \in {"idle", "exchange", "profile", "lookup", "fetch",
                 "store", "reread", "claims", "login", "in", "failed"}
      PROVE  [req[r] EXCEPT !.pc = to] \in Req
  BY <1>g, <1>r DEF Req
<1>1. CASE \E t \in Trip : OAuthStart(t) \/ Consent(t)
  BY <1>1, <1>h DEF OAuthStart, Consent, TypeOK, Cookies
<1>2. ASSUME NEW r \in Request, NEW t \in Trip, NEW denied \in BOOLEAN, OAuthCallback(r, t, denied)
      PROVE  TypeOK'
  <2>1. [Now("exchange") EXCEPT !.trip = t, !.verifier = jar.verifier] \in Req
    BY <1>n DEF Req, TypeOK
  <2>2. Now("failed") \in Req
    BY <1>n
  <2>3. req' \in [Request -> Req]
    BY <1>2, <1>b, <2>1, <2>2 DEF OAuthCallback
  <2> QED
    BY <1>2, <1>h, <2>3 DEF OAuthCallback, TypeOK
<1>3. ASSUME NEW r \in Request, NEW lost \in BOOLEAN, Respond(r, lost) PROVE TypeOK'
  <2>1. NoReq \in Req
    BY DEF NoReq, Req
  <2>2. req' \in [Request -> Req]
    BY <1>3, <1>b, <2>1 DEF Respond
  <2> QED
    BY <1>3, <1>h, <2>2 DEF Respond, TypeOK, NoCookies
<1>4. ASSUME NEW r \in Request, Serves(r) PROVE TypeOK'
  <2>1. ASSUME NEW ok \in BOOLEAN, Exchange(r, ok) PROVE TypeOK'
    <3>1. [Now("lookup") EXCEPT !.kid = signing] \in Req
      BY <1>n DEF Req, TypeOK
    <3>2. req' \in [Request -> Req]
      BY <2>1, <1>b, <1>n, <3>1 DEF Exchange, Answered
    <3>3. code' \in [Trip -> {"none", "asked", "issued", "spent"}]
      BY <2>1 DEF Exchange, TypeOK
    <3> QED
      BY <2>1, <1>h, <3>2, <3>3 DEF Exchange, TypeOK
  <2>2. ASSUME NEW ok \in BOOLEAN, FetchProfile(r, ok) \/ Claims(r, ok) \/ Login(r, ok)
        PROVE  TypeOK'
    <3>1. req' \in [Request -> Req]
      BY <2>2, <1>b, <1>g DEF FetchProfile, Claims, Login, GoesOn
    <3> QED
      BY <2>2, <1>h, <3>1 DEF FetchProfile, Claims, Login, TypeOK
  <2>3. ASSUME NEW ok \in BOOLEAN, Fetch(r, ok) PROVE TypeOK'
    <3>1. [req[r] EXCEPT !.pc = "store", !.answer = published \cup {OtherKey}] \in Req
      BY <1>r DEF Req, TypeOK
    <3>2. req' \in [Request -> Req]
      BY <2>3, <1>b, <1>n, <3>1 DEF Fetch
    <3> QED
      BY <2>3, <1>h, <3>2 DEF Fetch, TypeOK
  <2>4. CASE LookUp(r) \/ Reread(r)
    <3>1. req' \in [Request -> Req]
      BY <2>4, <1>b, <1>n, <1>g DEF LookUp, Reread
    <3> QED
      BY <2>4, <1>h, <3>1 DEF LookUp, Reread, TypeOK
  <2>5. CASE Store(r)
    <3>1. req' \in [Request -> Req]
      BY <2>5, <1>b, <1>g DEF Store, GoesOn
    <3>2. cache' \subseteq Key \cup {OtherKey}
      BY <2>5, <1>r DEF Store, Parsed, Req
    <3> QED
      BY <2>5, <1>h, <3>1, <3>2 DEF Store, TypeOK
  <2> QED
    BY <1>4, <2>1, <2>2, <2>3, <2>4, <2>5 DEF Serves
<1>5. ASSUME NEW keep \in BOOLEAN, Rotate(keep) PROVE TypeOK'
  BY <1>5, <1>h DEF Rotate, TypeOK, Key
<1>6. CASE CookiesExpire
  BY <1>6, <1>h DEF CookiesExpire, TypeOK, NoCookies
<1>7. CASE UNCHANGED vars
  BY <1>7 DEF vars, codeVars, TypeOK
<1> QED
  BY <1>1, <1>2, <1>3, <1>4, <1>5, <1>6, <1>7 DEF Next, Acts

\* The cookies are written and cleared together, and a callback copies both.
LEMMA StepPair ==
  ASSUME TypeOK, PairInv, [Next]_vars
  PROVE  PairInv'
<1> USE TripAssumption
<1>1. jar'.state = jar'.verifier /\ jar'.state \notin Elsewhere
  <2>1. ASSUME NEW r \in Request, Serves(r) PROVE UNCHANGED jar
    BY <2>1 DEF Serves, Exchange, FetchProfile, Fetch, Claims, Login, LookUp, Store, Reread
  <2>2. ASSUME NEW t \in Trip, OAuthStart(t)
        PROVE  jar' = jar \/ (jar' = Cookies(t) /\ t \notin Elsewhere)
    BY <2>2 DEF OAuthStart
  <2>3. \/ UNCHANGED jar
        \/ \E t \in Trip \ Elsewhere : jar' = Cookies(t)
        \/ jar' = NoCookies
    BY <2>1, <2>2 DEF Next, Acts, Consent, OAuthCallback, Respond, Rotate, CookiesExpire,
                        vars, codeVars
  <2> QED
    BY <2>3 DEF PairInv, Cookies, NoCookies
<1>2. ASSUME NEW q \in Request, At(q, "exchange")'
      PROVE  req'[q].verifier = req'[q].trip /\ req'[q].trip \in Trip \ Elsewhere
  <2>1. CASE req'[q] = req[q]
    BY <1>2, <2>1 DEF PairInv, At
  <2>2. ASSUME NEW t \in Trip, NEW denied \in BOOLEAN, OAuthCallback(q, t, denied)
        PROVE  req'[q].verifier = req'[q].trip /\ req'[q].trip \in Trip \ Elsewhere
    <3>1. req'[q] = [Now("exchange") EXCEPT !.trip = t, !.verifier = jar.verifier]
          /\ jar.state = t
      BY <1>2, <2>2 DEF OAuthCallback, Becomes, At, Now, NoReq, TypeOK, StateMatches
    <3> QED
      BY <3>1 DEF PairInv, Now, NoReq
  <2>3. ASSUME Serves(q) \/ (\E lost \in BOOLEAN : Respond(q, lost)) PROVE FALSE
    BY <1>2, <2>3, Onward DEF At
  <2>4. CASE UNCHANGED req
    BY <2>1, <2>4
  <2>5. ASSUME NEW r \in Request, r # q,
               Serves(r) \/ (\E lost \in BOOLEAN : Respond(r, lost))
                 \/ (\E t \in Trip, denied \in BOOLEAN : OAuthCallback(r, t, denied))
        PROVE  req'[q] = req[q]
    BY <2>5, OthersStay
  <2>6. (\E t \in Trip : OAuthStart(t) \/ Consent(t)) \/ (\E keep \in BOOLEAN : Rotate(keep))
          \/ CookiesExpire \/ UNCHANGED vars => UNCHANGED req
    BY DEF OAuthStart, Consent, Rotate, CookiesExpire, vars, codeVars
  <2> QED
    BY <2>1, <2>2, <2>3, <2>4, <2>5, <2>6 DEF Next, Acts
<1> QED
  BY <1>1, <1>2 DEF PairInv

\* Only a store changes the cache; it overtakes every other request that fetched.
LEMMA StepCache ==
  ASSUME TypeOK, CacheInv, [Next]_vars
  PROVE  CacheInv'
<1> SUFFICES ASSUME NEW q \in Request, q \notin overtaken', At(q, "reread")'
             PROVE  cache' = Parsed(req'[q].answer)
  BY DEF CacheInv, Parsed
<1>1. CASE UNCHANGED vars
  BY <1>1 DEF vars, codeVars, CacheInv, At
<1>2. ASSUME Next, req'[q] = req[q], \A r \in Request \ {q} : ~Store(r), ~Store(q)
      PROVE  cache' = Parsed(req'[q].answer)
  <2>1. q \notin overtaken /\ At(q, "reread")
    BY <1>2 DEF Next, Remember, At
  <2>2. cache' = cache
    BY <1>2 DEF Next, Acts, OAuthStart, Consent, OAuthCallback, Respond, Serves, Rotate,
      CookiesExpire, Exchange, FetchProfile, Fetch, Claims, Login, LookUp, Reread
  <2> QED
    BY <1>2, <2>1, <2>2 DEF CacheInv
<1>3. CASE Store(q)
  BY <1>3 DEF Store, GoesOn, Becomes, Parsed, TypeOK, Req
<1>4. ASSUME Next, NEW r \in Request \ {q}, Store(r) PROVE FALSE
  <2>1. req'[q] = req[q]
    BY <1>4, OthersStay DEF Serves
  <2> QED
    BY <1>4, <2>1 DEF Next, Remember, At
<1>5. ASSUME Serves(q) \/ (\E lost \in BOOLEAN : Respond(q, lost)), ~Store(q) PROVE FALSE
  BY <1>5, Onward DEF At
<1>9. ASSUME NEW t \in Trip, NEW denied \in BOOLEAN, OAuthCallback(q, t, denied) PROVE FALSE
  BY <1>9 DEF OAuthCallback, Becomes, TypeOK, At, Now, NoReq
<1>6. (\E t \in Trip : OAuthStart(t) \/ Consent(t)) \/ (\E keep \in BOOLEAN : Rotate(keep))
        \/ CookiesExpire => req'[q] = req[q]
  BY DEF OAuthStart, Consent, Rotate, CookiesExpire
<1>7. ASSUME NEW r \in Request, r # q,
             Serves(r) \/ (\E lost \in BOOLEAN : Respond(r, lost))
               \/ (\E t \in Trip, denied \in BOOLEAN : OAuthCallback(r, t, denied))
      PROVE  req'[q] = req[q]
  BY <1>7, OthersStay
<1>8. ASSUME Next, ~Store(q) PROVE req'[q] = req[q]
  BY <1>5, <1>6, <1>7, <1>8, <1>9 DEF Next, Acts
<1> QED
  BY <1>1, <1>2, <1>3, <1>4, <1>8

\* The invariants hold throughout.
THEOREM Inductive ==
  Spec => [](TypeOK /\ PairInv /\ CacheInv)
<1>1. TypeOK /\ PairInv /\ CacheInv /\ [Next]_vars => (TypeOK /\ PairInv /\ CacheInv)'
  BY StepType, StepPair, StepCache
<1> QED
  BY <1>1, InitInv, PTL DEF Spec

\* Whatever tabs, reloads, late answers and other browsers do to the cookies, a code
\* is exchanged only with its own trip's verifier.
THEOREM PairingSafety ==
  Spec => []ExchangePaired
<1>1. PairInv => ExchangePaired
  BY DEF PairInv, ExchangePaired
<1> QED
  BY <1>1, Inductive, PTL

\* A key that its own refresh returned is unknown to a login only when another
\* refresh was stored in between.
THEOREM RefreshSafety ==
  Spec => []UnknownKeyMeansOverlap
<1>1. TypeOK /\ CacheInv => UnknownKeyMeansOverlap
  BY TripAssumption DEF CacheInv, UnknownKeyMeansOverlap, Parsed, TypeOK, Req, Key, OtherKey
<1> QED
  BY <1>1, Inductive, PTL
=============================================================================
