--------------------------- MODULE AccountsProofs ---------------------------
(***************************************************************************)
(* Proofs about Accounts for any number of requests, links and sessions,   *)
(* in strict and in best-effort mode.                                      *)
(***************************************************************************)
EXTENDS Accounts, TLAPS

\* A new account: nothing is spent, open or recorded.
LEMMA InitInv == Init => IInv
<1> SUFFICES ASSUME Init PROVE IInv
  OBVIOUS
<1>1. NoReq \in Req
  BY DEF NoReq, Req, Step
<1>2. TypeOK
  BY <1>1, ConstantAssumption DEF Init, TypeOK, Origin
<1>3. Happened({}) /\ EvidenceInv
  BY DEF Happened, EvidenceInv, EvidenceIsTrue, StrictEvidence, Init, Link
<1>4. FlowInv
  BY <1>3 DEF FlowInv, Sound, Init, NoReq
<1>5. LinkInv
  BY ConstantAssumption DEF LinkInv, LinkOpensOneSession, SpentLinkTookEffect, Init, Link
<1> QED
  BY <1>2, <1>3, <1>4, <1>5 DEF IInv

\* What is recorded stays true: no action takes it back.
Kept ==
  /\ \A t \in Link : link[t] = "spent" => link'[t] = "spent"
  /\ verified => verified'
  /\ \A s \in Session : /\ session[s] # "none" => session'[s] # "none"
                        /\ session[s] = "gone" => session'[s] = "gone"

\* What was true of the events in E stays true.
LEMMA HappenedStays ==
  ASSUME Kept, NEW E, Happened(E)
  PROVE  Happened(E)'
BY DEF Kept, Happened, Link

\* What request q holds is left alone.
Steady(q) ==
  /\ \A t \in Link : linkLock[t] = q => linkLock'[t] = q /\ link'[t] = link[t]
  /\ userLock = q =>
       /\ userLock' = q
       /\ \A s \in Session : session'[s] = "live" /\ origin'[s] \in MagicLink
                               => session[s] = "live" /\ origin[s] \in MagicLink

\* What a request relies on survives a step that leaves alone what it holds.
LEMMA SoundStays ==
  ASSUME Kept, NEW r \in Request, NEW q \in Req, Steady(r), Sound(r, q)
  PROVE  Sound(r, q)'
<1>1. Happened(q.due)'
  BY HappenedStays DEF Sound
<1>2. q.pc \in {"rCommit", "dCommit"} =>
        \A s \in LiveSessions' : origin'[s] \in MagicLink => s \in q.doomed
  BY DEF Sound, Steady, LiveSessions
<1> QED
  BY <1>1, <1>2 DEF Sound, Steady, Kept, Link

\* One request moves, the others rely on what they did.
LEMMA FlowStep ==
  ASSUME TypeOK, FlowInv, Kept, NEW r \in Request, NEW q, Becomes(r, q),
         \A p \in Request \ {r} : Steady(p),
         Sound(r, q)'
  PROVE  FlowInv'
<1> SUFFICES ASSUME NEW p \in Request PROVE Sound(p, req[p])'
  BY DEF FlowInv
<1> PICK x : x = req'[p]
  OBVIOUS
<1>0. SUFFICES Sound(p, x)'
  BY DEF Sound, Happened, LiveSessions
<1>1. CASE p = r
  BY <1>1 DEF Becomes, TypeOK
<1>2. CASE p # r
  <2>1. x = req[p] /\ x \in Req
    BY <1>2 DEF Becomes, TypeOK
  <2>2. Sound(p, x)
    BY <2>1 DEF FlowInv
  <2> QED
    BY <1>2, <2>1, <2>2, SoundStays
<1> QED
  BY <1>1, <1>2

\* No statement of any request takes back what has happened.
LEMMA StepKept ==
  ASSUME IInv, Acts
  PROVE  Kept
<1> USE DEF IInv, TypeOK, Kept
<1>1. ASSUME NEW S, session' = Ended(S), UNCHANGED <<link, verified>> PROVE Kept
  BY <1>1 DEF Ended
<1>2. ASSUME UNCHANGED <<link, session>>, verified' = verified \/ verified' PROVE Kept
  <2>1. verified => verified'
    BY <1>2, Zenon
  <2> QED
    BY <1>2, <2>1
<1>v. ASSUME NEW r \in Request, NEW t \in VerifyLink, VerifyConsume(r, t) PROVE Kept
  BY <1>v DEF VerifyConsume
<1>o. ASSUME NEW r \in Request, NEW s \in Session, Logout(r, s) PROVE Kept
  BY <1>1, <1>o DEF Logout
<1>n. ASSUME NEW r \in Request, NEW S \in SUBSET Session, RevokeNow(r, S) PROVE Kept
  BY <1>1, <1>n DEF RevokeNow
<1>3. ASSUME NEW r \in Request, Starts(r) PROVE Kept
  <2>1. ASSUME UNCHANGED <<link, session, verified>> PROVE Kept
    BY <1>2, <2>1
  <2> HIDE DEF Kept
  <2> QED
    BY <1>v, <1>o, <1>n, <1>3, <2>1 DEF Starts, PasswordLogin, OAuthLogin, MagicConsume,
          ResetConsume, SetDisabled
<1>4. ASSUME NEW r \in Request, NEW s \in Session, LoginCommit(r, s) PROVE Kept
  BY <1>4 DEF LoginCommit, Opens
<1>5. ASSUME NEW r \in Request, NEW s \in Session, MagicCommit(r, s) PROVE Kept
  BY <1>5 DEF MagicCommit, Opens
<1>6. ASSUME NEW r \in Request, ResetCommit(r) PROVE Kept
  BY <1>6 DEF ResetCommit, Ended
<1>7. ASSUME NEW r \in Request, Continues(r) PROVE Kept
  BY <1>1, <1>2, <1>4, <1>5, <1>6, <1>7 DEF Continues, Rehash, OAuthUpsert, MagicCheck,
        MagicVerify, ResetSet, RevokeInTx, VerifyMark, DisableCommit, EnableCommit, Record
<1>8. ASSUME NEW r \in Request, Fail(r) PROVE Kept
  BY <1>8 DEF Fail
<1>9. ASSUME NEW t \in Link, ExpireLink(t) PROVE Kept
  BY <1>9 DEF ExpireLink
<1> QED
  BY <1>3, <1>7, <1>8, <1>9 DEF Acts

\* The pieces of a request that actions put together.
LEMMA ReqTypes ==
  ASSUME TypeOK
  PROVE  /\ NoReq \in Req
         /\ \A r \in Request, to \in Step : [req[r] EXCEPT !.pc = to] \in Req
         /\ \A E \in SUBSET Event : [NoReq EXCEPT !.pc = "record", !.due = E] \in Req
         /\ \A to \in Step, t \in Link \cup {None}, p \in Password \cup {None} :
              /\ [NoReq EXCEPT !.pc = to, !.link = t, !.typed = p] \in Req
              /\ [NoReq EXCEPT !.pc = to, !.link = t] \in Req
              /\ [NoReq EXCEPT !.pc = to, !.typed = p] \in Req
         /\ \A r \in Request, to \in Step :
              [req[r] EXCEPT !.pc = to, !.doomed = LiveSessions] \in Req
<1>1. NoReq \in Req
  BY DEF NoReq, Req, Step
<1>2. "record" \in Step
  BY DEF Step
<1>3. LiveSessions \subseteq Session
  BY DEF LiveSessions
<1> QED
  BY <1>1, <1>2, <1>3 DEF TypeOK, Req

\* The evidence the flows record is evidence of an event.
LEMMA EventTypes ==
  /\ \A s \in Session : {<<"login", s>>} \in SUBSET Event /\ {<<"revoked", s>>} \in SUBSET Event
  /\ \A t \in ResetLink : {<<"reset", t>>} \in SUBSET Event
  /\ \A t \in VerifyLink : {<<"verified", t>>} \in SUBSET Event
  /\ \A S \in SUBSET Session : {"revoked"} \X S \in SUBSET Event
BY DEF Event

\* Becomes gives r another request state.
LEMMA ReqStep ==
  ASSUME TypeOK, NEW r \in Request, NEW q \in Req, Becomes(r, q)
  PROVE  req' \in [Request -> Req]
BY DEF Becomes, TypeOK

\* Ending a transaction keeps the types of the locks.
LEMMA UnlockTypes ==
  ASSUME TypeOK, NEW r \in Request, Unlocked(r)
  PROVE  linkLock' \in [Link -> Request \cup {None}] /\ userLock' \in Request \cup {None}
BY DEF Unlocked, TypeOK

\* auditedTx keeps the types of requests and log.
LEMMA AuditedTypes ==
  ASSUME TypeOK, NEW r \in Request, NEW from, NEW E \in SUBSET Event, Audited(r, from, E)
  PROVE  req' \in [Request -> Req] /\ evidence' \subseteq Event
<1>1. req' \in [Request -> Req]
  BY ReqTypes, ReqStep DEF Audited
<1>2. evidence' \subseteq Event
  BY DEF Audited, TypeOK
<1> QED
  BY <1>1, <1>2

\* The history variables keep their types with the others.
LEMMA HistoryTypes ==
  ASSUME TypeOK, password' \in Password, Remember
  PROVE  overtaken' \subseteq Request /\ overlap' \subseteq Session
           /\ chosen' \in Password /\ undone' \in BOOLEAN
<1>1. overtaken' \subseteq Request /\ overlap' \subseteq Session
  BY DEF Remember
<1>2. chosen' \in Password
  BY DEF Remember, TypeOK
<1>3. undone' \in BOOLEAN
  BY DEF Remember, TypeOK
<1> QED
  BY <1>1, <1>2, <1>3

\* Every statement keeps the types of what it writes.
LEMMA StepType ==
  ASSUME IInv, [Next]_vars
  PROVE  TypeOK'
<1> USE ReqTypes, ReqStep, UnlockTypes, AuditedTypes
<1>t. TypeOK
  BY DEF IInv
<1>c. CASE UNCHANGED vars
  BY <1>t, <1>c DEF TypeOK, vars, history
<1> SUFFICES ASSUME Next PROVE TypeOK'
  BY <1>c
<1> DEFINE Fine ==
      /\ password' \in Password
      /\ legacy' \in BOOLEAN /\ disabled' \in BOOLEAN /\ verified' \in BOOLEAN
      /\ linked' \in BOOLEAN
      /\ link' \in [Link -> {"live", "spent", "expired"}]
      /\ linkLock' \in [Link -> Request \cup {None}]
      /\ userLock' \in Request \cup {None}
      /\ session' \in [Session -> {"none", "live", "gone"}]
      /\ origin' \in [Session -> Origin]
      /\ evidence' \subseteq Event
      /\ req' \in [Request -> Req]
<1> SUFFICES Fine
  BY <1>t, HistoryTypes DEF Next, TypeOK
<1>e. ASSUME NEW S PROVE Ended(S) \in [Session -> {"none", "live", "gone"}]
  BY <1>t DEF Ended, TypeOK
<1>l. MagicLink \subseteq Link /\ ResetLink \subseteq Link /\ VerifyLink \subseteq Link
  BY DEF Link
<1>1. ASSUME NEW r \in Request, NEW p \in Password, PasswordLogin(r, p) PROVE Fine
  <2>1. [NoReq EXCEPT !.pc = IF legacy THEN "rehash" ELSE "login", !.typed = p] \in Req
    BY <1>t DEF Step
  <2> QED
    BY <1>t, <1>1, <2>1 DEF PasswordLogin, TypeOK
<1>2. ASSUME NEW r \in Request, OAuthLogin(r) PROVE Fine
  BY <1>t, <1>2 DEF OAuthLogin, Goes, TypeOK, Step
<1>3. ASSUME NEW r \in Request, NEW t \in MagicLink, MagicConsume(r, t) PROVE Fine
  BY <1>t, <1>l, <1>3 DEF MagicConsume, SpendsInTx, TypeOK, Step
<1>4. ASSUME NEW r \in Request, NEW t \in ResetLink, NEW p \in Password, ResetConsume(r, t, p)
      PROVE  Fine
  BY <1>t, <1>l, <1>4 DEF ResetConsume, SpendsInTx, TypeOK, Step
<1>5. ASSUME NEW r \in Request, NEW t \in VerifyLink, VerifyConsume(r, t) PROVE Fine
  <2>1. [NoReq EXCEPT !.pc = "vMark", !.link = t] \in Req
    BY <1>t, <1>l DEF Step
  <2> QED
    BY <1>t, <1>l, <1>5, <2>1 DEF VerifyConsume, TypeOK
<1>6. ASSUME NEW r \in Request, NEW s \in Session, Logout(r, s) PROVE Fine
  <2>1. {<<"revoked", s>>} \in SUBSET Event
    BY EventTypes
  <2> QED
    BY <1>t, <1>e, <1>6, <2>1 DEF Logout, TypeOK
<1>7. ASSUME NEW r \in Request, NEW S \in SUBSET Session, RevokeNow(r, S) PROVE Fine
  <2>1. {"revoked"} \X S \in SUBSET Event
    BY EventTypes
  <2> QED
    BY <1>t, <1>e, <1>7, <2>1 DEF RevokeNow, TypeOK
<1>8. ASSUME NEW r \in Request, NEW d \in BOOLEAN, SetDisabled(r, d) PROVE Fine
  BY <1>t, <1>8 DEF SetDisabled, Goes, LocksUser, TypeOK, Step
<1>9. ASSUME NEW r \in Request, NEW ok \in BOOLEAN, Rehash(r, ok) PROVE Fine
  <2>1. req[r].typed \in Password
    BY <1>9 DEF IInv, FlowInv, Sound, Rehash, Goes, At
  <2>2. legacy' \in BOOLEAN
    BY <1>9 DEF Rehash
  <2> QED
    BY <1>t, <1>9, <2>1, <2>2 DEF Rehash, Goes, TypeOK, Step
<1>10. ASSUME NEW r \in Request, OAuthUpsert(r) PROVE Fine
  BY <1>t, <1>10 DEF OAuthUpsert, Goes, TypeOK, Step
<1>11. ASSUME NEW r \in Request, MagicCheck(r) PROVE Fine
  BY <1>t, <1>11 DEF MagicCheck, Goes, TypeOK, Step
<1>12. ASSUME NEW r \in Request, MagicVerify(r) \/ ResetSet(r) PROVE Fine
  BY <1>t, <1>12 DEF MagicVerify, ResetSet, Goes, LocksUser, TypeOK, Step
<1>13. ASSUME NEW r \in Request, NEW s \in Session, LoginCommit(r, s) PROVE Fine
  <2>1. {<<"login", s>>} \in SUBSET Event
    BY EventTypes
  <2>2. (IF req[r].typed = None THEN "oauth" ELSE req[r].typed) \in Origin
    BY <1>t DEF TypeOK, Req, Origin
  <2> QED
    BY <1>t, <1>13, <2>1, <2>2 DEF LoginCommit, Opens, TypeOK
<1>14. ASSUME NEW r \in Request, NEW s \in Session, MagicCommit(r, s) PROVE Fine
  <2>1. {<<"login", s>>} \in SUBSET Event
    BY EventTypes
  <2>2. req[r].link \in MagicLink
    BY <1>14 DEF IInv, FlowInv, Sound, MagicCommit, Audited, At
  <2> QED
    BY <1>t, <1>l, <1>14, <2>1, <2>2 DEF MagicCommit, Opens, TypeOK, Origin
<1>15. ASSUME NEW r \in Request, RevokeInTx(r) PROVE Fine
  <2>1. [req[r] EXCEPT !.pc = IF At(r, "rRevoke") THEN "rCommit" ELSE "dCommit",
                       !.doomed = LiveSessions] \in Req
    BY <1>t DEF Step
  <2> QED
    BY <1>t, <1>15, <2>1 DEF RevokeInTx, TypeOK
<1>16. ASSUME NEW r \in Request, ResetCommit(r) PROVE Fine
  <2>1. req[r].link \in ResetLink /\ req[r].typed \in Password
    BY <1>16 DEF IInv, FlowInv, Sound, ResetCommit, Audited, At
  <2>2. {<<"reset", req[r].link>>} \in SUBSET Event
    BY <2>1, EventTypes
  <2> QED
    BY <1>t, <1>l, <1>e, <1>16, <2>1, <2>2 DEF ResetCommit, TypeOK
<1>17. ASSUME NEW r \in Request, VerifyMark(r) PROVE Fine
  <2>1. req[r].link \in VerifyLink
    BY <1>17 DEF IInv, FlowInv, Sound, VerifyMark, At
  <2>2. {<<"verified", req[r].link>>} \in SUBSET Event
    BY <2>1, EventTypes
  <2> QED
    BY <1>t, <1>17, <2>2 DEF VerifyMark, TypeOK
<1>18. ASSUME NEW r \in Request, DisableCommit(r) \/ EnableCommit(r) PROVE Fine
  <2>0. {} \in SUBSET Event
    OBVIOUS
  <2>a. \E from : Audited(r, from, {})
    BY <1>18, Zenon DEF DisableCommit, EnableCommit
  <2>1. req' \in [Request -> Req] /\ evidence' \subseteq Event
    BY <1>t, <2>0, <2>a
  <2>2. Unlocked(r) /\ disabled' \in BOOLEAN
    BY <1>18 DEF DisableCommit, EnableCommit
  <2>3. session' \in [Session -> {"none", "live", "gone"}]
    BY <1>t, <1>e, <1>18 DEF DisableCommit, EnableCommit, TypeOK
  <2> QED
    BY <1>t, <1>18, <2>1, <2>2, <2>3 DEF DisableCommit, EnableCommit, TypeOK
<1>19. ASSUME NEW r \in Request, Record(r) PROVE Fine
  <2>1. req[r].due \subseteq Event
    BY <1>t DEF TypeOK, Req
  <2> QED
    BY <1>t, <1>19, <2>1 DEF Record, TypeOK
<1>20. ASSUME NEW r \in Request, Fail(r) PROVE Fine
  BY <1>t, <1>20 DEF Fail, TypeOK
<1>21. ASSUME NEW t \in Link, ExpireLink(t) PROVE Fine
  BY <1>t, <1>21 DEF ExpireLink, TypeOK
<1> HIDE DEF Fine
<1> QED
  BY <1>1, <1>2, <1>3, <1>4, <1>5, <1>6, <1>7, <1>8, <1>9, <1>10, <1>11, <1>12, <1>13, <1>14,
     <1>15, <1>16, <1>17, <1>18, <1>19, <1>20, <1>21 DEF Next, Acts, Starts, Continues

\* Requests that hold nothing.
LEMMA FreeSound ==
  ASSUME NEW r, NEW E, Happened(E)'
  PROVE  Sound(r, NoReq)' /\ Sound(r, [NoReq EXCEPT !.pc = "record", !.due = E])'
<1>1. Happened({})'
  BY DEF Happened
<1> QED
  BY <1>1 DEF Sound, NoReq

\* What a session may not do to a request that holds the users row.
NoNewMagic ==
  \A s \in Session : session'[s] = "live" /\ origin'[s] \in MagicLink
                       => session[s] = "live" /\ origin[s] \in MagicLink

\* Ending sessions opens none.
LEMMA EndedIsNoNewMagic ==
  ASSUME TypeOK, NEW S, session' = Ended(S), origin' = origin
  PROVE  NoNewMagic
BY DEF NoNewMagic, Ended, TypeOK

\* A request steps on no other's locks.
LEMMA OthersSteady ==
  ASSUME TypeOK, NEW r \in Request, NEW p \in Request \ {r},
         NoNewMagic \/ userLock = r,
         \A t \in Link : link'[t] # link[t] => linkLock[t] \in {r, None},
         \/ UNCHANGED linkLock
         \/ \E t \in Link : linkLock[t] = None /\ linkLock' = [linkLock EXCEPT ![t] = r]
         \/ Unlocked(r),
         UNCHANGED userLock \/ LocksUser(r) \/ Unlocked(r)
  PROVE  Steady(p)
<1>1. ASSUME NEW t \in Link, linkLock[t] = p PROVE linkLock'[t] = p /\ link'[t] = link[t]
  BY <1>1, ConstantAssumption DEF TypeOK, Unlocked
<1>2. ASSUME userLock = p PROVE userLock' = p /\ NoNewMagic
  BY <1>2, ConstantAssumption DEF LocksUser, Unlocked
<1> QED
  BY <1>1, <1>2 DEF Steady, NoNewMagic

\* What auditedTx leaves of a request.
LEMMA AuditedSound ==
  ASSUME NEW r \in Request, NEW from, NEW E, Audited(r, from, E), Happened(E)'
  PROVE  \E q : Becomes(r, q) /\ Sound(r, q)'
<1>1. CASE Strict
  BY <1>1, FreeSound DEF Audited
<1>2. CASE ~Strict
  BY <1>2, FreeSound DEF Audited
<1> QED
  BY <1>1, <1>2

\* Together: what an action of r has to show.
LEMMA FlowFrom ==
  ASSUME IInv, Acts, NEW r \in Request,
         \E q : Becomes(r, q) /\ Sound(r, q)',
         NoNewMagic \/ userLock = r,
         \A t \in Link : link'[t] # link[t] => linkLock[t] \in {r, None},
         \/ UNCHANGED linkLock
         \/ \E t \in Link : linkLock[t] = None /\ linkLock' = [linkLock EXCEPT ![t] = r]
         \/ Unlocked(r),
         UNCHANGED userLock \/ LocksUser(r) \/ Unlocked(r)
  PROVE  FlowInv'
<1>1. TypeOK /\ FlowInv /\ Kept
  BY StepKept DEF IInv
<1>2. \A p \in Request \ {r} : Steady(p)
  BY <1>1, OthersSteady
<1>3. PICK q : Becomes(r, q) /\ Sound(r, q)'
  OBVIOUS
<1> QED
  BY <1>1, <1>2, <1>3, FlowStep

\* A request that goes on inside its transaction, having written nothing but locks.
LEMMA GoesSound ==
  ASSUME IInv, Acts, NEW r \in Request, NEW q \in Req,
         UNCHANGED <<link, session, origin>>,
         q.due = req[r].due,
         q.pc = "rehash" => q.typed \in Password,
         q.pc \in {"mCheck", "mVerify", "mCommit"} =>
           q.link \in MagicLink /\ linkLock'[q.link] = r /\ link[q.link] = "live",
         q.pc \in {"rSet", "rRevoke", "rCommit"} =>
           /\ q.link \in ResetLink /\ linkLock'[q.link] = r /\ link[q.link] = "live"
           /\ q.typed \in Password,
         q.pc = "vMark" => q.link \in VerifyLink /\ link[q.link] = "spent",
         q.pc \in {"mCommit", "rRevoke", "rCommit", "dRevoke", "dCommit", "eCommit"}
           => userLock' = r,
         q.pc \in {"rCommit", "dCommit"} => LiveSessions \subseteq q.doomed
  PROVE  Sound(r, q)'
<1>1. Happened(q.due)'
  BY StepKept, HappenedStays DEF IInv, FlowInv, Sound
<1>2. LiveSessions' = LiveSessions
  BY DEF LiveSessions
<1> QED
  BY <1>1, <1>2 DEF Sound

\* The fields of a request that goes on.
LEMMA GoesFields ==
  ASSUME TypeOK, NEW r \in Request, NEW from, NEW to \in Step, Goes(r, from, to)
  PROVE  \E q \in Req : /\ Becomes(r, q) /\ q.pc = to /\ q.link = req[r].link
                        /\ q.typed = req[r].typed /\ q.due = req[r].due
<1> DEFINE q == [req[r] EXCEPT !.pc = to]
<1>1. q \in Req /\ Becomes(r, q)
  BY ReqTypes DEF Goes
<1>2. q.pc = to /\ q.link = req[r].link /\ q.typed = req[r].typed /\ q.due = req[r].due
  BY DEF TypeOK, Req
<1> QED
  BY <1>1, <1>2

\* The fields of a request that starts.
LEMMA StartFields ==
  ASSUME NEW to, NEW t, NEW p
  PROVE  /\ [NoReq EXCEPT !.pc = to, !.link = t, !.typed = p].pc = to
         /\ [NoReq EXCEPT !.pc = to, !.link = t, !.typed = p].link = t
         /\ [NoReq EXCEPT !.pc = to, !.link = t, !.typed = p].typed = p
         /\ [NoReq EXCEPT !.pc = to, !.link = t, !.typed = p].due = {}
BY DEF NoReq

\* Every request keeps to its locks and owes only true evidence.
LEMMA StepFlow ==
  ASSUME IInv, [Next]_vars
  PROVE  FlowInv'
<1>t. TypeOK /\ FlowInv
  BY DEF IInv
<1>l. MagicLink \subseteq Link /\ ResetLink \subseteq Link /\ VerifyLink \subseteq Link
  BY DEF Link
<1>c. CASE UNCHANGED vars
  BY <1>t, <1>c DEF FlowInv, Sound, Happened, LiveSessions, vars, history
<1> SUFFICES ASSUME Acts PROVE FlowInv'
  BY <1>c DEF Next
<1>k. Kept
  BY StepKept
<1>m. ASSUME UNCHANGED <<session, origin>> PROVE NoNewMagic
  BY <1>m DEF NoNewMagic
<1>f. \A r \in Request : Sound(r, NoReq)'
  <2>1. Happened({})'
    BY DEF Happened
  <2> QED
    BY <2>1, FreeSound
<1>1. ASSUME NEW r \in Request, NEW p \in Password, PasswordLogin(r, p) PROVE FlowInv'
  <2>1. PICK q : q = [NoReq EXCEPT !.pc = IF legacy THEN "rehash" ELSE "login", !.typed = p]
    OBVIOUS
  <2>2. Sound(r, q)'
    <3>1. q.pc \in {"rehash", "login"} /\ q.typed = p /\ q.due = {}
      BY <2>1 DEF NoReq
    <3> QED
      BY <3>1 DEF Sound, Happened
  <2>3. \E x : Becomes(r, x) /\ Sound(r, x)'
    BY <1>1, <2>1, <2>2 DEF PasswordLogin
  <2> QED
    BY <1>1, <1>m, <2>3, FlowFrom DEF PasswordLogin
<1>2. ASSUME NEW r \in Request,
             OAuthLogin(r) \/ OAuthUpsert(r) \/ (\E ok \in BOOLEAN : Rehash(r, ok))
      PROVE  FlowInv'
  <2>0. PICK from \in {"idle", "rehash", "refresh", "link"}, to \in {"refresh", "link", "login"} :
           Goes(r, from, to) \/ Becomes(r, NoReq)
    <3>1. CASE OAuthLogin(r)
      BY <3>1 DEF OAuthLogin
    <3>2. CASE \E ok \in BOOLEAN : Rehash(r, ok)
      BY <3>2 DEF Rehash
    <3>3. CASE OAuthUpsert(r)
      BY <3>3 DEF OAuthUpsert, Goes
    <3> QED
      BY <1>2, <3>1, <3>2, <3>3
  <2>1. UNCHANGED <<link, linkLock, userLock, session, origin>>
    BY <1>2 DEF OAuthLogin, OAuthUpsert, Rehash
  <2>2. CASE Goes(r, from, to)
    <3>1. to \in Step
      BY DEF Step
    <3>2. PICK q \in Req : Becomes(r, q) /\ q.pc = to /\ q.due = req[r].due
      BY <1>t, <2>2, <3>1, GoesFields
    <3>3. Sound(r, q)'
      BY <2>1, <3>2, GoesSound
    <3> QED
      BY <2>1, <1>m, <3>2, <3>3, FlowFrom
  <2>3. CASE Becomes(r, NoReq)
    BY <2>1, <2>3, <1>m, <1>f, FlowFrom
  <2> QED
    BY <2>0, <2>2, <2>3
<1>3. ASSUME NEW r \in Request, NEW t \in MagicLink, MagicConsume(r, t) PROVE FlowInv'
  <2>1. PICK q : q = [NoReq EXCEPT !.pc = "mCheck", !.link = t, !.typed = None]
    OBVIOUS
  <2>2. Sound(r, q)'
    <3>1. q.pc = "mCheck" /\ q.link = t /\ q.due = {}
      BY <2>1, StartFields
    <3> QED
      BY <1>t, <1>l, <1>3, <3>1 DEF Sound, Happened, MagicConsume, SpendsInTx, Consumable, TypeOK
  <2>3. \E x : Becomes(r, x) /\ Sound(r, x)'
    BY <1>3, <2>1, <2>2 DEF MagicConsume, SpendsInTx
  <2> QED
    BY <1>3, <1>l, <1>m, <2>3, FlowFrom DEF MagicConsume, SpendsInTx, Consumable
<1>4. ASSUME NEW r \in Request, NEW t \in ResetLink, NEW p \in Password, ResetConsume(r, t, p)
      PROVE  FlowInv'
  <2>1. PICK q : q = [NoReq EXCEPT !.pc = "rSet", !.link = t, !.typed = p]
    OBVIOUS
  <2>2. Sound(r, q)'
    <3>1. q.pc = "rSet" /\ q.link = t /\ q.typed = p /\ q.due = {}
      BY <2>1, StartFields
    <3> QED
      BY <1>t, <1>l, <1>4, <3>1 DEF Sound, Happened, ResetConsume, SpendsInTx, Consumable, TypeOK
  <2>3. \E x : Becomes(r, x) /\ Sound(r, x)'
    BY <1>4, <2>1, <2>2 DEF ResetConsume, SpendsInTx
  <2> QED
    BY <1>4, <1>l, <1>m, <2>3, FlowFrom DEF ResetConsume, SpendsInTx, Consumable
<1>5. ASSUME NEW r \in Request, NEW t \in VerifyLink, VerifyConsume(r, t) PROVE FlowInv'
  <2>1. PICK q : q = [NoReq EXCEPT !.pc = "vMark", !.link = t]
    OBVIOUS
  <2>2. Sound(r, q)'
    <3>1. q.pc = "vMark" /\ q.link = t /\ q.due = {}
      BY <2>1 DEF NoReq
    <3> QED
      BY <1>t, <1>l, <1>5, <3>1 DEF Sound, Happened, VerifyConsume, TypeOK
  <2>3. \E x : Becomes(r, x) /\ Sound(r, x)'
    BY <1>5, <2>1, <2>2 DEF VerifyConsume
  <2>4. \A u \in Link : link'[u] # link[u] => linkLock[u] \in {r, None}
    BY <1>t, <1>l, <1>5 DEF VerifyConsume, Consumable, TypeOK
  <2> QED
    BY <1>5, <1>m, <2>3, <2>4, FlowFrom DEF VerifyConsume
<1>6. ASSUME NEW r \in Request, NEW s \in Session, Logout(r, s) PROVE FlowInv'
  <2>1. Happened({<<"revoked", s>>})'
    BY <1>t, <1>6 DEF Logout, Happened, Ended, TypeOK
  <2>2. \E x : Becomes(r, x) /\ Sound(r, x)'
    BY <1>6, <2>1, AuditedSound DEF Logout
  <2>3. NoNewMagic
    BY <1>t, <1>6, EndedIsNoNewMagic DEF Logout
  <2> QED
    BY <1>6, <2>2, <2>3, FlowFrom DEF Logout
<1>7. ASSUME NEW r \in Request, NEW S \in SUBSET Session, RevokeNow(r, S) PROVE FlowInv'
  <2>0. S \subseteq LiveSessions
    BY <1>7 DEF RevokeNow
  <2>1. Happened({"revoked"} \X S)'
    BY <1>t, <1>7, <2>0 DEF RevokeNow, Happened, Ended, LiveSessions, TypeOK
  <2>2. \E x : Becomes(r, x) /\ Sound(r, x)'
    BY <1>7, <2>1, FreeSound DEF RevokeNow
  <2>3. NoNewMagic
    BY <1>t, <1>7, EndedIsNoNewMagic DEF RevokeNow
  <2> QED
    BY <1>7, <2>2, <2>3, FlowFrom DEF RevokeNow
<1>8. ASSUME NEW r \in Request, NEW d \in BOOLEAN, SetDisabled(r, d) PROVE FlowInv'
  <2>0. PICK to \in {"dRevoke", "eCommit"} : Goes(r, "idle", to)
    BY <1>8 DEF SetDisabled
  <2>1. to \in Step
    BY DEF Step
  <2>2. PICK q \in Req : Becomes(r, q) /\ q.pc = to /\ q.due = req[r].due
    BY <1>t, <2>0, <2>1, GoesFields
  <2>3. Sound(r, q)'
    BY <1>8, <2>2, GoesSound DEF SetDisabled, LocksUser
  <2> QED
    BY <1>8, <1>m, <2>2, <2>3, FlowFrom DEF SetDisabled
<1>9. ASSUME NEW r \in Request, MagicCheck(r) PROVE FlowInv'
  <2>1. CASE disabled
    BY <1>9, <2>1, <1>m, <1>f, FlowFrom DEF MagicCheck
  <2>2. CASE ~disabled
    <3>1. Goes(r, "mCheck", "mVerify") /\ UNCHANGED <<link, linkLock, userLock, session, origin>>
      BY <1>9, <2>2 DEF MagicCheck
    <3>2. PICK q \in Req : /\ Becomes(r, q) /\ q.pc = "mVerify" /\ q.link = req[r].link
                           /\ q.due = req[r].due
      BY <1>t, <3>1, GoesFields DEF Step
    <3>3. q.link \in MagicLink /\ linkLock[q.link] = r /\ link[q.link] = "live"
      BY <1>t, <3>1, <3>2 DEF FlowInv, Sound, Goes, At
    <3>4. Sound(r, q)'
      BY <3>1, <3>2, <3>3, GoesSound
    <3> QED
      BY <1>m, <3>1, <3>2, <3>4, FlowFrom
  <2> QED
    BY <2>1, <2>2
<1>10. ASSUME NEW r \in Request, MagicVerify(r) PROVE FlowInv'
  <2>1. PICK q \in Req : /\ Becomes(r, q) /\ q.pc = "mCommit" /\ q.link = req[r].link
                         /\ q.due = req[r].due
    BY <1>t, <1>10, GoesFields DEF MagicVerify, Step
  <2>2. q.link \in MagicLink /\ linkLock[q.link] = r /\ link[q.link] = "live"
    BY <1>t, <1>10, <2>1 DEF FlowInv, Sound, MagicVerify, Goes, At
  <2>3. Sound(r, q)'
    BY <1>10, <2>1, <2>2, GoesSound DEF MagicVerify, LocksUser
  <2> QED
    BY <1>10, <1>m, <2>1, <2>3, FlowFrom DEF MagicVerify
<1>11. ASSUME NEW r \in Request, ResetSet(r) PROVE FlowInv'
  <2>1. PICK q \in Req : /\ Becomes(r, q) /\ q.pc = "rRevoke" /\ q.link = req[r].link
                         /\ q.typed = req[r].typed /\ q.due = req[r].due
    BY <1>t, <1>11, GoesFields DEF ResetSet, Step
  <2>2. /\ q.link \in ResetLink /\ linkLock[q.link] = r /\ link[q.link] = "live"
        /\ q.typed \in Password
    BY <1>t, <1>11, <2>1 DEF FlowInv, Sound, ResetSet, Goes, At
  <2>3. Sound(r, q)'
    BY <1>11, <2>1, <2>2, GoesSound DEF ResetSet, LocksUser
  <2> QED
    BY <1>11, <1>m, <2>1, <2>3, FlowFrom DEF ResetSet
<1>12. ASSUME NEW r \in Request, RevokeInTx(r) PROVE FlowInv'
  <2>1. PICK to \in {"rCommit", "dCommit"} :
           /\ Becomes(r, [req[r] EXCEPT !.pc = to, !.doomed = LiveSessions])
           /\ At(r, IF to = "rCommit" THEN "rRevoke" ELSE "dRevoke")
    <3>1. CASE At(r, "rRevoke")
      BY <1>12, <3>1 DEF RevokeInTx
    <3>2. CASE ~At(r, "rRevoke")
      BY <1>12, <3>2 DEF RevokeInTx
    <3> QED
      BY <3>1, <3>2
  <2>2. PICK q : q = [req[r] EXCEPT !.pc = to, !.doomed = LiveSessions]
    OBVIOUS
  <2>3. /\ q \in Req /\ q.pc = to /\ q.link = req[r].link /\ q.typed = req[r].typed
        /\ q.doomed = LiveSessions /\ q.due = req[r].due
    <3>1. to \in Step /\ req[r] \in Req
      BY <1>t DEF Step, TypeOK
    <3>2. q \in Req
      BY <1>t, <2>2, <3>1, ReqTypes
    <3> QED
      BY <2>2, <3>1, <3>2 DEF Req
  <2>4. UNCHANGED <<link, linkLock, userLock, session, origin>>
    BY <1>12 DEF RevokeInTx
  <2>5. /\ userLock = r
        /\ to = "rCommit" => /\ q.link \in ResetLink /\ linkLock[q.link] = r
                             /\ link[q.link] = "live" /\ q.typed \in Password
    BY <1>t, <2>1, <2>3 DEF FlowInv, Sound, At
  <2>6. Sound(r, q)'
    BY <2>3, <2>4, <2>5, GoesSound
  <2>7. Becomes(r, q)
    BY <2>1, <2>2
  <2> QED
    BY <1>m, <2>4, <2>6, <2>7, FlowFrom
<1>13. ASSUME NEW r \in Request, NEW s \in Session, LoginCommit(r, s) PROVE FlowInv'
  <2>1. Happened({<<"login", s>>})'
    BY <1>t, <1>13 DEF LoginCommit, Opens, Happened, TypeOK
  <2>2. \E x : Becomes(r, x) /\ Sound(r, x)'
    BY <1>13, <2>1, AuditedSound DEF LoginCommit
  <2>3. (IF req[r].typed = None THEN "oauth" ELSE req[r].typed) \notin MagicLink
    BY <1>t, ConstantAssumption DEF TypeOK, Req
  <2>4. NoNewMagic
    BY <1>t, <1>13, <2>3 DEF NoNewMagic, LoginCommit, Opens, TypeOK
  <2> QED
    BY <1>13, <2>2, <2>4, FlowFrom DEF LoginCommit
<1>14. ASSUME NEW r \in Request, NEW s \in Session, MagicCommit(r, s) PROVE FlowInv'
  <2>0. /\ userLock = r /\ req[r].link \in MagicLink /\ linkLock[req[r].link] = r
    BY <1>t, <1>14 DEF FlowInv, Sound, MagicCommit, Audited, At
  <2>1. Happened({<<"login", s>>})'
    BY <1>t, <1>14 DEF MagicCommit, Opens, Happened, TypeOK
  <2>2. \E x : Becomes(r, x) /\ Sound(r, x)'
    BY <1>14, <2>1, AuditedSound DEF MagicCommit
  <2>3. \A t \in Link : link'[t] # link[t] => linkLock[t] \in {r, None}
    BY <1>t, <1>14, <2>0 DEF MagicCommit, TypeOK
  <2> QED
    BY <1>14, <2>0, <2>2, <2>3, FlowFrom DEF MagicCommit
<1>15. ASSUME NEW r \in Request, ResetCommit(r) PROVE FlowInv'
  <2>0. req[r].link \in ResetLink /\ linkLock[req[r].link] = r
    BY <1>t, <1>15 DEF FlowInv, Sound, ResetCommit, Audited, At
  <2>2. \E x : Becomes(r, x) /\ Sound(r, x)'
    <3>1. PICK E : E = {<<"reset", req[r].link>>}
      OBVIOUS
    <3>2. Happened(E)'
      <4>1. link'[req[r].link] = "spent"
        BY <1>t, <1>l, <1>15, <2>0 DEF ResetCommit, TypeOK
      <4> QED
        BY <3>1, <4>1 DEF Happened
    <3> QED
      BY <1>15, <3>1, <3>2, AuditedSound DEF ResetCommit
  <2>3. \A t \in Link : link'[t] # link[t] => linkLock[t] \in {r, None}
    BY <1>t, <1>15, <2>0 DEF ResetCommit, TypeOK
  <2>4. NoNewMagic
    BY <1>t, <1>15, EndedIsNoNewMagic DEF ResetCommit
  <2> QED
    BY <1>15, <2>2, <2>3, <2>4, FlowFrom DEF ResetCommit
<1>16. ASSUME NEW r \in Request, VerifyMark(r) PROVE FlowInv'
  <2>1. PICK E : E = {<<"verified", req[r].link>>}
    OBVIOUS
  <2>2. Happened(E)'
    BY <1>t, <1>16, <2>1 DEF Happened, VerifyMark, FlowInv, Sound, At
  <2>3. \E x : Becomes(r, x) /\ Sound(r, x)'
    BY <1>16, <2>1, <2>2, FreeSound DEF VerifyMark
  <2> QED
    BY <1>16, <1>m, <2>3, FlowFrom DEF VerifyMark
<1>17. ASSUME NEW r \in Request, DisableCommit(r) \/ EnableCommit(r) PROVE FlowInv'
  <2>1. Happened({})'
    BY DEF Happened
  <2>2. \E x : Becomes(r, x) /\ Sound(r, x)'
    BY <1>17, <2>1, AuditedSound DEF DisableCommit, EnableCommit
  <2>3. NoNewMagic
    BY <1>t, <1>m, <1>17, EndedIsNoNewMagic DEF DisableCommit, EnableCommit
  <2> QED
    BY <1>17, <2>2, <2>3, FlowFrom DEF DisableCommit, EnableCommit
<1>18. ASSUME NEW r \in Request, Record(r) \/ Fail(r) PROVE FlowInv'
  BY <1>18, <1>m, <1>f, FlowFrom DEF Record, Fail
<1>19. ASSUME NEW t \in Link, ExpireLink(t) PROVE FlowInv'
  <2> SUFFICES ASSUME NEW r \in Request PROVE Sound(r, req[r])'
    BY DEF FlowInv
  <2>1. PICK q \in Req : q = req[r]
    BY <1>t DEF TypeOK
  <2>2. Steady(r) /\ Sound(r, q)
    BY <1>t, <1>19, <2>1, ConstantAssumption DEF Steady, ExpireLink, FlowInv, TypeOK
  <2>3. Sound(r, q)'
    BY <1>k, <2>2, SoundStays
  <2> QED
    BY <1>19, <2>1, <2>3 DEF ExpireLink, Sound, Happened, LiveSessions
<1> QED
  BY <1>1, <1>2, <1>3, <1>4, <1>5, <1>6, <1>7, <1>8, <1>9, <1>10, <1>11, <1>12, <1>13, <1>14,
     <1>15, <1>16, <1>17, <1>18, <1>19 DEF Acts, Starts, Continues

-----------------------------------------------------------------------------
(* Links and sessions.                                                     *)

\* A step that neither opens a session nor spends a magic link.
LEMMA LinkStays ==
  ASSUME LinkInv, UNCHANGED origin,
         \A s \in Session : session'[s] = "none" => session[s] = "none",
         \A t \in MagicLink : link'[t] = "spent" <=> link[t] = "spent"
  PROVE  LinkInv'
BY DEF LinkInv, LinkOpensOneSession, SpentLinkTookEffect

\* A magic link is spent by the session it opens, and by nothing else.
LEMMA StepLink ==
  ASSUME IInv, [Next]_vars
  PROVE  LinkInv'
<1>t. TypeOK /\ FlowInv /\ LinkInv
  BY DEF IInv
<1>l. MagicLink \subseteq Link /\ ResetLink \subseteq Link /\ VerifyLink \subseteq Link
  BY DEF Link
<1>c. CASE UNCHANGED vars
  BY <1>t, <1>c, LinkStays DEF vars
<1> SUFFICES ASSUME Acts PROVE LinkInv'
  BY <1>c DEF Next
<1>u. ASSUME UNCHANGED <<link, session, origin>> PROVE LinkInv'
  BY <1>t, <1>u, LinkStays
<1>e. ASSUME NEW S, session' = Ended(S), UNCHANGED <<link, origin>> PROVE LinkInv'
  BY <1>t, <1>e, LinkStays DEF Ended, TypeOK
<1>1. ASSUME NEW r \in Request, Starts(r) PROVE LinkInv'
  <2>1. ASSUME NEW t \in VerifyLink, VerifyConsume(r, t) PROVE LinkInv'
    <3>1. \A u \in MagicLink : link'[u] = link[u]
      BY <1>t, <1>l, <2>1, ConstantAssumption DEF VerifyConsume, TypeOK
    <3> QED
      BY <1>t, <2>1, <3>1, LinkStays DEF VerifyConsume
  <2>2. ASSUME NEW s \in Session, Logout(r, s) PROVE LinkInv'
    BY <1>e, <2>2 DEF Logout
  <2>3. ASSUME NEW S \in SUBSET Session, RevokeNow(r, S) PROVE LinkInv'
    BY <1>e, <2>3 DEF RevokeNow
  <2> QED
    BY <1>u, <1>1, <2>1, <2>2, <2>3 DEF Starts, PasswordLogin, OAuthLogin, MagicConsume,
       ResetConsume, SetDisabled
<1>2. ASSUME NEW r \in Request, NEW s \in Session, LoginCommit(r, s) PROVE LinkInv'
  <2>1. (IF req[r].typed = None THEN "oauth" ELSE req[r].typed) \notin MagicLink
    BY <1>t, ConstantAssumption DEF TypeOK, Req
  <2>2. origin[s] \notin MagicLink /\ origin'[s] \notin MagicLink
    BY <1>t, <1>2, <2>1, ConstantAssumption DEF LoginCommit, Opens, LinkInv, TypeOK
  <2>3. /\ \A x \in Session \ {s} : origin'[x] = origin[x] /\ session'[x] = session[x]
        /\ session'[s] = "live" /\ link' = link
    BY <1>t, <1>2 DEF LoginCommit, Opens, TypeOK
  <2> QED
    BY <1>t, <2>2, <2>3 DEF LinkInv, LinkOpensOneSession, SpentLinkTookEffect
<1>3. ASSUME NEW r \in Request, NEW s \in Session, MagicCommit(r, s) PROVE LinkInv'
  <2>1. PICK l \in MagicLink : l = req[r].link /\ link[l] = "live"
    BY <1>t, <1>3 DEF FlowInv, Sound, MagicCommit, Audited, At
  <2>2. \A x \in Session : origin[x] # l
    BY <1>t, <2>1 DEF LinkInv, SpentLinkTookEffect
  <2>3. /\ \A x \in Session \ {s} : origin'[x] = origin[x] /\ session'[x] = session[x]
        /\ origin'[s] = l /\ session'[s] = "live"
        /\ link'[l] = "spent" /\ \A t \in MagicLink \ {l} : link'[t] = link[t]
    BY <1>t, <1>l, <1>3, <2>1 DEF MagicCommit, Opens, TypeOK
  <2>4. origin[s] \notin MagicLink
    BY <1>t, <1>3, ConstantAssumption DEF MagicCommit, Opens, LinkInv
  <2>5. LinkOpensOneSession'
    BY <1>t, <2>2, <2>3 DEF LinkInv, LinkOpensOneSession
  <2>6. SpentLinkTookEffect'
    BY <1>t, <2>2, <2>3, <2>4 DEF LinkInv, SpentLinkTookEffect
  <2> QED
    BY <1>t, <2>3, <2>5, <2>6 DEF LinkInv
<1>4. ASSUME NEW r \in Request, ResetCommit(r) PROVE LinkInv'
  <2>1. req[r].link \in ResetLink
    BY <1>t, <1>4 DEF FlowInv, Sound, ResetCommit, Audited, At
  <2>2. \A u \in MagicLink : link'[u] = link[u]
    BY <1>t, <1>l, <1>4, <2>1, ConstantAssumption DEF ResetCommit, TypeOK
  <2> QED
    BY <1>t, <1>4, <2>2, LinkStays DEF ResetCommit, Ended, TypeOK
<1>5. ASSUME NEW r \in Request, Continues(r) PROVE LinkInv'
  <2>1. ASSUME DisableCommit(r) PROVE LinkInv'
    BY <1>e, <2>1 DEF DisableCommit
  <2> QED
    BY <1>u, <1>2, <1>3, <1>4, <1>5, <2>1 DEF Continues, Rehash, OAuthUpsert, MagicCheck,
       MagicVerify, ResetSet, RevokeInTx, VerifyMark, EnableCommit, Record
<1>6. ASSUME NEW r \in Request, Fail(r) PROVE LinkInv'
  BY <1>u, <1>6 DEF Fail
<1>7. ASSUME NEW t \in Link, ExpireLink(t) PROVE LinkInv'
  BY <1>t, <1>l, <1>7, LinkStays DEF ExpireLink, TypeOK
<1> QED
  BY <1>1, <1>5, <1>6, <1>7 DEF Acts

-----------------------------------------------------------------------------
(* Evidence.                                                               *)

\* What is new in the log is true, and what is new and strict is in the log.
LEMMA EvidenceFrom ==
  ASSUME EvidenceInv, Kept, evidence \subseteq evidence', Happened(evidence)',
         Strict => /\ \A s \in Session : session'[s] # session[s] /\ session[s] = "none"
                                           => <<"login", s>> \in evidence'
                   /\ \A t \in ResetLink : link'[t] = "spent" /\ link[t] # "spent"
                                             => <<"reset", t>> \in evidence'
  PROVE  EvidenceInv'
<1>1. EvidenceIsTrue'
  BY DEF EvidenceIsTrue, Happened
<1>2. StrictEvidence'
  BY <1>1 DEF EvidenceInv, StrictEvidence, EvidenceIsTrue, Happened
<1> QED
  BY <1>1, <1>2 DEF EvidenceInv

\* A commit whose evidence E is true.
LEMMA AuditedEvidence ==
  ASSUME EvidenceInv, Kept, NEW r \in Request, NEW from, NEW E, Audited(r, from, E), Happened(E)',
         \A s \in Session : session'[s] # session[s] /\ session[s] = "none" => <<"login", s>> \in E,
         \A t \in ResetLink : link'[t] = "spent" /\ link[t] # "spent" => <<"reset", t>> \in E
  PROVE  EvidenceInv'
<1>1. Happened(evidence)
  BY DEF EvidenceInv, EvidenceIsTrue
<1>2. PICK L : L = evidence
  OBVIOUS
<1>3. Happened(L)'
  BY <1>1, <1>2, HappenedStays
<1>4. evidence' = L \/ evidence' = L \cup E
  BY <1>2 DEF Audited
<1>5. Happened(evidence)'
  BY <1>3, <1>4 DEF Happened
<1>6. evidence \subseteq evidence' /\ (Strict => E \subseteq evidence')
  BY DEF Audited
<1> QED
  BY <1>5, <1>6, EvidenceFrom

\* The log says what happened, and in strict mode all of it.
LEMMA StepEvidence ==
  ASSUME IInv, [Next]_vars
  PROVE  EvidenceInv'
<1>t. TypeOK /\ FlowInv /\ EvidenceInv
  BY DEF IInv
<1>c. CASE UNCHANGED vars
  BY <1>t, <1>c DEF EvidenceInv, EvidenceIsTrue, Happened, StrictEvidence, vars
<1> SUFFICES ASSUME Acts PROVE EvidenceInv'
  BY <1>c DEF Next
<1>k. Kept
  BY StepKept
<1>h. ASSUME UNCHANGED evidence PROVE Happened(evidence)'
  <2>1. PICK L : L = evidence
    OBVIOUS
  <2>2. Happened(L)'
    BY <1>t, <1>k, <2>1, HappenedStays DEF EvidenceInv, EvidenceIsTrue
  <2> QED
    BY <1>h, <2>1, <2>2 DEF Happened
<1>u. ASSUME UNCHANGED evidence,
             \A s \in Session : session[s] = "none" => session'[s] = "none",
             \A t \in ResetLink : link'[t] = "spent" => link[t] = "spent"
      PROVE  EvidenceInv'
  BY <1>t, <1>k, <1>h, <1>u, EvidenceFrom
<1>l. ResetLink \subseteq Link /\ VerifyLink \subseteq Link /\ MagicLink \subseteq Link
  BY DEF Link
<1>1. ASSUME NEW r \in Request, Starts(r) PROVE EvidenceInv'
  <2>1. ASSUME NEW t \in VerifyLink, VerifyConsume(r, t) PROVE EvidenceInv'
    <3>1. \A u \in ResetLink : link'[u] = link[u]
      BY <1>t, <1>l, <2>1, ConstantAssumption DEF VerifyConsume, TypeOK
    <3> QED
      BY <1>u, <2>1, <3>1 DEF VerifyConsume
  <2>2. ASSUME NEW s \in Session, Logout(r, s) PROVE EvidenceInv'
    <3>1. Happened({<<"revoked", s>>})'
      BY <1>t, <2>2 DEF Logout, Happened, Ended, TypeOK
    <3>2. \A x \in Session : session[x] = "none" => session'[x] = "none"
      BY <1>t, <2>2 DEF Logout, Ended, TypeOK
    <3> QED
      BY <1>t, <1>k, <2>2, <3>1, <3>2, AuditedEvidence DEF Logout
  <2>3. ASSUME NEW S \in SUBSET Session, RevokeNow(r, S) PROVE EvidenceInv'
    BY <1>t, <1>u, <2>3 DEF RevokeNow, Ended, TypeOK
  <2>4. ASSUME UNCHANGED <<link, session, evidence>> PROVE EvidenceInv'
    BY <1>u, <2>4
  <2> QED
    BY <1>1, <2>1, <2>2, <2>3, <2>4 DEF Starts, PasswordLogin, OAuthLogin, MagicConsume,
       ResetConsume, SetDisabled
<1>2. ASSUME NEW r \in Request, NEW s \in Session, LoginCommit(r, s) \/ MagicCommit(r, s)
      PROVE  EvidenceInv'
  <2>1. PICK from : Audited(r, from, {<<"login", s>>})
    BY <1>2 DEF LoginCommit, MagicCommit
  <2>2. session' = [session EXCEPT ![s] = "live"]
    BY <1>2 DEF LoginCommit, MagicCommit, Opens
  <2>3. Happened({<<"login", s>>})'
    BY <1>t, <2>2 DEF Happened, TypeOK
  <2>4. \A t \in ResetLink : link'[t] = link[t]
    <3>1. CASE LoginCommit(r, s)
      BY <3>1 DEF LoginCommit
    <3>2. CASE MagicCommit(r, s)
      <4>1. req[r].link \in MagicLink
        BY <1>t, <3>2 DEF FlowInv, Sound, MagicCommit, Audited, At
      <4> QED
        BY <1>t, <1>l, <3>2, <4>1, ConstantAssumption DEF MagicCommit, TypeOK
    <3> QED
      BY <1>2, <3>1, <3>2
  <2>5. \A x \in Session : session'[x] # session[x] => x = s
    BY <1>t, <2>2 DEF TypeOK
  <2> QED
    BY <1>t, <1>k, <2>1, <2>3, <2>4, <2>5, AuditedEvidence
<1>3. ASSUME NEW r \in Request, ResetCommit(r) PROVE EvidenceInv'
  <2>1. PICK l \in ResetLink : l = req[r].link
    BY <1>t, <1>3 DEF FlowInv, Sound, ResetCommit, Audited, At
  <2>2. Audited(r, "rCommit", {<<"reset", l>>})
    BY <1>3, <2>1 DEF ResetCommit
  <2>3. link'[l] = "spent" /\ \A t \in ResetLink \ {l} : link'[t] = link[t]
    BY <1>t, <1>l, <1>3, <2>1 DEF ResetCommit, TypeOK
  <2>4. Happened({<<"reset", l>>})'
    BY <2>3 DEF Happened
  <2>5. \A x \in Session : session[x] = "none" => session'[x] = "none"
    BY <1>t, <1>3 DEF ResetCommit, Ended, TypeOK
  <2> QED
    BY <1>t, <1>k, <2>2, <2>3, <2>4, <2>5, AuditedEvidence
<1>4. ASSUME NEW r \in Request, DisableCommit(r) \/ EnableCommit(r) PROVE EvidenceInv'
  <2>1. PICK from : Audited(r, from, {})
    BY <1>4 DEF DisableCommit, EnableCommit
  <2>2. Happened({})'
    BY DEF Happened
  <2>3. \A x \in Session : session[x] = "none" => session'[x] = "none"
    BY <1>t, <1>4 DEF DisableCommit, EnableCommit, Ended, TypeOK
  <2>4. link' = link
    BY <1>4 DEF DisableCommit, EnableCommit
  <2> QED
    BY <1>t, <1>k, <2>1, <2>2, <2>3, <2>4, AuditedEvidence
<1>5. ASSUME NEW r \in Request, Record(r) PROVE EvidenceInv'
  <2>1. PICK L, E : L = evidence /\ E = req[r].due
    OBVIOUS
  <2>2. Happened(L) /\ Happened(E)
    BY <1>t, <2>1 DEF EvidenceInv, EvidenceIsTrue, FlowInv, Sound
  <2>3. Happened(L)' /\ Happened(E)'
    BY <1>k, <2>2, HappenedStays
  <2>4. evidence' = L \cup E /\ UNCHANGED <<link, session>>
    BY <1>5, <2>1 DEF Record
  <2>5. Happened(evidence)'
    BY <2>3, <2>4 DEF Happened
  <2> QED
    BY <1>t, <1>k, <2>1, <2>4, <2>5, EvidenceFrom
<1>6. ASSUME NEW r \in Request, Continues(r) PROVE EvidenceInv'
  <2>1. ASSUME UNCHANGED <<link, session, evidence>> PROVE EvidenceInv'
    BY <1>u, <2>1
  <2> QED
    BY <1>2, <1>3, <1>4, <1>5, <1>6, <2>1 DEF Continues, Rehash, OAuthUpsert, MagicCheck,
       MagicVerify, ResetSet, RevokeInTx, VerifyMark
<1>7. ASSUME NEW r \in Request, Fail(r) PROVE EvidenceInv'
  BY <1>u, <1>7 DEF Fail
<1>8. ASSUME NEW t \in Link, ExpireLink(t) PROVE EvidenceInv'
  BY <1>t, <1>l, <1>u, <1>8 DEF ExpireLink, TypeOK
<1> QED
  BY <1>1, <1>6, <1>7, <1>8 DEF Acts

-----------------------------------------------------------------------------
(* Theorems.                                                               *)

\* The inductive invariant: what every request relies on, what links and sessions
\* say of each other, and what the audit log says of both.
THEOREM Inductive == Spec => []IInv
<1>1. IInv /\ [Next]_vars => IInv'
  BY StepType, StepFlow, StepLink, StepEvidence DEF IInv
<1> QED
  BY <1>1, InitInv, PTL DEF Spec

\* consume: however many requests present a magic link at once, it opens one session.
THEOREM OneSessionPerLink == Spec => []LinkOpensOneSession
<1>1. IInv => LinkOpensOneSession
  BY DEF IInv, LinkInv
<1> QED
  BY <1>1, Inductive, PTL

\* handleMagicLinkConfirm: a magic link is spent exactly by the session it opened,
\* wherever a confirmation fails.
THEOREM NoLinkBurned == Spec => []SpentLinkTookEffect
<1>1. IInv => SpentLinkTookEffect
  BY DEF IInv, LinkInv
<1> QED
  BY <1>1, Inductive, PTL

\* auditedTx: in strict mode logins and resets are in the log exactly when they
\* happened.
THEOREM EvidenceComplete == Spec => []StrictEvidence
<1>1. IInv => StrictEvidence
  BY DEF IInv, EvidenceInv
<1> QED
  BY <1>1, Inductive, PTL

\* In both modes the log records nothing that did not happen.
THEOREM EvidenceSound == Spec => []EvidenceIsTrue
<1>1. IInv => EvidenceIsTrue
  BY DEF IInv, EvidenceInv
<1> QED
  BY <1>1, Inductive, PTL

\* handleResetConfirm and handleAdminSetUserDisabled: no magic-link session survives
\* the commit, though sessions are listed before it.
THEOREM ResetClosesMagic == Spec => CommitClosesMagic
<1>1. ASSUME IInv, NEW r \in Request, ResetCommit(r) \/ DisableCommit(r), NEW s \in Session,
             session'[s] = "live"
      PROVE  origin[s] \notin MagicLink
  <2>1. session' = Ended(req[r].doomed) /\ req[r].pc \in {"rCommit", "dCommit"}
    BY <1>1 DEF ResetCommit, DisableCommit, Audited, At
  <2>2. s \in LiveSessions /\ s \notin req[r].doomed
    BY <1>1, <2>1 DEF Ended, LiveSessions, IInv, TypeOK
  <2> QED
    BY <1>1, <2>1, <2>2 DEF IInv, FlowInv, Sound
<1>2. IInv => [(\E r \in Request : ResetCommit(r) \/ DisableCommit(r))
                 => \A s \in Session : session'[s] = "live" => origin[s] \notin MagicLink]_vars
  BY <1>1
<1> QED
  BY <1>2, Inductive, PTL DEF CommitClosesMagic

-----------------------------------------------------------------------------
(* What escapes a reset or a disable.                                      *)

\* What the history remembers, it remembers while it matters.
LEMMA HistoryStays ==
  ASSUME Remember
  PROVE  /\ \A p \in Request : p \in overtaken /\ req'[p].pc # "idle" => p \in overtaken'
         /\ \A s \in Session : s \in overlap /\ session'[s] = "live" => s \in overlap'
         /\ \A s \in Session :
              /\ session[s] = "none" /\ session'[s] = "live"
              /\ \/ \E r \in Request : Cutting(r)
                 \/ \E r \in overtaken : req'[r] # req[r]
              => s \in overlap'
<1>1. \A p \in Request : p \in overtaken /\ req'[p].pc # "idle" => p \in overtaken'
  BY DEF Remember
<1> QED
  BY <1>1 DEF Remember

\* Only a reset chooses a password, and only a reset makes up for a rehash.
LEMMA ChoiceStays ==
  ASSUME Remember, ~\E r \in Request : ResetCommit(r)
  PROVE  chosen' = chosen /\ (undone => undone')
<1>1. chosen' = chosen
  BY DEF Remember
<1>2. undone => undone'
  <2>1. undone' = (undone \/ \E r \in overtaken : At(r, "rehash") /\ password' # password)
    BY Zenon DEF Remember
  <2> QED BY <2>1, Zenon
<1> QED BY <1>1, <1>2

\* A session that lives after the step lived before it or is opened by it.
LEMMA LiveBefore ==
  ASSUME IInv, Acts, NEW s \in Session, session'[s] = "live"
  PROVE  session[s] \in {"none", "live"}
BY StepKept DEF Kept, IInv, TypeOK

\* The step calls no standing decision into question: it is no reset, and disables
\* nothing.
Calm == (~\E r \in Request : ResetCommit(r)) /\ (disabled' => disabled)

\* What admitted a request stands, or the commit that revoked it overtook the request.
LEMMA AdmittedStays ==
  ASSUME IInv, EscapeInv, Acts, Remember, NEW p \in Request, req'[p] = req[p],
         Calm \/ \E r \in Request \ {p} : CutsOff(r)
  PROVE  Admitted(p, req[p])'
<1>0. Admitted(p, req[p]) /\ req[p] \in Req
  BY DEF EscapeInv, IInv, TypeOK
<1>1. req[p].pc # "idle" /\ p \in overtaken => p \in overtaken'
  BY HistoryStays
<1>2. LoggingIn(p) /\ (\E r \in Request \ {p} : CutsOff(r)) => p \in overtaken'
  BY DEF Remember, LoggingIn
<1>3. req[p].pc \in {"rehash", "refresh", "link", "login", "mVerify", "mCommit"} =>
        p \in overtaken' \/ ~disabled'
  BY <1>0, <1>1, <1>2 DEF Admitted, LoggingIn, Calm
<1>4. req[p].pc \in {"rehash", "refresh", "link", "login"} =>
        p \in overtaken' \/ undone' \/ req[p].typed \in {None, chosen'}
  <2>1. CASE Calm
    <3>1. chosen' = chosen /\ (undone => undone')
      BY <2>1, ChoiceStays DEF Calm
    <3> QED BY <1>0, <1>1, <3>1 DEF Admitted
  <2>2. CASE \E r \in Request \ {p} : CutsOff(r)
    BY <1>2, <2>2 DEF LoggingIn
  <2> QED BY <2>1, <2>2
<1>5. req[p].pc \in {"rCommit", "dCommit"} => LiveSessions' \subseteq req[p].doomed \cup overlap'
  <2> SUFFICES ASSUME req[p].pc \in {"rCommit", "dCommit"},
                      NEW s \in Session, session'[s] = "live", s \notin req[p].doomed
               PROVE  s \in overlap'
    BY DEF LiveSessions
  <2>1. CASE session[s] = "live"
    BY <1>0, <2>1, HistoryStays DEF Admitted, LiveSessions
  <2>2. CASE session[s] = "none"
    BY <2>2, HistoryStays DEF Cutting
  <2> QED BY <2>1, <2>2, LiveBefore
<1> QED
  BY <1>0, <1>3, <1>4, <1>5 DEF Admitted

\* One request moves; what the others were admitted by stands.
LEMMA EscapeStep ==
  ASSUME IInv, EscapeInv, Acts, Remember, NEW r \in Request, NEW q, Becomes(r, q),
         Calm \/ CutsOff(r), Admitted(r, q)', OnlyOverlapEscapes'
  PROVE  EscapeInv'
<1> SUFFICES ASSUME NEW p \in Request PROVE Admitted(p, req[p])'
  BY DEF EscapeInv
<1>1. CASE p = r
  <2>1. req'[p] = q
    BY <1>1 DEF Becomes, IInv, TypeOK
  <2> QED BY <1>1, <2>1 DEF Admitted, LiveSessions
<1>2. CASE p # r
  <2>1. req'[p] = req[p]
    BY <1>2 DEF Becomes, IInv, TypeOK
  <2> QED BY <1>2, <2>1, AdmittedStays
<1> QED BY <1>1, <1>2

\* What a session opened by a calm step needs in order not to be an escape.
LEMMA EscapeFrom ==
  ASSUME IInv, EscapeInv, Acts, Remember, Calm,
         undone' \/ password' \in {password, chosen},
         \A s \in Session : session[s] = "live" => origin'[s] = origin[s],
         \A s \in Session : session[s] = "none" /\ session'[s] = "live" =>
           \/ s \in overlap'
           \/ undone
           \/ ~disabled /\ origin'[s] \notin Password \ {chosen}
  PROVE  OnlyOverlapEscapes'
<1>1. chosen' = chosen /\ (undone => undone') /\ OnlyOverlapEscapes /\ (disabled' => disabled)
  BY ChoiceStays DEF Calm, EscapeInv
<1> SUFFICES ASSUME ~undone'
             PROVE  /\ password' = chosen'
                    /\ \A s \in LiveSessions' :
                         disabled' \/ origin'[s] \in Password \ {chosen'} => s \in overlap'
  BY DEF OnlyOverlapEscapes
<1>2. ~undone
  BY <1>1, Zenon
<1>3. password' = chosen'
  BY <1>1, <1>2 DEF OnlyOverlapEscapes
<1>4. ASSUME NEW s \in Session, session'[s] = "live",
             disabled' \/ origin'[s] \in Password \ {chosen'}
      PROVE  s \in overlap'
  <2>1. CASE session[s] = "live"
    BY <1>1, <1>2, <1>4, <2>1, HistoryStays DEF OnlyOverlapEscapes, LiveSessions
  <2>2. CASE session[s] = "none"
    BY <1>1, <1>2, <1>4, <2>2
  <2> QED BY <1>4, <2>1, <2>2, LiveBefore
<1> QED
  BY <1>3, <1>4 DEF LiveSessions

\* Nothing is opened or chosen by most steps.
LEMMA QuietEscape ==
  ASSUME IInv, EscapeInv, Acts, Remember, Calm, UNCHANGED <<password, origin>>,
         \A s \in Session : session'[s] = "live" => session[s] = "live"
  PROVE  OnlyOverlapEscapes'
BY EscapeFrom

\* Requests that are neither admitted nor cutting off.
LEMMA FreeAdmitted ==
  ASSUME NEW r, NEW q, q.typed = None,
         q.pc \in {"idle", "record", "mCheck", "vMark"}
  PROVE  Admitted(r, q)'
BY DEF Admitted

\* What auditedTx leaves of a request.
LEMMA AuditedAdmitted ==
  ASSUME NEW r, NEW from, NEW E, Audited(r, from, E)
  PROVE  \E q : Becomes(r, q) /\ Admitted(r, q)' /\ q.pc \in {"idle", "record"}
<1>1. CASE Strict
  BY <1>1, FreeAdmitted DEF Audited, NoReq
<1>2. CASE ~Strict
  <2>1. PICK q : q = [NoReq EXCEPT !.pc = "record", !.due = E]
    OBVIOUS
  <2>2. q.typed = None /\ q.pc = "record"
    BY <2>1 DEF NoReq
  <2> QED BY <1>2, <2>1, <2>2, FreeAdmitted DEF Audited
<1> QED BY <1>1, <1>2

\* The commit of a reset or a disable: every session it leaves alive overlapped it.
LEMMA CutEscape ==
  ASSUME IInv, EscapeInv, Remember, NEW r \in Request, CutsOff(r), NEW s \in LiveSessions'
  PROVE  s \in overlap'
<1>1. session' = Ended(req[r].doomed) /\ req[r].pc \in {"rCommit", "dCommit"}
  BY DEF CutsOff, ResetCommit, DisableCommit, Audited, At
<1>2. s \in LiveSessions /\ s \notin req[r].doomed
  BY <1>1 DEF Ended, LiveSessions, IInv, TypeOK
<1>3. s \in overlap
  BY <1>1, <1>2 DEF EscapeInv, Admitted
<1> QED
  BY <1>3, HistoryStays DEF LiveSessions

\* The commit of a reset or a disable.
LEMMA CutStep ==
  ASSUME IInv, EscapeInv, Acts, Remember, NEW r \in Request, CutsOff(r),
         ResetCommit(r) \/ ~\E q \in Request : ResetCommit(q)
  PROVE  EscapeInv'
<1>1. PICK q : Becomes(r, q) /\ Admitted(r, q)'
  BY AuditedAdmitted DEF CutsOff, ResetCommit, DisableCommit
<1>2. OnlyOverlapEscapes'
  <2>1. CASE ResetCommit(r)
    <3>1. chosen' = password'
      BY <2>1 DEF Remember
    <3> QED BY <3>1, CutEscape DEF OnlyOverlapEscapes
  <2>2. CASE ~ResetCommit(r)
    <3>1. UNCHANGED password
      BY <2>2 DEF CutsOff, DisableCommit
    <3>2. chosen' = chosen /\ (undone => undone')
      BY <2>2, ChoiceStays
    <3>3. undone' \/ password' = chosen'
      BY <3>1, <3>2 DEF EscapeInv, OnlyOverlapEscapes
    <3> QED BY <3>3, CutEscape DEF OnlyOverlapEscapes
  <2> QED BY <2>1, <2>2
<1> QED
  BY <1>1, <1>2, EscapeStep

\* The rehash of a login: it writes the password that was typed, which is the one
\* chosen unless a reset has overtaken the login.
LEMMA RehashStep ==
  ASSUME IInv, EscapeInv, Acts, Remember, NEW r \in Request, NEW ok \in BOOLEAN, Rehash(r, ok),
         ~\E q \in Request : ResetCommit(q)
  PROVE  EscapeInv'
<1>t. TypeOK /\ Admitted(r, req[r]) /\ Sound(r, req[r]) /\ At(r, "rehash")
  BY DEF IInv, FlowInv, EscapeInv, Rehash, Goes
<1>c. Calm
  BY DEF Calm, Rehash
<1>1. PICK q \in Req : Becomes(r, q) /\ q.pc = "login" /\ q.typed = req[r].typed
  BY <1>t, GoesFields DEF Rehash, Step
<1>2. req'[r] = q
  BY <1>t, <1>1 DEF Becomes, TypeOK
<1>3. chosen' = chosen /\ (undone => undone')
  BY ChoiceStays
<1>4. r \in overtaken => r \in overtaken'
  BY <1>1, <1>2, HistoryStays
<1>5. Admitted(r, q)'
  BY <1>t, <1>1, <1>3, <1>4 DEF Admitted, At, Rehash
<1>6. undone' \/ password' \in {password, chosen}
  <2>1. undone' = (undone \/ \E p \in overtaken : At(p, "rehash") /\ password' # password)
    BY Zenon DEF Remember
  <2>2. r \in overtaken /\ password' # password => undone'
    BY <1>t, <2>1, Zenon
  <2>3. password' \in {password, req[r].typed}
    BY DEF Rehash
  <2>4. r \in overtaken \/ undone \/ req[r].typed = chosen
    BY <1>t, ConstantAssumption DEF Admitted, Sound, At
  <2> QED BY <1>3, <2>2, <2>3, <2>4
<1>7. OnlyOverlapEscapes'
  BY <1>c, <1>6, EscapeFrom DEF Rehash
<1> QED
  BY <1>c, <1>1, <1>5, <1>7, EscapeStep

\* The commit of a login: its session overlaps what has overtaken the login, or was
\* opened with the password and under the switch that stand.
LEMMA OpenStep ==
  ASSUME IInv, EscapeInv, Acts, Remember, NEW r \in Request, NEW s \in Session,
         LoginCommit(r, s) \/ MagicCommit(r, s),
         ~\E q \in Request : ResetCommit(q)
  PROVE  EscapeInv'
<1>t. TypeOK /\ Admitted(r, req[r]) /\ Sound(r, req[r])
  BY DEF IInv, FlowInv, EscapeInv
<1>c. Calm /\ UNCHANGED password
  BY DEF Calm, LoginCommit, MagicCommit
<1>0. req[r].pc \in {"login", "mCommit"}
  BY DEF LoginCommit, MagicCommit, Audited, At
<1>1. PICK q : Becomes(r, q) /\ Admitted(r, q)' /\ q.pc \in {"idle", "record"}
  BY AuditedAdmitted DEF LoginCommit, MagicCommit
<1>2. req'[r] # req[r]
  BY <1>t, <1>0, <1>1 DEF Becomes, TypeOK
<1>3. PICK how :
        /\ Opens(s, how)
        /\ \/ req[r].pc = "login" /\ (how = "oauth" \/ (how = req[r].typed /\ how # None))
           \/ how \in MagicLink
  <2>1. CASE LoginCommit(r, s)
    <3>1. PICK how : how = IF req[r].typed = None THEN "oauth" ELSE req[r].typed
      OBVIOUS
    <3>2. Opens(s, how) /\ req[r].pc = "login"
      BY <2>1, <3>1 DEF LoginCommit, Audited, At
    <3> QED BY <3>1, <3>2
  <2>2. CASE MagicCommit(r, s)
    BY <1>t, <2>2 DEF MagicCommit, Audited, At, Sound
  <2> QED BY <2>1, <2>2
<1>4. /\ session[s] = "none" /\ origin'[s] = how
      /\ \A x \in Session \ {s} : session'[x] = session[x] /\ origin'[x] = origin[x]
  BY <1>t, <1>3 DEF Opens, TypeOK
<1>5. r \in overtaken /\ session'[s] = "live" => s \in overlap'
  BY <1>2, <1>4, HistoryStays
<1>6. r \in overtaken \/ ~disabled
  BY <1>t, <1>0 DEF Admitted
<1>7. r \in overtaken \/ undone \/ how \notin Password \ {chosen}
  BY <1>t, <1>3, ConstantAssumption DEF Admitted
<1>8. OnlyOverlapEscapes'
  BY <1>c, <1>4, <1>5, <1>6, <1>7, EscapeFrom
<1> QED
  BY <1>c, <1>1, <1>8, EscapeStep

\* A login starts under the password and the switch that stand.
LEMMA StartAdmitted ==
  ASSUME IInv, EscapeInv, Acts, Remember, NEW r \in Request, Starts(r),
         ~\E q \in Request : ResetCommit(q)
  PROVE  \E q : Becomes(r, q) /\ Admitted(r, q)'
<1>t. TypeOK /\ Admitted(r, req[r]) /\ OnlyOverlapEscapes
  BY DEF IInv, EscapeInv
<1>1. ASSUME NEW p \in Password, PasswordLogin(r, p) PROVE \E q : Becomes(r, q) /\ Admitted(r, q)'
  <2>1. PICK q : q = [NoReq EXCEPT !.pc = IF legacy THEN "rehash" ELSE "login", !.typed = p]
    OBVIOUS
  <2>2. q.pc \in {"rehash", "login"} /\ q.typed = p
    BY <2>1 DEF NoReq
  <2>3. chosen' = chosen /\ (undone => undone')
    BY ChoiceStays
  <2>4. p = password /\ ~disabled /\ disabled' = disabled
    BY <1>1 DEF PasswordLogin
  <2>5. undone' \/ q.typed = chosen'
    BY <1>t, <2>2, <2>3, <2>4 DEF OnlyOverlapEscapes
  <2>6. Admitted(r, q)'
    BY <2>2, <2>4, <2>5 DEF Admitted
  <2> QED BY <1>1, <2>1, <2>6 DEF PasswordLogin
<1>2. ASSUME OAuthLogin(r) PROVE \E q : Becomes(r, q) /\ Admitted(r, q)'
  <2>1. PICK to \in {"refresh", "link"} : Goes(r, "idle", to)
    BY <1>2 DEF OAuthLogin
  <2>2. PICK q \in Req : Becomes(r, q) /\ q.pc = to /\ q.typed = req[r].typed
    BY <1>t, <2>1, GoesFields DEF Step
  <2>3. q.typed = None /\ ~disabled'
    BY <1>t, <1>2, <2>1, <2>2 DEF Admitted, Goes, At, OAuthLogin
  <2>4. Admitted(r, q)'
    BY <2>2, <2>3 DEF Admitted
  <2> QED BY <2>2, <2>4
<1>3. ASSUME NEW t \in MagicLink, MagicConsume(r, t) PROVE \E q : Becomes(r, q) /\ Admitted(r, q)'
  <2>1. PICK q : q = [NoReq EXCEPT !.pc = "mCheck", !.link = t, !.typed = None]
    OBVIOUS
  <2>2. q.pc = "mCheck" /\ q.typed = None
    BY <2>1, StartFields
  <2> QED BY <1>3, <2>1, <2>2, FreeAdmitted DEF MagicConsume, SpendsInTx
<1>4. ASSUME NEW t \in ResetLink, NEW p \in Password, ResetConsume(r, t, p)
      PROVE  \E q : Becomes(r, q) /\ Admitted(r, q)'
  <2>1. PICK q : q = [NoReq EXCEPT !.pc = "rSet", !.link = t, !.typed = p]
    OBVIOUS
  <2>2. q.pc = "rSet"
    BY <2>1, StartFields
  <2>3. Admitted(r, q)'
    BY <2>2 DEF Admitted
  <2> QED BY <1>4, <2>1, <2>3 DEF ResetConsume, SpendsInTx
<1>5. ASSUME NEW t \in VerifyLink, VerifyConsume(r, t) PROVE \E q : Becomes(r, q) /\ Admitted(r, q)'
  <2>1. PICK q : q = [NoReq EXCEPT !.pc = "vMark", !.link = t]
    OBVIOUS
  <2>2. q.pc = "vMark" /\ q.typed = None
    BY <2>1 DEF NoReq
  <2> QED BY <1>5, <2>1, <2>2, FreeAdmitted DEF VerifyConsume
<1>6. ASSUME NEW s \in Session, Logout(r, s) PROVE \E q : Becomes(r, q) /\ Admitted(r, q)'
  BY <1>6, AuditedAdmitted DEF Logout
<1>7. ASSUME NEW S \in SUBSET Session, RevokeNow(r, S) PROVE \E q : Becomes(r, q) /\ Admitted(r, q)'
  <2>1. PICK q : q = [NoReq EXCEPT !.pc = "record", !.due = {"revoked"} \X S]
    OBVIOUS
  <2>2. q.pc = "record" /\ q.typed = None
    BY <2>1 DEF NoReq
  <2> QED BY <1>7, <2>1, <2>2, FreeAdmitted DEF RevokeNow
<1>8. ASSUME NEW d \in BOOLEAN, SetDisabled(r, d) PROVE \E q : Becomes(r, q) /\ Admitted(r, q)'
  <2>1. PICK to \in {"dRevoke", "eCommit"} : Goes(r, "idle", to)
    BY <1>8 DEF SetDisabled
  <2>2. PICK q \in Req : Becomes(r, q) /\ q.pc = to
    BY <1>t, <2>1, GoesFields DEF Step
  <2>3. Admitted(r, q)'
    BY <2>2 DEF Admitted
  <2> QED BY <2>2, <2>3
<1> QED
  BY <1>1, <1>2, <1>3, <1>4, <1>5, <1>6, <1>7, <1>8 DEF Starts

\* A login goes on under what admitted it, and a DELETE hits all that lives.
LEMMA GoOnAdmitted ==
  ASSUME IInv, EscapeInv, Acts, Remember, NEW r \in Request,
         ~\E q \in Request : ResetCommit(q),
         \/ OAuthUpsert(r) \/ MagicCheck(r) \/ MagicVerify(r) \/ ResetSet(r) \/ RevokeInTx(r)
         \/ VerifyMark(r) \/ EnableCommit(r) \/ Record(r) \/ Fail(r)
  PROVE  \E q : Becomes(r, q) /\ Admitted(r, q)'
<1>t. TypeOK /\ Admitted(r, req[r])
  BY DEF IInv, EscapeInv
<1>n. Admitted(r, NoReq)'
  BY FreeAdmitted DEF NoReq
<1>c. chosen' = chosen /\ (undone => undone')
  BY ChoiceStays
<1>g. ASSUME NEW from, NEW to \in Step \ {"idle"}, Goes(r, from, to)
      PROVE  \E q \in Req : /\ Becomes(r, q) /\ q.pc = to /\ q.typed = req[r].typed
                            /\ r \in overtaken => r \in overtaken'
  <2>1. PICK q \in Req : Becomes(r, q) /\ q.pc = to /\ q.typed = req[r].typed
    BY <1>t, <1>g, GoesFields
  <2>2. req'[r] = q
    BY <1>t, <2>1 DEF Becomes, TypeOK
  <2> QED BY <2>1, <2>2, HistoryStays
<1>1. ASSUME OAuthUpsert(r) PROVE \E q : Becomes(r, q) /\ Admitted(r, q)'
  <2>1. CASE Becomes(r, NoReq)
    BY <1>n, <2>1
  <2>2. CASE ~Becomes(r, NoReq)
    <3>1. PICK from \in {"refresh", "link"} : Goes(r, from, "login")
      BY <1>1, <2>2 DEF OAuthUpsert, Goes
    <3>2. PICK q \in Req : /\ Becomes(r, q) /\ q.pc = "login" /\ q.typed = req[r].typed
                           /\ r \in overtaken => r \in overtaken'
      BY <1>g, <3>1 DEF Step
    <3>3. Admitted(r, q)'
      BY <1>t, <1>c, <1>1, <3>1, <3>2 DEF Admitted, Goes, At, OAuthUpsert
    <3> QED BY <3>2, <3>3
  <2> QED BY <2>1, <2>2
<1>2. ASSUME MagicCheck(r) PROVE \E q : Becomes(r, q) /\ Admitted(r, q)'
  <2>1. CASE disabled
    BY <1>2, <1>n, <2>1 DEF MagicCheck
  <2>2. CASE ~disabled
    <3>1. PICK q \in Req : Becomes(r, q) /\ q.pc = "mVerify"
      BY <1>2, <1>g, <2>2 DEF MagicCheck, Step
    <3>2. Admitted(r, q)'
      BY <1>2, <2>2, <3>1 DEF Admitted, MagicCheck
    <3> QED BY <3>1, <3>2
  <2> QED BY <2>1, <2>2
<1>3. ASSUME MagicVerify(r) PROVE \E q : Becomes(r, q) /\ Admitted(r, q)'
  <2>1. PICK q \in Req : Becomes(r, q) /\ q.pc = "mCommit" /\ (r \in overtaken => r \in overtaken')
    BY <1>3, <1>g DEF MagicVerify, Step
  <2>2. Admitted(r, q)'
    BY <1>t, <1>3, <2>1 DEF Admitted, MagicVerify, Goes, At
  <2> QED BY <2>1, <2>2
<1>4. ASSUME ResetSet(r) PROVE \E q : Becomes(r, q) /\ Admitted(r, q)'
  <2>1. PICK q \in Req : Becomes(r, q) /\ q.pc = "rRevoke"
    BY <1>4, <1>g DEF ResetSet, Step
  <2>2. Admitted(r, q)'
    BY <2>1 DEF Admitted
  <2> QED BY <2>1, <2>2
<1>5. ASSUME RevokeInTx(r) PROVE \E q : Becomes(r, q) /\ Admitted(r, q)'
  <2>1. PICK q : q = [req[r] EXCEPT !.pc = IF At(r, "rRevoke") THEN "rCommit" ELSE "dCommit",
                                    !.doomed = LiveSessions]
    OBVIOUS
  <2>2. q.pc \in {"rCommit", "dCommit"} /\ q.doomed = LiveSessions
    BY <1>t, <2>1 DEF TypeOK, Req
  <2>3. LiveSessions' = LiveSessions
    BY <1>5 DEF RevokeInTx, LiveSessions
  <2>4. Admitted(r, q)'
    BY <2>2, <2>3 DEF Admitted
  <2> QED BY <1>5, <2>1, <2>4 DEF RevokeInTx
<1>6. ASSUME VerifyMark(r) PROVE \E q : Becomes(r, q) /\ Admitted(r, q)'
  <2>1. PICK q : q = [NoReq EXCEPT !.pc = "record", !.due = {<<"verified", req[r].link>>}]
    OBVIOUS
  <2>2. q.pc = "record" /\ q.typed = None
    BY <2>1 DEF NoReq
  <2> QED BY <1>6, <2>1, <2>2, FreeAdmitted DEF VerifyMark
<1>7. ASSUME EnableCommit(r) PROVE \E q : Becomes(r, q) /\ Admitted(r, q)'
  BY <1>7, AuditedAdmitted DEF EnableCommit
<1>8. ASSUME Record(r) \/ Fail(r) PROVE \E q : Becomes(r, q) /\ Admitted(r, q)'
  BY <1>8, <1>n DEF Record, Fail
<1> QED
  BY <1>1, <1>2, <1>3, <1>4, <1>5, <1>6, <1>7, <1>8

\* No step lets a session or a password escape otherwise.
LEMMA StepEscape ==
  ASSUME IInv, EscapeInv, [Next]_vars
  PROVE  EscapeInv'
<1>t. TypeOK
  BY DEF IInv
<1>c. CASE UNCHANGED vars
  BY <1>c DEF EscapeInv, OnlyOverlapEscapes, Admitted, LiveSessions, vars, history
<1> SUFFICES ASSUME Acts, Remember PROVE EscapeInv'
  BY <1>c DEF Next
<1>1. CASE \E r \in Request : ResetCommit(r)
  BY <1>1, CutStep DEF CutsOff
<1>2. CASE ~\E r \in Request : ResetCommit(r)
  <2>q. ASSUME UNCHANGED <<password, origin, disabled>>,
               session' = session \/ \E S : session' = Ended(S)
        PROVE  Calm /\ OnlyOverlapEscapes'
    <3>1. Calm
      BY <1>2, <2>q DEF Calm
    <3>2. \A s \in Session : session'[s] = "live" => session[s] = "live"
      BY <2>q DEF Ended
    <3> QED BY <2>q, <3>1, <3>2, QuietEscape
  <2>1. ASSUME NEW r \in Request, Starts(r) PROVE EscapeInv'
    <3>1. /\ UNCHANGED <<password, origin, disabled>>
          /\ session' = session \/ \E S : session' = Ended(S)
      BY <2>1 DEF Starts, PasswordLogin, OAuthLogin, MagicConsume, ResetConsume, VerifyConsume,
                  Logout, RevokeNow, SetDisabled
    <3> QED BY <1>2, <2>q, <2>1, <3>1, StartAdmitted, EscapeStep
  <2>2. ASSUME NEW r \in Request,
               \/ OAuthUpsert(r) \/ MagicCheck(r) \/ MagicVerify(r) \/ ResetSet(r)
               \/ RevokeInTx(r) \/ VerifyMark(r) \/ Record(r) \/ Fail(r)
        PROVE  EscapeInv'
    <3>1. UNCHANGED <<password, origin, disabled, session>>
      BY <2>2 DEF OAuthUpsert, MagicCheck, MagicVerify, ResetSet, RevokeInTx, VerifyMark, Record,
                  Fail
    <3> QED BY <1>2, <2>q, <2>2, <3>1, GoOnAdmitted, EscapeStep
  <2>3. ASSUME NEW r \in Request, EnableCommit(r) PROVE EscapeInv'
    <3>1. Calm /\ UNCHANGED <<password, origin, session>>
      BY <1>2, <2>3 DEF Calm, EnableCommit
    <3>2. OnlyOverlapEscapes'
      BY <3>1, QuietEscape
    <3> QED BY <1>2, <2>3, <3>1, <3>2, GoOnAdmitted, EscapeStep
  <2>4. ASSUME NEW r \in Request, Continues(r) PROVE EscapeInv'
    BY <1>2, <2>2, <2>3, <2>4, CutStep, RehashStep, OpenStep DEF Continues, CutsOff
  <2>5. ASSUME NEW t \in Link, ExpireLink(t) PROVE EscapeInv'
    <3>1. Calm /\ OnlyOverlapEscapes' /\ req' = req
      BY <2>q, <2>5 DEF ExpireLink
    <3> QED BY <3>1, AdmittedStays DEF EscapeInv
  <2> QED BY <2>1, <2>2, <2>4, <2>5 DEF Acts
<1> QED
  BY <1>1, <1>2

\* README, "password reset and account disable revoke all sessions", and the kill
\* switch: what they cut off comes through only in a request they overlapped.
THEOREM EscapeOnlyByOverlap == Spec => []OnlyOverlapEscapes
<1>1. Init => EscapeInv
  BY DEF Init, EscapeInv, OnlyOverlapEscapes, Admitted, LiveSessions, NoReq
<1>2. IInv /\ EscapeInv /\ [Next]_vars => EscapeInv'
  BY StepEscape
<1>3. EscapeInv => OnlyOverlapEscapes
  BY DEF EscapeInv
<1> QED
  BY <1>1, <1>2, <1>3, Inductive, PTL DEF Spec

-----------------------------------------------------------------------------
(* Row locks.                                                              *)

\* One request moves: it keeps only locks it goes on to use, and nobody else gets one.
LEMMA HoldersStep ==
  ASSUME TypeOK, HoldersProceed, NEW r \in Request, NEW q, Becomes(r, q),
         UNCHANGED userLock \/ LocksUser(r) \/ Unlocked(r),
         \/ UNCHANGED linkLock
         \/ \E t \in Link : linkLock' = [linkLock EXCEPT ![t] = r]
         \/ Unlocked(r),
         userLock' = r =>
           q.pc \in {"mCommit", "rRevoke", "rCommit", "dRevoke", "dCommit", "eCommit"},
         \A t \in Link : linkLock'[t] = r =>
           /\ q.link = t
           /\ q.pc \in {"mCheck", "mVerify", "mCommit", "rSet", "rRevoke", "rCommit"}
  PROVE  HoldersProceed'
<1>1. req'[r] = q /\ \A p \in Request \ {r} : req'[p] = req[p]
  BY DEF Becomes, TypeOK
<1>2. /\ userLock' \in Request \cup {None}
      /\ userLock' \notin {r, None} => userLock = userLock'
  BY DEF LocksUser, Unlocked, TypeOK
<1>3. ASSUME NEW t \in Link
      PROVE  /\ linkLock'[t] \in Request \cup {None}
             /\ linkLock'[t] \notin {r, None} => linkLock[t] = linkLock'[t]
  BY DEF Unlocked, TypeOK
<1>4. userLock' # None =>
        req'[userLock'].pc \in {"mCommit", "rRevoke", "rCommit", "dRevoke", "dCommit", "eCommit"}
  BY <1>1, <1>2 DEF HoldersProceed
<1>5. ASSUME NEW t \in Link, linkLock'[t] # None
      PROVE  /\ req'[linkLock'[t]].link = t
             /\ req'[linkLock'[t]].pc \in {"mCheck", "mVerify", "mCommit", "rSet", "rRevoke",
                                           "rCommit"}
  BY <1>1, <1>3, <1>5 DEF HoldersProceed
<1> QED
  BY <1>4, <1>5 DEF HoldersProceed

\* The end of a transaction.
LEMMA HoldersUnlock ==
  ASSUME TypeOK, HoldersProceed, NEW r \in Request, NEW q, Becomes(r, q), Unlocked(r)
  PROVE  HoldersProceed'
<1>1. userLock' # r /\ \A t \in Link : linkLock'[t] # r
  BY ConstantAssumption DEF Unlocked
<1> QED
  BY <1>1, HoldersStep

\* A request outside a transaction, which holds nothing.
LEMMA HoldersFree ==
  ASSUME TypeOK, HoldersProceed, NEW r \in Request, NEW q, Becomes(r, q),
         UNCHANGED <<userLock, linkLock>>,
         req[r].pc \in {"idle", "rehash", "refresh", "link", "login", "vMark", "record"}
  PROVE  HoldersProceed'
<1>1. userLock # r /\ \A t \in Link : linkLock[t] # r
  BY ConstantAssumption DEF HoldersProceed
<1> QED
  BY <1>1, HoldersStep

\* A request that goes on inside its transaction.
LEMMA HoldersGoOn ==
  ASSUME TypeOK, HoldersProceed, NEW r \in Request, NEW q, Becomes(r, q), q.link = req[r].link,
         UNCHANGED linkLock, UNCHANGED userLock \/ LocksUser(r),
         userLock' = r =>
           q.pc \in {"mCommit", "rRevoke", "rCommit", "dRevoke", "dCommit", "eCommit"},
         \/ q.pc \in {"mCheck", "mVerify", "mCommit", "rSet", "rRevoke", "rCommit"}
         \/ req[r].pc \in {"idle", "dRevoke"}
  PROVE  HoldersProceed'
<1>1. \A t \in Link : linkLock[t] = r =>
        /\ req[r].link = t
        /\ req[r].pc \in {"mCheck", "mVerify", "mCommit", "rSet", "rRevoke", "rCommit"}
  BY ConstantAssumption DEF HoldersProceed
<1> QED
  BY <1>1, HoldersStep

\* Every path gives back what it took.
LEMMA StepHolders ==
  ASSUME IInv, HoldersProceed, [Next]_vars
  PROVE  HoldersProceed'
<1>t. TypeOK
  BY DEF IInv
<1>c. CASE UNCHANGED vars
  BY <1>c DEF HoldersProceed, vars
<1> SUFFICES ASSUME Acts PROVE HoldersProceed'
  BY <1>c DEF Next
<1>l. MagicLink \subseteq Link /\ ResetLink \subseteq Link
  BY DEF Link
<1>h. \A r \in Request :
        userLock = r => req[r].pc \in {"mCommit", "rRevoke", "rCommit", "dRevoke", "dCommit",
                                       "eCommit"}
  BY ConstantAssumption DEF HoldersProceed
<1>1. ASSUME NEW r \in Request,
             \/ \E p \in Password : PasswordLogin(r, p)
             \/ OAuthLogin(r) \/ OAuthUpsert(r) \/ VerifyMark(r) \/ Record(r)
             \/ \E t \in VerifyLink : VerifyConsume(r, t)
             \/ \E s \in Session : Logout(r, s) \/ LoginCommit(r, s)
             \/ \E S \in SUBSET Session : RevokeNow(r, S)
             \/ \E ok \in BOOLEAN : Rehash(r, ok)
      PROVE  HoldersProceed'
  <2>1. /\ UNCHANGED <<userLock, linkLock>>
        /\ req[r].pc \in {"idle", "rehash", "refresh", "link", "login", "vMark", "record"}
    BY <1>1 DEF PasswordLogin, OAuthLogin, OAuthUpsert, VerifyMark, Record, VerifyConsume, Logout,
                LoginCommit, RevokeNow, Rehash, Audited, Goes, At
  <2>2. \E q : Becomes(r, q)
    BY <1>1 DEF PasswordLogin, OAuthLogin, OAuthUpsert, VerifyMark, Record, VerifyConsume, Logout,
                LoginCommit, RevokeNow, Rehash, Audited, Goes
  <2> QED BY <1>t, <2>1, <2>2, HoldersFree
<1>2. ASSUME NEW r \in Request,
             \/ \E s \in Session : MagicCommit(r, s)
             \/ ResetCommit(r) \/ DisableCommit(r) \/ EnableCommit(r) \/ Fail(r)
      PROVE  HoldersProceed'
  <2>1. Unlocked(r) /\ \E q : Becomes(r, q)
    BY <1>2 DEF MagicCommit, ResetCommit, DisableCommit, EnableCommit, Fail, Audited
  <2> QED BY <1>t, <2>1, HoldersUnlock
<1>3. ASSUME NEW r \in Request, NEW t \in Link, NEW p, NEW to \in {"mCheck", "rSet"},
             SpendsInTx(r, t, p, to), UNCHANGED userLock
      PROVE  HoldersProceed'
  <2>1. PICK q : q = [NoReq EXCEPT !.pc = to, !.link = t, !.typed = p]
    OBVIOUS
  <2>2. q.pc = to /\ q.link = t /\ Becomes(r, q)
    BY <1>3, <2>1, StartFields DEF SpendsInTx
  <2>3. \A u \in Link : linkLock[u] # r
    BY <1>3, ConstantAssumption DEF HoldersProceed, SpendsInTx, At
  <2>4. linkLock' = [linkLock EXCEPT ![t] = r] /\ userLock' # r
    BY <1>3, <1>h DEF SpendsInTx, At
  <2>5. \A u \in Link : linkLock'[u] = r => u = t
    BY <1>t, <2>3, <2>4 DEF TypeOK
  <2>6. \A u \in Link : linkLock'[u] = r =>
          /\ q.link = u
          /\ q.pc \in {"mCheck", "mVerify", "mCommit", "rSet", "rRevoke", "rCommit"}
    BY <2>2, <2>5
  <2>7. \E u \in Link : linkLock' = [linkLock EXCEPT ![u] = r]
    BY <2>4
  <2> QED BY <1>t, <1>3, <2>2, <2>4, <2>6, <2>7, HoldersStep
<1>4. ASSUME NEW r \in Request, NEW d \in BOOLEAN, SetDisabled(r, d) PROVE HoldersProceed'
  <2>1. PICK to \in {"dRevoke", "eCommit"} : Goes(r, "idle", to)
    BY <1>4 DEF SetDisabled
  <2>2. PICK q \in Req : Becomes(r, q) /\ q.pc = to /\ q.link = req[r].link
    BY <1>t, <2>1, GoesFields DEF Step
  <2> QED BY <1>t, <1>4, <2>1, <2>2, HoldersGoOn DEF SetDisabled, Goes, At
<1>5. ASSUME NEW r \in Request, MagicCheck(r) PROVE HoldersProceed'
  <2>1. CASE disabled
    BY <1>t, <1>5, <2>1, HoldersUnlock DEF MagicCheck
  <2>2. CASE ~disabled
    <3>1. PICK q \in Req : Becomes(r, q) /\ q.pc = "mVerify" /\ q.link = req[r].link
      BY <1>t, <1>5, <2>2, GoesFields DEF MagicCheck, Step
    <3>2. UNCHANGED <<linkLock, userLock>> /\ userLock # r
      BY <1>5, <1>h, <2>2 DEF MagicCheck, At
    <3> QED BY <1>t, <3>1, <3>2, HoldersGoOn
  <2> QED BY <2>1, <2>2
<1>6. ASSUME NEW r \in Request, MagicVerify(r) \/ ResetSet(r) PROVE HoldersProceed'
  <2>1. PICK from \in {"mVerify", "rSet"}, to \in {"mCommit", "rRevoke"} : Goes(r, from, to)
    BY <1>6 DEF MagicVerify, ResetSet
  <2>2. PICK q \in Req : Becomes(r, q) /\ q.pc = to /\ q.link = req[r].link
    BY <1>t, <2>1, GoesFields DEF Step
  <2>3. UNCHANGED linkLock /\ LocksUser(r)
    BY <1>6 DEF MagicVerify, ResetSet
  <2> QED BY <1>t, <2>2, <2>3, HoldersGoOn
<1>7. ASSUME NEW r \in Request, RevokeInTx(r) PROVE HoldersProceed'
  <2>1. PICK q : q = [req[r] EXCEPT !.pc = IF At(r, "rRevoke") THEN "rCommit" ELSE "dCommit",
                                    !.doomed = LiveSessions]
    OBVIOUS
  <2>2. /\ q.pc \in {"rCommit", "dCommit"} /\ q.link = req[r].link
        /\ q.pc = "rCommit" \/ req[r].pc = "dRevoke"
    BY <1>t, <1>7, <2>1 DEF TypeOK, Req, RevokeInTx, At
  <2>3. UNCHANGED <<linkLock, userLock>> /\ Becomes(r, q)
    BY <1>7, <2>1 DEF RevokeInTx
  <2> QED BY <1>t, <2>2, <2>3, HoldersGoOn
<1>8. ASSUME NEW t \in Link, ExpireLink(t) PROVE HoldersProceed'
  BY <1>8 DEF ExpireLink, HoldersProceed
<1>9. ASSUME NEW r \in Request,
             \/ \E t \in MagicLink : MagicConsume(r, t)
             \/ \E t \in ResetLink, p \in Password : ResetConsume(r, t, p)
      PROVE  HoldersProceed'
  BY <1>l, <1>3, <1>9 DEF MagicConsume, ResetConsume
<1> QED
  BY <1>1, <1>2, <1>4, <1>5, <1>6, <1>7, <1>8, <1>9 DEF Acts, Starts, Continues

\* No lock is left behind and no two requests wait for each other: every lock has a
\* holder that is under way, the holder of the users row waits for nobody, and the
\* holder of a token waits at most for the users row.
THEOREM LocksComeBack == Spec => []HoldersProceed
<1>1. Init => HoldersProceed
  BY DEF Init, HoldersProceed
<1>2. IInv /\ HoldersProceed /\ [Next]_vars => HoldersProceed'
  BY StepHolders
<1> QED
  BY <1>1, <1>2, Inductive, PTL DEF Spec

\* No deadlock, whatever the number of requests and links: an UPDATE of the users
\* row waits only for a request that waits for nobody, and a token only for one that
\* is under way.
THEOREM NobodyBlocksEverybody == Spec => []SomeoneProceeds
<1>1. IInv /\ HoldersProceed => SomeoneProceeds
  <2> SUFFICES ASSUME IInv, HoldersProceed PROVE SomeoneProceeds
    OBVIOUS
  <2>1. CASE userLock = None
    BY <2>1 DEF SomeoneProceeds, Waits, HoldersProceed, At
  <2>2. CASE userLock # None
    <3>1. /\ userLock \in Request
          /\ req[userLock].pc \in {"mCommit", "rRevoke", "rCommit", "dRevoke", "dCommit",
                                   "eCommit"}
      BY <2>2 DEF IInv, TypeOK, HoldersProceed
    <3>2. ~At(userLock, "idle") /\ ~Waits(userLock)
      BY <3>1 DEF At, Waits, UpdatesUser
    <3> QED
      BY <3>1, <3>2 DEF SomeoneProceeds, HoldersProceed, At
  <2> QED
    BY <2>1, <2>2
<1> QED
  BY <1>1, Inductive, LocksComeBack, PTL

=============================================================================
