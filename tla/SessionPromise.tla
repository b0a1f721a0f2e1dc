--------------------------- MODULE SessionPromise ---------------------------
(***************************************************************************)
(* What a session promises its holder, the gateway that validates it and   *)
(* whoever revokes it, with no rows read and written in between: it is     *)
(* opened once and ends for good; whoever is told "valid" was admitted at  *)
(* one moment of the call at which the session was alive and the user      *)
(* enabled; only such an answer moves the expiry, to what it tells, and no *)
(* answer reaches past the lifetime from now or the cap from the opening.  *)
(* Revoking all sessions, with or without disabling the user, takes a      *)
(* while: it ends every session that stood when it was asked for.  One     *)
(* opened in between may stand after it, useless while the user is         *)
(* disabled and good again afterwards.                                     *)
(***************************************************************************)
EXTENDS Naturals

CONSTANTS
  Session,
  Caller,   \* concurrent validations
  Revoker,  \* concurrent revocations of all sessions
  Life,     \* how long an unused session lasts
  Cap       \* how long any session lasts, 0 for no cap

VARIABLES
  clock, disabled,
  state, born, until,  \* per session: "none", "live" or "deleted"; opening; expiry
  admitted,            \* per caller: the session it may be told is valid, if any
  told,                \* per caller: the expiry it was told, 0 before
  asked                \* per revocation: the set of sessions it will end, if it is under way

book == <<state, born, until>>
desk == <<admitted, told>>
promiseVars == <<clock, disabled, book, desk, asked>>

PromiseInit ==
  /\ clock = 0 /\ disabled = FALSE
  /\ state = [s \in Session |-> "none"]
  /\ born = [s \in Session |-> 0] /\ until = [s \in Session |-> 0]
  /\ admitted = [v \in Caller |-> {}] /\ told = [v \in Caller |-> 0]
  /\ asked = [r \in Revoker |-> {}]

\* How far an expiry of s may reach.
Within(s, x) == x <= clock + Life /\ (Cap > 0 => x <= born[s] + Cap)

Live == {s \in Session : state[s] = "live"}
Ended(S) == [s \in Session |-> IF s \in S THEN "deleted" ELSE state[s]]

\* Time passes; callers that have no answer yet may have come too late.
Pass ==
  /\ clock' = clock + 1
  /\ \E V \in SUBSET {v \in Caller : told[v] = 0} :
       admitted' = [v \in Caller |-> IF v \in V THEN {} ELSE admitted[v]]
  /\ UNCHANGED <<disabled, book, told, asked>>

Open(s) ==
  /\ state[s] = "none"
  /\ state' = [state EXCEPT ![s] = "live"]
  /\ born' = [born EXCEPT ![s] = clock]
  /\ until' = [until EXCEPT ![s] = clock + Life]
  /\ UNCHANGED <<clock, disabled, desk, asked>>

\* The moment a "valid" is true.
Admit(v, s) ==
  /\ admitted[v] = {}
  /\ state[s] = "live" /\ clock < until[s] /\ ~disabled
  /\ admitted' = [admitted EXCEPT ![v] = {s}]
  /\ UNCHANGED <<clock, disabled, book, told, asked>>

\* The answer "valid until ..."; a session that is still there may move with it.
Serve(v, s) ==
  LET x == told'[v]
  IN  /\ s \in admitted[v] /\ told[v] = 0
      /\ Within(s, x)
      /\ told' = [told EXCEPT ![v] = x]
      /\ UNCHANGED until \/ (state[s] = "live" /\ until' = [until EXCEPT ![s] = x])
      /\ UNCHANGED <<clock, disabled, state, born, admitted, asked>>

\* A caller leaves, with its answer or with an error.
Leave(v) ==
  /\ admitted' = [admitted EXCEPT ![v] = {}]
  /\ told' = [told EXCEPT ![v] = 0]
  /\ UNCHANGED <<clock, disabled, book, asked>>

\* Logout, expiry and purge.
End(S) ==
  /\ state' = Ended(S)
  /\ UNCHANGED <<clock, disabled, born, until, desk, asked>>

\* Someone asks to end all sessions: the ones that stand now.
Ask(r) ==
  /\ asked[r] = {}
  /\ asked' = [asked EXCEPT ![r] = {Live}]
  /\ UNCHANGED <<clock, disabled, book, desk>>

\* They end, all at once, and with the kill switch the user is disabled with them.
Done(r, d) ==
  /\ \E S \in asked[r] : state' = Ended(S)
  /\ disabled' = (disabled \/ d)
  /\ asked' = [asked EXCEPT ![r] = {}]
  /\ UNCHANGED <<clock, born, until, desk>>

\* It fails and ends none.
GiveUp(r) ==
  /\ asked' = [asked EXCEPT ![r] = {}]
  /\ UNCHANGED <<clock, disabled, book, desk>>

Enabled ==
  /\ disabled' = FALSE
  /\ UNCHANGED <<clock, book, desk, asked>>

PromiseNext ==
  \/ Pass
  \/ \E s \in Session : Open(s) \/ \E v \in Caller : Admit(v, s) \/ Serve(v, s)
  \/ \E v \in Caller : Leave(v)
  \/ \E S \in SUBSET Live : End(S)
  \/ \E r \in Revoker : Ask(r) \/ GiveUp(r) \/ \E d \in BOOLEAN : Done(r, d)
  \/ Enabled

PromiseSpec == PromiseInit /\ [][PromiseNext]_promiseVars
=============================================================================
