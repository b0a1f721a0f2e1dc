----------------------------- MODULE Directory -----------------------------
(***************************************************************************)
(* The directory of accounts as logins and operators see it, with no       *)
(* statements, index entries, chunks or replays: each writer makes an      *)
(* account in one step together with what comes with it, only where there  *)
(* is none; a request makes at most one account, and none while signup is  *)
(* closed; and an imported account is that of a line with its email.       *)
(***************************************************************************)
CONSTANTS
  Email, Identity,
  ProfileEmail,  \* [Identity -> Email]
  Request,       \* signups and provider logins
  Line,          \* lines of the export
  SignupOpen,
  None

VARIABLES
  user,      \* [Email -> who made the account, or None]
  identity,  \* [Identity -> email of its account, or None]
  mail,      \* accounts that have a verification mail
  export     \* [Line -> email]; fixed

directoryVars == <<user, identity, mail, export>>

DirectoryInit ==
  /\ user = [e \in Email |-> None]
  /\ identity = [i \in Identity |-> None]
  /\ mail = {}

\* A new account for e, the only one r makes.
Opens(r, e) ==
  /\ SignupOpen
  /\ user[e] = None /\ \A d \in Email : user[d] # r
  /\ user' = [user EXCEPT ![e] = r]

Linked(i) ==
  /\ identity[i] = None
  /\ identity' = [identity EXCEPT ![i] = ProfileEmail[i]]

\* A signup: the account and its verification mail.
SignUp(r, e) ==
  /\ Opens(r, e)
  /\ mail' = mail \cup {e}
  /\ UNCHANGED <<identity, export>>

\* A first provider login: the account and its identity.
Join(r, i) ==
  /\ Opens(r, ProfileEmail[i])
  /\ Linked(i)
  /\ UNCHANGED <<mail, export>>

\* A provider login with the email of an account that is there.
Link(i) ==
  /\ user[ProfileEmail[i]] # None
  /\ Linked(i)
  /\ UNCHANGED <<user, mail, export>>

\* Some lines of the export become accounts.
Import ==
  /\ user' \in [Email -> Request \cup Line \cup {None}]
  /\ \A e \in Email : user'[e] # user[e] =>
       user[e] = None /\ user'[e] \in Line /\ export[user'[e]] = e
  /\ UNCHANGED <<identity, mail, export>>

DirectoryNext ==
  \/ \E r \in Request : \/ \E e \in Email : SignUp(r, e)
                        \/ \E i \in Identity : Join(r, i)
  \/ \E i \in Identity : Link(i)
  \/ Import

DirectorySpec == DirectoryInit /\ [][DirectoryNext]_directoryVars
=============================================================================
