------------------------- MODULE RegistrationProofs -------------------------
(***************************************************************************)
(* Registration for any emails, identities, requests, exports and chunk    *)
(* sizes: no writer replaces another's account, and what an account should *)
(* come with is there.                                                     *)
(***************************************************************************)
EXTENDS Registration, FiniteSetTheorems, WellFoundedInduction, TLAPS

-----------------------------------------------------------------------------
(* The rows a step may write.                                              *)

\* The step writes only rows that nobody has or holds, each from a line about it.
Fills ==
  \A e \in Email : \/ user'[e] = user[e]
                   \/ /\ user[e] = None /\ index[e] = None
                      /\ user'[e] \in Line /\ export[user'[e]] = e

\* A set of lines has a first one.
LEMMA FirstLine ==
  ASSUME NEW S \in SUBSET Line, S # {}
  PROVE  \E n \in S : \A m \in S : n <= m
<1>1. S \subseteq Nat
  BY LinesAssumption DEF Line
<1>2. \E n \in S : \A m \in S : ~(<<m, n>> \in OpToRel(<, Nat))
  BY <1>1, NatLessThanWellFounded, WFMin
<1>3. \A m, n \in Nat : m < n => <<m, n>> \in OpToRel(<, Nat)
  BY DEF OpToRel
<1>4. \E n \in S : \A m \in S : ~(m < n)
  BY <1>1, <1>2, <1>3
<1> QED
  BY <1>1, <1>4

\* ON CONFLICT DO NOTHING: the INSERTs of S fill free rows, and then every line of
\* S has an account.
LEMMA InsertsFill ==
  ASSUME TypeOK, NEW S \in SUBSET Line, \A n \in S : export[n] \in Email,
         Unblocked(S), Inserts(S)
  PROVE  /\ user' \in [Email -> Request \cup Line \cup {None}]
         /\ Fills
         /\ \A n \in S : user'[export[n]] # None
<1> DEFINE first(e) == CHOOSE n \in NewLines(S) : export[n] = e
<1>1. \A e \in Email :
        user'[e] = IF \E n \in NewLines(S) : export[n] = e THEN first(e) ELSE user[e]
  BY DEF Inserts
<1>2. NewLines(S) \subseteq S
  BY DEF NewLines
<1>3. \A e \in Email : (\E n \in NewLines(S) : export[n] = e) =>
          /\ first(e) \in Line /\ export[first(e)] = e
          /\ user[e] = None /\ index[e] = None
  <2> SUFFICES ASSUME NEW e \in Email, \E n \in NewLines(S) : export[n] = e
               PROVE  /\ first(e) \in Line /\ export[first(e)] = e
                      /\ user[e] = None /\ index[e] = None
    OBVIOUS
  <2>1. first(e) \in NewLines(S) /\ export[first(e)] = e
    OBVIOUS
  <2> QED BY <1>2, <2>1 DEF NewLines, Unblocked
<1>4. user' \in [Email -> Request \cup Line \cup {None}]
  <2>1. DOMAIN user' = Email /\ user' = [e \in Email |-> user'[e]]
    BY DEF Inserts
  <2>2. \A e \in Email : user'[e] \in Request \cup Line \cup {None}
    BY <1>1, <1>3 DEF TypeOK
  <2> QED BY <2>1, <2>2
<1>5. Fills
  BY <1>1, <1>3 DEF Fills
<1>6. ASSUME NEW n \in S PROVE user'[export[n]] # None
  <2> DEFINE e == export[n]
             T == {m \in S : export[m] = e}
  <2>1. CASE user[e] # None
    BY <1>5, <2>1, LinesAssumption DEF Fills
  <2>2. CASE user[e] = None
    <3>1. PICK k \in T : \A m \in T : k <= m
      <4>1. T \in SUBSET Line /\ n \in T OBVIOUS
      <4> HIDE DEF T
      <4> QED BY <4>1, FirstLine
    <3>2. k \in NewLines(S) /\ export[k] = e
      BY <2>2, <3>1 DEF NewLines
    <3> QED BY <1>1, <1>3, <3>2, LinesAssumption
  <2> QED BY <2>1, <2>2
<1> QED
  BY <1>4, <1>5, <1>6

-----------------------------------------------------------------------------
(* What the steps of one kind leave to the other.                          *)

\* Filling free rows disturbs no request, and no account a request made.
LEMMA WebStays ==
  ASSUME TypeOK, RequestInv, IndexInv, AccountInv, Fills, UNCHANGED webVars
  PROVE  RequestInv' /\ IndexInv' /\ AccountInv'
<1> USE LinesAssumption DEF webVars, Fills, TypeOK
<1>1. \A e \in Email : user[e] # None => user'[e] = user[e]
  OBVIOUS
<1>2. \A e \in Email : user'[e] \in Request => user'[e] = user[e]
  OBVIOUS
<1>3. \A e \in Email, r \in Request : user'[e] = r <=> user[e] = r
  BY <1>1, <1>2
<1>4. RequestInv'
  BY <1>1 DEF RequestInv
<1>5. IndexInv'
  BY DEF IndexInv
<1>6. MailIffSignup'
  BY <1>3 DEF AccountInv, MailIffSignup
<1>7. OAuthAccountIsLinked'
  BY <1>1, <1>3 DEF AccountInv, OAuthAccountIsLinked
<1>8. \A e \in Email : user'[e] \in Request => pc'[user'[e]] = "done"
  BY <1>2 DEF AccountInv
<1> QED
  BY <1>4, <1>5, <1>6, <1>7, <1>8 DEF AccountInv

\* The import counts its own lines, and an account stays one.
LEMMA ImportStays ==
  ASSUME TypeOK, ImportInv, UNCHANGED <<fileVars, importVars>>,
         \A e \in Email : user[e] # None => user'[e] # None
  PROVE  ImportInv'
<1>1. \A n \in 1..at : n \in Line
  BY LinesAssumption DEF TypeOK, Line
<1>2. \A n \in Line : export[n] # None /\ user[export[n]] # None => user'[export[n]] # None
  BY DEF TypeOK
<1> QED
  BY <1>1, <1>2 DEF ImportInv, fileVars, importVars

-----------------------------------------------------------------------------
(* Requests.                                                               *)

\* The parts of the invariant that requests write.
WebInv == TypeOK /\ RequestInv /\ IndexInv /\ AccountInv

\* Taking an email, and committing or giving up what one has taken.
LEMMA SignupInsertStep ==
  ASSUME WebInv, NEW r \in Request, NEW e \in Email, SignupInsert(r, e)
  PROVE  WebInv'
<1> USE LinesAssumption DEF WebInv
<1>1. /\ pc[r] = "idle" /\ user[e] = None /\ index[e] = None
      /\ pc' = [pc EXCEPT ![r] = "sCommit"] /\ want' = [want EXCEPT ![r] = e]
      /\ index' = [index EXCEPT ![e] = r]
      /\ UNCHANGED <<user, identity, mail, fileVars, importVars>>
  BY DEF SignupInsert, Goes, Holds, Free
<1>2. TypeOK'
  BY <1>1 DEF TypeOK, fileVars, importVars
<1>3. RequestInv'
  BY <1>1 DEF RequestInv, TypeOK
<1>4. IndexInv'
  BY <1>1 DEF IndexInv, TypeOK
<1>5. \A d \in Email : user[d] # r
  BY <1>1 DEF AccountInv
<1>6. AccountInv'
  BY <1>1, <1>5 DEF AccountInv, MailIffSignup, OAuthAccountIsLinked, TypeOK
<1> QED
  BY <1>2, <1>3, <1>4, <1>6

\* A password signup's commit: the account and its verification mail together.
LEMMA SignupCommitStep ==
  ASSUME WebInv, NEW r \in Request, SignupCommit(r)
  PROVE  WebInv' /\ \A e \in Email : user[e] # None => user'[e] = user[e]
<1> USE LinesAssumption DEF WebInv
<1> DEFINE e == want[r]
<1>1. /\ pc[r] = "sCommit" /\ e \in Email /\ index[e] = r /\ user[e] = None
      /\ pc' = [pc EXCEPT ![r] = "done"] /\ want' = [want EXCEPT ![r] = e]
      /\ index' = [d \in Email |-> IF index[d] = r THEN None ELSE index[d]]
      /\ user' = [user EXCEPT ![e] = r] /\ mail' = mail \cup {e}
      /\ UNCHANGED <<identity, fileVars, importVars>>
  BY DEF SignupCommit, Goes, LetsGo, RequestInv, IndexInv
<1>2. want' = want
  BY <1>1 DEF TypeOK
<1>3. TypeOK'
  BY <1>1, <1>2 DEF TypeOK, fileVars, importVars
<1>4. \A d \in Email : user[d] # r
  BY <1>1 DEF AccountInv
<1>5. RequestInv'
  BY <1>1, <1>2 DEF RequestInv, TypeOK
<1>6. IndexInv'
  BY <1>1, <1>2 DEF IndexInv, TypeOK
<1>7. MailIffSignup'
  BY <1>1, <1>2, <1>4 DEF AccountInv, MailIffSignup, TypeOK
<1>8. OAuthAccountIsLinked'
  BY <1>1, <1>2, <1>4 DEF AccountInv, OAuthAccountIsLinked, TypeOK
<1>9. AccountInv'
  BY <1>1, <1>7, <1>8 DEF AccountInv, TypeOK
<1>10. \A d \in Email : user[d] # None => user'[d] = user[d]
  BY <1>1 DEF TypeOK
<1> QED
  BY <1>3, <1>5, <1>6, <1>9, <1>10

\* The SELECTs of a provider signup: nothing is written yet.
LEMMA OAuthLookupStep ==
  ASSUME WebInv, NEW r \in Request, NEW i \in Identity, OAuthLookup(r, i)
  PROVE  WebInv'
<1> USE LinesAssumption DEF WebInv
<1>1. /\ pc[r] = "idle"
      /\ pc' = [pc EXCEPT ![r] = "oFind"] /\ want' = [want EXCEPT ![r] = i]
      /\ UNCHANGED <<user, identity, mail, index, fileVars, importVars>>
  BY DEF OAuthLookup, Goes
<1>2. TypeOK'
  BY <1>1 DEF TypeOK, fileVars, importVars
<1>3. RequestInv'
  BY <1>1 DEF RequestInv, TypeOK
<1>4. IndexInv'
  BY <1>1 DEF IndexInv, TypeOK
<1>5. \A d \in Email : user[d] # r
  BY <1>1 DEF AccountInv
<1>6. AccountInv'
  BY <1>1, <1>5 DEF AccountInv, MailIffSignup, OAuthAccountIsLinked, TypeOK
<1> QED
  BY <1>2, <1>3, <1>4, <1>6

\* The second one finds the account to link to, or that there is none.
LEMMA OAuthFindStep ==
  ASSUME WebInv, NEW r \in Request, OAuthFind(r)
  PROVE  WebInv'
<1> USE LinesAssumption DEF WebInv
<1>1. PICK to \in {"oLink", "oInsert"} :
        /\ pc[r] = "oFind" /\ want[r] \in Identity
        /\ to = "oLink" => user[ProfileEmail[want[r]]] # None
        /\ pc' = [pc EXCEPT ![r] = to] /\ want' = want
        /\ UNCHANGED <<user, identity, mail, index, fileVars, importVars>>
  BY DEF OAuthFind, Goes, RequestInv, TypeOK
<1>2. TypeOK'
  BY <1>1 DEF TypeOK, fileVars, importVars
<1>3. RequestInv'
  BY <1>1 DEF RequestInv, TypeOK
<1>4. IndexInv'
  BY <1>1 DEF IndexInv, TypeOK
<1>5. \A d \in Email : user[d] # r
  BY <1>1 DEF AccountInv
<1>6. AccountInv'
  BY <1>1, <1>5 DEF AccountInv, MailIffSignup, OAuthAccountIsLinked, TypeOK
<1> QED
  BY <1>2, <1>3, <1>4, <1>6

\* The user row of a provider signup: the transaction holds the email until it ends.
LEMMA OAuthInsertStep ==
  ASSUME WebInv, NEW r \in Request, OAuthInsert(r)
  PROVE  WebInv'
<1> USE LinesAssumption DEF WebInv
<1> DEFINE e == ProfileEmail[want[r]]
<1>1. /\ pc[r] = "oInsert" /\ want[r] \in Identity /\ e \in Email
      /\ user[e] = None /\ index[e] = None
      /\ pc' = [pc EXCEPT ![r] = "oLink"] /\ want' = want
      /\ index' = [index EXCEPT ![e] = r]
      /\ UNCHANGED <<user, identity, mail, fileVars, importVars>>
  BY DEF OAuthInsert, Goes, Holds, Free, RequestInv, TypeOK
<1>2. TypeOK'
  BY <1>1 DEF TypeOK, fileVars, importVars
<1>3. RequestInv'
  BY <1>1 DEF RequestInv, TypeOK
<1>4. IndexInv'
  BY <1>1 DEF IndexInv, TypeOK
<1>5. \A d \in Email : user[d] # r
  BY <1>1 DEF AccountInv
<1>6. AccountInv'
  BY <1>1, <1>5 DEF AccountInv, MailIffSignup, OAuthAccountIsLinked, TypeOK
<1> QED
  BY <1>2, <1>3, <1>4, <1>6

\* The identity row, and the commit of what the transaction inserted.
LEMMA OAuthLinkStep ==
  ASSUME WebInv, NEW r \in Request, OAuthLink(r)
  PROVE  WebInv' /\ \A e \in Email : user[e] # None => user'[e] = user[e]
<1> USE LinesAssumption DEF WebInv
<1> DEFINE i == want[r]
           e == ProfileEmail[i]
<1>1. /\ pc[r] = "oLink" /\ i \in Identity /\ e \in Email /\ identity[i] = None
      /\ user[e] # None \/ index[e] = r
      /\ index[e] = r => user[e] = None
      /\ pc' = [pc EXCEPT ![r] = "done"] /\ want' = want
      /\ index' = [d \in Email |-> IF index[d] = r THEN None ELSE index[d]]
      /\ user' = [user EXCEPT ![e] = IF index[e] = r THEN r ELSE user[e]]
      /\ identity' = [identity EXCEPT ![i] = e]
      /\ UNCHANGED <<mail, fileVars, importVars>>
  <2>1. /\ pc[r] = "oLink" /\ identity[i] = None
        /\ pc' = [pc EXCEPT ![r] = "done"] /\ want' = [want EXCEPT ![r] = i]
        /\ index' = [d \in Email |-> IF index[d] = r THEN None ELSE index[d]]
        /\ user' = [user EXCEPT ![e] = IF index[e] = r THEN r ELSE user[e]]
        /\ identity' = [identity EXCEPT ![i] = e]
        /\ UNCHANGED <<mail, fileVars, importVars>>
    BY DEF OAuthLink, Goes, LetsGo
  <2>2. want' = want /\ i \in Identity /\ e \in Email
    BY <2>1 DEF RequestInv, TypeOK
  <2>3. (user[e] # None \/ index[e] = r) /\ (index[e] = r => user[e] = None)
    BY <2>1, <2>2 DEF RequestInv, IndexInv
  <2> QED BY <2>1, <2>2, <2>3
<1>2. TypeOK'
  BY <1>1 DEF TypeOK, fileVars, importVars
<1>3. \A d \in Email : user[d] # r
  BY <1>1 DEF AccountInv
<1>4. \A d \in Email : user'[d] = user[d] \/ (d = e /\ user[d] = None /\ user'[d] = r)
  BY <1>1 DEF TypeOK
<1>5. user'[e] # None
  BY <1>1 DEF TypeOK
<1>6. RequestInv'
  BY <1>1, <1>4 DEF RequestInv, TypeOK
<1>7. IndexInv'
  <2> SUFFICES ASSUME NEW d \in Email, index'[d] # None
               PROVE  /\ user'[d] = None
                      /\ \/ pc'[index'[d]] = "sCommit" /\ want'[index'[d]] = d
                         \/ pc'[index'[d]] = "oLink" /\ ProfileEmail[want'[index'[d]]] = d
    BY DEF IndexInv
  <2>1. index'[d] = index[d] /\ index[d] # r /\ index[d] \in Request /\ user[d] = None
    BY <1>1 DEF IndexInv, TypeOK
  <2>2. user'[d] = None
    BY <1>1, <1>4, <2>1
  <2> QED BY <1>1, <2>1, <2>2 DEF IndexInv, TypeOK
<1>8. want[r] \notin Email
  BY <1>1
<1>9. MailIffSignup'
  <2>1. \A d \in Email, q \in Request : want[q] = d => (user'[d] = q <=> user[d] = q)
    BY <1>3, <1>4, <1>8, LinesAssumption
  <2> QED BY <1>1, <2>1 DEF AccountInv, MailIffSignup
<1>10. OAuthAccountIsLinked'
  <2>1. \A j \in Identity : identity'[j] # None => user'[identity'[j]] # None
    BY <1>1, <1>4, <1>5 DEF AccountInv, OAuthAccountIsLinked, TypeOK
  <2>2. ASSUME NEW d \in Email, NEW q \in Request, user'[d] = q, want[q] \in Identity
        PROVE  identity'[want[q]] = d
    <3>1. CASE q = r
      BY <1>1, <1>3, <1>4, <2>2, <3>1 DEF TypeOK
    <3>2. CASE q # r
      <4>1. identity[want[q]] = d
        BY <1>4, <2>2, <3>2 DEF AccountInv, OAuthAccountIsLinked
      <4> QED BY <1>1, <4>1 DEF TypeOK
    <3> QED BY <3>1, <3>2
  <2> QED BY <1>1, <2>1, <2>2 DEF OAuthAccountIsLinked
<1>11. AccountInv'
  BY <1>1, <1>4, <1>9, <1>10 DEF AccountInv, TypeOK
<1> QED
  BY <1>2, <1>4, <1>6, <1>7, <1>11

\* A request that fails gives up what it holds in the index.
LEMMA RequestFailsStep ==
  ASSUME WebInv, NEW r \in Request, RequestFails(r)
  PROVE  WebInv'
<1> USE LinesAssumption DEF WebInv
<1>1. /\ pc[r] \in {"sCommit", "oFind", "oInsert", "oLink"}
      /\ pc' = [pc EXCEPT ![r] = "done"] /\ want' = want
      /\ index' = [d \in Email |-> IF index[d] = r THEN None ELSE index[d]]
      /\ UNCHANGED <<user, identity, mail, fileVars, importVars>>
  BY DEF RequestFails, Goes, LetsGo, TypeOK
<1>2. TypeOK'
  BY <1>1 DEF TypeOK, fileVars, importVars
<1>3. RequestInv'
  BY <1>1 DEF RequestInv, TypeOK
<1>4. IndexInv'
  BY <1>1 DEF IndexInv, TypeOK
<1>5. AccountInv'
  BY <1>1 DEF AccountInv, MailIffSignup, OAuthAccountIsLinked, TypeOK
<1> QED
  BY <1>2, <1>3, <1>4, <1>5

-----------------------------------------------------------------------------
(* The import.                                                             *)

\* The lines in hand are finite, and have emails.
LEMMA PendingLines ==
  ASSUME TypeOK, ImportInv
  PROVE  /\ IsFiniteSet(pending) /\ Cardinality(pending) \in Nat
         /\ \A n \in pending : export[n] \in Email
         /\ at \in Nat /\ 1..at \subseteq Line
<1>1. IsFiniteSet(Line)
  BY LinesAssumption, FS_Interval DEF Line
<1>2. IsFiniteSet(pending) /\ Cardinality(pending) \in Nat
  BY <1>1, FS_Subset, FS_CardinalityType DEF TypeOK
<1>3. at \in Nat /\ 1..at \subseteq Line
  BY LinesAssumption DEF TypeOK, Line
<1> QED
  BY <1>2, <1>3 DEF TypeOK, ImportInv

\* Created and skipped add up.
LEMMA CountsAdd ==
  ASSUME NEW S, IsFiniteSet(S)
  PROVE  /\ Cardinality(NewLines(S)) \in Nat /\ Cardinality(S \ NewLines(S)) \in Nat
         /\ Cardinality(NewLines(S)) + Cardinality(S \ NewLines(S)) = Cardinality(S)
<1>1. NewLines(S) \subseteq S /\ S \cap NewLines(S) = NewLines(S)
  BY DEF NewLines
<1>2. IsFiniteSet(NewLines(S)) /\ IsFiniteSet(S \ NewLines(S))
  BY <1>1, FS_Subset, FS_Difference
<1>3. Cardinality(S \ NewLines(S)) = Cardinality(S) - Cardinality(NewLines(S))
  BY <1>1, FS_Difference
<1>4. /\ Cardinality(S) \in Nat /\ Cardinality(NewLines(S)) \in Nat
      /\ Cardinality(S \ NewLines(S)) \in Nat
  BY <1>2, FS_CardinalityType
<1> QED
  BY <1>3, <1>4

\* The steps that write no row.
LEMMA ImportReads ==
  ASSUME IInv, ReadLine \/ ReadError \/ EndOfFile \/ Finish \/ Rerun
  PROVE  TypeOK' /\ Fills /\ UNCHANGED webVars /\ ImportInv'
<1> USE LinesAssumption
<1>0. TypeOK /\ ImportInv
  BY DEF IInv
<1>1. UNCHANGED <<user, webVars, fileVars>>
  BY DEF ReadLine, ReadError, EndOfFile, Finish, Rerun
<1>2. Fills
  BY <1>1 DEF Fills
<1>3. CASE ReadLine
  <2> DEFINE n == at + 1
  <2>1. /\ at \in Nat /\ n \in Line /\ 1..at \subseteq Line /\ n \notin 1..at
        /\ 1..n = (1..at) \cup {n} /\ at' = n /\ importer = "reading"
        /\ UNCHANGED <<created, skipped, restarts, user, export>>
    <3>1. at \in Nat /\ at < Lines /\ at' = at + 1 /\ importer = "reading"
      BY <1>0, <1>3 DEF ReadLine, TypeOK
    <3>2. UNCHANGED <<created, skipped, restarts, user, export>>
      BY <1>1, <1>3 DEF ReadLine, fileVars
    <3>3. n \in Line /\ 1..at \subseteq Line /\ n \notin 1..at
      BY <3>1 DEF Line
    <3>4. 1..n = (1..at) \cup {n}
      BY <3>1
    <3> QED BY <3>1, <3>2, <3>3, <3>4
  <2>2. CASE export[n] = None
    <3>1. failed' = failed + 1 /\ UNCHANGED <<pending, importer>>
      BY <1>3, <2>2 DEF ReadLine
    <3>2. TypeOK'
      BY <1>0, <1>1, <2>1, <3>1 DEF TypeOK, webVars, fileVars, Line
    <3>3. ImportInv'
      BY <1>0, <2>1, <3>1, PendingLines DEF TypeOK, ImportInv
    <3> QED BY <1>1, <1>2, <3>2, <3>3
  <2>3. CASE export[n] # None
    <3>1. /\ pending' = pending \cup {n} /\ UNCHANGED failed
          /\ importer' \in {"flushing", "reading"}
      BY <1>3, <2>3 DEF ReadLine
    <3>2. TypeOK'
      BY <1>0, <1>1, <2>1, <3>1 DEF TypeOK, webVars, fileVars, Line
    <3>3. n \notin pending
      BY <1>0, <2>1 DEF ImportInv
    <3>4. Cardinality(pending') = Cardinality(pending) + 1 /\ Cardinality(pending) \in Nat
      BY <1>0, <3>1, <3>3, PendingLines, FS_AddElement
    <3>5. /\ pending' \subseteq 1..at' /\ \A m \in pending' : export'[m] # None
          /\ (1..at') \ pending' \subseteq (1..at) \ pending
      BY <1>0, <2>1, <2>3, <3>1 DEF ImportInv
    <3>6. created' + skipped' + failed' + Cardinality(pending') = at'
      BY <1>0, <2>1, <3>1, <3>4 DEF ImportInv, TypeOK
    <3>7. ImportInv'
      BY <1>0, <2>1, <3>1, <3>5, <3>6 DEF ImportInv
    <3> QED BY <1>1, <1>2, <3>2, <3>7
  <2> QED BY <2>2, <2>3
<1>4. CASE ReadError
  BY <1>0, <1>1, <1>2, <1>4 DEF ReadError, TypeOK, ImportInv, webVars, fileVars
<1>5. CASE EndOfFile
  BY <1>0, <1>1, <1>2, <1>5 DEF EndOfFile, TypeOK, ImportInv, webVars, fileVars
<1>6. CASE Finish
  BY <1>0, <1>1, <1>2, <1>6 DEF Finish, TypeOK, ImportInv, webVars, fileVars
<1>7. CASE Rerun
  <2>1. TypeOK'
    BY <1>0, <1>1, <1>7 DEF Rerun, TypeOK, webVars, fileVars
  <2>2. ImportInv'
    BY <1>7, FS_EmptySet DEF Rerun, ImportInv
  <2> QED BY <1>1, <1>2, <2>1, <2>2
<1> QED
  BY <1>3, <1>4, <1>5, <1>6, <1>7

\* The steps that write the pending lines, or some of them.
LEMMA ImportBatch ==
  ASSUME IInv, BatchCommits \/ BatchFails
  PROVE  TypeOK' /\ Fills /\ UNCHANGED webVars /\ ImportInv'
<1> USE LinesAssumption
<1>0. TypeOK /\ ImportInv
  BY DEF IInv
<1>1. /\ IsFiniteSet(pending) /\ Cardinality(pending) \in Nat
      /\ \A n \in pending : export[n] \in Email
      /\ at \in Nat /\ 1..at \subseteq Line
  BY <1>0, PendingLines
<1>2. UNCHANGED <<webVars, fileVars, at, failed, restarts>>
  BY DEF BatchCommits, BatchFails
<1>3. Unblocked(pending) /\ Inserts(pending) =>
        /\ user' \in [Email -> Request \cup Line \cup {None}] /\ Fills
        /\ \A n \in pending : user'[export[n]] # None
  BY <1>0, <1>1, InsertsFill DEF TypeOK
<1>4. UNCHANGED user => user' \in [Email -> Request \cup Line \cup {None}] /\ Fills
  BY <1>0 DEF TypeOK, Fills
<1>5. Fills => \A n \in (1..at) \ pending :
        export[n] # None /\ user[export[n]] # None => user'[export[n]] # None
  BY <1>0, <1>1 DEF Fills, TypeOK
<1>6. CASE BatchCommits
  <2>1. /\ user' \in [Email -> Request \cup Line \cup {None}] /\ Fills
        /\ \A n \in pending : user'[export[n]] # None
    BY <1>3, <1>6 DEF BatchCommits
  <2>2. /\ created' = created + Cardinality(NewLines(pending))
        /\ skipped' = skipped + Cardinality(pending \ NewLines(pending))
        /\ pending' = {} /\ importer' \in {"finishing", "reading"}
        /\ importer' = "finishing" => at = Lines
    BY <1>6 DEF BatchCommits, Resumes
  <2>3. created' \in Nat /\ skipped' \in Nat
    BY <1>0, <1>1, <2>2, CountsAdd DEF TypeOK
  <2>4. TypeOK'
    BY <1>0, <1>2, <2>1, <2>2, <2>3 DEF TypeOK, webVars, fileVars
  <2>5. created' + skipped' = created + skipped + Cardinality(pending)
    BY <1>0, <1>1, <2>2, CountsAdd DEF TypeOK
  <2>6. created' + skipped' + failed' + Cardinality(pending') = at'
    BY <1>0, <1>1, <1>2, <2>2, <2>3, <2>5, FS_EmptySet DEF TypeOK, ImportInv
  <2>7. failed' = 0 => \A n \in (1..at') \ pending' : export'[n] # None /\ user'[export'[n]] # None
    BY <1>0, <1>1, <1>2, <1>5, <2>1 DEF ImportInv, fileVars
  <2>8. ImportInv'
    BY <1>2, <2>2, <2>6, <2>7 DEF ImportInv
  <2> QED BY <1>2, <2>1, <2>4, <2>8
<1>7. CASE BatchFails
  <2>1. user' \in [Email -> Request \cup Line \cup {None}] /\ Fills
    BY <1>3, <1>4, <1>7 DEF BatchFails
  <2>2. importer' = "replaying" /\ UNCHANGED <<pending, created, skipped>>
    BY <1>7 DEF BatchFails
  <2>3. TypeOK'
    BY <1>0, <1>2, <2>1, <2>2 DEF TypeOK, webVars, fileVars
  <2>4. ImportInv'
    BY <1>0, <1>1, <1>2, <1>5, <2>1, <2>2 DEF ImportInv, fileVars
  <2> QED BY <1>2, <2>1, <2>3, <2>4
<1> QED
  BY <1>6, <1>7

\* Replaying one line of a refused chunk: its row is there, or the line is reported.
LEMMA ImportReplay ==
  ASSUME IInv, NEW n \in Line, NEW ok \in BOOLEAN, ReplayRow(n, ok)
  PROVE  TypeOK' /\ Fills /\ UNCHANGED webVars /\ ImportInv'
<1> USE LinesAssumption
<1>0. TypeOK /\ ImportInv /\ n \in pending
  BY DEF IInv, ReplayRow
<1>1. /\ IsFiniteSet(pending) /\ Cardinality(pending) \in Nat
      /\ \A m \in pending : export[m] \in Email
      /\ at \in Nat /\ 1..at \subseteq Line
  BY <1>0, PendingLines
<1>2. /\ UNCHANGED <<webVars, fileVars, at, restarts>> /\ pending' = pending \ {n}
      /\ importer' \in {"finishing", "reading", "replaying"}
      /\ importer' = "finishing" => at = Lines /\ pending' = {}
  BY DEF ReplayRow, Resumes
<1>3. Unblocked({n}) /\ Inserts({n}) =>
        /\ user' \in [Email -> Request \cup Line \cup {None}] /\ Fills
        /\ user'[export[n]] # None
  BY <1>0, <1>1, InsertsFill
<1>4. UNCHANGED user => user' \in [Email -> Request \cup Line \cup {None}] /\ Fills
  BY <1>0 DEF TypeOK, Fills
<1>5. user' \in [Email -> Request \cup Line \cup {None}] /\ Fills
  BY <1>3, <1>4 DEF ReplayRow
<1>6. \A m \in (1..at) \ pending :
        export[m] # None /\ user[export[m]] # None => user'[export[m]] # None
  BY <1>0, <1>1, <1>5 DEF Fills, TypeOK
<1>7. Cardinality(pending') = Cardinality(pending) - 1 /\ Cardinality(pending') \in Nat
  BY <1>0, <1>1, <1>2, FS_RemoveElement, FS_CardinalityType
<1>8. IsFiniteSet({n}) /\ Cardinality({n}) = 1
  BY FS_Singleton
<1>9. CASE ok
  <2>1. /\ user'[export[n]] # None /\ UNCHANGED failed
        /\ created' = created + Cardinality(NewLines({n}))
        /\ skipped' = skipped + Cardinality({n} \ NewLines({n}))
    BY <1>3, <1>9 DEF ReplayRow
  <2>2. created' \in Nat /\ skipped' \in Nat /\ created' + skipped' = created + skipped + 1
    <3>1. /\ Cardinality(NewLines({n})) \in Nat /\ Cardinality({n} \ NewLines({n})) \in Nat
          /\ Cardinality(NewLines({n})) + Cardinality({n} \ NewLines({n})) = 1
      BY <1>8, CountsAdd
    <3>2. created \in Nat /\ skipped \in Nat
      BY <1>0 DEF TypeOK
    <3> QED BY <2>1, <3>1, <3>2
  <2>3. TypeOK'
    BY <1>0, <1>2, <1>5, <2>1, <2>2 DEF TypeOK, webVars, fileVars
  <2>4. created' + skipped' + failed' + Cardinality(pending') = at'
    BY <1>0, <1>1, <1>2, <1>7, <2>1, <2>2 DEF TypeOK, ImportInv
  <2>5. failed' = 0 => \A m \in (1..at') \ pending' : export'[m] # None /\ user'[export'[m]] # None
    BY <1>0, <1>1, <1>2, <1>6, <2>1 DEF ImportInv, fileVars
  <2>6. ImportInv'
    BY <1>0, <1>2, <2>4, <2>5 DEF ImportInv, fileVars
  <2> QED BY <1>2, <1>5, <2>3, <2>6
<1>10. CASE ~ok
  <2>1. failed' = failed + 1 /\ UNCHANGED <<created, skipped>>
    BY <1>10 DEF ReplayRow
  <2>2. TypeOK'
    BY <1>0, <1>2, <1>5, <2>1 DEF TypeOK, webVars, fileVars
  <2>3. created' + skipped' + failed' + Cardinality(pending') = at' /\ failed' # 0
    BY <1>0, <1>1, <1>2, <1>7, <2>1 DEF TypeOK, ImportInv
  <2>4. ImportInv'
    BY <1>0, <1>2, <2>3 DEF ImportInv, fileVars
  <2> QED BY <1>2, <1>5, <2>2, <2>4
<1> QED
  BY <1>9, <1>10

-----------------------------------------------------------------------------
(* The theorems.                                                           *)

\* An empty users table.
LEMMA InitInv == Init => IInv
<1> SUFFICES ASSUME Init PROVE IInv OBVIOUS
<1> USE LinesAssumption
<1>1. TypeOK
  BY DEF Init, TypeOK
<1>2. RequestInv /\ IndexInv
  BY DEF Init, RequestInv, IndexInv
<1>3. AccountInv
  BY DEF Init, AccountInv, MailIffSignup, OAuthAccountIsLinked
<1>4. ImportInv
  BY FS_EmptySet DEF Init, ImportInv
<1> QED
  BY <1>1, <1>2, <1>3, <1>4 DEF IInv

\* Every step keeps the invariant and the accounts there are.
LEMMA NextInv ==
  ASSUME IInv, [Next]_vars
  PROVE  IInv' /\ \A e \in Email : user[e] # None => user'[e] = user[e]
<1>0. WebInv /\ TypeOK /\ ImportInv
  BY DEF IInv, WebInv
<1>1. ASSUME TypeOK', Fills, UNCHANGED webVars, ImportInv'
      PROVE  IInv' /\ \A e \in Email : user[e] # None => user'[e] = user[e]
  <2>1. RequestInv' /\ IndexInv' /\ AccountInv'
    BY <1>0, <1>1, WebStays DEF WebInv
  <2> QED BY <1>1, <2>1 DEF IInv, Fills
<1>2. ASSUME WebInv', UNCHANGED <<fileVars, importVars>>,
             \A e \in Email : user[e] # None => user'[e] = user[e]
      PROVE  IInv' /\ \A e \in Email : user[e] # None => user'[e] = user[e]
  <2>1. ImportInv'
    BY <1>0, <1>2, ImportStays
  <2> QED BY <1>2, <2>1 DEF IInv, WebInv
<1>3. CASE ImportStep \/ ReadError \/ Rerun
  BY <1>1, <1>3, ImportReads, ImportBatch, ImportReplay DEF ImportStep
<1>4. ASSUME NEW r \in Request, NEW e \in Email, SignupInsert(r, e)
      PROVE  WebInv' /\ UNCHANGED <<user, fileVars, importVars>>
  BY <1>0, <1>4, SignupInsertStep DEF SignupInsert
<1>5. ASSUME NEW r \in Request, NEW i \in Identity, OAuthLookup(r, i)
      PROVE  WebInv' /\ UNCHANGED <<user, fileVars, importVars>>
  BY <1>0, <1>5, OAuthLookupStep DEF OAuthLookup
<1>6. ASSUME NEW r \in Request, OAuthFind(r) \/ OAuthInsert(r) \/ RequestFails(r)
      PROVE  WebInv' /\ UNCHANGED <<user, fileVars, importVars>>
  BY <1>0, <1>6, OAuthFindStep, OAuthInsertStep, RequestFailsStep
  DEF OAuthFind, OAuthInsert, RequestFails
<1>7. ASSUME NEW r \in Request, SignupCommit(r) \/ OAuthLink(r)
      PROVE  /\ WebInv' /\ UNCHANGED <<fileVars, importVars>>
             /\ \A e \in Email : user[e] # None => user'[e] = user[e]
  BY <1>0, <1>7, SignupCommitStep, OAuthLinkStep DEF SignupCommit, OAuthLink
<1>8. CASE UNCHANGED vars
  <2>1. UNCHANGED <<user, webVars, fileVars, importVars>>
    BY <1>8 DEF vars
  <2>2. TypeOK' /\ Fills
    BY <1>0, <2>1 DEF TypeOK, Fills, webVars, fileVars, importVars
  <2>3. ImportInv'
    BY <1>0, <2>1, ImportStays
  <2> QED BY <1>1, <2>1, <2>2, <2>3
<1> QED
  BY <1>2, <1>3, <1>4, <1>5, <1>6, <1>7, <1>8 DEF Next, RequestStep

\* The inductive invariant: what requests hold and rely on, what accounts came with,
\* and what the import has counted.
THEOREM Inductive == Spec => []IInv
<1>1. IInv /\ [Next]_vars => IInv'
  BY NextInv
<1> QED
  BY <1>1, InitInv, PTL DEF Spec

\* Signups, OAuth logins, imports and their reruns never replace an account.
THEOREM AccountsStay == Spec => FirstWriterWins
<1>1. IInv /\ [Next]_vars => [\A e \in Email : user[e] # None => user'[e] = user[e]]_vars
  BY NextInv
<1> QED
  BY <1>1, Inductive, PTL DEF Spec, FirstWriterWins

\* runImport: status 0 means that every line has an account and was counted once.
THEOREM ImportComplete == Spec => []CleanImportIsComplete
<1>1. IInv => CleanImportIsComplete
  <2> SUFFICES ASSUME IInv, importer = "ok"
               PROVE  /\ \A n \in Line : export[n] # None /\ user[export[n]] # None
                      /\ created + skipped = Lines
    BY DEF CleanImportIsComplete
  <2>1. failed = 0 /\ at = Lines /\ pending = {} /\ Cardinality(pending) = 0
    BY FS_EmptySet DEF IInv, ImportInv
  <2>2. created \in Nat /\ skipped \in Nat /\ Lines \in Nat
    BY LinesAssumption DEF IInv, TypeOK
  <2> QED BY <2>1, <2>2 DEF IInv, ImportInv, Line
<1> QED
  BY <1>1, Inductive, PTL

\* handleSignup: a signup's account and its verification mail commit together.
THEOREM SignupMails == Spec => []MailIffSignup
<1>1. IInv => MailIffSignup
  BY DEF IInv, AccountInv
<1> QED
  BY <1>1, Inductive, PTL

\* UpsertByOAuth: an account and the identity it was made for commit together.
THEOREM OAuthLinks == Spec => []OAuthAccountIsLinked
<1>1. IInv => OAuthAccountIsLinked
  BY DEF IInv, AccountInv
<1> QED
  BY <1>1, Inductive, PTL

-----------------------------------------------------------------------------
(* The directory.                                                          *)

\* OpenInv is inductive: while signup is closed nobody gets as far as an INSERT.
LEMMA OpenStep ==
  ASSUME IInv, OpenInv, [Next]_vars
  PROVE  OpenInv'
<1> SUFFICES ASSUME ~SignupOpen
             PROVE  /\ \A r \in Request : pc'[r] \notin {"sCommit", "oInsert"}
                    /\ \A e \in Email : index'[e] = None
  BY DEF OpenInv
<1>0. /\ \A r \in Request : pc[r] \notin {"sCommit", "oInsert"}
      /\ \A e \in Email : index[e] = None
      /\ pc \in [Request -> {"idle", "sCommit", "oFind", "oInsert", "oLink", "done"}]
  BY DEF OpenInv, IInv, TypeOK
<1>1. ASSUME NEW r \in Request, NEW i \in Identity, OAuthLookup(r, i)
      PROVE  pc' = [pc EXCEPT ![r] = "oFind"] /\ UNCHANGED index
  BY <1>1 DEF OAuthLookup, Goes
<1>2. ASSUME NEW r \in Request, RequestStep(r)
      PROVE  /\ \E to \in {"oLink", "done"} : pc' = [pc EXCEPT ![r] = to]
             /\ \/ UNCHANGED index
                \/ index' = [e \in Email |-> IF index[e] = r THEN None ELSE index[e]]
  BY <1>0, <1>2 DEF RequestStep, SignupCommit, OAuthFind, OAuthInsert, OAuthLink, RequestFails,
                    Goes, LetsGo
<1>3. CASE ImportStep \/ ReadError \/ Rerun \/ UNCHANGED vars
  BY <1>0, <1>3
     DEF ImportStep, ReadLine, EndOfFile, BatchCommits, BatchFails, Finish, ReplayRow,
         ReadError, Rerun, webVars, vars
<1>4. CASE \E r \in Request, i \in Identity : OAuthLookup(r, i)
  BY <1>0, <1>1, <1>4
<1>5. CASE \E r \in Request : RequestStep(r)
  BY <1>0, <1>2, <1>5
<1>6. ~\E r \in Request, e \in Email : SignupInsert(r, e)
  BY DEF SignupInsert
<1> QED
  BY <1>3, <1>4, <1>5, <1>6 DEF Next

\* Whoever is about to commit has made no account yet.
LEMMA NoAccountYet ==
  ASSUME IInv, NEW r \in Request, pc[r] # "done"
  PROVE  \A d \in Email : user[d] # r
  BY DEF IInv, AccountInv

\* A signup commits the account and its mail in one step of the directory.
LEMMA SignupIsSignUp ==
  ASSUME IInv, OpenInv, NEW r \in Request, SignupCommit(r)
  PROVE  \E e \in Email : Dir!SignUp(r, e)
<1>1. /\ pc[r] = "sCommit" /\ want[r] \in Email /\ index[want[r]] = r
      /\ index[want[r]] # None
  BY LinesAssumption DEF SignupCommit, IInv, RequestInv
<1>2. SignupOpen /\ user[want[r]] = None
  BY <1>1 DEF OpenInv, IInv, IndexInv
<1>3. \A d \in Email : user[d] # r
  BY <1>1, NoAccountYet
<1> QED
  BY <1>1, <1>2, <1>3 DEF SignupCommit, fileVars, Dir!SignUp, Dir!Opens

\* A provider login joins or links, as the row it inserted or found says.
LEMMA OAuthJoinsOrLinks ==
  ASSUME IInv, OpenInv, NEW r \in Request, OAuthLink(r)
  PROVE  \E i \in Identity : Dir!Join(r, i) \/ Dir!Link(i)
<1> DEFINE i == want[r]
           e == ProfileEmail[i]
<1>1. /\ pc[r] = "oLink" /\ i \in Identity /\ e \in Email
      /\ identity[i] = None /\ identity' = [identity EXCEPT ![i] = e]
      /\ user[e] # None \/ index[e] = r
      /\ UNCHANGED <<mail, export>>
  BY LinesAssumption DEF OAuthLink, IInv, RequestInv, fileVars
<1>2. user' = [user EXCEPT ![e] = IF index[e] = r THEN r ELSE user[e]]
  BY DEF OAuthLink
<1>3. user \in [Email -> Request \cup Line \cup {None}]
  BY DEF IInv, TypeOK
<1>4. CASE index[e] = r
  <2>1. index[e] # None
    BY <1>4, LinesAssumption
  <2>2. SignupOpen /\ user[e] = None
    BY <1>1, <2>1 DEF OpenInv, IInv, IndexInv
  <2>3. \A d \in Email : user[d] # r
    BY <1>1, NoAccountYet
  <2>4. user' = [user EXCEPT ![e] = r]
    BY <1>2, <1>4
  <2>5. Dir!Join(r, i)
    BY <1>1, <2>2, <2>3, <2>4 DEF Dir!Join, Dir!Opens, Dir!Linked
  <2> QED BY <1>1, <2>5
<1>5. CASE index[e] # r
  <2>1. user' = user /\ user[e] # None
    BY <1>1, <1>2, <1>3, <1>5
  <2>2. Dir!Link(i)
    BY <1>1, <2>1 DEF Dir!Link, Dir!Linked
  <2> QED BY <1>1, <2>2
<1> QED
  BY <1>4, <1>5

\* Whatever the import commits, with or without an answer, is a step of the
\* directory.
LEMMA ImportIsImport ==
  ASSUME IInv, ImportStep \/ ReadError \/ Rerun
  PROVE  Dir!Import
<1>1. TypeOK' /\ Fills /\ UNCHANGED webVars
  BY ImportReads, ImportBatch, ImportReplay DEF ImportStep
<1>2. UNCHANGED export
  BY DEF ImportStep, ReadLine, EndOfFile, BatchCommits, BatchFails, Finish, ReplayRow,
         ReadError, Rerun, fileVars
<1> QED
  BY <1>1, <1>2 DEF Dir!Import, Fills, TypeOK, webVars

\* Every step of a writer is a step of the directory or changes nothing of it.
LEMMA DirectoryStep ==
  ASSUME IInv, OpenInv, [Next]_vars
  PROVE  [Dir!DirectoryNext]_(Dir!directoryVars)
<1>1. ASSUME NEW r \in Request, SignupCommit(r) PROVE Dir!DirectoryNext
  BY <1>1, SignupIsSignUp DEF Dir!DirectoryNext
<1>2. ASSUME NEW r \in Request, OAuthLink(r) PROVE Dir!DirectoryNext
  BY <1>2, OAuthJoinsOrLinks DEF Dir!DirectoryNext
<1>3. CASE ImportStep \/ ReadError \/ Rerun
  BY <1>3, ImportIsImport DEF Dir!DirectoryNext
<1>4. ASSUME NEW r \in Request,
             \/ \E e \in Email : SignupInsert(r, e)
             \/ \E i \in Identity : OAuthLookup(r, i)
             \/ OAuthFind(r) \/ OAuthInsert(r) \/ RequestFails(r)
      PROVE  UNCHANGED Dir!directoryVars
  BY <1>4 DEF SignupInsert, OAuthLookup, OAuthFind, OAuthInsert, RequestFails, fileVars,
              Dir!directoryVars
<1>5. CASE UNCHANGED vars
  BY <1>5 DEF vars, webVars, fileVars, Dir!directoryVars
<1> QED
  BY <1>1, <1>2, <1>3, <1>4, <1>5 DEF Next, RequestStep

\* handleSignup, UpsertByOAuth and runImport, statement by statement, implement the
\* directory in which each account is made in one step.
THEOREM RegistrationImplementsDirectory == Spec => ImplementsDirectory
<1>1. Init => Dir!DirectoryInit
  BY DEF Init, Dir!DirectoryInit
<1>2. Init => OpenInv
  BY DEF Init, OpenInv
<1>3. IInv /\ OpenInv /\ [Next]_vars => OpenInv'
  BY OpenStep
<1>4. IInv /\ OpenInv /\ [Next]_vars => [Dir!DirectoryNext]_(Dir!directoryVars)
  BY DirectoryStep
<1> QED
  BY <1>1, <1>2, <1>3, <1>4, Inductive, PTL
     DEF Spec, ImplementsDirectory, Dir!DirectorySpec
=============================================================================
