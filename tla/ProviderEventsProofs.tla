------------------------ MODULE ProviderEventsProofs ------------------------
(* Machine-checked proofs about the event reducer and about ProviderEvents. *)
EXTENDS ProviderEvents, TLAPS

\* The reducer's order independence on rows an event can reach: two writers
\* (a webhook and the replay, or two webhooks) may apply the same events in
\* opposite orders and the status comes out the same.
THEOREM ReducerCommutes ==
  ASSUME NEW s \in {"accepted", "delivered", "failed"},
         NEW d \in EventClass, NEW e \in EventClass
  PROVE  ReduceStatus(ReduceStatus(s, d), e) = ReduceStatus(ReduceStatus(s, e), d)
<1>1. CASE d = "failure" \/ e = "failure"
  BY <1>1 DEF ReduceStatus, EventClass
<1>2. CASE d # "failure" /\ e # "failure"
  BY <1>2 DEF ReduceStatus, EventClass
<1> QED
  BY <1>1, <1>2

\* Replaying an event that was applied already changes nothing, so the overlap
\* between a webhook and reconcileEvents is harmless.
THEOREM ReducerIdempotent ==
  ASSUME NEW s \in RowStatus, NEW e \in EventClass
  PROVE  ReduceStatus(ReduceStatus(s, e), e) = ReduceStatus(s, e)
  BY DEF ReduceStatus, EventClass, RowStatus

\* The reducer never lowers the rank of a row.
LEMMA ReducerMonotone ==
  ASSUME NEW s \in RowStatus, NEW e \in EventClass
  PROVE  /\ ReduceStatus(s, e) \in RowStatus
         /\ Rank(s) <= Rank(ReduceStatus(s, e)) \/ s \in {"canceled", "expired"}
  BY DEF ReduceStatus, Rank, EventClass, RowStatus

-----------------------------------------------------------------------------
\* Nothing is stored yet, so nothing has to be carried.
LEMMA InitInv == Init => IInv
<1> SUFFICES ASSUME Init PROVE IInv
  OBVIOUS
<1>0. attempts \in 1..MaxAttempts
  BY AttemptsAssumption DEF Init
<1>1. TypeOK
  BY <1>0, Zenon DEF Init, TypeOK, RowStatus
<1>2. ~pmid /\ status = "pending" /\ finalizer = "sending"
  BY DEF Init
<1> QED
  BY <1>1, <1>2 DEF Init, IInv, StatusJustified

\* One UPDATE of reduceEvent on a row whose message id is known or not.
LEMMA ReduceRow ==
  ASSUME TypeOK, pmid => status \in {"accepted", "delivered", "failed"},
         NEW e \in Event, ReduceEvent(e)
  PROVE  /\ status' \in RowStatus
         /\ deliveredAt' \in BOOLEAN
         /\ pmid' = pmid
         /\ IF pmid THEN status' \in {"accepted", "delivered", "failed"}
                    ELSE status' = status
         /\ pmid => Reflected(e)'
         /\ \A f \in Event : Reflected(f) => Reflected(f)'
         /\ pmid /\ status' = "failed" => status = "failed" \/ ClassOf[e] = "failure"
         /\ status' = "delivered" => status = "delivered" \/ ClassOf[e] = "delivered"
<1>1. CASE ~pmid
  BY <1>1 DEF TypeOK, ReduceEvent, Reflected
<1>2. CASE pmid
  <2>1. status' = ReduceStatus(status, ClassOf[e])
    BY <1>2 DEF ReduceEvent
  <2>2. deliveredAt' = (deliveredAt \/ ClassOf[e] = "delivered") /\ deliveredAt' \in BOOLEAN
    BY <1>2 DEF ReduceEvent, StampsDelivery, TypeOK
  <2>3. ClassOf[e] \in EventClass /\ status \in {"accepted", "delivered", "failed"}
    BY <1>2, ClassAssumption DEF TypeOK
  <2>4. pmid' = pmid
    BY DEF ReduceEvent
  <2>5. CASE ClassOf[e] = "failure"
    BY <1>2, <2>1, <2>2, <2>3, <2>4, <2>5 DEF ReduceStatus, Reflected, RowStatus
  <2>6. CASE ClassOf[e] = "delivered"
    BY <1>2, <2>1, <2>2, <2>3, <2>4, <2>6 DEF ReduceStatus, Reflected, RowStatus
  <2>7. CASE ClassOf[e] \notin {"failure", "delivered"}
    BY <1>2, <2>1, <2>2, <2>3, <2>4, <2>7 DEF ReduceStatus, Reflected, RowStatus
  <2> QED
    BY <2>5, <2>6, <2>7
<1> QED
  BY <1>1, <1>2

\* Every step keeps each stored event on the row or in the hands of a webhook
\* handler or of reconcileEvents, unless it is the failure that drops it.
LEMMA StepInv == IInv /\ [Next]_vars => IInv'
<1> SUFFICES ASSUME IInv, [Next]_vars PROVE IInv'
  OBVIOUS
<1> USE EventAssumption, AttemptsAssumption DEF IInv
<1>0. pmid => status \in {"accepted", "delivered", "failed"}
  OBVIOUS
<1>1. CASE AcceptLost \/ Reclaim
  <2>1. /\ finalizer \in {"sending", "lost"} /\ finalizer' \in {"sending", "lost"}
        /\ UNCHANGED <<status, deliveredAt, pmid, todo, stored, handling, acked, dropped>>
    BY <1>1 DEF AcceptLost, Reclaim, rowVars, hookVars
  <2>2. attempts' \in 1..MaxAttempts
    BY <1>1 DEF AcceptLost, Reclaim, TypeOK
  <2>4. TypeOK' /\ StatusJustified'
    BY <2>1, <2>2 DEF TypeOK, StatusJustified
  <2>3. \A e \in stored \ dropped : Carried(e)'
    BY <2>1 DEF Carried
  <2> QED
    BY <2>1, <2>3, <2>4
<1>12. CASE Retire \/ Supersede \/ Refused
  <2>1. /\ finalizer \in {"sending", "lost"} /\ finalizer' = "retired"
        /\ status' \in {"expired", "canceled", "failed"}
        /\ UNCHANGED <<deliveredAt, pmid, attempts, todo, stored, handling, acked, dropped>>
    BY <1>12 DEF Retire, Supersede, Refused, Retires, hookVars
  <2>2. TypeOK' /\ StatusJustified'
    BY <2>1 DEF TypeOK, StatusJustified, RowStatus
  <2>3. \A e \in stored \ dropped : Carried(e)'
    BY <2>1 DEF Carried
  <2> QED
    BY <2>1, <2>2, <2>3
<1>2. CASE Accept
  BY <1>2 DEF Accept, TypeOK, Carried, Reflected, StatusJustified, hookVars, RowStatus
<1>3. CASE ReadEvents
  BY <1>3 DEF ReadEvents, TypeOK, Carried, Reflected, StatusJustified, rowVars, hookVars
<1>4. ASSUME NEW e \in Event, Replay(e) PROVE IInv'
  <2>1. pmid /\ e \in stored
    BY <1>4 DEF Replay, TypeOK
  <2>2. /\ finalizer' = finalizer /\ attempts' = attempts /\ todo' = todo \ {e}
        /\ stored' = stored /\ handling' = handling /\ acked' = acked /\ dropped' = dropped
    BY <1>4 DEF Replay, hookVars
  <2>3. \A f \in stored \ dropped : Carried(f)'
    BY <1>0, <1>4, <2>1, <2>2, ReduceRow DEF Replay, Carried, TypeOK
  <2>4. StatusJustified'
    BY <1>0, <1>4, <2>1, <2>2, ReduceRow DEF Replay, StatusJustified
  <2>5. TypeOK'
    BY <1>0, <1>4, <2>2, ReduceRow DEF Replay, TypeOK
  <2> QED
    BY <1>0, <1>4, <2>1, <2>2, <2>3, <2>4, <2>5, ReduceRow DEF Replay
<1>5. CASE ReplayDone
  BY <1>5 DEF ReplayDone, TypeOK, Carried, Reflected, StatusJustified, rowVars, hookVars
<1>6. ASSUME NEW h \in Handler, NEW e \in Event, Receive(h, e) PROVE IInv'
  BY <1>6 DEF Receive, TypeOK, Carried, Reflected, StatusJustified, rowVars, finVars
<1>7. ASSUME NEW h \in Handler, NEW e \in Event, ReceiveDuplicate(h, e) PROVE IInv'
  BY <1>7 DEF ReceiveDuplicate, TypeOK, Carried, Reflected, StatusJustified, rowVars, finVars
<1>8. ASSUME NEW h \in Handler, Reduce(h) PROVE IInv'
  <2> DEFINE e == handling[h]
  <2>1. e \in Event /\ e \in stored /\ ReduceEvent(e)
    BY <1>8 DEF Reduce, TypeOK
  <2>2. /\ finalizer' = finalizer /\ attempts' = attempts /\ todo' = todo
        /\ stored' = stored /\ dropped' = dropped
        /\ acked' = acked \cup {e} /\ handling' = [handling EXCEPT ![h] = 0]
    BY <1>8 DEF Reduce, finVars
  <2>3. handling \in [Handler -> Event \cup {0}]
    BY DEF TypeOK
  <2> HIDE DEF e
  <2>4. \A f \in stored \ dropped : Carried(f)'
    <3> SUFFICES ASSUME NEW f \in stored \ dropped PROVE Carried(f)'
      OBVIOUS
    <3>1. CASE Reflected(f)
      BY <1>0, <2>1, <3>1, ReduceRow DEF Carried, TypeOK
    <3>2. CASE \/ finalizer \in {"sending", "lost", "accepted", "retired"}
               \/ finalizer = "replaying" /\ f \in todo
      BY <2>2, <3>2 DEF Carried
    <3>3. CASE \E g \in Handler : g # h /\ handling[g] = f
      BY <2>2, <2>3, <3>3 DEF Carried
    <3>4. CASE f = e /\ pmid
      BY <1>0, <2>1, <3>4, ReduceRow DEF Carried
    <3>5. CASE f = e /\ ~pmid
      BY <2>2, <3>5 DEF Carried, TypeOK
    <3> QED
      BY <3>1, <3>2, <3>3, <3>4, <3>5 DEF Carried, e
  <2>5. StatusJustified'
    BY <1>0, <2>1, <2>2, ReduceRow DEF StatusJustified
  <2>6. TypeOK' /\ \A g \in Handler : handling'[g] # 0 => handling'[g] \in stored
    BY <1>0, <2>1, <2>2, <2>3, ReduceRow DEF TypeOK
  <2> QED
    BY <1>0, <2>1, <2>2, <2>4, <2>5, <2>6, ReduceRow
<1>9. CASE UNCHANGED vars
  BY <1>9 DEF vars, rowVars, finVars, hookVars, TypeOK, Carried, Reflected, StatusJustified
<1>10. CASE FinalizerFails
  BY <1>10 DEF FinalizerFails, TypeOK, Carried, Reflected, StatusJustified, rowVars
<1>11. ASSUME NEW h \in Handler, HandlerFails(h) PROVE IInv'
  BY <1>11 DEF HandlerFails, WillReplay, TypeOK, Carried, Reflected, StatusJustified,
               rowVars, finVars
<1> QED
  BY <1>1, <1>2, <1>3, <1>4, <1>5, <1>6, <1>7, <1>8, <1>9, <1>10, <1>11, <1>12
     DEF Next, FinalizerStep

\* No acknowledged event is lost but one whose own reduction failed: for any
\* events, in any order, duplicated at will, over any number of handlers and
\* however they interleave with the worker's accept and replay and fail.
THEOREM NoEventLost == Spec => []AckedEventsReflected
<1>1. IInv => AckedEventsReflected
  BY EventAssumption DEF IInv, TypeOK, AckedEventsReflected, Quiescent, Carried
<1> QED
  BY <1>1, InitInv, StepInv, PTL DEF Spec

\* A correlated row is only ever moved to delivered or failed by an event that says so.
THEOREM NothingInvented == Spec => []StatusJustified
<1>1. IInv => StatusJustified
  BY DEF IInv
<1> QED
  BY <1>1, InitInv, StepInv, PTL DEF Spec

\* Once the webhooks and the worker are through, the row is what its events say,
\* whatever the order they came in and were applied in.
THEOREM OrderIrrelevant == Spec => []Converges
<1>1. IInv => Converges
  <2> SUFFICES ASSUME IInv, Quiescent, dropped = {} PROVE status = Outcome(stored)
    BY DEF Converges
  <2>1. \A e \in stored : Reflected(e)
    BY EventAssumption DEF IInv, TypeOK, Quiescent, Carried
  <2>2. pmid /\ status \in {"accepted", "delivered", "failed"}
    BY DEF IInv, TypeOK, Quiescent
  <2> QED
    BY <2>1, <2>2 DEF IInv, StatusJustified, Reflected, Outcome
<1> QED
  BY <1>1, InitInv, StepInv, PTL DEF Spec

\* No UPDATE of the row by a webhook, the accept or the replay lowers its status or
\* erases the time of a delivery.
THEOREM EvidenceKept == Spec => RowKeepsEvidence
<1>1. ASSUME IInv, [Next]_vars
      PROVE  [Rank(status) <= Rank(status') /\ (deliveredAt => deliveredAt')]_vars
  <2>1. ASSUME NEW e \in Event, ReduceEvent(e)
        PROVE  Rank(status) <= Rank(status') /\ (deliveredAt => deliveredAt')
    <3>1. ClassOf[e] \in EventClass /\ status \in RowStatus
      BY <1>1, ClassAssumption DEF IInv, TypeOK
    <3>2. \/ status' = status
          \/ /\ status \in {"accepted", "delivered", "failed"}
             /\ status' = ReduceStatus(status, ClassOf[e])
      BY <1>1, <2>1 DEF ReduceEvent, IInv
    <3>3. Rank(status) <= Rank(status')
      BY <3>1, <3>2, ReducerMonotone DEF RowStatus, Rank
    <3>4. deliveredAt => deliveredAt'
      BY <2>1 DEF ReduceEvent
    <3> QED BY <3>3, <3>4
  <2>2. ASSUME NEW e \in Event, Replay(e)
        PROVE  Rank(status) <= Rank(status') /\ (deliveredAt => deliveredAt')
    BY <2>1, <2>2 DEF Replay
  <2>3. ASSUME NEW h \in Handler, Reduce(h)
        PROVE  Rank(status) <= Rank(status') /\ (deliveredAt => deliveredAt')
    <3>1. handling[h] \in Event /\ ReduceEvent(handling[h])
      BY <1>1, <2>3 DEF Reduce, IInv, TypeOK
    <3> QED BY <2>1, <3>1
  <2>4. CASE Accept
    <3>1. status = "pending" /\ status' = "accepted" /\ UNCHANGED deliveredAt
      BY <1>1, <2>4 DEF Accept, IInv
    <3> QED BY <3>1 DEF Rank
  <2>9. CASE Retire \/ Supersede \/ Refused
    <3>1. status = "pending" /\ status' \in RowStatus /\ UNCHANGED deliveredAt
      BY <1>1, <2>9 DEF Retire, Supersede, Refused, Retires, IInv, RowStatus
    <3> QED BY <3>1 DEF Rank, RowStatus
  <2>5. ASSUME UNCHANGED rowVars
        PROVE  Rank(status) <= Rank(status') /\ (deliveredAt => deliveredAt')
    <3>1. status' = status /\ deliveredAt' = deliveredAt
      BY <2>5 DEF rowVars
    <3>2. Rank(status) \in Nat
      BY DEF Rank
    <3> QED BY <3>1, <3>2
  <2>6. ASSUME NEW h \in Handler, NEW e \in Event, Receive(h, e) \/ ReceiveDuplicate(h, e)
        PROVE  UNCHANGED rowVars
    BY <2>6 DEF Receive, ReceiveDuplicate
  <2>7. ASSUME NEW h \in Handler, HandlerFails(h) PROVE UNCHANGED rowVars
    BY <2>7 DEF HandlerFails
  <2>8. CASE ReadEvents \/ ReplayDone \/ AcceptLost \/ Reclaim \/ FinalizerFails
    BY <2>5, <2>8 DEF ReadEvents, ReplayDone, AcceptLost, Reclaim, FinalizerFails
  <2> QED
    BY <1>1, <2>2, <2>3, <2>4, <2>5, <2>6, <2>7, <2>8, <2>9 DEF Next, FinalizerStep
<1> QED
  BY <1>1, InitInv, StepInv, PTL DEF Spec, RowKeepsEvidence

-----------------------------------------------------------------------------
(* The row lives the life of OutboxRow.                                    *)

\* reduceEvent is a step of a row that has its message id, and nothing to another.
LEMMA ReduceIsRowStep ==
  ASSUME IInv, NEW e \in Event, ReduceEvent(e)
  PROVE  Row!RowStep
<1>1. CASE ~pmid
  BY <1>1 DEF ReduceEvent, Row!RowStep, Row!rowState
<1>2. CASE pmid
  <2>1. ClassOf[e] \in EventClass /\ status \in {"accepted", "delivered", "failed"}
    BY <1>2, ClassAssumption DEF IInv, TypeOK
  <2>2. Row!Reduce(ClassOf[e])
    BY <1>2, <2>1 DEF ReduceEvent, Row!Reduce, Row!ReduceStatus, ReduceStatus
  <2> QED
    BY <2>1, <2>2 DEF Row!RowStep, Row!RowNext, Row!EventClass, EventClass
<1> QED
  BY <1>1, <1>2

\* Every step of a webhook handler and of Finalize is a step of the row or of others.
LEMMA StepRow == IInv /\ [Next]_vars => [Row!RowNext]_(Row!rowState)
<1> SUFFICES ASSUME IInv, [Next]_vars PROVE Row!RowStep
  BY DEF Row!RowStep
<1>1. ASSUME UNCHANGED rowVars PROVE Row!RowStep
  BY <1>1 DEF rowVars, Row!RowStep, Row!rowState
<1>2. CASE Accept
  <2>1. status = "pending" /\ ~pmid
    BY <1>2 DEF Accept, IInv
  <2>2. Row!Correlate
    BY <1>2, <2>1 DEF Accept, Row!Correlate
  <2> QED
    BY <2>2 DEF Row!RowStep, Row!RowNext
<1>7. CASE Retire \/ Supersede \/ Refused
  <2>1. /\ status = "pending" /\ ~pmid /\ UNCHANGED pmid
        /\ status' \in {"canceled", "expired", "failed"}
    BY <1>7 DEF Retire, Supersede, Refused, Retires, IInv
  <2>2. Row!Retire
    BY <2>1 DEF Row!Retire
  <2> QED
    BY <2>2 DEF Row!RowStep, Row!RowNext
<1>3. ASSUME NEW e \in Event, Replay(e) PROVE Row!RowStep
  BY <1>3, ReduceIsRowStep DEF Replay
<1>4. ASSUME NEW h \in Handler, Reduce(h) PROVE Row!RowStep
  <2>1. handling[h] \in Event /\ ReduceEvent(handling[h])
    BY <1>4 DEF Reduce, IInv, TypeOK
  <2> QED
    BY <2>1, ReduceIsRowStep
<1>5. CASE ReadEvents \/ ReplayDone \/ AcceptLost \/ Reclaim \/ FinalizerFails \/ UNCHANGED vars
  BY <1>1, <1>5 DEF ReadEvents, ReplayDone, AcceptLost, Reclaim, FinalizerFails, vars
<1>6. ASSUME NEW h \in Handler,
             HandlerFails(h) \/ \E e \in Event : Receive(h, e) \/ ReceiveDuplicate(h, e)
      PROVE  Row!RowStep
  BY <1>1, <1>6 DEF HandlerFails, Receive, ReceiveDuplicate
<1> QED
  BY <1>2, <1>3, <1>4, <1>5, <1>6, <1>7 DEF Next, FinalizerStep

\* The row of ProviderEvents lives the life that Outbox gives its rows, for any
\* events and handlers: what is proved here of one mail is about the same row.
THEOREM EventsImplementRow == Spec => ImplementsRow
<1>1. Init => Row!RowInit
  BY DEF Init, Row!RowInit
<1> QED
  BY <1>1, InitInv, StepInv, StepRow, PTL DEF Spec, ImplementsRow, Row!RowSpec
=============================================================================
