--------------------------- MODULE OrderViewProofs ---------------------------
(***************************************************************************)
(* Theorems of OrderView for any set of orders, any number of handlers     *)
(* between their two transactions and any number of lost events.           *)
(***************************************************************************)
EXTENDS OrderView, OrderSagaProofs, FiniteSetTheorems

\* The inductive invariant: what the projector knows, next to what the saga
\* knows, of which only the types of events are needed here.
ViewIInv == SagaInv /\ ViewInv /\ IsFiniteSet(lost)

\* What the statuses on the topics say of the saga.  A COMPLETED is true.  A
\* FAILED, other than of a notification, is one that the orchestrator has yet to
\* handle, or the saga is failing.
StatusesAreTrue ==
  \A e \in Known :
    /\ e.status = "COMPLETED" => sagas[e.order].current = "COMPLETED"
    /\ e.status = "FAILED" /\ e.type # "NOTIFICATION_RESULT" =>
         \/ e \in InFlight(e.order)
         \/ sagas[e.order].current \in {"PAYMENT_REFUND_PENDING", "FAILED"}

\* The events of an order that its row was made from.
Seen(o) == {e \in DOMAIN timeline : e.order = o}

\* The row v agrees with the events in S: RowMatchesTimeline, of one order.
Matches(v, S) ==
  /\ v.status # "" => \E f \in S : f.status = v.status
  /\ v.status \in Terminal <=> \E f \in S : f.status \in Terminal
  /\ v.notificationError <=> \E f \in S : f.note = "notification_error"
  /\ v.refundFailed <=> \E f \in S : f.note = "payment_refund_failed"
-----------------------------------------------------------------------------
\* Statuses of events are no empty strings, and two of them are final.
LEMMA EventStatuses ==
  ASSUME NEW e \in Event
  PROVE  /\ e.status \in ViewStatus /\ e.status # ""
         /\ e.order \in Orders /\ e.id \in EventId /\ e.tx \in Nat
  BY DEF Event, ViewStatus, OrderStatus, SagaStatus

\* Nothing is ever taken off the bus.
LEMMA BusGrows == TypeOK /\ CommandsAreValid /\ [Next]_vars => bus \subseteq bus'
<1> SUFFICES ASSUME TypeOK, CommandsAreValid, [Next]_vars PROVE bus \subseteq bus'
  OBVIOUS
<1>1. CASE \E o \in Orders : CreateOrder(o)
  BY <1>1 DEF CreateOrder
<1>2. CASE \E e \in outbox : Relay(e)
  BY <1>2 DEF Relay
<1>3. CASE \E e \in bus, s \in SagaRow, out \in Event : OrchestratorStep(e, s, out)
  BY <1>3 DEF OrchestratorStep, Commits, Commit
<1>4. CASE \E e \in bus, status \in OrderStatus, tx \in Nat : WorkerStep(e, status, tx)
  BY <1>4 DEF WorkerStep, Answer
<1>5. CASE \E e \in bus : CrashAfterGateway(e)
  BY <1>5 DEF CrashAfterGateway
<1>6. CASE \E e \in bus : DeadLetter(e)
  BY <1>6 DEF DeadLetter
<1>7. CASE UNCHANGED vars
  BY <1>7 DEF vars
<1> QED BY <1>1, <1>2, <1>3, <1>4, <1>5, <1>6, <1>7, StepCases

\* Quiet steps and those of other orders change nothing about that.
LEMMA StatusUndisturbed ==
  ASSUME StatusesAreTrue, NEW e \in Known, sagas'[e.order] = sagas[e.order],
         InFlight(e.order)' = InFlight(e.order)
  PROVE  /\ e.status = "COMPLETED" => sagas'[e.order].current = "COMPLETED"
         /\ e.status = "FAILED" /\ e.type # "NOTIFICATION_RESULT" =>
              \/ e \in InFlight(e.order)'
              \/ sagas'[e.order].current \in {"PAYMENT_REFUND_PENDING", "FAILED"}
  BY DEF StatusesAreTrue

\* The statuses stay true: a FAILED that is handled makes the saga fail or
\* compensate, and neither is ever undone (handleResult, fail, complete).
LEMMA StatusesKept == SagaInv /\ StatusesAreTrue /\ [Next]_vars => StatusesAreTrue'
<1> SUFFICES ASSUME SagaInv, StatusesAreTrue, [Next]_vars PROVE StatusesAreTrue'
  OBVIOUS
<1>1. TypeOK /\ CommandsAreValid /\ OneInFlight /\ IdsWereIssued /\ IdsAreUnique
  BY DEF SagaInv
<1>2. \A f \in Known : f \in Event /\ f.order \in Orders
  BY <1>1, KnownTyped
<1>3. CASE \/ \E o \in Orders : CreateOrder(o)
           \/ \E e \in outbox : Relay(e)
           \/ \E e \in bus : CrashAfterGateway(e)
           \/ \E e \in bus : DeadLetter(e)
           \/ UNCHANGED vars
  <2>1. /\ UNCHANGED <<sagas, journal, outbox>>
        /\ Known \subseteq Known'
        /\ \A f \in Known' \ Known : f.type = "ORDER_CREATED"
    BY <1>1, <1>3, QuietSteps
  <2>2. \A f \in Known' \ Known : f.status = "PENDING"
    <3>1. CASE \E o \in Orders : CreateOrder(o)
      <4>1. PICK o \in Orders : CreateOrder(o)
        BY <3>1
      <4>2. Known' = Known \cup {NewEvent(o, "ORDER_CREATED", "PENDING", 0, "")}
        BY <4>1 DEF CreateOrder, Known
      <4>3. NewEvent(o, "ORDER_CREATED", "PENDING", 0, "").status = "PENDING"
        BY DEF NewEvent
      <4> QED BY <4>2, <4>3
    <3>2. CASE ~ \E o \in Orders : CreateOrder(o)
      BY <1>3, <3>2 DEF Relay, CrashAfterGateway, DeadLetter, vars, Known
    <3> QED BY <3>1, <3>2
  <2>3. \A o \in Orders : InFlight(o)' = InFlight(o)
    <3>1. "ORDER_CREATED" \notin Commands \cup Results
      BY DEF Commands, Results
    <3> QED BY <2>1, <3>1, InFlightUndisturbed
  <2>4. \A f \in Known : sagas'[f.order] = sagas[f.order]
                         /\ InFlight(f.order)' = InFlight(f.order)
    BY <1>2, <2>1, <2>3
  <2> QED BY <2>2, <2>4, StatusUndisturbed DEF StatusesAreTrue
<1>4. ASSUME NEW e \in bus, NEW s \in SagaRow, NEW out \in Event,
             OrchestratorStep(e, s, out), Moves(e, s, out)
      PROVE  StatusesAreTrue'
  <2>1. Handled(e, out)
    BY <1>1, <1>4, OrchestratorHandles
  <2>2. /\ e.order \in Orders /\ sagas'[e.order] = s
        /\ \A o \in Orders \ {e.order} : sagas'[o] = sagas[o]
        /\ sagas[e.order].current \notin Terminal
    BY <1>1, <1>4, OrchestratorRows
  <2>3. /\ \A o \in Orders \ {e.order} : InFlight(o)' = InFlight(o)
        /\ Known' = Known \cup {out} /\ out.order = e.order
    BY <1>1, <2>1, InFlightAfterHandling DEF Handled, Known
  <2>4. \A f \in Known : f.order = e.order => f.status # "COMPLETED"
    BY <2>2 DEF StatusesAreTrue, Terminal
  <2>5. /\ out.status = "COMPLETED" => s.current = "COMPLETED"
        /\ out.status = "FAILED" => s.current = "FAILED"
    <3>1. CASE out.type \in Commands
      <4>1. Fits(s, out)
        BY <1>4, <3>1 DEF OrchestratorStep, Commits, Commands
      <4>2. out.status = CommandStatus(out.type)
        BY <3>1, <4>1 DEF Fits, Commands, Results
      <4> QED BY <3>1, <4>2 DEF CommandStatus, Commands
    <3>2. CASE out.type \notin Commands
      <4>1. s.current \in Terminal
        BY <1>4, <3>2 DEF OrchestratorStep, Commits, Terminal
      <4> QED BY <1>4, <2>2, <4>1 DEF Moves, Terminal
    <3> QED BY <3>1, <3>2
  <2>6. ASSUME NEW f \in Known, f.order = e.order,
               f.status = "FAILED", f.type # "NOTIFICATION_RESULT"
        PROVE  s.current \in {"PAYMENT_REFUND_PENDING", "FAILED"}
    <3>1. CASE f \in InFlight(f.order)
      <4>1. f = e /\ Accepts(e)
        <5>1. Open(e.order)
          BY <1>1, <2>2, <2>6, <3>1 DEF OneInFlight
        <5>2. Accepts(e)
          BY <1>4, <5>1 DEF OrchestratorStep, Commits, Open
        <5>3. InFlight(e.order) = {e}
          BY <1>1, <5>2, DeliveredIsInFlight DEF Accepts
        <5> QED BY <2>6, <3>1, <5>2, <5>3
      <4>2. s.current \notin {"COMPLETED"} /\ e.status = "FAILED"
        BY <1>4, <2>6, <4>1 DEF Moves
      <4> QED BY <1>4, <2>6, <4>1, <4>2 DEF Moves, Accepts, Results
    <3>2. CASE sagas[f.order].current \in {"PAYMENT_REFUND_PENDING", "FAILED"}
      <4>1. sagas[e.order].current = "PAYMENT_REFUND_PENDING"
        BY <2>2, <2>6, <3>2 DEF Terminal
      <4>2. sagas[e.order] # NoSaga
        <5>1. NoSaga.current = ""
          BY DEF NoSaga
        <5> QED BY <4>1, <5>1
      <4>3. Accepts(e) /\ e.type = "PAYMENT_COMPENSATE_RESULT"
        BY <1>4, <4>1, <4>2 DEF OrchestratorStep, Commits, Accepts, Results,
                                ExpectedStatusForResult
      <4> QED BY <1>4, <4>1, <4>2, <4>3 DEF Moves
    <3> QED BY <2>6, <3>1, <3>2 DEF StatusesAreTrue
  <2>7. ASSUME NEW f \in Known, f.order # e.order
        PROVE  sagas'[f.order] = sagas[f.order] /\ InFlight(f.order)' = InFlight(f.order)
    BY <1>2, <2>2, <2>3, <2>7
  <2> QED BY <2>2, <2>3, <2>4, <2>5, <2>6, <2>7, StatusUndisturbed DEF StatusesAreTrue
<1>5. ASSUME NEW e \in bus, NEW status \in OrderStatus, NEW tx \in Nat,
             WorkerStep(e, status, tx)
      PROVE  StatusesAreTrue'
  <2>1. PICK out \in Event :
          /\ Handled(e, out) /\ out.type = ResultOf(e.type) /\ out.type \in Results
          /\ out.status = status /\ sagas' = sagas
    BY <1>1, <1>5, WorkerRows
  <2>2. /\ \A o \in Orders \ {e.order} : InFlight(o)' = InFlight(o)
        /\ InFlight(e.order)' = (InFlight(e.order) \ {e}) \cup {out}
    <3>1. {f \in {out} : f.type \in Commands \cup Results} = {out}
      BY <2>1
    <3> QED BY <1>1, <2>1, <3>1, InFlightAfterHandling
  <2>7. Known' = Known \cup {out} /\ out.order = e.order
    BY <2>1 DEF Handled, Known
  <2>3. out.status # "COMPLETED"
    BY <1>5, <2>1 DEF WorkerStep, ValidResultStatus, SuccessStatus
  <2>4. InFlight(e.order) = {e} /\ e.type \in Commands /\ e.status # "FAILED"
    <3>1. Delivers(e) /\ e.type \in Commands /\ e \in Known
      BY <1>5 DEF WorkerStep, Known
    <3>2. e.status = CommandStatus(e.type)
      BY <1>1, <3>1 DEF CommandsAreValid
    <3> QED BY <1>1, <3>1, <3>2, DeliveredIsInFlight DEF CommandStatus, Commands
  <2>5. ASSUME NEW f \in Known, f.status = "FAILED", f.type # "NOTIFICATION_RESULT"
        PROVE  \/ f \in InFlight(f.order)'
               \/ sagas'[f.order].current \in {"PAYMENT_REFUND_PENDING", "FAILED"}
    <3>1. CASE f.order # e.order
      <4>1. InFlight(f.order)' = InFlight(f.order)
        BY <1>2, <2>2, <3>1
      <4> QED BY <2>1, <2>5, <4>1 DEF StatusesAreTrue
    <3>2. CASE f.order = e.order
      <4>1. f # e
        BY <2>4, <2>5
      <4>2. f \notin InFlight(f.order)
        BY <2>4, <3>2, <4>1
      <4> QED BY <2>1, <2>5, <4>2 DEF StatusesAreTrue
    <3> QED BY <3>1, <3>2
  <2>6. out \in InFlight(out.order)'
    BY <2>2, <2>7
  <2> QED BY <2>1, <2>3, <2>5, <2>6, <2>7 DEF StatusesAreTrue
<1> QED BY <1>1, <1>3, <1>4, <1>5, MoveCases

\* Nothing is marked before anything happened.
LEMMA InitViewIInv == ViewInit => ViewIInv
<1> SUFFICES ASSUME ViewInit PROVE ViewIInv
  OBVIOUS
<1>1. SagaInv
  BY InitSagaInv DEF ViewInit
<1>2. IsFiniteSet(lost) /\ Cardinality(lost) = 0
  BY FS_EmptySet DEF ViewInit
<1>3. DOMAIN timeline = {}
  BY DEF ViewInit
<1>4. NoView \in View
  BY DEF NoView, View, ViewStatus
<1>5. ViewTypeOK
  BY <1>2, <1>3, <1>4, ViewBoundsAssumption DEF ViewInit, ViewTypeOK
<1>6. EveryMarkIsAccountedFor
  BY <1>3 DEF ViewInit, EveryMarkIsAccountedFor
<1>7. RowMatchesTimeline
  <2>1. \A o \in Orders : views[o] = NoView
    BY DEF ViewInit
  <2>2. NoView.status = "" /\ ~ NoView.notificationError /\ ~ NoView.refundFailed
    BY DEF NoView
  <2>3. "" \notin Terminal
    BY DEF Terminal
  <2> QED BY <1>3, <2>1, <2>2, <2>3 DEF RowMatchesTimeline
<1> QED BY <1>1, <1>2, <1>5, <1>6, <1>7 DEF ViewIInv, ViewInv

\* The saga's steps only add events to the bus.
LEMMA SagaKeepsView ==
  ViewIInv /\ Next /\ UNCHANGED viewVars => ViewIInv'
<1> SUFFICES ASSUME ViewIInv, Next, UNCHANGED viewVars PROVE ViewIInv'
  OBVIOUS
<1>1. SagaInv /\ SagaInv' /\ bus \subseteq bus'
  BY SagaInvKept, BusGrows DEF ViewIInv, SagaInv
<1>2. ViewTypeOK' /\ RowMatchesTimeline' /\ IsFiniteSet(lost)'
  BY DEF ViewIInv, ViewInv, viewVars, ViewTypeOK, RowMatchesTimeline
<1>3. EveryMarkIsAccountedFor'
  BY <1>1 DEF ViewIInv, ViewInv, viewVars, EveryMarkIsAccountedFor
<1> QED BY <1>1, <1>2, <1>3 DEF ViewIInv, ViewInv

\* A step of the projector leaves the saga as it is.
LEMMA SagaUndisturbed == SagaInv /\ UNCHANGED vars => SagaInv'
  BY SagaInvKept

\* The first handler of an event takes it in hand (MarkProcessed).
LEMMA MarkKeepsView ==
  ASSUME ViewIInv, NEW e \in bus, MarkProcessed(e)
  PROVE  ViewIInv'
<1>1. SagaInv'
  BY SagaUndisturbed DEF ViewIInv, MarkProcessed
<1>2. bus' = bus /\ UNCHANGED <<views, timeline, lost>>
  BY DEF MarkProcessed, vars
<1>3. e.id \in EventId
  BY EventStatuses DEF ViewIInv, SagaInv, TypeOK
<1>4. processed' = processed \cup {e.id} /\ applying' = applying \cup {e}
      /\ e.id \notin processed
  BY DEF MarkProcessed
<1>5. ViewTypeOK' /\ RowMatchesTimeline' /\ IsFiniteSet(lost)'
  BY <1>2, <1>3, <1>4 DEF ViewIInv, ViewInv, ViewTypeOK, RowMatchesTimeline
<1>6. EveryMarkIsAccountedFor'
  <2>1. e \notin lost /\ e \notin DOMAIN timeline
    BY <1>4 DEF ViewIInv, ViewInv, EveryMarkIsAccountedFor
  <2> QED BY <1>2, <1>4, <2>1 DEF ViewIInv, ViewInv, EveryMarkIsAccountedFor
<1> QED BY <1>1, <1>5, <1>6 DEF ViewIInv, ViewInv

\* A handler that ends early leaves its mark behind (HandleEvent).
LEMMA LossKeepsView ==
  ASSUME ViewIInv, NEW e \in applying, LoseEvent(e)
  PROVE  ViewIInv'
<1>1. SagaInv'
  BY SagaUndisturbed DEF ViewIInv, LoseEvent
<1>2. bus' = bus /\ UNCHANGED <<processed, views, timeline>>
  BY DEF LoseEvent, vars
<1>3. applying' = applying \ {e} /\ lost' = lost \cup {e} /\ e \notin lost
  BY DEF LoseEvent, ViewIInv, ViewInv, EveryMarkIsAccountedFor
<1>4. IsFiniteSet(lost') /\ Cardinality(lost') = Cardinality(lost) + 1
  BY <1>3, FS_AddElement DEF ViewIInv
<1>5. Cardinality(lost) \in Nat /\ Cardinality(lost) < MaxLosses
  BY FS_CardinalityType DEF ViewIInv, LoseEvent
<1>6. Cardinality(lost') <= MaxLosses
  BY <1>4, <1>5, ViewBoundsAssumption
<1>7. ViewTypeOK' /\ RowMatchesTimeline'
  BY <1>2, <1>6 DEF ViewIInv, ViewInv, ViewTypeOK, RowMatchesTimeline
<1>8. EveryMarkIsAccountedFor'
  BY <1>2, <1>3 DEF ViewIInv, ViewInv, EveryMarkIsAccountedFor
<1> QED BY <1>1, <1>4, <1>7, <1>8 DEF ViewIInv, ViewInv

\* The upsert keeps a terminal status and takes any other from the event, and
\* the flags collect (ApplyEvent's query).
LEMMA UpsertFacts ==
  ASSUME NEW v \in View, NEW e \in Event
  PROVE  /\ Upsert(v, e) \in View
         /\ Upsert(v, e).status # ""
         /\ Upsert(v, e) # NoView
         /\ Upsert(v, e).status \in {v.status, e.status}
         /\ v.status = "" => Upsert(v, e).status = e.status
         /\ Upsert(v, e).status \in Terminal <=>
              v.status \in Terminal \/ e.status \in Terminal
         /\ Upsert(v, e).notificationError <=>
              v.notificationError \/ e.note = "notification_error"
         /\ Upsert(v, e).refundFailed <=>
              v.refundFailed \/ e.note = "payment_refund_failed"
<1>1. e.status \in ViewStatus /\ e.status # "" /\ e.tx \in Nat
  BY EventStatuses
<1>2. v.status \in ViewStatus /\ v.tx \in Nat
      /\ v.notificationError \in BOOLEAN /\ v.refundFailed \in BOOLEAN
  BY DEF View
<1>3. "" \notin Terminal
  BY DEF Terminal
<1>4. Upsert(v, e) \in View
  BY <1>1, <1>2 DEF Upsert, View
<1>5. /\ Upsert(v, e).status # ""
      /\ Upsert(v, e).status \in {v.status, e.status}
      /\ v.status = "" => Upsert(v, e).status = e.status
      /\ Upsert(v, e).status \in Terminal <=>
           v.status \in Terminal \/ e.status \in Terminal
  BY <1>1, <1>3 DEF Upsert
<1>6. NoView.status = ""
  BY DEF NoView
<1> QED BY <1>4, <1>5, <1>6 DEF Upsert

\* A row that agrees with some events agrees, after the upsert of one more, with
\* that one too.
LEMMA UpsertMatches ==
  ASSUME NEW v \in View, NEW e \in Event, NEW S, Matches(v, S)
  PROVE  Matches(Upsert(v, e), S \cup {e})
<1> DEFINE u == Upsert(v, e)
<1>1. /\ u.status \in {v.status, e.status}
      /\ v.status = "" => u.status = e.status
      /\ u.status \in Terminal <=> v.status \in Terminal \/ e.status \in Terminal
  BY UpsertFacts
<1>2. u.notificationError <=> v.notificationError \/ e.note = "notification_error"
  BY UpsertFacts
<1>3. u.refundFailed <=> v.refundFailed \/ e.note = "payment_refund_failed"
  BY UpsertFacts
<1> HIDE DEF u
<1>4. \E f \in S \cup {e} : f.status = u.status
  BY <1>1 DEF Matches
<1>5. u.status \in Terminal <=> \E f \in S \cup {e} : f.status \in Terminal
  BY <1>1 DEF Matches
<1>6. u.notificationError <=> \E f \in S \cup {e} : f.note = "notification_error"
  BY <1>2, Zenon DEF Matches
<1>7. u.refundFailed <=> \E f \in S \cup {e} : f.note = "payment_refund_failed"
  BY <1>3, Zenon DEF Matches
<1>8. Matches(u, S \cup {e})
  BY <1>4, <1>5, <1>6, <1>7 DEF Matches
<1> QED BY <1>8 DEF u

\* The row and the timeline change together (ApplyEvent).
LEMMA ApplyKeepsView ==
  ASSUME ViewIInv, NEW e \in bus, ApplyEvent(e)
  PROVE  ViewIInv'
<1>1. SagaInv'
  BY SagaUndisturbed DEF ViewIInv, ApplyEvent
<1>2. bus' = bus /\ UNCHANGED <<processed, lost>>
  BY DEF ApplyEvent, vars
<1>3. e \in Event /\ e.order \in Orders
  BY EventStatuses DEF ViewIInv, SagaInv, TypeOK
<1>4. /\ e \in applying /\ applying' = applying \ {e}
      /\ views' = [views EXCEPT ![e.order] = Upsert(@, e)]
      /\ timeline' = [f \in DOMAIN timeline \cup {e} |->
                        TimesApplied(f) + (IF f = e THEN 1 ELSE 0)]
  BY DEF ApplyEvent
<1>5. /\ e \notin DOMAIN timeline /\ e \notin lost
      /\ DOMAIN timeline \subseteq bus
      /\ \A f \in DOMAIN timeline : timeline[f] = 1
  BY <1>4 DEF ViewIInv, ViewInv, EveryMarkIsAccountedFor
<1>6. DOMAIN timeline' = DOMAIN timeline \cup {e}
  BY <1>4
<1>7. \A f \in DOMAIN timeline' : timeline'[f] = 1
  <2>1. TimesApplied(e) = 0 /\ \A f \in DOMAIN timeline : TimesApplied(f) = 1
    BY <1>5 DEF TimesApplied
  <2> QED BY <1>4, <1>5, <1>6, <2>1
<1>8. EveryMarkIsAccountedFor'
  BY <1>2, <1>4, <1>5, <1>6, <1>7 DEF ViewIInv, ViewInv, EveryMarkIsAccountedFor
<1>9. views \in [Orders -> View]
  BY DEF ViewIInv, ViewInv, ViewTypeOK
<1>10. /\ views'[e.order] = Upsert(views[e.order], e)
       /\ \A o \in Orders \ {e.order} : views'[o] = views[o]
  BY <1>3, <1>4, <1>9
<1>11. views' \in [Orders -> View]
  BY <1>3, <1>4, <1>9, UpsertFacts
<1>12. /\ Seen(e.order)' = Seen(e.order) \cup {e}
       /\ \A o \in Orders \ {e.order} : Seen(o)' = Seen(o)
  BY <1>6 DEF Seen
<1>13. \A o \in Orders : views[o] = NoView <=> Seen(o) = {}
  BY DEF ViewIInv, ViewInv, ViewTypeOK, Seen
<1>14. \A o \in Orders : views'[o] = NoView <=> Seen(o)' = {}
  <2>1. views'[e.order] # NoView
    BY <1>3, <1>9, <1>10, UpsertFacts
  <2> QED BY <1>10, <1>12, <1>13, <2>1
<1>15. ViewTypeOK'
  <2>1. \A o \in Orders :
          views'[o] = NoView <=> \A f \in DOMAIN timeline' : f.order # o
    BY <1>14 DEF Seen
  <2> QED BY <1>2, <1>11, <2>1 DEF ViewIInv, ViewInv, ViewTypeOK
<1>16. \A o \in Orders : Matches(views[o], Seen(o))
  BY DEF ViewIInv, ViewInv, RowMatchesTimeline, Seen, Matches
<1>17. \A o \in Orders : Matches(views'[o], Seen(o)')
  <2> SUFFICES ASSUME NEW o \in Orders PROVE Matches(views'[o], Seen(o)')
    OBVIOUS
  <2>1. CASE o = e.order
    <3>1. Matches(Upsert(views[o], e), Seen(o) \cup {e})
      BY <1>3, <1>9, <1>16, UpsertMatches
    <3>2. views'[o] = Upsert(views[o], e)
      BY <1>10, <2>1
    <3>3. Seen(o)' = Seen(o) \cup {e}
      BY <1>12, <2>1
    <3> QED BY <3>1, <3>2, <3>3
  <2>2. CASE o # e.order
    <3>1. views'[o] = views[o]
      BY <1>10, <2>2
    <3>2. Seen(o)' = Seen(o)
      BY <1>12, <2>2
    <3> QED BY <1>16, <3>1, <3>2
  <2> QED BY <2>1, <2>2
<1>18. RowMatchesTimeline'
  BY <1>17 DEF RowMatchesTimeline, Seen, Matches
<1>19. IsFiniteSet(lost')
  BY <1>2 DEF ViewIInv
<1> QED BY <1>1, <1>8, <1>15, <1>18, <1>19 DEF ViewIInv, ViewInv

\* Every step keeps the invariant.
LEMMA ViewIInvKept == ViewIInv /\ [ViewNext]_<<vars, viewVars>> => ViewIInv'
<1> SUFFICES ASSUME ViewIInv, [ViewNext]_<<vars, viewVars>> PROVE ViewIInv'
  OBVIOUS
<1>1. CASE Next /\ UNCHANGED viewVars
  BY <1>1, SagaKeepsView
<1>2. CASE Projector
  BY <1>2, MarkKeepsView, ApplyKeepsView DEF Projector
<1>3. CASE \E e \in applying : LoseEvent(e)
  BY <1>3, LossKeepsView
<1>4. CASE UNCHANGED <<vars, viewVars>>
  <2>1. SagaInv' /\ UNCHANGED bus
    BY <1>4, SagaUndisturbed DEF ViewIInv, vars
  <2> QED BY <1>4, <2>1 DEF ViewIInv, ViewInv, viewVars, ViewTypeOK,
                            EveryMarkIsAccountedFor, RowMatchesTimeline
<1> QED BY <1>1, <1>2, <1>3, <1>4 DEF ViewNext

\* What the projector knows is always consistent with itself and with the bus
\* (MarkProcessed, ApplyEvent, HandleEvent): the inductive invariant.
THEOREM ViewIInvariant == ViewSpec => []ViewIInv
<1>1. ViewInit => ViewIInv
  BY InitViewIInv
<1>2. ViewIInv /\ [ViewNext]_<<vars, viewVars>> => ViewIInv'
  BY ViewIInvKept
<1> QED BY <1>1, <1>2, PTL DEF ViewSpec

\* Marks are accounted for and the row agrees with its timeline, in every order
\* the events can come in (MarkProcessed, ApplyEvent).
THEOREM ViewInvariant == ViewSpec => []ViewInv
<1>1. ViewIInv => ViewInv
  BY DEF ViewIInv
<1> QED BY <1>1, ViewIInvariant, PTL

\* An outcome that a row shows is the saga's, but for a failed notification,
\* although results and announcements reach the row in any order (ApplyEvent,
\* the orchestrator).
THEOREM ShownOutcomeIsTrue == ViewSpec => []ShownOutcomeIsTheOutcome
<1>1. ViewInit => StatusesAreTrue
  BY DEF ViewInit, Init, StatusesAreTrue, Known
<1>2. ViewIInv /\ StatusesAreTrue /\ [ViewNext]_<<vars, viewVars>> => StatusesAreTrue'
  <2> SUFFICES ASSUME ViewIInv, StatusesAreTrue, [ViewNext]_<<vars, viewVars>>
               PROVE  StatusesAreTrue'
    OBVIOUS
  <2>1. Next \/ UNCHANGED vars
    BY DEF ViewNext, Projector, MarkProcessed, ApplyEvent, LoseEvent
  <2> QED BY <2>1, StatusesKept DEF ViewIInv
<1>3. ViewIInv /\ StatusesAreTrue => ShownOutcomeIsTheOutcome
  <2> SUFFICES ASSUME ViewIInv, StatusesAreTrue, NEW o \in Orders
               PROVE  /\ views[o].status = "COMPLETED" => sagas[o].current = "COMPLETED"
                      /\ views[o].status = "FAILED" /\ ~ NotificationFailed(o) =>
                           sagas[o].current \notin {"INVENTORY_RESERVED", "COMPLETED"}
    BY DEF ShownOutcomeIsTheOutcome
  <2>1. SagaInv /\ DOMAIN timeline \subseteq bus /\ bus \subseteq Known
    BY DEF ViewIInv, ViewInv, EveryMarkIsAccountedFor, Known
  <2>2. ASSUME views[o].status # ""
        PROVE  \E e \in bus : e \in Known /\ e.order = o /\ e.status = views[o].status
    <3>1. \E e \in Seen(o) : e.status = views[o].status
      BY <2>2 DEF ViewIInv, ViewInv, RowMatchesTimeline, Seen
    <3> QED BY <2>1, <3>1 DEF Seen
  <2>3. ASSUME views[o].status = "COMPLETED" PROVE sagas[o].current = "COMPLETED"
    BY <2>2, <2>3 DEF StatusesAreTrue
  <2>4. ASSUME views[o].status = "FAILED", ~ NotificationFailed(o)
        PROVE  sagas[o].current \notin {"INVENTORY_RESERVED", "COMPLETED"}
    <3>1. PICK e \in bus : e \in Known /\ e.order = o /\ e.status = "FAILED"
      BY <2>2, <2>4
    <3>2. e.type # "NOTIFICATION_RESULT"
      BY <2>4, <3>1 DEF NotificationFailed
    <3>3. CASE e \in InFlight(o)
      <4>1. Open(o) /\ InFlight(o) = {e} /\ Fits(sagas[o], e)
        BY <2>1, <3>3 DEF SagaInv, OneInFlight
      <4>2. e.type \notin Commands
        <5>1. e.type \in Commands => e.status = CommandStatus(e.type)
          BY <2>1, <3>1 DEF SagaInv, CommandsAreValid
        <5> QED BY <3>1, <5>1 DEF Commands, CommandStatus
      <4>3. e.type \in Results /\ sagas[o].current = ExpectedStatusForResult(e.type)
        BY <4>1, <4>2 DEF Fits
      <4> QED BY <3>2, <4>3 DEF Results, ExpectedStatusForResult
    <3>4. CASE sagas[o].current \in {"PAYMENT_REFUND_PENDING", "FAILED"}
      BY <3>4
    <3> QED BY <3>1, <3>2, <3>3, <3>4 DEF StatusesAreTrue
  <2> QED BY <2>3, <2>4
<1> QED BY <1>1, <1>2, <1>3, ViewIInvariant, PTL DEF ViewSpec
=============================================================================
