--------------------------- MODULE OrderSagaProofs ---------------------------
(***************************************************************************)
(* Theorems of OrderSaga for any set of orders, any retry limit and any    *)
(* number of creations and crashes: its invariant, what its gateways did   *)
(* and how often, how many commands an order took, and that it implements  *)
(* the safety part of OrderLifecycle.                                      *)
(***************************************************************************)
EXTENDS OrderSaga, TLAPS, FiniteSetTheorems

\* A row of table sagas whose RetryCount is within the limit.
SagaRow == [current : SagaStatus \cup {""}, previous : SagaStatus \cup {""},
            retryCount : 0..MaxRetries, tx : Nat]

\* The result that answers a command.
ResultOf(type) ==
  CASE type = "PAYMENT_COMMAND"      -> "PAYMENT_RESULT"
    [] type = "PAYMENT_COMPENSATE"   -> "PAYMENT_COMPENSATE_RESULT"
    [] type = "INVENTORY_COMMAND"    -> "INVENTORY_RESULT"
    [] type = "NOTIFICATION_COMMAND" -> "NOTIFICATION_RESULT"
    [] OTHER                         -> ""

\* What every commit of the orchestrator has in common: a row s and one event
\* out, which together keep the token, or end the saga.
Commits(e, s, out) ==
  /\ Commit(e, s, out)
  /\ s \in SagaRow /\ s.current \in SagaStatus
  /\ s.current = "PAYMENT_REFUND_PENDING" => s.tx # 0
  /\ out \in Event
  /\ out.id = <<e.order, nextId[e.order]>>
  /\ out.order = e.order
  /\ \/ /\ out.type \in Commands
        /\ Fits(s, out)
        /\ s.current \notin Terminal
        /\ out.type = "PAYMENT_COMPENSATE" => out.tx # 0
     \/ out.type = "ORDER_COMPLETED" /\ s.current = "COMPLETED"
     \/ out.type = "ORDER_FAILED" /\ s.current = "FAILED"

\* And every step: e is new to it, and starts the saga or answers its step.
OrchestratorStep(e, s, out) ==
  /\ Delivers(e)
  /\ \/ /\ e.type = "ORDER_CREATED" /\ sagas[e.order] = NoSaga
        /\ s.current \notin Terminal
     \/ Accepts(e)
  /\ Commits(e, s, out)

\* What every step of a worker has in common.
WorkerStep(e, status, tx) ==
  /\ Delivers(e)
  /\ e.type \in Commands
  /\ Answer(e, ResultOf(e.type), status, tx)
  /\ ValidResultStatus(ResultOf(e.type), status)
  /\ tx \in Nat
  /\ effects' \in [Orders -> [EffectKinds -> Nat]]
  /\ \A o \in Orders \ {e.order} : effects'[o] = effects[o]

\* The ways the orchestrator moves a saga: it begins, retries its step, goes on
\* to the next, compensates, fails or completes.
Moves(e, s, out) ==
  LET saga == sagas[e.order]
  IN  \/ /\ e.type = "ORDER_CREATED" /\ saga = NoSaga
         /\ s.current = "PAYMENT_PENDING" /\ s.retryCount = 0
      \/ /\ Accepts(e)
         /\ s.current = saga.current /\ e.status = "RETRYING"
         /\ s.tx = saga.tx /\ s.retryCount = saga.retryCount + 1
      \/ /\ Accepts(e)
         /\ s.current = e.status /\ s.retryCount = 0
         /\ \/ /\ e.type = "PAYMENT_RESULT" /\ e.status = "PAYMENT_APPROVED"
               /\ s.tx = e.tx
            \/ /\ e.type = "INVENTORY_RESULT" /\ e.status = "INVENTORY_RESERVED"
               /\ s.tx = saga.tx
      \/ /\ Accepts(e)
         /\ s.current = "PAYMENT_REFUND_PENDING" /\ s.retryCount = 0
         /\ e.type = "INVENTORY_RESULT" /\ e.status = "FAILED"
         /\ s.tx = saga.tx
      \/ /\ Accepts(e)
         /\ s.current = "FAILED" /\ s.tx = saga.tx
         /\ out.type = "ORDER_FAILED" /\ out.status = "FAILED"
         /\ out.note = FailureNote(e)
      \/ /\ Accepts(e)
         /\ s.current = "COMPLETED" /\ s.tx = saga.tx
         /\ e.type = "NOTIFICATION_RESULT"
         /\ out.type = "ORDER_COMPLETED" /\ out.status = "COMPLETED"
         /\ out.note # "payment_refunded"

\* The ways a worker's gateway call ends: declined, or performed and reported.
Exchanges(e, status, tx) ==
  \/ status \in {"RETRYING", "FAILED"} /\ effects' = effects
  \/ /\ status = SuccessStatus(ResultOf(e.type))
     /\ Performed(e.order, EffectOf(e.type))
     /\ e.type = "PAYMENT_COMMAND" => tx = effects[e.order]["charge"] + 1

-----------------------------------------------------------------------------
\* dispatchNext, called with a row at a step that has a command, commits a row
\* and a command that fit each other (dispatchNext, nextCommand).
LEMMA DispatchFits ==
  ASSUME TypeOK, NEW e \in bus, NEW s \in SagaRow, DispatchNext(e, s),
         s.current \in SagaStatus,
         s.current = "PAYMENT_REFUND_PENDING" => s.tx # 0
  PROVE  \E r \in SagaRow, out \in Event :
           /\ Commit(e, r, out)
           /\ r.current \in SagaStatus \ Terminal
           /\ r.current = "PAYMENT_REFUND_PENDING" => r.tx # 0
           /\ r.current = TargetStatus(s.current)
           /\ r.tx = s.tx /\ r.retryCount = s.retryCount
           /\ out.id = <<e.order, nextId[e.order]>>
           /\ out.order = e.order
           /\ out.type \in Commands
           /\ Fits(r, out)
           /\ out.type = "PAYMENT_COMPENSATE" => out.tx # 0
<1> DEFINE target == TargetStatus(s.current)
           out == NewEvent(e.order, NextCommand(s.current), target, s.tx, "")
           r == IF target # s.current
                THEN [s EXCEPT !.previous = s.current, !.current = target]
                ELSE s
<1>1. e \in Event
  BY DEF TypeOK
<1>2. s.current \in {"PENDING", "PAYMENT_PENDING", "PAYMENT_APPROVED",
                     "PAYMENT_REFUND_PENDING", "INVENTORY_RESERVED"}
  BY DEF DispatchNext, NextCommand, SagaStatus
<1>3. /\ r \in SagaRow
      /\ r.current = target
      /\ r.tx = s.tx /\ r.retryCount = s.retryCount
  BY <1>2 DEF SagaRow, TargetStatus, SagaStatus
<1>4. nextId[e.order] \in Nat
  BY <1>1 DEF TypeOK, Event
<1>5. /\ out \in Event
      /\ out.id = <<e.order, nextId[e.order]>>
      /\ out.order = e.order
      /\ out.type = NextCommand(s.current)
      /\ out.status = target
      /\ out.tx = s.tx
  <2>1. NextCommand(s.current) \in Commands
    BY <1>2 DEF NextCommand, Commands
  <2>2. target \in OrderStatus
    BY <1>2 DEF TargetStatus, OrderStatus, SagaStatus
  <2>3. "" \in Notes /\ s.tx \in Nat /\ NextCommand(s.current) \in EventType
    BY <2>1 DEF Notes, SagaRow, EventType
  <2>4. e.order \in Orders /\ <<e.order, nextId[e.order]>> \in EventId
    BY <1>1, <1>4 DEF Event, EventId
  <2> QED BY <2>2, <2>3, <2>4 DEF NewEvent, Event
<1>6. Commit(e, r, out)
  BY DEF DispatchNext
<1>7. /\ out.type \in Commands
      /\ Fits(r, out)
      /\ r.current \in SagaStatus \ Terminal
      /\ out.type = "PAYMENT_COMPENSATE" => out.tx # 0
  BY <1>2, <1>3, <1>5
     DEF Fits, NextCommand, TargetStatus, CommandStatus, Commands, SagaStatus,
         Terminal
<1>8. r.current = "PAYMENT_REFUND_PENDING" => r.tx # 0
  BY <1>2, <1>3 DEF TargetStatus
<1> HIDE DEF r, out
<1> QED BY <1>3, <1>5, <1>6, <1>7, <1>8

\* A terminal announcement and the row it comes with (fail, complete).
LEMMA AnnouncementTyped ==
  ASSUME TypeOK, NEW e \in bus,
         NEW type \in Announcements, NEW status \in Terminal, NEW note \in Notes
  PROVE  LET out == NewEvent(e.order, type, status, 0, note)
         IN  /\ out \in Event
             /\ out.id = <<e.order, nextId[e.order]>>
             /\ out.order = e.order
             /\ out.type = type
             /\ out.status = status
             /\ out.note = note
<1>1. e.order \in Orders /\ nextId[e.order] \in Nat
  BY DEF TypeOK, Event
<1>2. type \in EventType /\ status \in OrderStatus
  BY DEF EventType, OrderStatus, SagaStatus, Terminal
<1> QED BY <1>1, <1>2 DEF NewEvent, Event, EventId

\* MovedTo keeps a row a row (fail, startCompensation, complete).
LEMMA MovedToTyped ==
  ASSUME NEW s \in SagaRow, NEW status \in SagaStatus, MaxRetries \in Nat
  PROVE  /\ MovedTo(s, status) \in SagaRow
         /\ MovedTo(s, status).current = status
         /\ MovedTo(s, status).tx = s.tx
         /\ MovedTo(s, status).retryCount = 0
<1>1. /\ s \in SagaRow
      /\ 0 \in 0..MaxRetries
  OBVIOUS
<1> QED BY <1>1 DEF MovedTo, SagaRow

\* An accepted result finds the saga at the step it answers.
LEMMA AcceptsFits ==
  ASSUME TypeOK, NEW e \in bus, Accepts(e)
  PROVE  /\ e \in Event
         /\ e.order \in Orders
         /\ sagas[e.order] \in SagaRow
         /\ sagas[e.order].current \in {"PAYMENT_PENDING", "PAYMENT_APPROVED",
                                        "PAYMENT_REFUND_PENDING",
                                        "INVENTORY_RESERVED"}
         /\ e.type \in Results
<1>1. e \in Event /\ e.order \in Orders
  BY DEF TypeOK, Event
<1>2. sagas[e.order] \in SagaRow
  BY <1>1 DEF TypeOK, SagaRow
<1>3. e.type \in Results /\ sagas[e.order].current = ExpectedStatusForResult(e.type)
  BY DEF Accepts
<1> QED BY <1>1, <1>2, <1>3 DEF Results, ExpectedStatusForResult

\* Every action of the orchestrator is an OrchestratorStep and one of the moves.
LEMMA OrchestratorSteps ==
  ASSUME TypeOK, CommandsAreValid, Orchestrator
  PROVE  \E e \in bus, s \in SagaRow, out \in Event :
           OrchestratorStep(e, s, out) /\ Moves(e, s, out)
<1>0. MaxRetries \in Nat
  BY MaxRetriesAssumption
<1>1. PICK e \in bus : \/ StartOrder(e) \/ Retry(e) \/ Advance(e)
                       \/ StartCompensation(e) \/ Fail(e) \/ Complete(e)
  BY DEF Orchestrator
<1>2. e \in Event /\ e.order \in Orders
  BY DEF TypeOK, Event
<1> DEFINE saga == sagas[e.order]
<1>3. saga \in SagaRow
  BY <1>2 DEF TypeOK, SagaRow
<1>4. saga.current = "PAYMENT_REFUND_PENDING" => saga.tx # 0
  BY <1>2 DEF CommandsAreValid
<1>5. ASSUME NEW s \in SagaRow, DispatchNext(e, s), s.current \in SagaStatus,
             s.current = "PAYMENT_REFUND_PENDING" => s.tx # 0,
             Delivers(e),
             (e.type = "ORDER_CREATED" /\ sagas[e.order] = NoSaga) \/ Accepts(e),
             \A r \in SagaRow, out \in Event :
               /\ r.current = TargetStatus(s.current) /\ r.tx = s.tx
               /\ r.retryCount = s.retryCount
               => Moves(e, r, out)
      PROVE  \E r \in SagaRow, out \in Event :
               OrchestratorStep(e, r, out) /\ Moves(e, r, out)
  BY <1>5, DispatchFits DEF OrchestratorStep, Commits
<1>6. ASSUME StartOrder(e)
      PROVE  \E r \in SagaRow, out \in Event :
               OrchestratorStep(e, r, out) /\ Moves(e, r, out)
  <2> DEFINE s == [NoSaga EXCEPT !.current = "PENDING"]
  <2>0. 0 \in 0..MaxRetries
    BY <1>0
  <2>1. s \in SagaRow /\ s.current = "PENDING" /\ s.retryCount = 0
    BY <2>0 DEF NoSaga, SagaRow, SagaStatus
  <2>2. /\ Delivers(e) /\ DispatchNext(e, s)
        /\ e.type = "ORDER_CREATED" /\ sagas[e.order] = NoSaga
    BY <1>6 DEF StartOrder
  <2> HIDE DEF s
  <2>3. \A r \in SagaRow, out \in Event :
         /\ r.current = TargetStatus(s.current) /\ r.tx = s.tx
         /\ r.retryCount = s.retryCount
         => Moves(e, r, out)
    BY <2>1, <2>2 DEF TargetStatus, Moves
  <2> QED BY <2>1, <2>2, <2>3, <1>5 DEF SagaStatus
<1>7. ASSUME Retry(e)
      PROVE  \E r \in SagaRow, out \in Event :
               OrchestratorStep(e, r, out) /\ Moves(e, r, out)
  <2> DEFINE s == [saga EXCEPT !.retryCount = @ + 1]
  <2>1. Accepts(e) /\ Delivers(e) /\ DispatchNext(e, s) /\ Retries(e)
    BY <1>7 DEF Retry, Accepts
  <2>2. saga.retryCount + 1 \in 0..MaxRetries
    <3>1. saga.retryCount \in 0..MaxRetries
      BY <1>3 DEF SagaRow
    <3>2. ~ (saga.retryCount + 1 > MaxRetries)
      BY <2>1 DEF Retries, Exhausted
    <3> QED BY <1>0, <3>1, <3>2
  <2>3. /\ s \in SagaRow /\ s.current = saga.current /\ s.tx = saga.tx
        /\ s.retryCount = saga.retryCount + 1
    BY <1>3, <2>2 DEF SagaRow
  <2>4. s.current \in SagaStatus
    BY <2>1, <2>3, AcceptsFits DEF SagaStatus
  <2> HIDE DEF s
  <2>5. saga.current # "PENDING"
    BY <2>1, AcceptsFits
  <2>6. \A r \in SagaRow, out \in Event :
         /\ r.current = TargetStatus(s.current) /\ r.tx = s.tx
         /\ r.retryCount = s.retryCount
         => Moves(e, r, out)
    BY <2>1, <2>3, <2>5 DEF TargetStatus, Retries, Moves
  <2> QED BY <2>1, <2>3, <2>4, <2>6, <1>4, <1>5
<1>8. ASSUME Advance(e)
      PROVE  \E r \in SagaRow, out \in Event :
               OrchestratorStep(e, r, out) /\ Moves(e, r, out)
  <2> DEFINE s == Advanced(saga, e)
  <2>1. /\ Accepts(e) /\ Delivers(e) /\ DispatchNext(e, s)
        /\ e.status \in {"PAYMENT_APPROVED", "INVENTORY_RESERVED"}
    BY <1>8 DEF Advance, Accepts, Advances
  <2>2. /\ s \in SagaRow /\ s.current = e.status /\ s.retryCount = 0
        /\ s.tx = IF e.type = "PAYMENT_RESULT" THEN e.tx ELSE saga.tx
    <3>1. 0 \in 0..MaxRetries /\ e.tx \in Nat
      BY <1>0, <1>2 DEF Event
    <3>2. e.status \in SagaStatus
      BY <2>1 DEF SagaStatus
    <3> QED BY <1>3, <3>1, <3>2 DEF Advanced, SagaRow
  <2>3. s.current \in SagaStatus /\ s.current # "PAYMENT_REFUND_PENDING"
    BY <2>1, <2>2 DEF SagaStatus
  <2> HIDE DEF s
  <2>4. \/ e.type = "PAYMENT_RESULT" /\ e.status = "PAYMENT_APPROVED"
        \/ e.type = "INVENTORY_RESULT" /\ e.status = "INVENTORY_RESERVED"
    BY <2>1 DEF Accepts, ValidResultStatus, SuccessStatus, Results
  <2>5. \A r \in SagaRow, out \in Event :
         /\ r.current = TargetStatus(s.current) /\ r.tx = s.tx
         /\ r.retryCount = s.retryCount
         => Moves(e, r, out)
    BY <2>1, <2>2, <2>4 DEF TargetStatus, Moves
  <2> QED BY <2>1, <2>2, <2>3, <2>5, <1>5
<1>9. ASSUME StartCompensation(e)
      PROVE  \E r \in SagaRow, out \in Event :
               OrchestratorStep(e, r, out) /\ Moves(e, r, out)
  <2> DEFINE s == MovedTo(saga, "PAYMENT_REFUND_PENDING")
  <2>1. /\ Accepts(e) /\ Delivers(e) /\ DispatchNext(e, s) /\ saga.tx # 0
        /\ e.type = "INVENTORY_RESULT" /\ e.status = "FAILED"
    BY <1>9 DEF StartCompensation, Accepts, Compensates
  <2>2. "PAYMENT_REFUND_PENDING" \in SagaStatus
    BY DEF SagaStatus
  <2>3. /\ s \in SagaRow
        /\ s.current = "PAYMENT_REFUND_PENDING"
        /\ s.tx = saga.tx /\ s.retryCount = 0
    BY <1>0, <1>3, <2>2, MovedToTyped
  <2> HIDE DEF s
  <2>4. \A r \in SagaRow, out \in Event :
         /\ r.current = TargetStatus(s.current) /\ r.tx = s.tx
         /\ r.retryCount = s.retryCount
         => Moves(e, r, out)
    BY <2>1, <2>3 DEF TargetStatus, Moves
  <2> QED BY <2>1, <2>2, <2>3, <2>4, <1>5
<1>10. ASSUME Fail(e)
       PROVE  \E r \in SagaRow, out \in Event :
               OrchestratorStep(e, r, out) /\ Moves(e, r, out)
  <2> DEFINE s == MovedTo(saga, "FAILED")
             out == NewEvent(e.order, "ORDER_FAILED", "FAILED", 0, FailureNote(e))
  <2>1. Accepts(e) /\ Delivers(e) /\ Commit(e, s, out)
    BY <1>10 DEF Fail, Accepts
  <2>2. "FAILED" \in SagaStatus /\ "FAILED" \in Terminal
        /\ "ORDER_FAILED" \in Announcements /\ FailureNote(e) \in Notes
    BY DEF SagaStatus, Terminal, Announcements, FailureNote, Notes
  <2>3. s \in SagaRow /\ s.current = "FAILED" /\ s.tx = saga.tx
    BY <1>0, <1>3, <2>2, MovedToTyped
  <2>4. /\ out \in Event /\ out.id = <<e.order, nextId[e.order]>>
        /\ out.order = e.order /\ out.type = "ORDER_FAILED"
        /\ out.status = "FAILED" /\ out.note = FailureNote(e)
    BY <2>2, AnnouncementTyped
  <2> HIDE DEF s, out
  <2>5. OrchestratorStep(e, s, out)
    BY <2>1, <2>2, <2>3, <2>4 DEF OrchestratorStep, Commits
  <2>6. Moves(e, s, out)
    BY <2>1, <2>3, <2>4 DEF Moves
  <2> QED BY <2>3, <2>4, <2>5, <2>6
<1>11. ASSUME Complete(e)
       PROVE  \E r \in SagaRow, out \in Event :
               OrchestratorStep(e, r, out) /\ Moves(e, r, out)
  <2> DEFINE s == MovedTo(MovedTo(saga, "NOTIFIED"), "COMPLETED")
             note == IF e.status = "NOTIFIED" THEN "" ELSE "notification_error"
             out == NewEvent(e.order, "ORDER_COMPLETED", "COMPLETED", 0, note)
  <2>1. /\ Accepts(e) /\ Delivers(e) /\ Commit(e, s, out) /\ Completes(e)
        /\ CanTransitionTo(saga.current, "NOTIFIED")
    BY <1>11 DEF Complete, Accepts
  <2>2. "COMPLETED" \in SagaStatus /\ "NOTIFIED" \in SagaStatus
        /\ "COMPLETED" \in Terminal
        /\ "ORDER_COMPLETED" \in Announcements /\ note \in Notes
        /\ note # "payment_refunded"
    BY DEF SagaStatus, Terminal, Announcements, Notes
  <2>3. s \in SagaRow /\ s.current = "COMPLETED" /\ s.tx = saga.tx
    <3>1. /\ MovedTo(saga, "NOTIFIED") \in SagaRow
          /\ MovedTo(saga, "NOTIFIED").tx = saga.tx
      BY <1>0, <1>3, <2>2, MovedToTyped
    <3> QED BY <1>0, <2>2, <3>1, MovedToTyped
  <2> HIDE DEF note
  <2>4. /\ out \in Event /\ out.id = <<e.order, nextId[e.order]>>
        /\ out.order = e.order /\ out.type = "ORDER_COMPLETED"
        /\ out.status = "COMPLETED" /\ out.note = note
    BY <2>2, AnnouncementTyped
  <2> HIDE DEF s, out
  <2>5. e.type = "NOTIFICATION_RESULT"
    BY <2>1 DEF Accepts, CanTransitionTo, ValidTransitions, Results,
                ExpectedStatusForResult
  <2>6. OrchestratorStep(e, s, out)
    BY <2>1, <2>2, <2>3, <2>4 DEF OrchestratorStep, Commits
  <2>7. Moves(e, s, out)
    BY <2>1, <2>2, <2>3, <2>4, <2>5 DEF Moves
  <2> QED BY <2>3, <2>4, <2>6, <2>7
<1> QED BY <1>1, <1>6, <1>7, <1>8, <1>9, <1>10, <1>11
-----------------------------------------------------------------------------
\* Results and creations are the orchestrator's (topicForEventType).
LEMMA ConsumerOfResults ==
  ASSUME NEW type \in {"ORDER_CREATED"} \cup Results
  PROVE  Consumer(type) = "orchestrator"
  BY DEF Consumer, Results

\* The statuses of results, and the topics: a handler's own output is never
\* read back by the same service.
LEMMA ResultFacts ==
  ASSUME NEW type \in Commands
  PROVE  /\ ResultOf(type) \in Results
         /\ Consumer(type) \in Components \ {"orchestrator"}
         /\ Consumer(ResultOf(type)) = "orchestrator"
<1>1. ResultOf(type) \in Results
  BY DEF Commands, Results, ResultOf
<1>2. Consumer(ResultOf(type)) = "orchestrator"
  BY <1>1, ConsumerOfResults
<1>3. Consumer(type) \in Components \ {"orchestrator"}
  BY DEF Commands, Results, Consumer, Components
<1> QED BY <1>1, <1>2, <1>3

\* Nothing the orchestrator sends is read by the orchestrator.
LEMMA ConsumerOfOutput ==
  ASSUME NEW type \in Commands \cup Announcements
  PROVE  Consumer(type) # "orchestrator"
  BY DEF Consumer, Commands, Announcements, Results

\* effects after Performed (the gateways).
LEMMA PerformedTyped ==
  ASSUME effects \in [Orders -> [EffectKinds -> Nat]],
         NEW o \in Orders, NEW kind \in EffectKinds, Performed(o, kind)
  PROVE  /\ effects' \in [Orders -> [EffectKinds -> Nat]]
         /\ \A p \in Orders \ {o} : effects'[p] = effects[p]
<1>1. effects[o][kind] + 1 \in Nat
  OBVIOUS
<1>2. [effects[o] EXCEPT ![kind] = @ + 1] \in [EffectKinds -> Nat]
  BY <1>1
<1> QED BY <1>2 DEF Performed

\* Every action of a worker is a WorkerStep.
LEMMA WorkerSteps ==
  ASSUME TypeOK, PaymentWorker \/ InventoryWorker \/ NotificationWorker
  PROVE  \E e \in bus, status \in OrderStatus, tx \in Nat :
           WorkerStep(e, status, tx) /\ Exchanges(e, status, tx)
<1>1. PICK e \in bus : \/ ProcessPayment(e) \/ RefundPayment(e)
                       \/ ReserveInventory(e) \/ Notify(e)
  BY DEF PaymentWorker, InventoryWorker, NotificationWorker
<1>2. e \in Event /\ e.order \in Orders /\ e.tx \in Nat
  BY DEF TypeOK, Event
<1>3. effects \in [Orders -> [EffectKinds -> Nat]]
  BY DEF TypeOK
<1>4. ASSUME NEW type \in Commands, Commanded(e, type),
             NEW result \in Results, result = ResultOf(type),
             NEW kind \in EffectKinds, kind = EffectOf(type),
             NEW tx \in Nat, NEW paid \in Nat,
             type = "PAYMENT_COMMAND" => paid = effects[e.order]["charge"] + 1,
             \/ Declines(e, result, tx)
             \/ Performed(e.order, kind) /\ Answer(e, result, SuccessStatus(result), paid)
      PROVE  \E status \in OrderStatus, t \in Nat :
               WorkerStep(e, status, t) /\ Exchanges(e, status, t)
  <2>1. Delivers(e) /\ e.type = type
    BY <1>4 DEF Commanded
  <2>2. CASE Declines(e, result, tx)
    <3>1. PICK status \in {"RETRYING", "FAILED"} : Answer(e, result, status, tx)
      BY <2>2 DEF Declines
    <3>2. effects' = effects
      BY <2>2 DEF Declines
    <3>3. status \in OrderStatus /\ ValidResultStatus(result, status)
      BY DEF OrderStatus, SagaStatus, ValidResultStatus
    <3>4. Exchanges(e, status, tx)
      BY <3>2 DEF Exchanges
    <3> QED BY <1>2, <1>3, <1>4, <2>1, <3>1, <3>2, <3>3, <3>4 DEF WorkerStep
  <2>3. CASE Performed(e.order, kind) /\ Answer(e, result, SuccessStatus(result), paid)
    <3>1. /\ SuccessStatus(result) \in OrderStatus
          /\ ValidResultStatus(result, SuccessStatus(result))
      BY DEF SuccessStatus, ValidResultStatus, OrderStatus, SagaStatus, Results
    <3>2. /\ effects' \in [Orders -> [EffectKinds -> Nat]]
          /\ \A p \in Orders \ {e.order} : effects'[p] = effects[p]
      BY <1>2, <1>3, <2>3, PerformedTyped
    <3>3. Exchanges(e, SuccessStatus(result), paid)
      BY <1>4, <2>1, <2>3 DEF Exchanges
    <3> QED BY <1>2, <1>4, <2>1, <2>3, <3>1, <3>2, <3>3 DEF WorkerStep
  <2> QED BY <1>4, <2>2, <2>3
<1>5. ASSUME ProcessPayment(e)
      PROVE  \E status \in OrderStatus, t \in Nat :
               WorkerStep(e, status, t) /\ Exchanges(e, status, t)
  <2>1. /\ Commanded(e, "PAYMENT_COMMAND")
        /\ \/ Declines(e, "PAYMENT_RESULT", 0)
           \/ /\ Performed(e.order, "charge")
              /\ Answer(e, "PAYMENT_RESULT", "PAYMENT_APPROVED",
                        effects[e.order]["charge"] + 1)
    BY <1>5 DEF ProcessPayment
  <2>2. /\ SuccessStatus("PAYMENT_RESULT") = "PAYMENT_APPROVED"
        /\ "PAYMENT_RESULT" \in Results
        /\ "PAYMENT_RESULT" = ResultOf("PAYMENT_COMMAND")
        /\ "PAYMENT_COMMAND" \in Commands /\ "charge" \in EffectKinds
        /\ "charge" = EffectOf("PAYMENT_COMMAND")
    BY DEF SuccessStatus, Results, ResultOf, Commands, EffectKinds, EffectOf
  <2>3. effects[e.order]["charge"] + 1 \in Nat /\ 0 \in Nat
    BY <1>2, <1>3, <2>2
  <2> QED BY <1>4, <2>1, <2>2, <2>3
<1>6. ASSUME RefundPayment(e)
      PROVE  \E status \in OrderStatus, t \in Nat :
               WorkerStep(e, status, t) /\ Exchanges(e, status, t)
  <2>1. /\ Commanded(e, "PAYMENT_COMPENSATE")
        /\ \/ Declines(e, "PAYMENT_COMPENSATE_RESULT", e.tx)
           \/ /\ Performed(e.order, "refund")
              /\ Answer(e, "PAYMENT_COMPENSATE_RESULT", "PAYMENT_REFUNDED", e.tx)
    BY <1>6 DEF RefundPayment
  <2>2. /\ SuccessStatus("PAYMENT_COMPENSATE_RESULT") = "PAYMENT_REFUNDED"
        /\ "PAYMENT_COMPENSATE_RESULT" \in Results
        /\ "PAYMENT_COMPENSATE_RESULT" = ResultOf("PAYMENT_COMPENSATE")
        /\ "PAYMENT_COMPENSATE" \in Commands /\ "refund" \in EffectKinds
        /\ "refund" = EffectOf("PAYMENT_COMPENSATE")
    BY DEF SuccessStatus, Results, ResultOf, Commands, EffectKinds, EffectOf
  <2> QED BY <1>2, <1>4, <2>1, <2>2
<1>7. ASSUME ReserveInventory(e)
      PROVE  \E status \in OrderStatus, t \in Nat :
               WorkerStep(e, status, t) /\ Exchanges(e, status, t)
  <2>1. /\ Commanded(e, "INVENTORY_COMMAND")
        /\ \/ Declines(e, "INVENTORY_RESULT", 0)
           \/ /\ Performed(e.order, "reservation")
              /\ Answer(e, "INVENTORY_RESULT", "INVENTORY_RESERVED", 0)
    BY <1>7 DEF ReserveInventory
  <2>2. /\ SuccessStatus("INVENTORY_RESULT") = "INVENTORY_RESERVED"
        /\ "INVENTORY_RESULT" \in Results
        /\ "INVENTORY_RESULT" = ResultOf("INVENTORY_COMMAND")
        /\ "INVENTORY_COMMAND" \in Commands /\ "reservation" \in EffectKinds
        /\ "reservation" = EffectOf("INVENTORY_COMMAND")
        /\ 0 \in Nat
    BY DEF SuccessStatus, Results, ResultOf, Commands, EffectKinds, EffectOf
  <2> QED BY <1>4, <2>1, <2>2
<1>8. ASSUME Notify(e)
      PROVE  \E status \in OrderStatus, t \in Nat :
               WorkerStep(e, status, t) /\ Exchanges(e, status, t)
  <2>1. /\ Commanded(e, "NOTIFICATION_COMMAND")
        /\ \/ Declines(e, "NOTIFICATION_RESULT", 0)
           \/ /\ Performed(e.order, "notification")
              /\ Answer(e, "NOTIFICATION_RESULT", "NOTIFIED", 0)
    BY <1>8 DEF Notify
  <2>2. /\ SuccessStatus("NOTIFICATION_RESULT") = "NOTIFIED"
        /\ "NOTIFICATION_RESULT" \in Results
        /\ "NOTIFICATION_RESULT" = ResultOf("NOTIFICATION_COMMAND")
        /\ "NOTIFICATION_COMMAND" \in Commands /\ "notification" \in EffectKinds
        /\ "notification" = EffectOf("NOTIFICATION_COMMAND")
        /\ 0 \in Nat
    BY DEF SuccessStatus, Results, ResultOf, Commands, EffectKinds, EffectOf
  <2> QED BY <1>4, <2>1, <2>2
<1> QED BY <1>1, <1>5, <1>6, <1>7, <1>8
-----------------------------------------------------------------------------
\* What a handler's transaction does to the events and the journal, whoever
\* the handler is: it consumes e and sends out.
Handled(e, out) ==
  /\ e \in bus /\ e \in Event /\ out \in Event
  /\ e.type \in {"ORDER_CREATED"} \cup Commands \cup Results
  /\ out.id = <<e.order, nextId[e.order]>>
  /\ out.order = e.order
  /\ Consumer(out.type) # Consumer(e.type)
  /\ outbox' = outbox \cup {out}
  /\ bus' = bus
  /\ nextId' = [nextId EXCEPT ![e.order] = @ + 1]
  /\ journal \subseteq journal'
  /\ <<e.id, Consumer(e.type), "IN">> \in journal'
  /\ \A r \in journal' : \/ r \in journal
                         \/ /\ r \in EventId \X Components \X Directions
                            /\ r[1] \in {e.id, out.id}
                            /\ r[2] = Consumer(e.type)

\* Every commit of the orchestrator is such a transaction (SaveSaga, LogEvent,
\* PublishEvent).
LEMMA CommitHandles ==
  ASSUME TypeOK, NEW e \in bus, NEW s \in SagaRow, NEW out \in Event,
         Commits(e, s, out), e.type \in {"ORDER_CREATED"} \cup Results
  PROVE  Handled(e, out)
<1>1. /\ e \in Event /\ e.id \in EventId
      /\ out.id \in EventId
  BY DEF TypeOK, Event
<1>2. Consumer(e.type) = "orchestrator"
  BY ConsumerOfResults
<1>3. out.type \in Commands \cup Announcements
  BY DEF Commits, Announcements
<1>4. Consumer(out.type) # "orchestrator"
  BY <1>3, ConsumerOfOutput
<1>5. /\ outbox' = outbox \cup {out}
      /\ bus' = bus
      /\ nextId' = [nextId EXCEPT ![e.order] = @ + 1]
      /\ journal' = journal \cup {<<e.id, "orchestrator", "IN">>,
                                  <<out.id, "orchestrator", "OUT">>}
  BY DEF Commits, Commit
<1>6. "orchestrator" \in Components /\ "IN" \in Directions /\ "OUT" \in Directions
  BY DEF Components, Directions
<1>7. /\ <<e.id, "orchestrator", "IN">> \in EventId \X Components \X Directions
      /\ <<out.id, "orchestrator", "OUT">> \in EventId \X Components \X Directions
  BY <1>1, <1>6
<1>8. out.id = <<e.order, nextId[e.order]>> /\ out.order = e.order
  BY DEF Commits
<1> QED BY <1>1, <1>2, <1>4, <1>5, <1>7, <1>8 DEF Handled

\* A step of the orchestrator is one.
LEMMA OrchestratorHandles ==
  ASSUME TypeOK, NEW e \in bus, NEW s \in SagaRow, NEW out \in Event,
         OrchestratorStep(e, s, out)
  PROVE  Handled(e, out)
  BY CommitHandles DEF OrchestratorStep, Accepts

\* And so is every commit of a worker (appendLog, Outbox.Append).
LEMMA WorkerHandles ==
  ASSUME TypeOK, NEW e \in bus, NEW status \in OrderStatus, NEW tx \in Nat,
         WorkerStep(e, status, tx)
  PROVE  \E out \in Event :
           /\ Handled(e, out)
           /\ out.type = ResultOf(e.type)
           /\ out.status = status
           /\ out.tx = tx
<1> DEFINE out == NewEvent(e.order, ResultOf(e.type), status, tx, "")
           rows == {<<e.id, Consumer(e.type), d>> : d \in Directions \ {"OUT"}}
<1>1. e \in Event /\ e.id \in EventId /\ e.order \in Orders /\ nextId[e.order] \in Nat
  BY DEF TypeOK, Event
<1>2. e.type \in Commands
  BY DEF WorkerStep
<1>3. /\ ResultOf(e.type) \in Results
      /\ Consumer(e.type) \in Components \ {"orchestrator"}
      /\ Consumer(ResultOf(e.type)) = "orchestrator"
  BY <1>2, ResultFacts
<1>4. ResultOf(e.type) \in EventType /\ "" \in Notes
  BY <1>3 DEF EventType, Notes
<1>5. /\ out \in Event /\ out.id \in EventId
      /\ out.id = <<e.order, nextId[e.order]>>
      /\ out.order = e.order /\ out.type = ResultOf(e.type)
      /\ out.status = status /\ out.tx = tx
  BY <1>1, <1>4 DEF NewEvent, Event, EventId
<1>6. /\ outbox' = outbox \cup {out}
      /\ bus' = bus
      /\ nextId' = [nextId EXCEPT ![e.order] = @ + 1]
      /\ journal' = journal \cup rows \cup {<<out.id, Consumer(e.type), "OUT">>}
  BY DEF WorkerStep, Answer
<1> HIDE DEF out
<1>7. "IN" \in Directions \ {"OUT"} /\ "OUT" \in Directions
  BY DEF Directions
<1>8. <<e.id, Consumer(e.type), "IN">> \in journal'
  BY <1>6, <1>7
<1>9. ASSUME NEW r \in journal', r \notin journal
      PROVE  /\ r \in EventId \X Components \X Directions
             /\ r[1] \in {e.id, out.id}
             /\ r[2] = Consumer(e.type)
  <2>1. CASE r \in rows
    BY <1>1, <1>3, <2>1
  <2>2. CASE r = <<out.id, Consumer(e.type), "OUT">>
    BY <1>3, <1>5, <1>7, <2>2
  <2> QED BY <1>6, <1>9, <2>1, <2>2
<1>10. journal \subseteq journal'
  BY <1>6
<1> HIDE DEF rows
<1>11. Handled(e, out)
  BY <1>1, <1>2, <1>3, <1>5, <1>6, <1>8, <1>9, <1>10 DEF Handled
<1> QED BY <1>5, <1>11

\* The ways Next can move, with the handlers folded into the two shapes.
LEMMA MoveCases ==
  ASSUME TypeOK, CommandsAreValid, [Next]_vars
  PROVE  \/ \E o \in Orders : CreateOrder(o)
         \/ \E e \in outbox : Relay(e)
         \/ \E e \in bus, s \in SagaRow, out \in Event :
              OrchestratorStep(e, s, out) /\ Moves(e, s, out)
         \/ \E e \in bus, status \in OrderStatus, tx \in Nat :
              WorkerStep(e, status, tx) /\ Exchanges(e, status, tx)
         \/ \E e \in bus : CrashAfterGateway(e)
         \/ \E e \in bus : DeadLetter(e)
         \/ UNCHANGED vars
  BY OrchestratorSteps, WorkerSteps DEF Next, OutboxRelay

\* The same without what the invariant does not need to know.
LEMMA StepCases ==
  ASSUME TypeOK, CommandsAreValid, [Next]_vars
  PROVE  \/ \E o \in Orders : CreateOrder(o)
         \/ \E e \in outbox : Relay(e)
         \/ \E e \in bus, s \in SagaRow, out \in Event : OrchestratorStep(e, s, out)
         \/ \E e \in bus, status \in OrderStatus, tx \in Nat : WorkerStep(e, status, tx)
         \/ \E e \in bus : CrashAfterGateway(e)
         \/ \E e \in bus : DeadLetter(e)
         \/ UNCHANGED vars
  BY MoveCases

\* Known events are events.
LEMMA KnownTyped ==
  ASSUME TypeOK, NEW e \in Known
  PROVE  /\ e \in Event /\ e.order \in Orders /\ e.type \in EventType
         /\ e.id[1] \in Orders /\ e.id[2] \in Nat
         /\ e.id = <<e.id[1], e.id[2]>>
         /\ nextId[e.order] \in Nat
<1>1. e \in Event
  BY DEF TypeOK, Known
<1>2. e.id \in Orders \X Nat /\ e.order \in Orders /\ e.type \in EventType
  BY <1>1 DEF Event, EventId
<1>3. nextId[e.order] \in Nat
  BY <1>2 DEF TypeOK
<1> QED BY <1>1, <1>2, <1>3

\* A handler's transaction and a creation hand out ids in order.
LEMMA IdsKept ==
  ASSUME TypeOK, IdsWereIssued, IdsAreUnique,
         \/ \E e, out \in Event : Handled(e, out)
         \/ \E o \in Orders : CreateOrder(o)
  PROVE  IdsWereIssued' /\ IdsAreUnique'
<1>1. \A e \in Known : /\ e \in Event /\ e.order \in Orders
                       /\ e.id = <<e.id[1], e.id[2]>> /\ e.id[2] \in Nat
  BY KnownTyped
<1>2. \A o \in Orders : nextId[o] \in Nat
  BY DEF TypeOK
<1>3. ASSUME NEW o \in Orders, NEW out,
             out.id = <<o, nextId[o]>>, out.order = o,
             Known' = Known \cup {out},
             nextId' = [nextId EXCEPT ![o] = @ + 1],
             \A r \in journal' : \/ r \in journal
                                 \/ r[1] = out.id
                                 \/ \E e \in Known : r[1] = e.id
      PROVE  IdsWereIssued' /\ IdsAreUnique'
  <2>1. /\ nextId'[o] = nextId[o] + 1
        /\ \A p \in Orders : nextId'[p] >= nextId[p] /\ nextId'[p] \in Nat
    <3>1. nextId \in [Orders -> Nat]
      BY DEF TypeOK
    <3>2. nextId'[o] = nextId[o] + 1
      BY <1>3, <3>1
    <3>3. \A p \in Orders \ {o} : nextId'[p] = nextId[p]
      BY <1>3, <3>1
    <3>4. ASSUME NEW p \in Orders
          PROVE  nextId'[p] >= nextId[p] /\ nextId'[p] \in Nat
      <4>1. nextId[p] \in Nat /\ (nextId'[p] = nextId[p] \/ nextId'[p] = nextId[p] + 1)
        BY <1>2, <3>2, <3>3
      <4> QED BY <4>1
    <3> QED BY <3>2, <3>4
  <2>2. \A e \in Known : e.id[1] = e.order /\ e.id[2] < nextId[e.order]
    BY DEF IdsWereIssued
  <2>3. \A e \in Known : e.id[2] < nextId'[e.order]
    BY <1>1, <1>2, <2>1, <2>2
  <2>4. out.id[1] = out.order /\ out.id[2] < nextId'[out.order]
    BY <1>2, <1>3, <2>1
  <2>5. \A e \in Known' : e.id[1] = e.order /\ e.id[2] < nextId'[e.order]
    BY <1>3, <2>2, <2>3, <2>4
  <2>6. ASSUME NEW r \in journal'
        PROVE  r[1][2] < nextId'[r[1][1]]
    <3>1. CASE r \in journal
      <4>1. r[1][1] \in Orders /\ r[1][2] \in Nat
        BY <3>1 DEF TypeOK, EventId
      <4>2. r[1][2] < nextId[r[1][1]]
        BY <3>1 DEF IdsWereIssued
      <4> QED BY <1>2, <2>1, <4>1, <4>2
    <3>2. CASE r[1] = out.id
      BY <1>3, <2>4, <3>2
    <3>3. CASE \E e \in Known : r[1] = e.id
      BY <2>2, <2>3, <3>3
    <3> QED BY <1>3, <2>6, <3>1, <3>2, <3>3
  <2>7. IdsWereIssued'
    BY <2>5, <2>6 DEF IdsWereIssued
  <2>8. \A e \in Known : e.id # out.id
    BY <1>1, <1>2, <1>3, <2>2
  <2>9. IdsAreUnique'
    BY <1>3, <2>8 DEF IdsAreUnique
  <2> QED BY <2>7, <2>9
<1>4. ASSUME NEW e \in Event, NEW out \in Event, Handled(e, out)
      PROVE  IdsWereIssued' /\ IdsAreUnique'
  <2>1. e \in Known /\ Known' = Known \cup {out}
    BY <1>4 DEF Handled, Known
  <2>2. \A r \in journal' : \/ r \in journal
                            \/ r[1] = out.id
                            \/ \E f \in Known : r[1] = f.id
    BY <1>4, <2>1 DEF Handled
  <2>3. /\ e.order \in Orders
        /\ out.id = <<e.order, nextId[e.order]>> /\ out.order = e.order
        /\ nextId' = [nextId EXCEPT ![e.order] = @ + 1]
    BY <1>4 DEF Handled, Event
  <2> QED BY <1>3, <2>1, <2>2, <2>3
<1>5. ASSUME NEW o \in Orders, CreateOrder(o)
      PROVE  IdsWereIssued' /\ IdsAreUnique'
  <2> DEFINE out == NewEvent(o, "ORDER_CREATED", "PENDING", 0, "")
  <2>1. out.id = <<o, nextId[o]>> /\ out.order = o
    BY DEF NewEvent
  <2>2. /\ Known' = Known \cup {out}
        /\ nextId' = [nextId EXCEPT ![o] = @ + 1]
        /\ journal' = journal
    BY <1>5 DEF CreateOrder, Known
  <2> HIDE DEF out
  <2> QED BY <1>3, <2>1, <2>2
<1> QED BY <1>4, <1>5

\* How a handler's transaction changes what is in flight: e leaves, and out
\* enters if it is a command or a result; other orders see nothing of it.
LEMMA InFlightAfterHandling ==
  ASSUME TypeOK, IdsWereIssued, IdsAreUnique,
         NEW e, NEW out, Handled(e, out)
  PROVE  /\ \A o \in Orders \ {e.order} : InFlight(o)' = InFlight(o)
         /\ InFlight(e.order)' =
              (InFlight(e.order) \ {e})
                \cup {f \in {out} : f.type \in Commands \cup Results}
<1>1. /\ e \in Known /\ e \in Event /\ e.order \in Orders
      /\ out.id = <<e.order, nextId[e.order]>> /\ out.order = e.order
      /\ Known' = Known \cup {out}
      /\ Consumer(out.type) # Consumer(e.type)
  BY DEF Handled, Known, Event
<1>2. /\ \A f \in Known : f.id[2] < nextId[f.order] /\ f.id[1] = f.order
                          /\ f.id[2] \in Nat
      /\ \A r \in journal : r[1][2] < nextId[r[1][1]]
      /\ nextId[e.order] \in Nat
      /\ ~ (nextId[e.order] < nextId[e.order])
  BY <1>1, KnownTyped DEF IdsWereIssued
<1>3. \A f \in Known : f.id # out.id
  BY <1>1, <1>2
<1>4. \A r \in journal : r[1] # out.id
  BY <1>1, <1>2
<1>5. /\ journal \subseteq journal'
      /\ <<e.id, Consumer(e.type), "IN">> \in journal'
      /\ \A r \in journal' : \/ r \in journal
                             \/ /\ r[1] \in {e.id, out.id}
                                /\ r[2] = Consumer(e.type)
  BY DEF Handled
<1>6. "IN" \in Directions
  BY DEF Directions
<1>7. ASSUME NEW f \in Known
      PROVE  Processed(f)' <=> Processed(f) \/ f = e
  <2>1. ASSUME Processed(f) PROVE Processed(f)'
    BY <1>5, <2>1 DEF Processed, AlreadyProcessed
  <2>2. ASSUME f = e PROVE Processed(f)'
    BY <1>5, <1>6, <2>2 DEF Processed, AlreadyProcessed
  <2>3. ASSUME Processed(f)', f # e PROVE Processed(f)
    <3>1. PICK d \in Directions : <<f.id, Consumer(f.type), d>> \in journal'
      BY <2>3 DEF Processed, AlreadyProcessed
    <3>2. f.id # e.id
      BY <1>1, <2>3 DEF IdsAreUnique
    <3>3. f.id # out.id
      BY <1>3
    <3>4. <<f.id, Consumer(f.type), d>> \in journal
      BY <1>5, <3>1, <3>2, <3>3
    <3> QED BY <3>4 DEF Processed, AlreadyProcessed
  <2> QED BY <2>1, <2>2, <2>3
<1>8. ~ Processed(out)'
  <2>1. SUFFICES ASSUME NEW d \in Directions,
                        <<out.id, Consumer(out.type), d>> \in journal'
                 PROVE  FALSE
    BY DEF Processed, AlreadyProcessed
  <2>2. <<out.id, Consumer(out.type), d>> \notin journal
    BY <1>4
  <2> QED BY <1>1, <1>5, <2>1, <2>2
<1>9. ASSUME NEW o \in Orders
      PROVE  InFlight(o)' = {f \in Known' : /\ f.order = o
                                            /\ f.type \in Commands \cup Results
                                            /\ ~ Processed(f)'}
  BY DEF InFlight, Known
<1>10. ASSUME NEW o \in Orders
       PROVE  InFlight(o) = {f \in Known : /\ f.order = o
                                           /\ f.type \in Commands \cup Results
                                           /\ ~ Processed(f)}
  BY DEF InFlight, Known
<1>11. ASSUME NEW o \in Orders, o # e.order
       PROVE  InFlight(o)' = InFlight(o)
  <2>1. \A f \in Known' : f.order = o => f \in Known /\ f # e
    BY <1>1, <1>11
  <2>2. \A f : f \in InFlight(o)' <=> f \in InFlight(o)
    BY <1>1, <1>7, <1>9, <1>10, <2>1
  <2> QED BY <2>2
<1>12. InFlight(e.order)' =
         (InFlight(e.order) \ {e})
           \cup {f \in {out} : f.type \in Commands \cup Results}
  BY <1>1, <1>3, <1>7, <1>8, <1>9, <1>10
<1> QED BY <1>11, <1>12
-----------------------------------------------------------------------------
(* Each part of SagaInv is preserved.                                      *)

\* An orchestrator step writes one row, that of an order not yet finished.
LEMMA OrchestratorRows ==
  ASSUME TypeOK, NEW e \in bus, NEW s \in SagaRow, NEW out \in Event,
         OrchestratorStep(e, s, out)
  PROVE  /\ e.order \in Orders
         /\ sagas' = [sagas EXCEPT ![e.order] = s]
         /\ sagas'[e.order] = s
         /\ \A o \in Orders \ {e.order} : sagas'[o] = sagas[o]
         /\ sagas[e.order].current \notin Terminal
         /\ s # NoSaga
         /\ UNCHANGED <<bus, dlq, effects, crashes>>
         /\ outbox' = outbox \cup {out}
<1>1. e.order \in Orders /\ sagas \in [Orders -> SagaRow]
  BY DEF TypeOK, Event, SagaRow
<1>2. sagas' = [sagas EXCEPT ![e.order] = s] /\ UNCHANGED <<bus, dlq, effects, crashes>>
      /\ outbox' = outbox \cup {out}
  BY DEF OrchestratorStep, Commits, Commit
<1>3. sagas[e.order].current \notin Terminal
  <2>1. CASE sagas[e.order] = NoSaga
    <3>1. NoSaga.current = ""
      BY DEF NoSaga
    <3> QED BY <2>1, <3>1 DEF Terminal
  <2>2. CASE Accepts(e)
    BY <2>2, AcceptsFits DEF Terminal
  <2> QED BY <2>1, <2>2 DEF OrchestratorStep, Commits
<1>4. s # NoSaga
  <2>1. s.current \in SagaStatus
    BY DEF OrchestratorStep, Commits
  <2>2. NoSaga.current = "" /\ "" \notin SagaStatus
    BY DEF NoSaga, SagaStatus
  <2> QED BY <2>1, <2>2
<1> QED BY <1>1, <1>2, <1>3, <1>4

\* A worker's transaction adds its result and touches no saga row.
LEMMA WorkerRows ==
  ASSUME TypeOK, NEW e \in bus, NEW status \in OrderStatus, NEW tx \in Nat,
         WorkerStep(e, status, tx)
  PROVE  \E out \in Event :
           /\ Handled(e, out)
           /\ out.type = ResultOf(e.type)
           /\ out.type \in Results
           /\ out.status = status
           /\ out.tx = tx
           /\ UNCHANGED <<sagas, bus, dlq, crashes>>
           /\ outbox' = outbox \cup {out}
<1>1. PICK out \in Event :
        /\ Handled(e, out) /\ out.type = ResultOf(e.type) /\ out.status = status
        /\ out.tx = tx
  BY WorkerHandles
<1>2. UNCHANGED <<sagas, bus, dlq, crashes>>
  BY DEF WorkerStep, Answer
<1>3. ResultOf(e.type) \in Results
  BY ResultFacts DEF WorkerStep
<1>4. outbox' = outbox \cup {out}
  BY <1>1 DEF Handled
<1> QED BY <1>1, <1>2, <1>3, <1>4

\* Typing survives a handler's transaction.
LEMMA HandledTyped ==
  ASSUME TypeOK, NEW e \in Event, NEW out \in Event, Handled(e, out)
  PROVE  /\ journal' \subseteq EventId \X Components \X Directions
         /\ outbox' \subseteq Event /\ bus' \subseteq Event
         /\ nextId' \in [Orders -> Nat]
<1>1. nextId \in [Orders -> Nat] /\ e.order \in Orders
  BY DEF TypeOK, Event
<1>2. nextId' = [nextId EXCEPT ![e.order] = @ + 1]
  BY DEF Handled
<1>3. nextId' \in [Orders -> Nat]
  BY <1>1, <1>2
<1>4. journal' \subseteq EventId \X Components \X Directions
  BY DEF TypeOK, Handled
<1> QED BY <1>3, <1>4 DEF TypeOK, Handled

\* A created event is an event.
LEMMA CreationTyped ==
  ASSUME TypeOK, NEW o \in Orders
  PROVE  NewEvent(o, "ORDER_CREATED", "PENDING", 0, "") \in Event
<1>1. nextId[o] \in Nat
  BY DEF TypeOK
<1>2. "ORDER_CREATED" \in EventType /\ "PENDING" \in OrderStatus /\ "" \in Notes
  BY DEF EventType, OrderStatus, SagaStatus, Notes
<1> QED BY <1>1, <1>2 DEF NewEvent, Event, EventId

\* Every step keeps the types; RetryCount stays within the limit because retry
\* compares before it sends.
LEMMA TypeKept ==
  ASSUME TypeOK, CommandsAreValid, [Next]_vars
  PROVE  TypeOK'
<1>1. CASE \E o \in Orders : CreateOrder(o)
  <2>1. PICK o \in Orders : CreateOrder(o)
    BY <1>1
  <2>2. /\ nextId \in [Orders -> Nat]
        /\ nextId' = [nextId EXCEPT ![o] = @ + 1]
    BY <2>1 DEF TypeOK, CreateOrder
  <2>3. nextId' \in [Orders -> Nat]
    BY <2>2
  <2>4. bus' \subseteq Event /\ dlq' \subseteq bus'
    BY <2>1, CreationTyped DEF CreateOrder, TypeOK
  <2> QED BY <2>1, <2>3, <2>4 DEF CreateOrder, TypeOK
<1>2. CASE \E e \in outbox : Relay(e)
  BY <1>2 DEF Relay, TypeOK
<1>3. CASE \E e \in bus, s \in SagaRow, out \in Event : OrchestratorStep(e, s, out)
  <2>1. PICK e \in bus, s \in SagaRow, out \in Event : OrchestratorStep(e, s, out)
    BY <1>3
  <2>2. e \in Event /\ Handled(e, out)
    BY <2>1, OrchestratorHandles DEF Handled
  <2>3. /\ sagas' = [sagas EXCEPT ![e.order] = s]
        /\ UNCHANGED <<bus, dlq, effects, crashes>>
    BY <2>1, OrchestratorRows
  <2>4. sagas' \in [Orders -> SagaRow]
    BY <2>2, <2>3 DEF SagaRow, TypeOK
  <2>5. /\ journal' \subseteq EventId \X Components \X Directions
        /\ outbox' \subseteq Event /\ bus' \subseteq Event
        /\ nextId' \in [Orders -> Nat]
    BY <2>2, HandledTyped
  <2> QED BY <2>3, <2>4, <2>5 DEF TypeOK, SagaRow
<1>4. CASE \E e \in bus, status \in OrderStatus, tx \in Nat : WorkerStep(e, status, tx)
  <2>1. PICK e \in bus, status \in OrderStatus, tx \in Nat : WorkerStep(e, status, tx)
    BY <1>4
  <2>2. PICK out \in Event : Handled(e, out) /\ UNCHANGED <<sagas, bus, dlq, crashes>>
    BY <2>1, WorkerRows
  <2>3. e \in Event /\ effects' \in [Orders -> [EffectKinds -> Nat]]
    BY <2>1, <2>2 DEF WorkerStep, Handled
  <2>4. /\ journal' \subseteq EventId \X Components \X Directions
        /\ outbox' \subseteq Event /\ bus' \subseteq Event
        /\ nextId' \in [Orders -> Nat]
    BY <2>2, <2>3, HandledTyped
  <2> QED BY <2>2, <2>3, <2>4 DEF TypeOK
<1>5. CASE \E e \in bus : CrashAfterGateway(e)
  <2>1. PICK e \in bus : CrashAfterGateway(e)
    BY <1>5
  <2>2. /\ e.order \in Orders /\ EffectOf(e.type) \in EffectKinds
        /\ effects \in [Orders -> [EffectKinds -> Nat]]
    BY DEF TypeOK, Event, EffectOf, EffectKinds
  <2>3. /\ Performed(e.order, EffectOf(e.type))
        /\ crashes < MaxCrashes /\ crashes' = crashes + 1
        /\ UNCHANGED <<sagas, journal, outbox, bus, dlq, nextId>>
    BY <2>1 DEF CrashAfterGateway
  <2>4. effects' \in [Orders -> [EffectKinds -> Nat]]
    BY <2>2, <2>3, PerformedTyped
  <2>5. crashes \in 0..MaxCrashes
    BY DEF TypeOK
  <2>6. crashes' \in 0..MaxCrashes
    BY <2>3, <2>5, BoundsAssumption
  <2> QED BY <2>3, <2>4, <2>6 DEF TypeOK
<1>6. CASE \E e \in bus : DeadLetter(e)
  BY <1>6 DEF DeadLetter, TypeOK
<1>7. CASE UNCHANGED vars
  BY <1>7 DEF vars, TypeOK
<1> QED BY <1>1, <1>2, <1>3, <1>4, <1>5, <1>6, <1>7, StepCases

\* Two sets of known events with the same commands and results, and the same
\* journal, have the same in flight (CreateOrder, the relay, crashes, the DLQ).
LEMMA InFlightUndisturbed ==
  ASSUME journal' = journal, Known \subseteq Known',
         \A f \in Known' \ Known : f.type \notin Commands \cup Results,
         NEW o \in Orders
  PROVE  InFlight(o)' = InFlight(o)
<1>1. \A f : Processed(f)' <=> Processed(f)
  BY DEF Processed, AlreadyProcessed
<1>2. InFlight(o) = {f \in Known : /\ f.order = o
                                   /\ f.type \in Commands \cup Results
                                   /\ ~ Processed(f)}
  BY DEF InFlight, Known
<1>3. InFlight(o)' = {f \in Known' : /\ f.order = o
                                     /\ f.type \in Commands \cup Results
                                     /\ ~ Processed(f)'}
  BY DEF InFlight, Known
<1>4. \A f : f \in InFlight(o)' <=> f \in InFlight(o)
  BY <1>1, <1>2, <1>3
<1> QED BY <1>4

\* What a step that is no handler's transaction does to the events: it adds
\* creations at most.
LEMMA QuietSteps ==
  ASSUME TypeOK,
         \/ \E o \in Orders : CreateOrder(o)
         \/ \E e \in outbox : Relay(e)
         \/ \E e \in bus : CrashAfterGateway(e)
         \/ \E e \in bus : DeadLetter(e)
         \/ UNCHANGED vars
  PROVE  /\ UNCHANGED <<sagas, journal, outbox>>
         /\ Known \subseteq Known'
         /\ \A f \in Known' \ Known : f.type = "ORDER_CREATED"
<1>1. CASE \E o \in Orders : CreateOrder(o)
  <2>1. PICK o \in Orders : CreateOrder(o)
    BY <1>1
  <2> DEFINE created == NewEvent(o, "ORDER_CREATED", "PENDING", 0, "")
  <2>2. created.type = "ORDER_CREATED"
    BY DEF NewEvent
  <2>3. bus' = bus \cup {created} /\ UNCHANGED <<sagas, journal, outbox>>
    BY <2>1 DEF CreateOrder
  <2> HIDE DEF created
  <2> QED BY <2>2, <2>3 DEF Known
<1>2. CASE \E e \in outbox : Relay(e)
  BY <1>2 DEF Relay, Known
<1>3. CASE \E e \in bus : CrashAfterGateway(e)
  BY <1>3 DEF CrashAfterGateway, Known
<1>4. CASE \E e \in bus : DeadLetter(e)
  BY <1>4 DEF DeadLetter, Known
<1>5. CASE UNCHANGED vars
  BY <1>5 DEF vars, Known
<1> QED BY <1>1, <1>2, <1>3, <1>4, <1>5

\* An event delivered to its handler is what the order has in flight.
LEMMA DeliveredIsInFlight ==
  ASSUME TypeOK, OneInFlight, NEW e \in bus, Delivers(e),
         e.type \in Commands \cup Results
  PROVE  /\ Open(e.order)
         /\ InFlight(e.order) = {e}
         /\ Fits(sagas[e.order], e)
<1>1. e \in InFlight(e.order)
  BY DEF InFlight, Delivers, Processed
<1>2. e.order \in Orders
  BY DEF TypeOK, Event
<1>3. /\ Open(e.order)
      /\ \E f \in InFlight(e.order) : /\ InFlight(e.order) = {f}
                                      /\ Fits(sagas[e.order], f)
  BY <1>1, <1>2 DEF OneInFlight
<1> QED BY <1>1, <1>3

\* The result of a command that fits the saga's step fits it, too.
LEMMA ResultFits ==
  ASSUME NEW s \in SagaRow, NEW e, NEW out,
         e.type \in Commands, Fits(s, e),
         out.type = ResultOf(e.type), ValidResultStatus(out.type, out.status)
  PROVE  Fits(s, out)
<1>1. e.type \notin Results
  BY DEF Commands, Results
<1>2. s.current \in SagaStatus \ {"PENDING"} /\ e.type = NextCommand(s.current)
  BY <1>1 DEF Fits
<1>3. /\ ResultOf(NextCommand(s.current)) \in Results
      /\ s.current = ExpectedStatusForResult(ResultOf(NextCommand(s.current)))
  BY <1>2 DEF NextCommand, ResultOf, ExpectedStatusForResult, Commands, Results,
              SagaStatus
<1> QED BY <1>2, <1>3 DEF Fits

\* Every step keeps the saga a token.
LEMMA TokenKept ==
  ASSUME TypeOK, IdsWereIssued, IdsAreUnique, OneInFlight, CommandsAreValid,
         [Next]_vars
  PROVE  OneInFlight'
<1> DEFINE Token(o) == IF Open(o) THEN \E e \in InFlight(o) : /\ InFlight(o) = {e}
                                                              /\ Fits(sagas[o], e)
                                  ELSE InFlight(o) = {}
<1>1. \A o \in Orders : Token(o)
  BY DEF OneInFlight
<1>2. SUFFICES ASSUME NEW o \in Orders PROVE Token(o)'
  BY DEF OneInFlight
<1>3. ASSUME sagas'[o] = sagas[o], InFlight(o)' = InFlight(o) PROVE Token(o)'
  BY <1>1, <1>3 DEF Open, Fits
<1>4. CASE \/ \E p \in Orders : CreateOrder(p)
           \/ \E e \in outbox : Relay(e)
           \/ \E e \in bus : CrashAfterGateway(e)
           \/ \E e \in bus : DeadLetter(e)
           \/ UNCHANGED vars
  <2>1. /\ UNCHANGED <<sagas, journal, outbox>>
        /\ Known \subseteq Known'
        /\ \A f \in Known' \ Known : f.type = "ORDER_CREATED"
    BY <1>4, QuietSteps
  <2>2. "ORDER_CREATED" \notin Commands \cup Results
    BY DEF Commands, Results
  <2>3. InFlight(o)' = InFlight(o)
    BY <2>1, <2>2, InFlightUndisturbed
  <2> QED BY <1>3, <2>1, <2>3
<1>5. ASSUME NEW e \in bus, NEW s \in SagaRow, NEW out \in Event,
             OrchestratorStep(e, s, out)
      PROVE  Token(o)'
  <2>1. Handled(e, out)
    BY <1>5, OrchestratorHandles
  <2>2. /\ e.order \in Orders
        /\ sagas'[e.order] = s
        /\ \A p \in Orders \ {e.order} : sagas'[p] = sagas[p]
        /\ s # NoSaga
    BY <1>5, OrchestratorRows
  <2>3. /\ o # e.order => InFlight(o)' = InFlight(o)
        /\ InFlight(e.order)' =
             (InFlight(e.order) \ {e})
               \cup {f \in {out} : f.type \in Commands \cup Results}
    BY <2>1, InFlightAfterHandling
  <2>4. CASE o # e.order
    BY <1>3, <2>2, <2>3, <2>4
  <2>5. InFlight(e.order) \ {e} = {}
    <3>1. CASE sagas[e.order] = NoSaga
      BY <1>1, <2>2, <3>1 DEF Open
    <3>2. CASE Accepts(e)
      BY <3>2, DeliveredIsInFlight DEF Accepts
    <3> QED BY <1>5, <3>1, <3>2 DEF OrchestratorStep, Commits
  <2>6. CASE o = e.order /\ out.type \in Commands
    <3>1. InFlight(o)' = {out}
      BY <2>3, <2>5, <2>6
    <3>2. s.current \notin Terminal /\ Fits(s, out)
      <4>1. out.type \notin {"ORDER_COMPLETED", "ORDER_FAILED"}
        BY <2>6 DEF Commands
      <4> QED BY <1>5, <4>1 DEF OrchestratorStep, Commits
    <3>3. Open(o)'
      BY <2>2, <2>6, <3>2 DEF Open, NoSaga
    <3>4. Fits(sagas'[o], out)
      BY <2>2, <2>6, <3>2
    <3> QED BY <3>1, <3>3, <3>4 DEF Fits
  <2>7. CASE o = e.order /\ out.type \notin Commands
    <3>1. /\ out.type \in {"ORDER_COMPLETED", "ORDER_FAILED"}
          /\ s.current \in Terminal
      BY <1>5, <2>7 DEF OrchestratorStep, Commits, Terminal
    <3>2. out.type \notin Commands \cup Results
      BY <3>1 DEF Commands, Results
    <3>3. InFlight(o)' = {}
      BY <2>3, <2>5, <2>7, <3>2
    <3>4. ~ Open(o)'
      BY <2>2, <2>7, <3>1 DEF Open
    <3> QED BY <3>3, <3>4
  <2> QED BY <2>4, <2>6, <2>7
<1>6. ASSUME NEW e \in bus, NEW status \in OrderStatus, NEW tx \in Nat,
             WorkerStep(e, status, tx)
      PROVE  Token(o)'
  <2>1. PICK out \in Event :
          /\ Handled(e, out)
          /\ out.type = ResultOf(e.type)
          /\ out.type \in Results
          /\ out.status = status
          /\ UNCHANGED <<sagas, bus, dlq, crashes>>
    BY <1>6, WorkerRows
  <2>2. /\ o # e.order => InFlight(o)' = InFlight(o)
        /\ InFlight(e.order)' =
             (InFlight(e.order) \ {e})
               \cup {f \in {out} : f.type \in Commands \cup Results}
    BY <2>1, InFlightAfterHandling
  <2>3. CASE o # e.order
    BY <1>3, <2>1, <2>2, <2>3
  <2>4. CASE o = e.order
    <3>1. Delivers(e) /\ e.type \in Commands /\ ValidResultStatus(out.type, out.status)
      BY <1>6, <2>1 DEF WorkerStep
    <3>2. Open(o) /\ InFlight(o) = {e} /\ Fits(sagas[o], e)
      BY <2>4, <3>1, DeliveredIsInFlight
    <3>3. InFlight(o)' = {out}
      BY <2>1, <2>2, <2>4, <3>2
    <3>4. sagas[o] \in SagaRow
      BY DEF TypeOK, SagaRow
    <3>5. Fits(sagas[o], out)
      BY <2>1, <3>1, <3>2, <3>4, ResultFits
    <3>6. Open(o)' /\ sagas'[o] = sagas[o]
      BY <2>1, <3>2 DEF Open
    <3> QED BY <3>3, <3>5, <3>6 DEF Fits
  <2> QED BY <2>3, <2>4
<1> QED BY <1>4, <1>5, <1>6, StepCases

\* What a handler's transaction sends, whoever the handler is, belongs to an
\* order that has a saga, and is a command its worker accepts or no command.
LEMMA SagasKept ==
  ASSUME TypeOK, EventsHaveSagas, CommandsAreValid, OneInFlight, [Next]_vars
  PROVE  /\ EventsHaveSagas'
         /\ CommandsAreValid'
         /\ \A o \in Orders : sagas[o] # NoSaga => sagas'[o] # NoSaga
<1>1. \A f \in Known : f.order \in Orders
  BY KnownTyped
<1>2. CASE \/ \E o \in Orders : CreateOrder(o)
           \/ \E e \in outbox : Relay(e)
           \/ \E e \in bus : CrashAfterGateway(e)
           \/ \E e \in bus : DeadLetter(e)
           \/ UNCHANGED vars
  <2>1. /\ UNCHANGED <<sagas, journal, outbox>>
        /\ Known \subseteq Known'
        /\ \A f \in Known' \ Known : f.type = "ORDER_CREATED"
    BY <1>2, QuietSteps
  <2>2. "ORDER_CREATED" \notin Commands
    BY DEF Commands
  <2>3. EventsHaveSagas'
    BY <2>1 DEF EventsHaveSagas
  <2>4. CommandsAreValid'
    BY <2>1, <2>2 DEF CommandsAreValid
  <2> QED BY <2>1, <2>3, <2>4
<1>3. ASSUME NEW e \in bus, NEW s \in SagaRow, NEW out \in Event,
             OrchestratorStep(e, s, out)
      PROVE  /\ EventsHaveSagas'
             /\ CommandsAreValid'
             /\ \A o \in Orders : sagas[o] # NoSaga => sagas'[o] # NoSaga
  <2>1. /\ sagas'[e.order] = s
        /\ \A o \in Orders \ {e.order} : sagas'[o] = sagas[o]
        /\ s # NoSaga
        /\ UNCHANGED bus /\ outbox' = outbox \cup {out}
    BY <1>3, OrchestratorRows
  <2>2. out.order = e.order /\ Known' = Known \cup {out}
    BY <1>3, <2>1 DEF OrchestratorStep, Commits, Known
  <2>3. \A o \in Orders : sagas[o] # NoSaga => sagas'[o] # NoSaga
    BY <2>1
  <2>4. EventsHaveSagas'
    BY <1>1, <2>1, <2>2, <2>3 DEF EventsHaveSagas
  <2>5. out.type \in Commands => /\ out.status = CommandStatus(out.type)
                                 /\ out.type = "PAYMENT_COMPENSATE" => out.tx # 0
    <3>1. SUFFICES ASSUME out.type \in Commands
                   PROVE  /\ out.status = CommandStatus(out.type)
                          /\ out.type = "PAYMENT_COMPENSATE" => out.tx # 0
      OBVIOUS
    <3>2. /\ out.type \notin {"ORDER_COMPLETED", "ORDER_FAILED"}
          /\ out.type \notin Results
      BY <3>1 DEF Commands, Results
    <3>3. Fits(s, out) /\ (out.type = "PAYMENT_COMPENSATE" => out.tx # 0)
      BY <1>3, <3>2 DEF OrchestratorStep, Commits
    <3> QED BY <3>2, <3>3 DEF Fits
  <2>6. s.current = "PAYMENT_REFUND_PENDING" => s.tx # 0
    BY <1>3 DEF OrchestratorStep, Commits
  <2>7. CommandsAreValid'
    BY <2>1, <2>2, <2>5, <2>6 DEF CommandsAreValid
  <2> QED BY <2>3, <2>4, <2>7
<1>4. ASSUME NEW e \in bus, NEW status \in OrderStatus, NEW tx \in Nat,
             WorkerStep(e, status, tx)
      PROVE  /\ EventsHaveSagas'
             /\ CommandsAreValid'
             /\ \A o \in Orders : sagas[o] # NoSaga => sagas'[o] # NoSaga
  <2>1. PICK out \in Event :
          /\ Handled(e, out)
          /\ out.type \in Results
          /\ UNCHANGED <<sagas, bus, dlq, crashes>>
          /\ outbox' = outbox \cup {out}
    BY <1>4, WorkerRows
  <2>2. out.order = e.order /\ Known' = Known \cup {out}
    BY <2>1 DEF Handled, Known
  <2>3. Open(e.order)
    BY <1>4, DeliveredIsInFlight DEF WorkerStep
  <2>4. EventsHaveSagas'
    BY <2>1, <2>2, <2>3 DEF EventsHaveSagas, Open
  <2>5. out.type \notin Commands
    BY <2>1 DEF Commands, Results
  <2>6. CommandsAreValid'
    BY <2>1, <2>2, <2>5 DEF CommandsAreValid
  <2> QED BY <2>1, <2>4, <2>6
<1> QED BY <1>2, <1>3, <1>4, StepCases

\* State and announcement stay in step (fail, complete).
LEMMA OutcomeKept ==
  ASSUME TypeOK, CommandsAreValid, OneOutcomePerOrder, [Next]_vars
  PROVE  OneOutcomePerOrder'
<1> DEFINE Told(o) ==
             /\ sagas[o].current = "COMPLETED" =>
                  \E e \in Announced(o) : /\ Announced(o) = {e}
                                          /\ e.type = "ORDER_COMPLETED"
             /\ sagas[o].current = "FAILED" =>
                  \E e \in Announced(o) : /\ Announced(o) = {e}
                                          /\ e.type = "ORDER_FAILED"
             /\ sagas[o].current \notin Terminal => Announced(o) = {}
<1>1. \A o \in Orders : Told(o)
  BY DEF OneOutcomePerOrder, Terminal
<1>2. SUFFICES ASSUME NEW o \in Orders PROVE Told(o)'
  BY DEF OneOutcomePerOrder, Terminal
<1>3. ASSUME sagas'[o] = sagas[o], Announced(o)' = Announced(o) PROVE Told(o)'
  BY <1>1, <1>3
<1>4. CASE \/ \E p \in Orders : CreateOrder(p)
           \/ \E e \in outbox : Relay(e)
           \/ \E e \in bus : CrashAfterGateway(e)
           \/ \E e \in bus : DeadLetter(e)
           \/ UNCHANGED vars
  <2>1. UNCHANGED <<sagas, outbox>>
    BY <1>4, QuietSteps
  <2>2. Announced(o)' = Announced(o)
    BY <2>1 DEF Announced
  <2> QED BY <1>3, <2>1, <2>2
<1>5. ASSUME NEW e \in bus, NEW s \in SagaRow, NEW out \in Event,
             OrchestratorStep(e, s, out)
      PROVE  Told(o)'
  <2>1. /\ sagas'[e.order] = s
        /\ \A p \in Orders \ {e.order} : sagas'[p] = sagas[p]
        /\ sagas[e.order].current \notin Terminal
        /\ outbox' = outbox \cup {out}
    BY <1>5, OrchestratorRows
  <2>2. out.order = e.order
    BY <1>5 DEF OrchestratorStep, Commits
  <2>3. Announced(o)' = Announced(o)
          \cup {f \in {out} : f.order = o /\ f.type \in Announcements}
    BY <2>1 DEF Announced
  <2>4. CASE o # e.order
    BY <1>3, <2>1, <2>2, <2>3, <2>4
  <2>5. CASE o = e.order
    <3>1. Announced(o) = {}
      BY <1>1, <2>1, <2>5
    <3>2. CASE out.type \in Commands /\ s.current \notin Terminal
      <4>1. out.type \notin Announcements
        BY <3>2 DEF Commands, Announcements
      <4>2. Announced(o)' = {}
        BY <2>3, <3>1, <4>1
      <4> QED BY <2>1, <2>5, <3>2, <4>2 DEF Terminal
    <3>3. CASE out.type = "ORDER_COMPLETED" /\ s.current = "COMPLETED"
      <4>1. Announced(o)' = {out}
        BY <2>2, <2>3, <2>5, <3>1, <3>3 DEF Announcements
      <4> QED BY <2>1, <2>5, <3>3, <4>1 DEF Terminal
    <3>4. CASE out.type = "ORDER_FAILED" /\ s.current = "FAILED"
      <4>1. Announced(o)' = {out}
        BY <2>2, <2>3, <2>5, <3>1, <3>4 DEF Announcements
      <4> QED BY <2>1, <2>5, <3>4, <4>1 DEF Terminal
    <3> QED BY <1>5, <3>2, <3>3, <3>4 DEF OrchestratorStep, Commits
  <2> QED BY <2>4, <2>5
<1>6. ASSUME NEW e \in bus, NEW status \in OrderStatus, NEW tx \in Nat,
             WorkerStep(e, status, tx)
      PROVE  Told(o)'
  <2>1. PICK out \in Event : /\ out.type \in Results
                             /\ UNCHANGED <<sagas, bus, dlq, crashes>>
                             /\ outbox' = outbox \cup {out}
    BY <1>6, WorkerRows
  <2>2. out.type \notin Announcements
    BY <2>1 DEF Results, Announcements
  <2>3. Announced(o)' = Announced(o)
    BY <2>1, <2>2 DEF Announced
  <2> QED BY <1>3, <2>1, <2>3
<1> QED BY <1>4, <1>5, <1>6, StepCases

\* Nothing but a duplicate creation meets a handler's ErrNonRetryable.
LEMMA OnlyCreationsRejected ==
  ASSUME TypeOK, OneInFlight, EventsHaveSagas, CommandsAreValid,
         NEW e \in bus, NonRetryable(e)
  PROVE  e.type = "ORDER_CREATED" /\ sagas[e.order] # NoSaga
<1>1. e \in Known /\ e.order \in Orders
  BY DEF TypeOK, Event, Known
<1>2. "ORDER_CREATED" \notin Results /\ "PAYMENT_COMPENSATE" \in Commands
      /\ Commands \cap Results = {}
  BY DEF Results, Commands
<1>3. CASE e.type = "ORDER_CREATED" /\ sagas[e.order] # NoSaga
  BY <1>3
<1>4. CASE e.type \in Results /\ sagas[e.order] = NoSaga
  BY <1>1, <1>2, <1>4 DEF EventsHaveSagas
<1>5. CASE /\ e.type \in Results
           /\ Delivers(e)
           /\ \/ sagas[e.order].current # ExpectedStatusForResult(e.type)
              \/ ~ ValidResultStatus(e.type, e.status)
  <2>1. Fits(sagas[e.order], e)
    BY <1>5, DeliveredIsInFlight
  <2> QED BY <1>2, <1>5, <2>1 DEF Fits
<1>6. CASE e.type \in Commands /\ e.status # CommandStatus(e.type)
  BY <1>1, <1>6 DEF CommandsAreValid
<1>7. CASE e.type = "PAYMENT_COMPENSATE" /\ e.tx = 0
  BY <1>1, <1>2, <1>7 DEF CommandsAreValid
<1> QED BY <1>3, <1>4, <1>5, <1>6, <1>7 DEF NonRetryable

\* The dead letter topics get duplicate creations only (moveToDLQ).
LEMMA DeadLettersKept ==
  ASSUME TypeOK, OneInFlight, EventsHaveSagas, CommandsAreValid,
         OnlyDuplicateCreationsDeadLettered, [Next]_vars
  PROVE  OnlyDuplicateCreationsDeadLettered'
<1>1. \A o \in Orders : sagas[o] # NoSaga => sagas'[o] # NoSaga
  BY SagasKept
<1>2. \A e \in bus : e.order \in Orders
  BY DEF TypeOK, Event
<1>3. dlq \subseteq bus
  BY DEF TypeOK
<1>4. ASSUME dlq' = dlq PROVE OnlyDuplicateCreationsDeadLettered'
  BY <1>1, <1>2, <1>3, <1>4 DEF OnlyDuplicateCreationsDeadLettered
<1>5. CASE \E e \in bus : DeadLetter(e)
  <2>1. PICK e \in bus : DeadLetter(e)
    BY <1>5
  <2>2. NonRetryable(e) /\ dlq' = dlq \cup {e} /\ sagas' = sagas
    BY <2>1 DEF DeadLetter
  <2>3. e.type = "ORDER_CREATED" /\ sagas[e.order] # NoSaga
    BY <2>2, OnlyCreationsRejected
  <2> QED BY <2>2, <2>3 DEF OnlyDuplicateCreationsDeadLettered
<1>6. CASE \E o \in Orders : CreateOrder(o)
  BY <1>4, <1>6 DEF CreateOrder
<1>7. CASE \E e \in outbox : Relay(e)
  BY <1>4, <1>7 DEF Relay
<1>8. CASE \E e \in bus, s \in SagaRow, out \in Event : OrchestratorStep(e, s, out)
  BY <1>4, <1>8, OrchestratorRows
<1>9. CASE \E e \in bus, status \in OrderStatus, tx \in Nat : WorkerStep(e, status, tx)
  BY <1>4, <1>9, WorkerRows
<1>10. CASE \E e \in bus : CrashAfterGateway(e)
  BY <1>4, <1>10 DEF CrashAfterGateway
<1>11. CASE UNCHANGED vars
  BY <1>4, <1>11 DEF vars
<1> QED BY <1>5, <1>6, <1>7, <1>8, <1>9, <1>10, <1>11, StepCases
-----------------------------------------------------------------------------
(* Theorems of the invariant.                                              *)

\* The initial state satisfies the inductive invariant.
LEMMA InitSagaInv == Init => SagaInv
<1> SUFFICES ASSUME Init PROVE SagaInv
  OBVIOUS
<1> USE DEF Init
<1>1. 0 \in 0..MaxRetries /\ 0 \in 0..MaxCrashes
  BY MaxRetriesAssumption, BoundsAssumption
<1>2. TypeOK
  BY <1>1 DEF TypeOK, NoSaga
<1>3. IdsWereIssued /\ IdsAreUnique /\ EventsHaveSagas
  BY DEF IdsWereIssued, IdsAreUnique, EventsHaveSagas, Known
<1>4. CommandsAreValid
  BY DEF CommandsAreValid, Known, NoSaga
<1>5. OneInFlight
  BY DEF OneInFlight, Open, InFlight
<1>6. OneOutcomePerOrder
  BY DEF OneOutcomePerOrder, Announced, NoSaga
<1>7. OnlyDuplicateCreationsDeadLettered
  BY DEF OnlyDuplicateCreationsDeadLettered
<1> QED BY <1>2, <1>3, <1>4, <1>5, <1>6, <1>7 DEF SagaInv

\* Every step preserves the inductive invariant.
LEMMA SagaInvKept == SagaInv /\ [Next]_vars => SagaInv'
<1> SUFFICES ASSUME SagaInv, [Next]_vars PROVE SagaInv'
  OBVIOUS
<1>1. /\ TypeOK /\ IdsWereIssued /\ IdsAreUnique /\ EventsHaveSagas
      /\ CommandsAreValid /\ OneInFlight /\ OneOutcomePerOrder
      /\ OnlyDuplicateCreationsDeadLettered
  BY DEF SagaInv
<1>2. TypeOK'
  BY <1>1, TypeKept
<1>3. IdsWereIssued' /\ IdsAreUnique'
  <2>1. CASE \/ \E e \in outbox : Relay(e)
             \/ \E e \in bus : CrashAfterGateway(e)
             \/ \E e \in bus : DeadLetter(e)
             \/ UNCHANGED vars
    <3>1. Known' = Known /\ UNCHANGED <<journal, nextId>>
      BY <2>1 DEF Relay, CrashAfterGateway, DeadLetter, vars, Known
    <3> QED BY <1>1, <3>1 DEF IdsWereIssued, IdsAreUnique
  <2>2. CASE \E o \in Orders : CreateOrder(o)
    BY <1>1, <2>2, IdsKept
  <2>3. CASE \E e \in bus, s \in SagaRow, out \in Event : OrchestratorStep(e, s, out)
    <3>1. \E e, out \in Event : Handled(e, out)
      BY <1>1, <2>3, OrchestratorHandles DEF Handled
    <3> QED BY <1>1, <3>1, IdsKept
  <2>4. CASE \E e \in bus, status \in OrderStatus, tx \in Nat : WorkerStep(e, status, tx)
    <3>1. PICK e \in bus, status \in OrderStatus, tx \in Nat : WorkerStep(e, status, tx)
      BY <2>4
    <3>2. PICK out \in Event : Handled(e, out)
      BY <1>1, <3>1, WorkerRows
    <3>3. e \in Event
      BY <3>2 DEF Handled
    <3> QED BY <1>1, <3>2, <3>3, IdsKept
  <2> QED BY <1>1, <2>1, <2>2, <2>3, <2>4, StepCases
<1>4. EventsHaveSagas' /\ CommandsAreValid'
  BY <1>1, SagasKept
<1>5. OneInFlight'
  BY <1>1, TokenKept
<1>6. OneOutcomePerOrder'
  BY <1>1, OutcomeKept
<1>7. OnlyDuplicateCreationsDeadLettered'
  BY <1>1, DeadLettersKept
<1> QED BY <1>2, <1>3, <1>4, <1>5, <1>6, <1>7 DEF SagaInv

\* The saga is a token in every reachable state: SagaInv, with all its parts,
\* is an invariant of the services (OneInFlight and what supports it).
THEOREM SagaInvariant == Spec => []SagaInv
<1>1. Init => SagaInv
  BY InitSagaInv
<1>2. SagaInv /\ [Next]_vars => SagaInv'
  BY SagaInvKept
<1> QED BY <1>1, <1>2, PTL DEF Spec

\* Every variable keeps its type, RetryCount its limit (retry).
COROLLARY TypeCorrect == Spec => []TypeOK
<1>1. SagaInv => TypeOK
  BY DEF SagaInv
<1> QED BY <1>1, SagaInvariant, PTL

\* An open saga has exactly one command or result left to handle and it fits
\* the step, a finished one has none (dispatchNext, alreadyProcessed).
COROLLARY SagaIsAToken == Spec => []OneInFlight
<1>1. SagaInv => OneInFlight
  BY DEF SagaInv
<1> QED BY <1>1, SagaInvariant, PTL

\* State and terminal event agree, and there is one terminal event per finished
\* order (fail, complete).
COROLLARY OutcomeIsUnique == Spec => []OneOutcomePerOrder
<1>1. SagaInv => OneOutcomePerOrder
  BY DEF SagaInv
<1> QED BY <1>1, SagaInvariant, PTL

\* Redelivery, delay and reordering never push a command or a result into a
\* dead letter topic (ErrNonRetryable, moveToDLQ).
COROLLARY DeadLettersAreDuplicateCreations ==
  Spec => []OnlyDuplicateCreationsDeadLettered
<1>1. SagaInv => OnlyDuplicateCreationsDeadLettered
  BY DEF SagaInv
<1> QED BY <1>1, SagaInvariant, PTL

\* Whatever handleResult accepts, the state machine and nextCommand have an
\* entry for (assertTransition, nextCommand).
THEOREM HandlersDoNotStumble == Spec => []NoPoisonMessage
<1>1. NoPoisonMessage
  <2>1. SUFFICES ASSUME NEW e \in bus, NEW current,
                        current = sagas[e.order].current, Accepts(e)
                 PROVE  /\ Advances(e) => /\ CanTransitionTo(current, e.status)
                                          /\ NextCommand(e.status) # ""
                        /\ Compensates(e) =>
                             CanTransitionTo(current, "PAYMENT_REFUND_PENDING")
                        /\ Completes(e) => CanTransitionTo(current, "NOTIFIED")
                        /\ Fails(e) => CanTransitionTo(current, "FAILED")
                        /\ Retries(e) => NextCommand(current) # ""
    BY DEF NoPoisonMessage
  <2>2. /\ e.type \in Results
        /\ current = ExpectedStatusForResult(e.type)
        /\ e.status \in {SuccessStatus(e.type), "RETRYING", "FAILED"}
    BY <2>1 DEF Accepts, ValidResultStatus
  <2>3. current \in {"PAYMENT_PENDING", "PAYMENT_APPROVED",
                     "PAYMENT_REFUND_PENDING", "INVENTORY_RESERVED"}
    BY <2>2 DEF Results, ExpectedStatusForResult
  <2>4. Advances(e) => /\ CanTransitionTo(current, e.status)
                       /\ NextCommand(e.status) # ""
    BY <2>2 DEF Advances, Results, ExpectedStatusForResult, SuccessStatus,
                CanTransitionTo, ValidTransitions, NextCommand
  <2>5. Compensates(e) => CanTransitionTo(current, "PAYMENT_REFUND_PENDING")
    BY <2>1 DEF Compensates, CanTransitionTo, ValidTransitions
  <2>6. Completes(e) => CanTransitionTo(current, "NOTIFIED")
    BY <2>1, <2>2 DEF Completes, Results, ExpectedStatusForResult, SuccessStatus,
                      CanTransitionTo, ValidTransitions
  <2>7. CanTransitionTo(current, "FAILED")
    BY <2>3 DEF CanTransitionTo, ValidTransitions
  <2>8. NextCommand(current) # ""
    BY <2>3 DEF NextCommand
  <2> QED BY <2>4, <2>5, <2>6, <2>7, <2>8
<1> QED BY <1>1, PTL

\* A finished saga's row and its gateways are left alone for good (the journal
\* check, and the workers' answers to commands in flight only).
THEOREM FinishedStaysFinished == Spec => TerminalIsFinal
<1> DEFINE Quiet == \A o \in Orders :
                      sagas[o].current \in Terminal =>
                        sagas'[o] = sagas[o] /\ effects'[o] = effects[o]
<1>1. SagaInv /\ [Next]_vars => Quiet
  <2>1. SUFFICES ASSUME SagaInv, [Next]_vars, NEW o \in Orders,
                        sagas[o].current \in Terminal
                 PROVE  sagas'[o] = sagas[o] /\ effects'[o] = effects[o]
    OBVIOUS
  <2>2. TypeOK /\ CommandsAreValid /\ OneInFlight
    BY <2>1 DEF SagaInv
  <2>3. CASE \/ \E p \in Orders : CreateOrder(p)
             \/ \E e \in outbox : Relay(e)
             \/ \E e \in bus : DeadLetter(e)
             \/ UNCHANGED vars
    BY <2>3 DEF CreateOrder, Relay, DeadLetter, vars
  <2>4. CASE \E e \in bus, s \in SagaRow, out \in Event : OrchestratorStep(e, s, out)
    BY <2>1, <2>2, <2>4, OrchestratorRows
  <2>5. ASSUME NEW e \in bus, Delivers(e), e.type \in Commands PROVE o # e.order
    BY <2>1, <2>2, <2>5, DeliveredIsInFlight DEF Open
  <2>6. CASE \E e \in bus, status \in OrderStatus, tx \in Nat : WorkerStep(e, status, tx)
    <3>1. PICK e \in bus, status \in OrderStatus, tx \in Nat : WorkerStep(e, status, tx)
      BY <2>6
    <3>2. o # e.order
      BY <2>5, <3>1 DEF WorkerStep
    <3>3. sagas' = sagas
      BY <2>2, <3>1, WorkerRows
    <3> QED BY <3>1, <3>2, <3>3 DEF WorkerStep
  <2>7. CASE \E e \in bus : CrashAfterGateway(e)
    <3>1. PICK e \in bus : CrashAfterGateway(e)
      BY <2>7
    <3>2. /\ Delivers(e) /\ e.type \in Commands
          /\ Performed(e.order, EffectOf(e.type))
          /\ sagas' = sagas
      BY <3>1 DEF CrashAfterGateway, Commanded
    <3>3. o # e.order
      BY <2>5, <3>2
    <3>4. effects \in [Orders -> [EffectKinds -> Nat]]
      BY <2>2 DEF TypeOK
    <3>5. effects'[o] = effects[o]
      BY <3>2, <3>3, <3>4 DEF Performed
    <3> QED BY <3>2, <3>5
  <2> QED BY <2>2, <2>3, <2>4, <2>6, <2>7, <2>1, StepCases
<1>2. SagaInv /\ [Next]_vars => [Quiet]_vars
  BY <1>1
<1> QED BY <1>2, SagaInvariant, PTL DEF Spec, TerminalIsFinal
-----------------------------------------------------------------------------
(* Effects and outcomes.                                                  *)

\* The type of the result that reports an effect.
ReportOf(kind) ==
  CASE kind = "charge"      -> "PAYMENT_RESULT"
    [] kind = "refund"      -> "PAYMENT_COMPENSATE_RESULT"
    [] kind = "reservation" -> "INVENTORY_RESULT"
    [] OTHER                -> "NOTIFICATION_RESULT"

\* The statuses from which a saga may still get to the command for an effect.
StepsUntil(kind) ==
  CASE kind = "charge"      -> {"", "PAYMENT_PENDING"}
    [] kind = "refund"      -> {"", "PAYMENT_PENDING", "PAYMENT_APPROVED",
                                "PAYMENT_REFUND_PENDING"}
    [] kind = "reservation" -> {"", "PAYMENT_PENDING", "PAYMENT_APPROVED"}
    [] OTHER                -> {"", "PAYMENT_PENDING", "PAYMENT_APPROVED",
                                "INVENTORY_RESERVED"}

\* e tells the orchestrator that the gateway did it.
Reports(e, kind) == e.type = ReportOf(kind) /\ e.status = SuccessStatus(e.type)

\* The effect may still be performed without being a repetition.
Owed(o, kind) == /\ sagas[o].current \in StepsUntil(kind)
                 /\ \A e \in InFlight(o) : ~ Reports(e, kind)

\* Until an effect is reported only crashes have performed it; afterwards it is
\* not asked for again.
Repetitions(o) ==
  \A kind \in EffectKinds :
    /\ effects[o][kind] <= 1 + crashes
    /\ Owed(o, kind) => effects[o][kind] <= crashes

Charged(o) == sagas[o].tx \in 1..effects[o]["charge"]

\* OutcomeMatchesEffects for every step of the saga and for the results that
\* are about to move it.
Money(o) ==
  /\ sagas[o].current \in {"PAYMENT_APPROVED", "PAYMENT_REFUND_PENDING",
                           "INVENTORY_RESERVED", "COMPLETED"} => Charged(o)
  /\ sagas[o].current \in {"INVENTORY_RESERVED", "COMPLETED"} =>
       effects[o]["reservation"] > 0
  /\ effects[o]["refund"] > 0 =>
       sagas[o].current \in {"PAYMENT_REFUND_PENDING", "FAILED"} /\ Charged(o)
  /\ \A e \in InFlight(o) :
       /\ Reports(e, "charge") => e.tx \in 1..effects[o]["charge"]
       /\ Reports(e, "reservation") => effects[o]["reservation"] > 0
       /\ Reports(e, "refund") => effects[o]["refund"] > 0
  /\ \A e \in Announced(o) :
       e.note = "payment_refunded" => effects[o]["refund"] > 0

EffectsInv == \A o \in Orders : Repetitions(o) /\ Money(o)
-----------------------------------------------------------------------------
(* What the steps do to one order.                                         *)

\* Steps that are no handler's transaction leave the rows, the outbox and what
\* is in flight alone (CreateOrder, the relay, crashes, the DLQ).
LEMMA QuietOrders ==
  ASSUME SagaInv,
         \/ \E o \in Orders : CreateOrder(o)
         \/ \E e \in outbox : Relay(e)
         \/ \E e \in bus : CrashAfterGateway(e)
         \/ \E e \in bus : DeadLetter(e)
         \/ UNCHANGED vars
  PROVE  /\ UNCHANGED <<sagas, outbox>>
         /\ \A o \in Orders : InFlight(o)' = InFlight(o)
<1>1. /\ UNCHANGED <<sagas, journal, outbox>>
      /\ Known \subseteq Known'
      /\ \A f \in Known' \ Known : f.type = "ORDER_CREATED"
  BY QuietSteps DEF SagaInv
<1>2. "ORDER_CREATED" \notin Commands \cup Results
  BY DEF Commands, Results
<1> QED BY <1>1, <1>2, InFlightUndisturbed

\* The orchestrator replaces what is in flight for its order by the event it
\* sends, if that is a command, and leaves other orders alone.
LEMMA OrchestratorOrders ==
  ASSUME SagaInv, NEW e \in bus, NEW s \in SagaRow, NEW out \in Event,
         OrchestratorStep(e, s, out)
  PROVE  /\ e.order \in Orders /\ out.order = e.order
         /\ sagas'[e.order] = s
         /\ outbox' = outbox \cup {out} /\ out \notin outbox
         /\ UNCHANGED <<effects, crashes>>
         /\ InFlight(e.order)' = {f \in {out} : f.type \in Commands}
         /\ out.type \in Commands \cup Announcements
         /\ sagas[e.order] = NoSaga => InFlight(e.order) = {}
         /\ Accepts(e) => /\ InFlight(e.order) = {e} /\ Open(e.order)
                          /\ sagas[e.order].current = ExpectedStatusForResult(e.type)
                          /\ e.type \in Results
         /\ \A o \in Orders \ {e.order} : /\ sagas'[o] = sagas[o]
                                          /\ InFlight(o)' = InFlight(o)
<1>1. TypeOK /\ IdsWereIssued /\ IdsAreUnique /\ OneInFlight
  BY DEF SagaInv
<1>2. Handled(e, out)
  BY <1>1, OrchestratorHandles
<1>3. /\ e.order \in Orders
      /\ sagas'[e.order] = s
      /\ \A o \in Orders \ {e.order} : sagas'[o] = sagas[o]
      /\ UNCHANGED <<effects, crashes>>
      /\ outbox' = outbox \cup {out}
  BY <1>1, OrchestratorRows
<1>4. /\ \A o \in Orders \ {e.order} : InFlight(o)' = InFlight(o)
      /\ InFlight(e.order)' = (InFlight(e.order) \ {e})
                                \cup {f \in {out} : f.type \in Commands \cup Results}
  BY <1>1, <1>2, InFlightAfterHandling
<1>5. /\ out.order = e.order /\ out.id = <<e.order, nextId[e.order]>>
      /\ out.type \in Commands \cup Announcements
  BY DEF OrchestratorStep, Commits, Announcements
<1>6. out \notin outbox
  <2>1. SUFFICES ASSUME out \in Known PROVE FALSE
    BY DEF Known
  <2>2. out.id[2] < nextId[out.order] /\ nextId[out.order] \in Nat
    BY <1>1, <2>1, KnownTyped DEF IdsWereIssued
  <2> QED BY <1>5, <2>2
<1>7. sagas[e.order] = NoSaga => InFlight(e.order) = {}
  BY <1>1, <1>3 DEF OneInFlight, Open
<1>8. Accepts(e) => /\ InFlight(e.order) = {e} /\ Open(e.order)
                    /\ sagas[e.order].current = ExpectedStatusForResult(e.type)
                    /\ e.type \in Results
  BY <1>1, DeliveredIsInFlight DEF Accepts
<1>9. InFlight(e.order) \ {e} = {}
  BY <1>7, <1>8 DEF OrchestratorStep, Commits
<1>10. out.type \notin Results
  BY <1>5 DEF Commands, Announcements, Results
<1>11. InFlight(e.order)' = {f \in {out} : f.type \in Commands}
  BY <1>4, <1>9, <1>10
<1> QED BY <1>3, <1>4, <1>5, <1>6, <1>7, <1>8, <1>11

\* A worker replaces the command in flight by its result.
LEMMA WorkerOrders ==
  ASSUME SagaInv, NEW e \in bus, NEW status \in OrderStatus, NEW tx \in Nat,
         WorkerStep(e, status, tx)
  PROVE  /\ e.order \in Orders /\ e.type \in Commands
         /\ Fits(sagas[e.order], e) /\ InFlight(e.order) = {e}
         /\ UNCHANGED <<sagas, crashes>>
         /\ \E out \in Event : /\ out.type = ResultOf(e.type)
                               /\ out.type \in Results
                               /\ out.status = status /\ out.tx = tx
                               /\ outbox' = outbox \cup {out}
                               /\ InFlight(e.order)' = {out}
         /\ \A o \in Orders \ {e.order} : /\ InFlight(o)' = InFlight(o)
                                          /\ effects'[o] = effects[o]
<1>1. TypeOK /\ IdsWereIssued /\ IdsAreUnique /\ OneInFlight
  BY DEF SagaInv
<1>2. PICK out \in Event :
        /\ Handled(e, out)
        /\ out.type = ResultOf(e.type)
        /\ out.type \in Results
        /\ out.status = status /\ out.tx = tx
        /\ UNCHANGED <<sagas, bus, dlq, crashes>>
        /\ outbox' = outbox \cup {out}
  BY <1>1, WorkerRows
<1>3. e.type \in Commands /\ Delivers(e)
      /\ \A o \in Orders \ {e.order} : effects'[o] = effects[o]
  BY DEF WorkerStep
<1>4. Fits(sagas[e.order], e) /\ InFlight(e.order) = {e}
  BY <1>1, <1>3, DeliveredIsInFlight
<1>5. /\ \A o \in Orders \ {e.order} : InFlight(o)' = InFlight(o)
      /\ InFlight(e.order)' = (InFlight(e.order) \ {e})
                                \cup {f \in {out} : f.type \in Commands \cup Results}
  BY <1>1, <1>2, InFlightAfterHandling
<1>6. InFlight(e.order)' = {out}
  BY <1>2, <1>4, <1>5
<1>7. e.order \in Orders
  BY <1>1 DEF TypeOK, Event
<1> QED BY <1>2, <1>3, <1>4, <1>5, <1>6, <1>7

\* Effects are counted one at a time (the gateways).
LEMMA PerformedCounts ==
  ASSUME TypeOK, NEW o \in Orders, NEW type \in Commands,
         Performed(o, EffectOf(type))
  PROVE  /\ EffectOf(type) \in EffectKinds
         /\ effects'[o][EffectOf(type)] = effects[o][EffectOf(type)] + 1
         /\ \A kind \in EffectKinds \ {EffectOf(type)} :
              effects'[o][kind] = effects[o][kind]
         /\ \A p \in Orders \ {o} : effects'[p] = effects[p]
<1>1. EffectOf(type) \in EffectKinds
  BY DEF EffectOf, EffectKinds
<1>2. effects \in [Orders -> [EffectKinds -> Nat]]
  BY DEF TypeOK
<1> QED BY <1>1, <1>2 DEF Performed

\* Counts are numbers.
LEMMA EffectNumbers ==
  ASSUME TypeOK, NEW o \in Orders, NEW kind \in EffectKinds
  PROVE  effects[o][kind] \in Nat /\ crashes \in Nat
<1>1. effects \in [Orders -> [EffectKinds -> Nat]] /\ crashes \in 0..MaxCrashes
  BY DEF TypeOK
<1>2. effects[o] \in [EffectKinds -> Nat]
  BY <1>1
<1> QED BY <1>1, <1>2, BoundsAssumption

\* A command asks for the effect that its result reports, at a step from which
\* the effect is owed, and is no report itself.
LEMMA CommandsAndReports ==
  ASSUME NEW type \in Commands
  PROVE  /\ EffectOf(type) \in EffectKinds
         /\ ReportOf(EffectOf(type)) = ResultOf(type)
         /\ \A kind \in EffectKinds :
              /\ ReportOf(kind) # type
              /\ ReportOf(kind) = ResultOf(type) => kind = EffectOf(type)
         /\ \A current \in SagaStatus \ {"PENDING"} :
              NextCommand(current) = type => current \in StepsUntil(EffectOf(type))
<1>1. EffectOf(type) \in EffectKinds /\ ReportOf(EffectOf(type)) = ResultOf(type)
  BY DEF Commands, EffectOf, EffectKinds, ReportOf, ResultOf
<1>2. ASSUME NEW kind \in EffectKinds
      PROVE  /\ ReportOf(kind) # type
             /\ ReportOf(kind) = ResultOf(type) => kind = EffectOf(type)
  BY <1>2 DEF Commands, EffectOf, EffectKinds, ReportOf, ResultOf
<1>3. ASSUME NEW current \in SagaStatus \ {"PENDING"}, NextCommand(current) = type
      PROVE  current \in StepsUntil(EffectOf(type))
  <2>1. \/ current = "PAYMENT_PENDING" /\ type = "PAYMENT_COMMAND"
        \/ current = "PAYMENT_APPROVED" /\ type = "INVENTORY_COMMAND"
        \/ current = "PAYMENT_REFUND_PENDING" /\ type = "PAYMENT_COMPENSATE"
        \/ current = "INVENTORY_RESERVED" /\ type = "NOTIFICATION_COMMAND"
    BY <1>3 DEF Commands, NextCommand
  <2> QED BY <2>1 DEF EffectOf, StepsUntil
<1> QED BY <1>1, <1>2, <1>3

\* A command in flight means that its effect is owed.
LEMMA CommandIsOwed ==
  ASSUME NEW e, e.type \in Commands, InFlight(e.order) = {e},
         Fits(sagas[e.order], e)
  PROVE  Owed(e.order, EffectOf(e.type))
<1>1. e.type \notin Results
  BY DEF Commands, Results
<1>2. /\ sagas[e.order].current \in SagaStatus \ {"PENDING"}
      /\ e.type = NextCommand(sagas[e.order].current)
  BY <1>1 DEF Fits
<1> QED BY <1>2, CommandsAndReports DEF Owed, Reports
-----------------------------------------------------------------------------
(* Effects.                                                                *)

\* At first nothing was done and everything is owed.
LEMMA InitEffectsInv == Init => EffectsInv
<1> SUFFICES ASSUME Init, NEW o \in Orders PROVE Repetitions(o) /\ Money(o)
  BY DEF EffectsInv
<1>1. /\ sagas[o].current = "" /\ InFlight(o) = {} /\ Announced(o) = {}
      /\ crashes = 0 /\ \A kind \in EffectKinds : effects[o][kind] = 0
  BY DEF Init, NoSaga, InFlight, Announced
<1>2. Repetitions(o)
  <2>1. 0 <= 1 + 0 /\ 0 <= 0
    OBVIOUS
  <2> QED BY <1>1, <2>1, Zenon DEF Repetitions
<1>3. "refund" \in EffectKinds /\ ~ (0 > 0)
  BY DEF EffectKinds
<1> QED BY <1>1, <1>2, <1>3 DEF Money

\* A step that changes nothing of an order keeps its effects in order.
LEMMA SameEffects ==
  ASSUME TypeOK, NEW o \in Orders, Repetitions(o), Money(o),
         sagas'[o] = sagas[o], effects'[o] = effects[o],
         crashes' \in {crashes, crashes + 1},
         InFlight(o)' = InFlight(o), Announced(o)' = Announced(o)
  PROVE  Repetitions(o)' /\ Money(o)'
<1>1. ASSUME NEW kind \in EffectKinds
      PROVE  /\ effects'[o][kind] <= 1 + crashes'
             /\ Owed(o, kind)' => effects'[o][kind] <= crashes'
  <2>1. effects[o][kind] \in Nat /\ crashes \in Nat
    BY EffectNumbers
  <2>2. /\ effects[o][kind] <= 1 + crashes
        /\ Owed(o, kind) => effects[o][kind] <= crashes
    BY DEF Repetitions
  <2>3. Owed(o, kind)' <=> Owed(o, kind)
    BY DEF Owed, Reports
  <2> QED BY <2>1, <2>2, <2>3
<1>2. Repetitions(o)'
  BY <1>1 DEF Repetitions
<1>3. Charged(o)' <=> Charged(o)
  BY DEF Charged
<1>4. Money(o)'
  BY <1>3 DEF Money, Reports
<1> QED BY <1>2, <1>4

\* An effect performed for the command in flight is the owed one, or is paid
\* for with a crash.
LEMMA PerformedRepetitions ==
  ASSUME SagaInv, NEW e \in bus, e.type \in Commands, e.order \in Orders,
         Repetitions(e.order), InFlight(e.order) = {e},
         Fits(sagas[e.order], e), sagas' = sagas,
         Performed(e.order, EffectOf(e.type)),
         \/ crashes' = crashes + 1 /\ InFlight(e.order)' = InFlight(e.order)
         \/ /\ crashes' = crashes
            /\ \E out : /\ InFlight(e.order)' = {out}
                        /\ Reports(out, EffectOf(e.type))
  PROVE  Repetitions(e.order)'
<1> DEFINE o == e.order
<1>1. TypeOK
  BY DEF SagaInv
<1>2. SUFFICES ASSUME NEW kind \in EffectKinds
               PROVE  /\ effects'[o][kind] <= 1 + crashes'
                      /\ Owed(o, kind)' => effects'[o][kind] <= crashes'
  BY DEF Repetitions
<1>3. effects[o][kind] \in Nat /\ crashes \in Nat
  BY <1>1, EffectNumbers
<1>4. /\ effects[o][kind] <= 1 + crashes
      /\ Owed(o, kind) => effects[o][kind] <= crashes
  BY DEF Repetitions
<1>5. CASE kind = EffectOf(e.type)
  <2>1. effects'[o][kind] = effects[o][kind] + 1
    BY <1>1, <1>5, PerformedCounts
  <2>2. effects[o][kind] <= crashes
    BY <1>4, <1>5, CommandIsOwed
  <2>3. crashes' = crashes + 1 \/ (crashes' = crashes /\ ~ Owed(o, kind)')
    <3>1. ASSUME NEW out, InFlight(o)' = {out}, Reports(out, kind)
          PROVE  ~ Owed(o, kind)'
      BY <3>1 DEF Owed, Reports
    <3> QED BY <1>5, <3>1
  <2> QED BY <1>3, <2>1, <2>2, <2>3
<1>6. CASE kind # EffectOf(e.type)
  <2>1. effects'[o][kind] = effects[o][kind]
    BY <1>1, <1>6, PerformedCounts
  <2>2. ~ Reports(e, kind)
    BY CommandsAndReports DEF Reports
  <2>3. Owed(o, kind)' => Owed(o, kind)
    BY <2>2 DEF Owed
  <2> QED BY <1>3, <1>4, <2>1, <2>3
<1> QED BY <1>5, <1>6

\* Charges, reservations and refunds only grow, a refund is made while the saga
\* compensates, and a report comes with its effect.
LEMMA PerformedMoney ==
  ASSUME SagaInv, NEW e \in bus, e.type \in Commands, e.order \in Orders,
         Money(e.order), InFlight(e.order) = {e},
         Fits(sagas[e.order], e), sagas' = sagas,
         Announced(e.order)' = Announced(e.order),
         Performed(e.order, EffectOf(e.type)),
         \/ InFlight(e.order)' = InFlight(e.order)
         \/ \E out : /\ InFlight(e.order)' = {out}
                     /\ Reports(out, EffectOf(e.type))
                     /\ out.type = ResultOf(e.type)
                     /\ Reports(out, "charge") =>
                          out.tx = effects[e.order]["charge"] + 1
  PROVE  Money(e.order)'
<1> DEFINE o == e.order
<1>1. TypeOK
  BY DEF SagaInv
<1>2. "charge" \in EffectKinds /\ "reservation" \in EffectKinds /\ "refund" \in EffectKinds
  BY DEF EffectKinds
<1>3. /\ effects[o]["charge"] \in Nat /\ effects[o]["reservation"] \in Nat
      /\ effects[o]["refund"] \in Nat
  BY <1>1, <1>2, EffectNumbers
<1>4. /\ effects'[o][EffectOf(e.type)] = effects[o][EffectOf(e.type)] + 1
      /\ \A kind \in EffectKinds \ {EffectOf(e.type)} :
           effects'[o][kind] = effects[o][kind]
  BY <1>1, PerformedCounts
<1>5. \A kind \in {"charge", "reservation", "refund"} :
        effects'[o][kind] \in {effects[o][kind], effects[o][kind] + 1}
  BY <1>2, <1>4
<1>6. Charged(o) => Charged(o)'
  <2>1. effects'[o]["charge"] \in {effects[o]["charge"], effects[o]["charge"] + 1}
    BY <1>5
  <2> QED BY <1>3, <2>1 DEF Charged
<1>7. \A kind \in {"reservation", "refund"} :
        effects[o][kind] > 0 => effects'[o][kind] > 0
  BY <1>3, <1>5
<1>8. ASSUME effects'[o]["refund"] > 0
      PROVE  /\ sagas[o].current \in {"PAYMENT_REFUND_PENDING", "FAILED"}
             /\ Charged(o)
  <2>1. CASE EffectOf(e.type) = "refund"
    <3>1. e.type = "PAYMENT_COMPENSATE" /\ e.type \notin Results
      BY <2>1 DEF EffectOf, Commands, Results
    <3>2. /\ sagas[o].current \in SagaStatus
          /\ NextCommand(sagas[o].current) = "PAYMENT_COMPENSATE"
      BY <3>1 DEF Fits
    <3>3. sagas[o].current = "PAYMENT_REFUND_PENDING"
      BY <3>2 DEF NextCommand, SagaStatus
    <3> QED BY <3>3 DEF Money
  <2>2. CASE EffectOf(e.type) # "refund"
    <3>1. effects'[o]["refund"] = effects[o]["refund"]
      BY <1>2, <1>4, <2>2
    <3> QED BY <1>8, <3>1 DEF Money
  <2> QED BY <2>1, <2>2
<1>9. ASSUME NEW f \in InFlight(o)'
      PROVE  /\ Reports(f, "charge") => f.tx \in 1..effects'[o]["charge"]
             /\ Reports(f, "reservation") => effects'[o]["reservation"] > 0
             /\ Reports(f, "refund") => effects'[o]["refund"] > 0
  <2>1. CASE InFlight(o)' = InFlight(o)
    BY <1>2, <1>9, <2>1, CommandsAndReports DEF Reports
  <2>2. CASE InFlight(o)' # InFlight(o)
    <3>1. /\ f.type = ResultOf(e.type)
          /\ Reports(f, "charge") => f.tx = effects[o]["charge"] + 1
      BY <1>9, <2>2
    <3>2. ASSUME NEW kind \in EffectKinds, Reports(f, kind)
          PROVE  effects'[o][kind] = effects[o][kind] + 1
      <4>1. kind = EffectOf(e.type)
        BY <3>1, <3>2, CommandsAndReports DEF Reports
      <4> QED BY <1>4, <4>1
    <3>3. Reports(f, "charge") => f.tx \in 1..effects'[o]["charge"]
      BY <1>2, <1>3, <3>1, <3>2
    <3>4. /\ Reports(f, "reservation") => effects'[o]["reservation"] > 0
          /\ Reports(f, "refund") => effects'[o]["refund"] > 0
      BY <1>2, <1>3, <3>2
    <3> QED BY <3>3, <3>4
  <2> QED BY <2>1, <2>2
<1>10. \A f : \A kind : Reports(f, kind)' <=> Reports(f, kind)
  BY DEF Reports
<1> QED BY <1>6, <1>7, <1>8, <1>9, <1>10 DEF Money

\* A gateway that declines does nothing to the money.
LEMMA DeclinedEffects ==
  ASSUME SagaInv, NEW e \in bus, e.type \in Commands, e.order \in Orders,
         Repetitions(e.order), Money(e.order), InFlight(e.order) = {e},
         UNCHANGED <<sagas, effects, crashes>>,
         Announced(e.order)' = Announced(e.order),
         NEW out, InFlight(e.order)' = {out},
         out.type \in Results, out.status \in {"RETRYING", "FAILED"}
  PROVE  Repetitions(e.order)' /\ Money(e.order)'
<1> DEFINE o == e.order
<1>1. \A kind \in EffectKinds : ~ Reports(out, kind) /\ ~ Reports(e, kind)
  <2>1. SuccessStatus(out.type) \notin {"RETRYING", "FAILED"}
    BY DEF SuccessStatus, Results
  <2> QED BY <2>1, CommandsAndReports DEF Reports
<1>2. \A kind \in EffectKinds : Owed(o, kind)' => Owed(o, kind)
  BY <1>1 DEF Owed
<1>3. Repetitions(o)'
  BY <1>2 DEF Repetitions
<1>4. Charged(o)' <=> Charged(o)
  BY DEF Charged
<1>5. "charge" \in EffectKinds /\ "reservation" \in EffectKinds /\ "refund" \in EffectKinds
  BY DEF EffectKinds
<1>6. \A f \in InFlight(o)' : /\ ~ Reports(f, "charge")
                              /\ ~ Reports(f, "reservation")
                              /\ ~ Reports(f, "refund")
  BY <1>1, <1>5
<1>7. Money(o)'
  BY <1>4, <1>6 DEF Money, Reports
<1> QED BY <1>3, <1>7


\* The orchestrator changes no effects.  It leaves the step of an effect only
\* when that is reported, and what a report says becomes what the row says.
LEMMA OrchestratorEffects ==
  ASSUME SagaInv, NEW e \in bus, NEW s \in SagaRow, NEW out \in Event,
         OrchestratorStep(e, s, out), Moves(e, s, out),
         Repetitions(e.order), Money(e.order)
  PROVE  Repetitions(e.order)' /\ Money(e.order)'
<1> DEFINE o == e.order
           saga == sagas[o]
<1>1. /\ o \in Orders /\ out.order = o
      /\ sagas'[o] = s
      /\ outbox' = outbox \cup {out}
      /\ UNCHANGED <<effects, crashes>>
      /\ InFlight(o)' = {f \in {out} : f.type \in Commands}
      /\ out.type \in Commands \cup Announcements
      /\ saga = NoSaga => InFlight(o) = {}
      /\ Accepts(e) => /\ InFlight(o) = {e}
                       /\ saga.current = ExpectedStatusForResult(e.type)
                       /\ e.type \in Results
  BY OrchestratorOrders
<1>2. \A kind \in EffectKinds : ReportOf(kind) \in Results
  BY DEF EffectKinds, ReportOf, Results
<1>3. \A f \in InFlight(o)' : \A kind \in EffectKinds : ~ Reports(f, kind)
  <2>1. Commands \cap Results = {}
    BY DEF Commands, Results
  <2> QED BY <1>1, <1>2, <2>1 DEF Reports
<1>4. NoSaga.current = ""
  BY DEF NoSaga
<1>5. \A kind \in EffectKinds : "" \in StepsUntil(kind)
  BY DEF EffectKinds, StepsUntil
<1>6. ASSUME NEW kind \in EffectKinds, Owed(o, kind)' PROVE Owed(o, kind)
  <2>1. s.current \in StepsUntil(kind)
    BY <1>1, <1>6 DEF Owed
  <2>2. CASE saga = NoSaga /\ InFlight(o) = {}
    BY <1>4, <1>5, <2>2 DEF Owed
  <2>3. CASE Accepts(e)
    <3>1. e.type \in Results /\ saga.current = ExpectedStatusForResult(e.type)
      BY <1>1, <2>3
    <3>2. CASE s.current = saga.current /\ e.status = "RETRYING"
      <4>1. ~ Reports(e, kind)
        BY <3>1, <3>2 DEF Reports, SuccessStatus, Results
      <4> QED BY <1>1, <2>1, <2>3, <3>2, <4>1 DEF Owed
    <3>3. CASE e.type = "PAYMENT_RESULT" /\ s.current = "PAYMENT_APPROVED"
      <4>1. saga.current = "PAYMENT_PENDING"
        BY <3>1, <3>3 DEF ExpectedStatusForResult
      <4>2. kind # "charge" /\ saga.current \in StepsUntil(kind)
        BY <2>1, <3>3, <4>1 DEF EffectKinds, StepsUntil
      <4>3. ~ Reports(e, kind)
        BY <3>3, <4>2 DEF Reports, ReportOf, EffectKinds
      <4> QED BY <1>1, <2>3, <4>2, <4>3 DEF Owed
    <3>4. CASE /\ e.type = "INVENTORY_RESULT"
               /\ s.current \in {"INVENTORY_RESERVED", "PAYMENT_REFUND_PENDING"}
      <4>1. saga.current = "PAYMENT_APPROVED"
        BY <3>1, <3>4 DEF ExpectedStatusForResult
      <4>2. kind # "reservation" /\ saga.current \in StepsUntil(kind)
        BY <2>1, <3>4, <4>1 DEF EffectKinds, StepsUntil
      <4>3. ~ Reports(e, kind)
        BY <3>4, <4>2 DEF Reports, ReportOf, EffectKinds
      <4> QED BY <1>1, <2>3, <4>2, <4>3 DEF Owed
    <3>5. s.current \notin {"FAILED", "COMPLETED"}
      BY <2>1 DEF EffectKinds, StepsUntil
    <3>6. e.type # "ORDER_CREATED"
      BY <3>1 DEF Results
    <3> QED BY <3>2, <3>3, <3>4, <3>5, <3>6 DEF Moves
  <2> QED BY <1>1, <2>2, <2>3 DEF OrchestratorStep, Commits
<1>7. Repetitions(o)'
  BY <1>1, <1>6 DEF Repetitions
<1>8. "charge" \in EffectKinds /\ "reservation" \in EffectKinds /\ "refund" \in EffectKinds
  BY DEF EffectKinds
<1>9. ASSUME s.tx = saga.tx, Charged(o) PROVE Charged(o)'
  BY <1>1, <1>9 DEF Charged
<1>10. ASSUME s.current \in {"PAYMENT_APPROVED", "PAYMENT_REFUND_PENDING",
                             "INVENTORY_RESERVED", "COMPLETED"}
       PROVE  Charged(o)'
  <2>1. CASE saga = NoSaga /\ s.current = "PAYMENT_PENDING"
    BY <1>10, <2>1
  <2>2. CASE Accepts(e)
    <3>1. e \in InFlight(o) /\ saga.current = ExpectedStatusForResult(e.type)
      BY <1>1, <2>2
    <3>2. CASE s.current = saga.current /\ s.tx = saga.tx
      BY <1>9, <1>10, <3>2 DEF Money
    <3>3. CASE e.type = "PAYMENT_RESULT" /\ e.status = "PAYMENT_APPROVED" /\ s.tx = e.tx
      <4>1. Reports(e, "charge")
        BY <3>3 DEF Reports, ReportOf, SuccessStatus
      <4> QED BY <1>1, <3>1, <3>3, <4>1 DEF Money, Charged
    <3>4. CASE /\ e.type \in {"INVENTORY_RESULT", "NOTIFICATION_RESULT"}
               /\ s.tx = saga.tx
      <4>1. saga.current \in {"PAYMENT_APPROVED", "INVENTORY_RESERVED"}
        BY <3>1, <3>4 DEF ExpectedStatusForResult
      <4> QED BY <1>9, <3>4, <4>1 DEF Money
    <3>5. CASE s.current = "FAILED"
      BY <1>10, <3>5
    <3>6. e.type # "ORDER_CREATED"
      BY <1>1, <2>2 DEF Results
    <3> QED BY <3>2, <3>3, <3>4, <3>5, <3>6 DEF Moves
  <2> QED BY <2>1, <2>2 DEF Moves
<1>11. ASSUME s.current \in {"INVENTORY_RESERVED", "COMPLETED"}
       PROVE  effects[o]["reservation"] > 0
  <2>1. CASE saga = NoSaga /\ s.current = "PAYMENT_PENDING"
    BY <1>11, <2>1
  <2>2. CASE Accepts(e)
    <3>1. e \in InFlight(o) /\ saga.current = ExpectedStatusForResult(e.type)
      BY <1>1, <2>2
    <3>2. CASE s.current = saga.current
      BY <1>11, <3>2 DEF Money
    <3>3. CASE e.type = "INVENTORY_RESULT" /\ e.status = "INVENTORY_RESERVED"
      <4>1. Reports(e, "reservation")
        BY <3>3 DEF Reports, ReportOf, SuccessStatus
      <4> QED BY <3>1, <4>1 DEF Money
    <3>4. CASE e.type = "NOTIFICATION_RESULT"
      <4>1. saga.current = "INVENTORY_RESERVED"
        BY <3>1, <3>4 DEF ExpectedStatusForResult
      <4> QED BY <4>1 DEF Money
    <3>5. CASE s.current \in {"PAYMENT_APPROVED", "PAYMENT_REFUND_PENDING", "FAILED"}
      BY <1>11, <3>5
    <3>6. e.type # "ORDER_CREATED"
      BY <1>1, <2>2 DEF Results
    <3> QED BY <3>2, <3>3, <3>4, <3>5, <3>6 DEF Moves
  <2> QED BY <2>1, <2>2 DEF Moves
<1>12. ASSUME effects[o]["refund"] > 0
       PROVE  s.current \in {"PAYMENT_REFUND_PENDING", "FAILED"} /\ Charged(o)'
  <2>1. saga.current \in {"PAYMENT_REFUND_PENDING", "FAILED"} /\ Charged(o)
    BY <1>12 DEF Money
  <2>2. Accepts(e)
    BY <1>4, <2>1 DEF Moves
  <2>3. /\ saga.current = "PAYMENT_REFUND_PENDING"
        /\ e.type = "PAYMENT_COMPENSATE_RESULT"
    BY <1>1, <2>1, <2>2 DEF Results, ExpectedStatusForResult
  <2>4. s.tx = saga.tx /\ s.current \in {"PAYMENT_REFUND_PENDING", "FAILED"}
    BY <2>3 DEF Moves
  <2> QED BY <1>9, <2>1, <2>4
<1>13. ASSUME NEW f \in Announced(o)', f.note = "payment_refunded"
       PROVE  effects[o]["refund"] > 0
  <2>1. CASE f \in Announced(o)
    BY <1>13, <2>1 DEF Money
  <2>2. CASE f \notin Announced(o)
    <3>1. f = out /\ out.type \in Announcements
      BY <1>1, <1>13, <2>2 DEF Announced
    <3>2. out.type \notin Commands
      BY <3>1 DEF Announcements, Commands
    <3>3. s.current \in Terminal
      BY <3>2 DEF OrchestratorStep, Commits, Terminal
    <3>4. Accepts(e) /\ out.note = FailureNote(e)
      <4>1. s.current \notin {"PAYMENT_PENDING", "PAYMENT_APPROVED",
                              "INVENTORY_RESERVED", "PAYMENT_REFUND_PENDING"}
        BY <3>3 DEF Terminal
      <4>2. Accepts(e) => s.current # saga.current
        BY <3>3, AcceptsFits DEF Terminal, SagaInv
      <4> QED BY <1>13, <3>1, <4>1, <4>2 DEF Moves
    <3>5. e.type = "PAYMENT_COMPENSATE_RESULT" /\ e.status = "PAYMENT_REFUNDED"
      BY <1>13, <3>1, <3>4 DEF FailureNote
    <3>6. Reports(e, "refund") /\ e \in InFlight(o)
      BY <1>1, <3>4, <3>5 DEF Reports, ReportOf, SuccessStatus
    <3> QED BY <3>6 DEF Money
  <2> QED BY <2>1, <2>2
<1>14. \A f \in InFlight(o)' : /\ ~ Reports(f, "charge")'
                               /\ ~ Reports(f, "reservation")'
                               /\ ~ Reports(f, "refund")'
  BY <1>3, <1>8 DEF Reports
<1>15. Money(o)'
  BY <1>1, <1>10, <1>11, <1>12, <1>13, <1>14 DEF Money
<1> QED BY <1>7, <1>15

\* Every step keeps the effects of every order in order.
LEMMA EffectsInvKept == SagaInv /\ EffectsInv /\ [Next]_vars => EffectsInv'
<1> SUFFICES ASSUME SagaInv, EffectsInv, [Next]_vars, NEW o \in Orders
             PROVE  Repetitions(o)' /\ Money(o)'
  BY DEF EffectsInv
<1>1. TypeOK /\ CommandsAreValid /\ OneInFlight
  BY DEF SagaInv
<1>2. \A p \in Orders : Repetitions(p) /\ Money(p)
  BY DEF EffectsInv
<1>3. CASE \/ \E p \in Orders : CreateOrder(p)
           \/ \E e \in outbox : Relay(e)
           \/ \E e \in bus : DeadLetter(e)
           \/ UNCHANGED vars
  <2>1. UNCHANGED <<sagas, outbox>> /\ InFlight(o)' = InFlight(o)
    BY <1>3, QuietOrders
  <2>2. UNCHANGED <<effects, crashes>>
    BY <1>3 DEF CreateOrder, Relay, DeadLetter, vars
  <2>3. Announced(o)' = Announced(o)
    BY <2>1 DEF Announced
  <2> QED BY <1>1, <1>2, <2>1, <2>2, <2>3, SameEffects
<1>4. CASE \E e \in bus : CrashAfterGateway(e)
  <2>1. UNCHANGED <<sagas, outbox>> /\ \A p \in Orders : InFlight(p)' = InFlight(p)
    BY <1>4, QuietOrders
  <2>2. PICK e \in bus : CrashAfterGateway(e)
    BY <1>4
  <2>3. /\ e.type \in Commands /\ Delivers(e)
        /\ Performed(e.order, EffectOf(e.type))
        /\ crashes' = crashes + 1
    BY <2>2 DEF CrashAfterGateway, Commanded
  <2>4. e.order \in Orders
    BY <1>1 DEF TypeOK, Event
  <2>5. Announced(o)' = Announced(o)
    BY <2>1 DEF Announced
  <2>6. CASE o = e.order
    <3>1. InFlight(e.order) = {e} /\ Fits(sagas[e.order], e)
      BY <1>1, <2>3, DeliveredIsInFlight
    <3>2. Repetitions(o)'
      BY <1>2, <2>1, <2>3, <2>4, <2>6, <3>1, PerformedRepetitions
    <3>3. Money(o)'
      BY <1>2, <2>1, <2>3, <2>4, <2>5, <2>6, <3>1, PerformedMoney
    <3> QED BY <3>2, <3>3
  <2>7. CASE o # e.order
    <3>1. effects'[o] = effects[o]
      BY <1>1, <2>3, <2>4, <2>7, PerformedCounts
    <3> QED BY <1>1, <1>2, <2>1, <2>3, <2>5, <3>1, SameEffects
  <2> QED BY <2>6, <2>7
<1>5. ASSUME NEW e \in bus, NEW s \in SagaRow, NEW out \in Event,
             OrchestratorStep(e, s, out), Moves(e, s, out)
      PROVE  Repetitions(o)' /\ Money(o)'
  <2>1. /\ e.order \in Orders /\ out.order = e.order
        /\ outbox' = outbox \cup {out}
        /\ UNCHANGED <<effects, crashes>>
        /\ o # e.order => sagas'[o] = sagas[o] /\ InFlight(o)' = InFlight(o)
    BY <1>5, OrchestratorOrders
  <2>2. CASE o = e.order
    BY <1>2, <1>5, <2>2, OrchestratorEffects
  <2>3. CASE o # e.order
    <3>1. Announced(o)' = Announced(o)
      BY <2>1, <2>3 DEF Announced
    <3> QED BY <1>1, <1>2, <2>1, <2>3, <3>1, SameEffects
  <2> QED BY <2>2, <2>3
<1>6. ASSUME NEW e \in bus, NEW status \in OrderStatus, NEW tx \in Nat,
             WorkerStep(e, status, tx), Exchanges(e, status, tx)
      PROVE  Repetitions(o)' /\ Money(o)'
  <2>1. /\ e.order \in Orders /\ e.type \in Commands
        /\ Fits(sagas[e.order], e) /\ InFlight(e.order) = {e}
        /\ UNCHANGED <<sagas, crashes>>
        /\ o # e.order => InFlight(o)' = InFlight(o) /\ effects'[o] = effects[o]
    BY <1>6, WorkerOrders
  <2>2. PICK out \in Event : /\ out.type = ResultOf(e.type)
                             /\ out.type \in Results
                             /\ out.status = status /\ out.tx = tx
                             /\ outbox' = outbox \cup {out}
                             /\ InFlight(e.order)' = {out}
    BY <1>6, WorkerOrders
  <2>3. out.type \notin Announcements
    BY <2>2 DEF Announcements, Results
  <2>4. Announced(o)' = Announced(o)
    BY <2>2, <2>3 DEF Announced
  <2>5. CASE o # e.order
    BY <1>1, <1>2, <2>1, <2>4, <2>5, SameEffects
  <2>6. CASE o = e.order /\ status \in {"RETRYING", "FAILED"} /\ effects' = effects
    BY <1>2, <2>1, <2>2, <2>4, <2>6, DeclinedEffects
  <2>7. CASE /\ o = e.order
             /\ status = SuccessStatus(ResultOf(e.type))
             /\ Performed(e.order, EffectOf(e.type))
             /\ e.type = "PAYMENT_COMMAND" => tx = effects[e.order]["charge"] + 1
    <3>1. Reports(out, EffectOf(e.type))
      BY <2>1, <2>2, <2>7, CommandsAndReports DEF Reports
    <3>2. Reports(out, "charge") => out.tx = effects[e.order]["charge"] + 1
      <4>1. SUFFICES ASSUME out.type = "PAYMENT_RESULT"
                     PROVE  out.tx = effects[e.order]["charge"] + 1
        BY DEF Reports, ReportOf
      <4>2. e.type = "PAYMENT_COMMAND"
        BY <2>1, <2>2, <4>1 DEF ResultOf, Commands
      <4> QED BY <2>2, <2>7, <4>2
    <3>3. Repetitions(o)'
      BY <1>2, <2>1, <2>2, <2>7, <3>1, PerformedRepetitions
    <3>4. Money(o)'
      BY <1>2, <2>1, <2>2, <2>4, <2>7, <3>1, <3>2, PerformedMoney
    <3> QED BY <3>3, <3>4
  <2> QED BY <1>6, <2>5, <2>6, <2>7 DEF Exchanges
<1> QED BY <1>1, <1>3, <1>4, <1>5, <1>6, MoveCases

\* EffectsInv holds in every reachable state (the workers, their gateways and
\* handleResult).
THEOREM EffectsInvariant == Spec => [](SagaInv /\ EffectsInv)
<1>1. Init => SagaInv /\ EffectsInv
  BY InitSagaInv, InitEffectsInv
<1>2. SagaInv /\ EffectsInv /\ [Next]_vars => SagaInv' /\ EffectsInv'
  BY SagaInvKept, EffectsInvKept
<1> QED BY <1>1, <1>2, PTL DEF Spec

\* Retries, redeliveries and duplicate creations alone never make a gateway
\* repeat itself for an order, whatever their number: it takes a transaction
\* lost after the gateway's success (alreadyProcessed, retry).
THEOREM OnlyCrashesRepeatEffects == Spec => []RepeatedEffectsNeedACrash
<1>1. EffectsInv => RepeatedEffectsNeedACrash
  BY DEF EffectsInv, Repetitions, RepeatedEffectsNeedACrash
<1> QED BY <1>1, EffectsInvariant, PTL

\* A completed order was paid and reserved and never refunded; money goes back
\* to failing orders only, for a charge that happened; and a refund that is
\* announced was made (fail, startCompensation, complete).
THEOREM OutcomeIsTrue == Spec => []OutcomeMatchesEffects
<1>1. EffectsInv => OutcomeMatchesEffects
  BY DEF EffectsInv, Money, Charged, OutcomeMatchesEffects
<1> QED BY <1>1, EffectsInvariant, PTL
-----------------------------------------------------------------------------
(* Commands.                                                               *)

SentCommands(o, type) == {e \in outbox : e.order = o /\ e.type = type}

\* The commands of the steps a saga has yet to reach.
StepsAhead(current) ==
  CASE current = ""                 -> Commands
    [] current = "PAYMENT_PENDING"  -> {"INVENTORY_COMMAND", "PAYMENT_COMPENSATE",
                                        "NOTIFICATION_COMMAND"}
    [] current = "PAYMENT_APPROVED" -> {"PAYMENT_COMPENSATE", "NOTIFICATION_COMMAND"}
    [] OTHER                        -> {}

\* RetryCountIsHonest, and that the next step starts from no commands.
Honest(o) ==
  /\ \A type \in Commands :
       /\ IsFiniteSet(SentCommands(o, type))
       /\ Cardinality(SentCommands(o, type)) <= MaxRetries + 1
  /\ Open(o) => Cardinality(SentCommands(o, NextCommand(sagas[o].current)))
                  = sagas[o].retryCount + 1
  /\ \A type \in StepsAhead(sagas[o].current) : SentCommands(o, type) = {}

CommandsInv == \A o \in Orders : Honest(o)

\* At first no command was sent.
LEMMA InitCommandsInv == Init => CommandsInv
<1> SUFFICES ASSUME Init, NEW o \in Orders PROVE Honest(o)
  BY DEF CommandsInv
<1>1. \A type : SentCommands(o, type) = {}
  BY DEF Init, SentCommands
<1>2. IsFiniteSet({}) /\ Cardinality({}) = 0
  BY FS_EmptySet
<1>3. 0 <= MaxRetries + 1
  BY MaxRetriesAssumption
<1>4. ~ Open(o)
  BY DEF Init, Open
<1> QED BY <1>1, <1>2, <1>3, <1>4, Zenon DEF Honest

\* A step that sends an order no command and leaves its row alone keeps it so.
LEMMA SameCommands ==
  ASSUME TypeOK, NEW o \in Orders, Honest(o), sagas'[o] = sagas[o],
         \A type \in Commands \cup {""} :
           SentCommands(o, type)' = SentCommands(o, type)
  PROVE  Honest(o)'
<1>1. Open(o)' <=> Open(o)
  BY DEF Open
<1>2. StepsAhead(sagas[o].current) \subseteq Commands
  BY DEF StepsAhead, Commands
<1>3. NextCommand(sagas[o].current) \in Commands \cup {""}
  BY DEF NextCommand, Commands
<1>4. \A type \in Commands :
        /\ IsFiniteSet(SentCommands(o, type)')
        /\ Cardinality(SentCommands(o, type)') <= MaxRetries + 1
  BY DEF Honest
<1>5. (Open(o) => Cardinality(SentCommands(o, NextCommand(sagas[o].current)))
                    = sagas[o].retryCount + 1)'
  <2>1. \A next \in Commands \cup {""} :
          Cardinality(SentCommands(o, next)') = Cardinality(SentCommands(o, next))
    OBVIOUS
  <2>2. sagas'[o].current = sagas[o].current /\ sagas'[o].retryCount = sagas[o].retryCount
    OBVIOUS
  <2>3. Cardinality(SentCommands(o, NextCommand(sagas[o].current)))'
          = Cardinality(SentCommands(o, NextCommand(sagas[o].current)))
    BY <1>3, <2>1, <2>2 DEF SentCommands
  <2> QED BY <1>1, <2>2, <2>3 DEF Honest
<1>6. \A type \in StepsAhead(sagas'[o].current) : SentCommands(o, type)' = {}
  BY <1>2 DEF Honest
<1> QED BY <1>4, <1>5, <1>6 DEF Honest

\* The orchestrator sends one command of the step it moves to, the first of it
\* or one that it counted as a retry.
LEMMA OrchestratorSends ==
  ASSUME SagaInv, NEW e \in bus, NEW s \in SagaRow, NEW out \in Event,
         OrchestratorStep(e, s, out), Moves(e, s, out), Honest(e.order)
  PROVE  Honest(e.order)'
<1> DEFINE o == e.order
           saga == sagas[o]
<1>1. /\ o \in Orders /\ out.order = o
      /\ sagas'[o] = s
      /\ outbox' = outbox \cup {out} /\ out \notin outbox
      /\ out.type \in Commands \cup Announcements
      /\ Accepts(e) => /\ Open(o) /\ e.type \in Results
                       /\ saga.current = ExpectedStatusForResult(e.type)
  BY OrchestratorOrders
<1>2. \A type \in Commands :
        SentCommands(o, type)' = IF type = out.type THEN SentCommands(o, type) \cup {out}
                                                    ELSE SentCommands(o, type)
  BY <1>1 DEF SentCommands
<1>3. Commands \cap Announcements = {} /\ Commands \cap Results = {}
  BY DEF Commands, Announcements, Results
<1>4. CASE out.type \in Announcements
  <2>1. s.current \in Terminal
    BY <1>3, <1>4 DEF OrchestratorStep, Commits, Terminal
  <2>2. ~ Open(o)' /\ StepsAhead(s.current) = {}
    BY <1>1, <2>1 DEF Open, StepsAhead, Terminal
  <2>3. \A type \in Commands : SentCommands(o, type)' = SentCommands(o, type)
    BY <1>2, <1>3, <1>4
  <2> QED BY <1>1, <2>2, <2>3 DEF Honest
<1>5. CASE out.type \in Commands
  <2>1. /\ out.type = NextCommand(s.current) /\ s.current \in SagaStatus
        /\ s.current \notin Terminal
    BY <1>3, <1>5 DEF OrchestratorStep, Commits, Fits, Announcements
  <2>2. s.retryCount \in 0..MaxRetries /\ MaxRetries \in Nat
    BY MaxRetriesAssumption DEF SagaRow
  <2>3. NoSaga.current = ""
    BY DEF NoSaga
  <2>4. CASE /\ Accepts(e) /\ s.current = saga.current
             /\ s.retryCount = saga.retryCount + 1
    <3>1. /\ IsFiniteSet(SentCommands(o, out.type))
          /\ Cardinality(SentCommands(o, out.type)) = s.retryCount
      BY <1>1, <1>5, <2>1, <2>4 DEF Honest
    <3>2. /\ IsFiniteSet(SentCommands(o, out.type)')
          /\ Cardinality(SentCommands(o, out.type)') = s.retryCount + 1
      <4>1. SentCommands(o, out.type)' = SentCommands(o, out.type) \cup {out}
        BY <1>2, <1>5
      <4>2. out \notin SentCommands(o, out.type)
        BY <1>1 DEF SentCommands
      <4> QED BY <3>1, <4>1, <4>2, FS_AddElement
    <3>3. s.retryCount + 1 <= MaxRetries + 1
      BY <2>2
    <3>4. \A type \in StepsAhead(s.current) : SentCommands(o, type)' = {}
      <4>1. StepsAhead(s.current) \subseteq Commands
        BY DEF StepsAhead, Commands
      <4>2. out.type \notin StepsAhead(s.current)
        <5>1. s.current \in {"PAYMENT_PENDING", "PAYMENT_APPROVED",
                             "PAYMENT_REFUND_PENDING", "INVENTORY_RESERVED"}
          BY <1>1, <2>4 DEF Results, ExpectedStatusForResult
        <5> QED BY <2>1, <5>1 DEF NextCommand, StepsAhead
      <4> QED BY <1>2, <2>4, <4>1, <4>2 DEF Honest
    <3> QED BY <1>1, <1>2, <2>1, <3>2, <3>3, <3>4 DEF Honest
  <2>5. ASSUME s.retryCount = 0,
               out.type \in StepsAhead(saga.current),
               StepsAhead(s.current) \subseteq StepsAhead(saga.current) \ {out.type}
        PROVE  Honest(o)'
    <3>1. SentCommands(o, out.type) = {}
      BY <2>5 DEF Honest
    <3>2. /\ IsFiniteSet(SentCommands(o, out.type)')
          /\ Cardinality(SentCommands(o, out.type)') = 0 + 1
      <4>1. SentCommands(o, out.type)' = {} \cup {out}
        BY <1>2, <1>5, <3>1
      <4>2. IsFiniteSet({}) /\ Cardinality({}) = 0 /\ out \notin {}
        BY FS_EmptySet
      <4>3. /\ IsFiniteSet({} \cup {out})
            /\ Cardinality({} \cup {out}) = 0 + 1
        BY <4>2, FS_AddElement
      <4> QED BY <4>1, <4>3
    <3>3. 0 + 1 <= MaxRetries + 1
      BY <2>2
    <3>4. StepsAhead(s.current) \subseteq Commands
      BY DEF StepsAhead, Commands
    <3>5. \A type \in StepsAhead(s.current) : SentCommands(o, type)' = {}
      BY <1>2, <2>5, <3>4 DEF Honest
    <3> QED BY <1>1, <1>2, <2>1, <2>5, <3>2, <3>3, <3>5 DEF Honest
  <2>6. CASE saga = NoSaga /\ s.current = "PAYMENT_PENDING" /\ s.retryCount = 0
    <3>1. out.type = "PAYMENT_COMMAND"
      BY <2>1, <2>6 DEF NextCommand
    <3>2. /\ out.type \in StepsAhead(saga.current)
          /\ StepsAhead(s.current) \subseteq StepsAhead(saga.current) \ {out.type}
      BY <2>3, <2>6, <3>1 DEF StepsAhead, Commands
    <3> QED BY <2>5, <2>6, <3>2
  <2>7. CASE /\ Accepts(e) /\ e.type = "PAYMENT_RESULT"
             /\ s.current = "PAYMENT_APPROVED" /\ s.retryCount = 0
    <3>1. out.type = "INVENTORY_COMMAND" /\ saga.current = "PAYMENT_PENDING"
      BY <1>1, <2>1, <2>7 DEF NextCommand, ExpectedStatusForResult
    <3>2. /\ out.type \in StepsAhead(saga.current)
          /\ StepsAhead(s.current) \subseteq StepsAhead(saga.current) \ {out.type}
      BY <2>7, <3>1 DEF StepsAhead
    <3> QED BY <2>5, <2>7, <3>2
  <2>8. CASE /\ Accepts(e) /\ e.type = "INVENTORY_RESULT"
             /\ s.current \in {"INVENTORY_RESERVED", "PAYMENT_REFUND_PENDING"}
             /\ s.retryCount = 0
    <3>1. /\ out.type \in {"NOTIFICATION_COMMAND", "PAYMENT_COMPENSATE"}
          /\ saga.current = "PAYMENT_APPROVED"
      BY <1>1, <2>1, <2>8 DEF NextCommand, ExpectedStatusForResult
    <3>2. /\ out.type \in StepsAhead(saga.current)
          /\ StepsAhead(s.current) \subseteq StepsAhead(saga.current) \ {out.type}
      BY <2>8, <3>1 DEF StepsAhead
    <3> QED BY <2>5, <2>8, <3>2
  <2>9. s.current \notin {"FAILED", "COMPLETED"}
    BY <2>1 DEF Terminal
  <2> QED BY <2>4, <2>6, <2>7, <2>8, <2>9 DEF Moves
<1> QED BY <1>1, <1>4, <1>5

\* Every step keeps the counts of every order honest.
LEMMA CommandsInvKept == SagaInv /\ CommandsInv /\ [Next]_vars => CommandsInv'
<1> SUFFICES ASSUME SagaInv, CommandsInv, [Next]_vars, NEW o \in Orders
             PROVE  Honest(o)'
  BY DEF CommandsInv
<1>1. TypeOK /\ CommandsAreValid
  BY DEF SagaInv
<1>2. Honest(o)
  BY DEF CommandsInv
<1>3. CASE \/ \E p \in Orders : CreateOrder(p)
           \/ \E e \in outbox : Relay(e)
           \/ \E e \in bus : CrashAfterGateway(e)
           \/ \E e \in bus : DeadLetter(e)
           \/ UNCHANGED vars
  <2>1. UNCHANGED <<sagas, outbox>>
    BY <1>3, QuietOrders
  <2>2. \A type : SentCommands(o, type)' = SentCommands(o, type)
    BY <2>1 DEF SentCommands
  <2> QED BY <1>1, <1>2, <2>1, <2>2, SameCommands
<1>4. ASSUME NEW e \in bus, NEW s \in SagaRow, NEW out \in Event,
             OrchestratorStep(e, s, out), Moves(e, s, out)
      PROVE  Honest(o)'
  <2>1. CASE o = e.order
    BY <1>2, <1>4, <2>1, OrchestratorSends
  <2>2. CASE o # e.order
    <3>1. /\ out.order = e.order /\ outbox' = outbox \cup {out}
          /\ sagas'[o] = sagas[o]
      BY <1>4, <2>2, OrchestratorOrders
    <3>2. \A type : SentCommands(o, type)' = SentCommands(o, type)
      BY <2>2, <3>1 DEF SentCommands
    <3> QED BY <1>1, <1>2, <3>1, <3>2, SameCommands
  <2> QED BY <2>1, <2>2
<1>5. ASSUME NEW e \in bus, NEW status \in OrderStatus, NEW tx \in Nat,
             WorkerStep(e, status, tx)
      PROVE  Honest(o)'
  <2>1. sagas' = sagas
    BY <1>5, WorkerOrders
  <2>2. PICK out \in Event : out.type \in Results /\ outbox' = outbox \cup {out}
    BY <1>5, WorkerOrders
  <2>3. out.type \notin Commands \cup {""}
    BY <2>2 DEF Commands, Results
  <2>4. \A type \in Commands \cup {""} : SentCommands(o, type)' = SentCommands(o, type)
    BY <2>2, <2>3 DEF SentCommands
  <2> QED BY <1>1, <1>2, <2>1, <2>4, SameCommands
<1> QED BY <1>1, <1>3, <1>4, <1>5, MoveCases

\* RetryCount is the number of commands of the step less one, and no step sends
\* more than the limit allows and one, for any limit (retry, the resets of
\* RetryCount in advance and startCompensation).
THEOREM RetriesAreCounted == Spec => []RetryCountIsHonest
<1>1. CommandsInv => RetryCountIsHonest
  BY DEF CommandsInv, Honest, RetryCountIsHonest, SentCommands
<1>2. Init => CommandsInv
  BY InitCommandsInv
<1>3. SagaInv /\ CommandsInv /\ [Next]_vars => CommandsInv'
  BY CommandsInvKept
<1> QED BY <1>1, <1>2, <1>3, SagaInvariant, PTL DEF Spec
-----------------------------------------------------------------------------
(* The refinement of OrderLifecycle.                                       *)

\* The abstract variables, as OrderSaga's instance substitutes them.
StageOf == [o \in Orders |-> Stage(sagas[o].current)]
AnnouncedOnBus == {<<e.order, OutcomeOf(e.type)>> :
                     e \in {f \in bus : f.type \in Announcements}}

\* A step that leaves the saga rows and the announcements on the bus alone is a
\* stuttering step of the abstract specification.
LEMMA Stutters ==
  ASSUME sagas' = sagas, bus \subseteq bus',
         \A e \in bus' \ bus : e.type \notin Announcements
  PROVE  StageOf' = StageOf /\ AnnouncedOnBus' = AnnouncedOnBus
<1>1. StageOf' = StageOf
  BY DEF StageOf
<1>2. {f \in bus' : f.type \in Announcements} = {f \in bus : f.type \in Announcements}
  OBVIOUS
<1>3. AnnouncedOnBus' = AnnouncedOnBus
  BY <1>2 DEF AnnouncedOnBus
<1> QED BY <1>1, <1>3

\* The relay publishing a terminal event is the abstract announcement: the
\* event says what the saga's state says.
LEMMA RelayAnnounces ==
  ASSUME SagaInv, NEW e \in outbox, Relay(e), e.type \in Announcements
  PROVE  \E o \in Orders : Lifecycle!Announce(o)
<1>1. e.order \in Orders
  BY DEF SagaInv, TypeOK, Event
<1>2. e \in Announced(e.order)
  BY DEF Announced
<1>3. \/ sagas[e.order].current = "COMPLETED" /\ e.type = "ORDER_COMPLETED"
      \/ sagas[e.order].current = "FAILED" /\ e.type = "ORDER_FAILED"
  BY <1>1, <1>2 DEF SagaInv, OneOutcomePerOrder
<1>4. StageOf[e.order] = OutcomeOf(e.type) /\ OutcomeOf(e.type) \in Lifecycle!Outcome
  BY <1>1, <1>3 DEF StageOf, Stage, OutcomeOf, Lifecycle!Outcome
<1>5. sagas' = sagas /\ bus' = bus \cup {e}
  BY DEF Relay
<1>6. StageOf' = StageOf
  BY <1>5 DEF StageOf
<1>7. AnnouncedOnBus' = AnnouncedOnBus \cup {<<e.order, OutcomeOf(e.type)>>}
  BY <1>5 DEF AnnouncedOnBus
<1> QED BY <1>1, <1>4, <1>6, <1>7 DEF StageOf, AnnouncedOnBus, Lifecycle!Announce

\* A step of the orchestrator opens the order, decides it, or is invisible.
LEMMA OrchestratorRefines ==
  ASSUME SagaInv, NEW e \in bus, NEW s \in SagaRow, NEW out \in Event,
         OrchestratorStep(e, s, out)
  PROVE  \/ \E o \in Orders : Lifecycle!OpenOrder(o) \/ Lifecycle!Decide(o)
         \/ StageOf' = StageOf /\ AnnouncedOnBus' = AnnouncedOnBus
<1>1. TypeOK
  BY DEF SagaInv
<1>2. /\ e.order \in Orders
      /\ sagas'[e.order] = s
      /\ \A o \in Orders \ {e.order} : sagas'[o] = sagas[o]
      /\ bus' = bus
  BY <1>1, OrchestratorRows
<1>3. AnnouncedOnBus' = AnnouncedOnBus
  BY <1>2 DEF AnnouncedOnBus
<1>4. StageOf' = [StageOf EXCEPT ![e.order] = Stage(s.current)]
  BY <1>2 DEF StageOf
<1>5. s.current \in SagaStatus
  BY DEF OrchestratorStep, Commits
<1>6. CASE sagas[e.order] = NoSaga /\ s.current \notin Terminal
  <2>1. StageOf[e.order] = "unknown"
    <3>1. NoSaga.current = ""
      BY DEF NoSaga
    <3>2. sagas[e.order].current = ""
      BY <1>6, <3>1
    <3> QED BY <1>2, <3>2 DEF StageOf, Stage
  <2>2. Stage(s.current) = "open"
    BY <1>5, <1>6 DEF Stage, SagaStatus, Terminal
  <2>3. Lifecycle!OpenOrder(e.order)
    BY <1>3, <1>4, <2>1, <2>2 DEF Lifecycle!OpenOrder, StageOf, AnnouncedOnBus
  <2> QED BY <1>2, <2>3
<1>7. CASE Accepts(e)
  <2>1. StageOf[e.order] = "open"
    BY <1>1, <1>2, <1>7, AcceptsFits DEF StageOf, Stage
  <2>2. CASE s.current \in Terminal
    <3>1. Stage(s.current) \in Lifecycle!Outcome
      BY <2>2 DEF Stage, Terminal, Lifecycle!Outcome
    <3>2. \E r \in Lifecycle!Outcome : StageOf' = [StageOf EXCEPT ![e.order] = r]
      BY <1>4, <3>1
    <3>3. Lifecycle!Decide(e.order)
      BY <1>3, <2>1, <3>2 DEF Lifecycle!Decide, StageOf, AnnouncedOnBus
    <3> QED BY <1>2, <3>3
  <2>3. CASE s.current \notin Terminal
    <3>1. Stage(s.current) = "open"
      BY <1>5, <2>3 DEF Stage, SagaStatus, Terminal
    <3>2. StageOf' = StageOf
      BY <1>2, <1>4, <2>1, <3>1 DEF StageOf
    <3> QED BY <1>3, <3>2
  <2> QED BY <2>2, <2>3
<1> QED BY <1>6, <1>7 DEF OrchestratorStep, Commits

\* Seen from outside, the services open, decide and announce orders, each
\* decision once and nothing but the decision (fail, complete, the relay).
THEOREM ServicesImplementLifecycle == Spec => Lifecycle!Spec
<1>1. Init => Lifecycle!Init
  <2>1. Stage(NoSaga.current) = "unknown"
    BY DEF Stage, NoSaga
  <2>2. ASSUME Init
        PROVE  /\ StageOf = [o \in Orders |-> "unknown"]
               /\ AnnouncedOnBus = {}
    BY <2>1, <2>2 DEF Init, StageOf, AnnouncedOnBus
  <2> QED BY <2>2 DEF Lifecycle!Init, StageOf, AnnouncedOnBus
<1>2. SagaInv /\ [Next]_vars => [Lifecycle!Next]_(Lifecycle!lifecycle)
  <2>1. SUFFICES ASSUME SagaInv, [Next]_vars
                 PROVE  [Lifecycle!Next]_(Lifecycle!lifecycle)
    OBVIOUS
  <2>2. TypeOK /\ CommandsAreValid
    BY <2>1 DEF SagaInv
  <2>3. ASSUME StageOf' = StageOf /\ AnnouncedOnBus' = AnnouncedOnBus
        PROVE  [Lifecycle!Next]_(Lifecycle!lifecycle)
    BY <2>3 DEF StageOf, AnnouncedOnBus, Lifecycle!lifecycle
  <2>4. CASE \E e \in bus, s \in SagaRow, out \in Event : OrchestratorStep(e, s, out)
    BY <2>1, <2>3, <2>4, OrchestratorRefines DEF Lifecycle!Next
  <2>5. CASE \E e \in outbox : Relay(e)
    <3>1. PICK e \in outbox : Relay(e)
      BY <2>5
    <3>2. CASE e.type \in Announcements
      BY <2>1, <3>1, <3>2, RelayAnnounces DEF Lifecycle!Next
    <3>3. CASE e.type \notin Announcements
      <4>1. sagas' = sagas /\ bus' = bus \cup {e}
        BY <3>1 DEF Relay
      <4> QED BY <2>3, <3>3, <4>1, Stutters
    <3> QED BY <3>2, <3>3
  <2>6. CASE \E o \in Orders : CreateOrder(o)
    <3>1. PICK o \in Orders : CreateOrder(o)
      BY <2>6
    <3>2. NewEvent(o, "ORDER_CREATED", "PENDING", 0, "").type \notin Announcements
      BY DEF NewEvent, Announcements
    <3>3. /\ sagas' = sagas
          /\ bus' = bus \cup {NewEvent(o, "ORDER_CREATED", "PENDING", 0, "")}
      BY <3>1 DEF CreateOrder
    <3> QED BY <2>3, <3>2, <3>3, Stutters
  <2>7. CASE \E e \in bus, status \in OrderStatus, tx \in Nat : WorkerStep(e, status, tx)
    <3>1. sagas' = sagas /\ bus' = bus
      BY <2>2, <2>7, WorkerRows
    <3> QED BY <2>3, <3>1, Stutters
  <2>8. CASE \/ \E e \in bus : CrashAfterGateway(e)
             \/ \E e \in bus : DeadLetter(e)
             \/ UNCHANGED vars
    <3>1. sagas' = sagas /\ bus' = bus
      BY <2>8 DEF CrashAfterGateway, DeadLetter, vars
    <3> QED BY <2>3, <3>1, Stutters
  <2> QED BY <2>2, <2>1, <2>4, <2>5, <2>6, <2>7, <2>8, StepCases
<1> QED BY <1>1, <1>2, SagaInvariant, PTL DEF Spec, Lifecycle!Spec
=============================================================================
