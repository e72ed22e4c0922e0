------------------------------ MODULE OrderSaga ------------------------------
(***************************************************************************)
(* The order saga as the services run it: the coordinator that announces a *)
(* new order, the orchestrator, the payment, inventory and notification    *)
(* workers with their gateways, and the transactional state they share     *)
(* (tables sagas, saga_events and outbox of the write database) on one     *)
(* side, the Kafka bus on the other.                                       *)
(*                                                                         *)
(* One handler execution is one action: SagaUnitOfWork.WithTx commits the  *)
(* saga row, the journal rows and the outbox row together or not at all.   *)
(* That presumes that no event is handled twice at the same time; modules  *)
(* CommandTransaction and ResultTransaction take the transactions of the   *)
(* workers and of the orchestrator apart where it is.                      *)
(* The bus is a set that never shrinks, so every event may be delivered    *)
(* again, late and in any order (at-least-once delivery, rebalances, DLQ   *)
(* replays); a redelivery that the journal suppresses changes nothing and  *)
(* is a stuttering step.  What the transaction does not cover is the       *)
(* gateway: CrashAfterGateway is the process dying between the gateway's   *)
(* success and the commit.                                                 *)
(***************************************************************************)
EXTENDS SagaDomain, FiniteSets

CONSTANTS
  Orders,        \* order ids
  MaxRetries,    \* orchestrator.New(uow, maxRetries); 3 in cmd/orchestrator
  MaxCreations,  \* bound: how often CreateOrder runs for one order id
  MaxCrashes     \* bound: processes lost between gateway success and commit

ASSUME MaxRetriesAssumption == MaxRetries \in Nat
ASSUME BoundsAssumption == MaxCreations \in Nat /\ MaxCrashes \in Nat

VARIABLES
  sagas,    \* table sagas: order -> Saga, NoSaga where there is no row
  journal,  \* table saga_events: <<event id, component, direction>>
  outbox,   \* every event ever appended to table outbox
  bus,      \* every event ever written to a Kafka topic
  dlq,      \* every event moved to a dead letter topic
  nextId,   \* order -> the number its next event id will have
  effects,  \* order -> what its gateways really did, and how often
  crashes   \* processes lost so far

vars == <<sagas, journal, outbox, bus, dlq, nextId, effects, crashes>>

EffectKinds == {"charge", "refund", "reservation", "notification"}
Components == {"orchestrator", "worker-payment", "worker-inventory",
               "worker-notification"}
Directions == {"IN", "OUT", "GATEWAY_REQUEST", "GATEWAY_RESPONSE"}

\* domain.Event.  Ids are random in the code; here they are fresh per order.
EventId == Orders \X Nat
Event == [id : EventId, order : Orders, type : EventType,
          status : OrderStatus, tx : Nat, note : Notes]

NewEvent(o, type, status, tx, note) ==
  [id |-> <<o, nextId[o]>>, order |-> o, type |-> type, status |-> status,
   tx |-> tx, note |-> note]

Init == /\ sagas = [o \in Orders |-> NoSaga]
        /\ journal = {}
        /\ outbox = {}
        /\ bus = {}
        /\ dlq = {}
        /\ nextId = [o \in Orders |-> 0]
        /\ effects = [o \in Orders |-> [k \in EffectKinds |-> 0]]
        /\ crashes = 0
-----------------------------------------------------------------------------
(* The coordinator and the relay.                                          *)

\* CreateOrder writes ORDER_CREATED straight to Kafka, without an outbox.  Its
\* caller may use an order id again (create-order run twice, load-generator).
CreateOrder(o) ==
  /\ Cardinality({e \in bus : e.type = "ORDER_CREATED" /\ e.order = o})
       < MaxCreations
  /\ bus' = bus \cup {NewEvent(o, "ORDER_CREATED", "PENDING", 0, "")}
  /\ nextId' = [nextId EXCEPT ![o] = @ + 1]
  /\ UNCHANGED <<sagas, journal, outbox, dlq, effects, crashes>>

\* outbox-relay, seen from the saga: a committed outbox row reaches its topic,
\* at some time and in any order.  Publishing it again leaves bus unchanged.
Relay(e) ==
  /\ e \in outbox \ bus
  /\ bus' = bus \cup {e}
  /\ UNCHANGED <<sagas, journal, outbox, dlq, nextId, effects, crashes>>
-----------------------------------------------------------------------------
(* Delivery and idempotency.                                               *)

\* Mutation of AlreadyProcessed: no deduplication.
NeverProcessed(id, component) == FALSE

\* EventLog.Has: any row of this component counts, whatever its direction.
AlreadyProcessed(id, component) ==
  \E d \in Directions : <<id, component, d>> \in journal

\* A consumer fetches e from its topic and the journal does not know it.
Delivers(e) == /\ e \in bus
               /\ Consumer(e.type) # ""
               /\ ~ AlreadyProcessed(e.id, Consumer(e.type))

\* Mutation of Commit: the handler's own IN row is not written.
CommitWithoutIn(e, s, out) ==
  /\ sagas' = [sagas EXCEPT ![e.order] = s]
  /\ journal' = journal \cup {<<out.id, "orchestrator", "OUT">>}
  /\ outbox' = outbox \cup {out}
  /\ nextId' = [nextId EXCEPT ![e.order] = @ + 1]
  /\ UNCHANGED <<bus, dlq, effects, crashes>>

\* WithTx commits the orchestrator's handling of e: the saga row becomes s,
\* the journal gets the received and the sent event, the outbox the sent one.
Commit(e, s, out) ==
  /\ sagas' = [sagas EXCEPT ![e.order] = s]
  /\ journal' = journal \cup {<<e.id, "orchestrator", "IN">>,
                              <<out.id, "orchestrator", "OUT">>}
  /\ outbox' = outbox \cup {out}
  /\ nextId' = [nextId EXCEPT ![e.order] = @ + 1]
  /\ UNCHANGED <<bus, dlq, effects, crashes>>

\* dispatchNext: move to the target status and send the step's command.
DispatchNext(e, s) ==
  LET target == TargetStatus(s.current)
      command == NewEvent(e.order, NextCommand(s.current), target, s.tx, "")
      saved == IF target # s.current
               THEN [s EXCEPT !.previous = s.current, !.current = target]
               ELSE s
  IN  NextCommand(s.current) # "" /\ Commit(e, saved, command)
-----------------------------------------------------------------------------
(* The orchestrator: StartOrder and the cases of handleResult.             *)

\* Mutation of StartOrder: the Load that looks for an existing saga is missing.
StartOrderAgain(e) ==
  /\ Delivers(e)
  /\ e.type = "ORDER_CREATED"
  /\ DispatchNext(e, [NoSaga EXCEPT !.current = "PENDING"])

StartOrder(e) ==
  /\ Delivers(e)
  /\ e.type = "ORDER_CREATED"
  /\ sagas[e.order] = NoSaga
  /\ DispatchNext(e, [NoSaga EXCEPT !.current = "PENDING"])

\* handleResult gets past its checks: the saga exists, the event is new, the
\* saga is at the step the result answers and the status fits the type.
Accepts(e) == /\ Delivers(e)
              /\ e.type \in Results
              /\ sagas[e.order].current = ExpectedStatusForResult(e.type)
              /\ ValidResultStatus(e.type, e.status)

\* Mutation of Exhausted: one attempt too many.
ExhaustedLate(e) == /\ e.status = "RETRYING"
                    /\ sagas[e.order].retryCount > MaxRetries

\* retry: the incremented RetryCount exceeds the limit.
Exhausted(e) == /\ e.status = "RETRYING"
                /\ sagas[e.order].retryCount + 1 > MaxRetries

\* The five ways handleResult goes on.
Retries(e) == e.status = "RETRYING" /\ ~ Exhausted(e)

Advances(e) == e.status \in {"PAYMENT_APPROVED", "INVENTORY_RESERVED"}

Compensates(e) == /\ e.status = "FAILED"
                  /\ e.type = "INVENTORY_RESULT"
                  /\ sagas[e.order].current = "PAYMENT_APPROVED"
                  /\ sagas[e.order].tx # 0

\* A notification that fails for good does not undo the order.
Completes(e) ==
  \/ e.status = "NOTIFIED"
  \/ e.status = "FAILED" /\ e.type = "NOTIFICATION_RESULT"
  \/ Exhausted(e) /\ sagas[e.order].current = "INVENTORY_RESERVED"

\* Everything else ends in fail; there is no compensation on the way when the
\* retries of the inventory step run out.
Fails(e) ==
  \/ e.status = "PAYMENT_REFUNDED"
  \/ e.status = "FAILED" /\ ~ Completes(e) /\ ~ Compensates(e)
  \/ Exhausted(e) /\ ~ Completes(e)

Retry(e) ==
  /\ Accepts(e) /\ Retries(e)
  /\ DispatchNext(e, [sagas[e.order] EXCEPT !.retryCount = @ + 1])

\* Mutation of Advanced: RetryCount survives into the next step.
AdvancedWithoutReset(s, e) ==
  [s EXCEPT !.previous = s.current, !.current = e.status,
            !.tx = IF e.type = "PAYMENT_RESULT" THEN e.tx ELSE @]

\* Mutation of Advanced: the transaction id is taken from every result.
AdvancedTxFromAnyResult(s, e) ==
  [s EXCEPT !.previous = s.current, !.current = e.status, !.retryCount = 0,
            !.tx = e.tx]

Advanced(s, e) ==
  [s EXCEPT !.previous = s.current, !.current = e.status, !.retryCount = 0,
            !.tx = IF e.type = "PAYMENT_RESULT" THEN e.tx ELSE @]

Advance(e) ==
  /\ Accepts(e) /\ Advances(e)
  /\ CanTransitionTo(sagas[e.order].current, e.status)
  /\ DispatchNext(e, Advanced(sagas[e.order], e))

MovedTo(s, status) ==
  [s EXCEPT !.previous = s.current, !.current = status, !.retryCount = 0]

StartCompensation(e) ==
  /\ Accepts(e) /\ Compensates(e)
  /\ CanTransitionTo(sagas[e.order].current, "PAYMENT_REFUND_PENDING")
  /\ DispatchNext(e, MovedTo(sagas[e.order], "PAYMENT_REFUND_PENDING"))

\* What the metadata of the ORDER_FAILED event says about the money.
FailureNote(e) ==
  IF e.type # "PAYMENT_COMPENSATE_RESULT" THEN ""
  ELSE IF e.status = "PAYMENT_REFUNDED" THEN "payment_refunded"
  ELSE "payment_refund_failed"

Fail(e) ==
  /\ Accepts(e) /\ Fails(e)
  /\ CanTransitionTo(sagas[e.order].current, "FAILED")
  /\ Commit(e, MovedTo(sagas[e.order], "FAILED"),
            NewEvent(e.order, "ORDER_FAILED", "FAILED", 0, FailureNote(e)))

\* Mutation of Complete: the Save after the publication is missing.
CompleteWithoutFinalSave(e) ==
  /\ Accepts(e) /\ Completes(e)
  /\ CanTransitionTo(sagas[e.order].current, "NOTIFIED")
  /\ Commit(e, MovedTo(sagas[e.order], "NOTIFIED"),
            NewEvent(e.order, "ORDER_COMPLETED", "COMPLETED", 0, ""))

\* Mutation of Complete: with a note, the announcement carries the status of
\* the notification.
CompleteAnnouncedAsFailed(e) ==
  /\ Accepts(e) /\ Completes(e)
  /\ CanTransitionTo(sagas[e.order].current, "NOTIFIED")
  /\ Commit(e, MovedTo(MovedTo(sagas[e.order], "NOTIFIED"), "COMPLETED"),
            IF e.status = "NOTIFIED"
            THEN NewEvent(e.order, "ORDER_COMPLETED", "COMPLETED", 0, "")
            ELSE NewEvent(e.order, "ORDER_COMPLETED", "FAILED", 0,
                          "notification_error"))

\* complete goes through NOTIFIED to COMPLETED in one transaction.
Complete(e) ==
  /\ Accepts(e) /\ Completes(e)
  /\ CanTransitionTo(sagas[e.order].current, "NOTIFIED")
  /\ Commit(e, MovedTo(MovedTo(sagas[e.order], "NOTIFIED"), "COMPLETED"),
            NewEvent(e.order, "ORDER_COMPLETED", "COMPLETED", 0,
                     IF e.status = "NOTIFIED" THEN "" ELSE "notification_error"))
-----------------------------------------------------------------------------
(* The workers.                                                            *)

\* Mutation of Commanded: the worker does not ask the journal.
CommandedAgain(e, type) == /\ e \in bus
                           /\ e.type = type
                           /\ e.status = CommandStatus(type)

\* The command is new to its worker and carries the status it requires.
Commanded(e, type) == /\ Delivers(e)
                      /\ e.type = type
                      /\ e.status = CommandStatus(type)

\* Mutation of Answer: the result skips the outbox and goes straight to Kafka
\* (a dual write), and is lost.
AnswerLost(e, type, status, tx) ==
  /\ journal' = journal \cup {<<e.id, Consumer(e.type), "IN">>}
  /\ UNCHANGED <<sagas, outbox, bus, dlq, nextId, crashes>>

\* WithTx commits the worker's handling of command e: the journal gets the
\* command, the gateway exchange and the result, the outbox the result.
Answer(e, type, status, tx) ==
  LET result == NewEvent(e.order, type, status, tx, "")
  IN  /\ journal' = journal
           \cup {<<e.id, Consumer(e.type), d>> : d \in Directions \ {"OUT"}}
           \cup {<<result.id, Consumer(e.type), "OUT">>}
      /\ outbox' = outbox \cup {result}
      /\ nextId' = [nextId EXCEPT ![e.order] = @ + 1]
      /\ UNCHANGED <<sagas, bus, dlq, crashes>>

\* The gateway did what it was asked.
Performed(o, kind) == effects' = [effects EXCEPT ![o][kind] = @ + 1]

\* The gateway returned an error (RETRYING) or said no (FAILED).
Declines(e, type, tx) == /\ \E status \in {"RETRYING", "FAILED"} :
                              Answer(e, type, status, tx)
                         /\ UNCHANGED effects

\* A charge gets a transaction id of its own, reported only when approved.
ProcessPayment(e) ==
  /\ Commanded(e, "PAYMENT_COMMAND")
  /\ \/ Declines(e, "PAYMENT_RESULT", 0)
     \/ /\ Performed(e.order, "charge")
        /\ Answer(e, "PAYMENT_RESULT", "PAYMENT_APPROVED",
                  effects[e.order]["charge"] + 1)

\* The refund of the transaction the command names, which the result repeats.
RefundPayment(e) ==
  /\ Commanded(e, "PAYMENT_COMPENSATE")
  /\ e.tx # 0
  /\ \/ Declines(e, "PAYMENT_COMPENSATE_RESULT", e.tx)
     \/ /\ Performed(e.order, "refund")
        /\ Answer(e, "PAYMENT_COMPENSATE_RESULT", "PAYMENT_REFUNDED", e.tx)

ReserveInventory(e) ==
  /\ Commanded(e, "INVENTORY_COMMAND")
  /\ \/ Declines(e, "INVENTORY_RESULT", 0)
     \/ /\ Performed(e.order, "reservation")
        /\ Answer(e, "INVENTORY_RESULT", "INVENTORY_RESERVED", 0)

Notify(e) ==
  /\ Commanded(e, "NOTIFICATION_COMMAND")
  /\ \/ Declines(e, "NOTIFICATION_RESULT", 0)
     \/ /\ Performed(e.order, "notification")
        /\ Answer(e, "NOTIFICATION_RESULT", "NOTIFIED", 0)

\* What the gateway does for each command.
EffectOf(type) ==
  CASE type = "PAYMENT_COMMAND"    -> "charge"
    [] type = "PAYMENT_COMPENSATE" -> "refund"
    [] type = "INVENTORY_COMMAND"  -> "reservation"
    [] OTHER                       -> "notification"

\* The gateway succeeds and the transaction is rolled back: the process dies,
\* or the append to journal or outbox, or the commit, returns an error.
CrashAfterGateway(e) ==
  /\ crashes < MaxCrashes
  /\ e.type \in Commands
  /\ Commanded(e, e.type)
  /\ e.type = "PAYMENT_COMPENSATE" => e.tx # 0
  /\ Performed(e.order, EffectOf(e.type))
  /\ crashes' = crashes + 1
  /\ UNCHANGED <<sagas, journal, outbox, bus, dlq, nextId>>
-----------------------------------------------------------------------------
(* Dead letters.                                                           *)

\* Mutation of NonRetryable: a known order's creation is retried for ever.
NonRetryableResultsOnly(e) == e.type \in Results /\ sagas[e.order] = NoSaga

\* The handlers' returns of ErrNonRetryable.
NonRetryable(e) ==
  LET saga == sagas[e.order]
  IN  \/ e.type = "ORDER_CREATED" /\ Delivers(e) /\ saga # NoSaga
      \/ e.type \in Results /\ saga = NoSaga
      \/ /\ e.type \in Results
         /\ Delivers(e)
         /\ \/ saga.current # ExpectedStatusForResult(e.type)
            \/ ~ ValidResultStatus(e.type, e.status)
      \/ e.type \in Commands /\ e.status # CommandStatus(e.type)
      \/ e.type = "PAYMENT_COMPENSATE" /\ e.tx = 0

\* moveToDLQ: the transaction is rolled back, the message copied, the offset
\* committed.
DeadLetter(e) ==
  /\ e \in bus
  /\ NonRetryable(e)
  /\ dlq' = dlq \cup {e}
  /\ UNCHANGED <<sagas, journal, outbox, bus, nextId, effects, crashes>>
-----------------------------------------------------------------------------
Orchestrator == \E e \in bus : \/ StartOrder(e)
                               \/ Retry(e)
                               \/ Advance(e)
                               \/ StartCompensation(e)
                               \/ Fail(e)
                               \/ Complete(e)
PaymentWorker == \E e \in bus : ProcessPayment(e) \/ RefundPayment(e)
InventoryWorker == \E e \in bus : ReserveInventory(e)
NotificationWorker == \E e \in bus : Notify(e)
OutboxRelay == \E e \in outbox : Relay(e)

Next == \/ \E o \in Orders : CreateOrder(o)
        \/ OutboxRelay
        \/ Orchestrator
        \/ PaymentWorker
        \/ InventoryWorker
        \/ NotificationWorker
        \/ \E e \in bus : CrashAfterGateway(e) \/ DeadLetter(e)

Spec == Init /\ [][Next]_vars

\* Each service is a process that keeps fetching while there is something to
\* fetch: a restarted consumer resumes from its committed offset, the relay
\* polls the outbox again after every cycle.
Fairness == /\ WF_vars(OutboxRelay)
            /\ WF_vars(Orchestrator)
            /\ WF_vars(PaymentWorker)
            /\ WF_vars(InventoryWorker)
            /\ WF_vars(NotificationWorker)
            /\ WF_vars(\E e \in bus : DeadLetter(e))

FairSpec == Spec /\ Fairness
-----------------------------------------------------------------------------
(* The properties.                                                         *)

\* Every variable has its type; a saga's RetryCount never passes the limit and
\* nothing is dead-lettered that was not on the bus.
TypeOK == /\ sagas \in [Orders -> [current : SagaStatus \cup {""},
                                   previous : SagaStatus \cup {""},
                                   retryCount : 0..MaxRetries,
                                   tx : Nat]]
          /\ journal \subseteq EventId \X Components \X Directions
          /\ outbox \subseteq Event
          /\ bus \subseteq Event
          /\ dlq \subseteq bus
          /\ nextId \in [Orders -> Nat]
          /\ effects \in [Orders -> [EffectKinds -> Nat]]
          /\ crashes \in 0..MaxCrashes

\* The events of an order, whether already relayed or not, that its consumer
\* still has to act on.
Processed(e) == AlreadyProcessed(e.id, Consumer(e.type))
InFlight(o) == {e \in outbox \cup bus : /\ e.order = o
                                        /\ e.type \in Commands \cup Results
                                        /\ ~ Processed(e)}

\* e drives or answers the step that saga s is at.
Fits(s, e) ==
  \/ /\ e.type \in Commands
     /\ s.current \in SagaStatus \ {"PENDING"}
     /\ e.type = NextCommand(s.current)
     /\ e.status = CommandStatus(e.type)
     /\ e.tx = s.tx
  \/ /\ e.type \in Results
     /\ s.current = ExpectedStatusForResult(e.type)
     /\ ValidResultStatus(e.type, e.status)

Open(o) == sagas[o] # NoSaga /\ sagas[o].current \notin Terminal

\* The saga is a token: while it is open exactly one command or result of the
\* order waits to be handled, and it fits the step; before and after there is
\* none.  A lost, doubled or stray event would break it (dispatchNext,
\* alreadyProcessed, and the workers' answers).
OneInFlight ==
  \A o \in Orders :
    IF Open(o) THEN \E e \in InFlight(o) : /\ InFlight(o) = {e}
                                           /\ Fits(sagas[o], e)
               ELSE InFlight(o) = {}

\* Only a second ORDER_CREATED for a known order is ever dead-lettered: no
\* command or result is rejected, however often and late it is delivered.
OnlyDuplicateCreationsDeadLettered ==
  \A e \in dlq : e.type = "ORDER_CREATED" /\ sagas[e.order] # NoSaga

\* handleResult never ends in assertTransition's or nextCommand's error, which
\* is not ErrNonRetryable: the consumer would exit and meet the same message
\* again after every restart.
NoPoisonMessage ==
  \A e \in bus :
    LET current == sagas[e.order].current
    IN  Accepts(e) =>
          /\ Advances(e) => /\ CanTransitionTo(current, e.status)
                            /\ NextCommand(e.status) # ""
          /\ Compensates(e) => CanTransitionTo(current, "PAYMENT_REFUND_PENDING")
          /\ Completes(e) => CanTransitionTo(current, "NOTIFIED")
          /\ Fails(e) => CanTransitionTo(current, "FAILED")
          /\ Retries(e) => NextCommand(current) # ""

Announced(o) == {e \in outbox : e.order = o /\ e.type \in Announcements}

\* A finished saga has appended exactly one terminal event, of the kind its
\* state says, and an unfinished one none: state and outbox cannot disagree
\* about the outcome, whatever was redelivered (fail, complete).
OneOutcomePerOrder ==
  \A o \in Orders :
    CASE sagas[o].current = "COMPLETED" ->
           \E e \in Announced(o) : /\ Announced(o) = {e}
                                   /\ e.type = "ORDER_COMPLETED"
      [] sagas[o].current = "FAILED" ->
           \E e \in Announced(o) : /\ Announced(o) = {e}
                                   /\ e.type = "ORDER_FAILED"
      [] OTHER -> Announced(o) = {}

\* RetryCount counts: an open step has sent one command more than it counted
\* retries, and no step of any order ever sends more than MaxRetries + 1
\* (retry, and the resets of RetryCount between steps).
RetryCountIsHonest ==
  \A o \in Orders :
    LET Sent(type) == Cardinality({e \in outbox : e.order = o /\ e.type = type})
    IN  /\ \A type \in Commands : Sent(type) <= MaxRetries + 1
        /\ Open(o) => Sent(NextCommand(sagas[o].current)) = sagas[o].retryCount + 1

\* A gateway does the same thing twice for one order only if a process was
\* lost between the gateway's success and the commit: retries and redeliveries
\* alone never repeat an effect.
RepeatedEffectsNeedACrash ==
  \A o \in Orders, k \in EffectKinds : effects[o][k] <= 1 + crashes

\* The outcome and the money agree.  A completed order was charged for the
\* transaction it records, reserved, and never refunded.  Money is only ever
\* returned to an order that is failing, and an ORDER_FAILED that reports a
\* refund is telling the truth.
OutcomeMatchesEffects ==
  \A o \in Orders :
    /\ sagas[o].current \in {"INVENTORY_RESERVED", "COMPLETED"} =>
         /\ sagas[o].tx \in 1..effects[o]["charge"]
         /\ effects[o]["reservation"] > 0
    /\ effects[o]["refund"] > 0 =>
         /\ sagas[o].current \in {"PAYMENT_REFUND_PENDING", "FAILED"}
         /\ sagas[o].tx \in 1..effects[o]["charge"]
    /\ \A e \in Announced(o) :
         e.note = "payment_refunded" => effects[o]["refund"] > 0

Known == outbox \cup bus

\* An event id is used once: ids of known events and of journal rows were
\* handed out before, so that a fresh one is new to every consumer.
IdsWereIssued ==
  /\ \A e \in Known : e.id[1] = e.order /\ e.id[2] < nextId[e.order]
  /\ \A r \in journal : r[1][2] < nextId[r[1][1]]
IdsAreUnique == \A e, f \in Known : e.id = f.id => e = f

\* Only an ORDER_CREATED can be known of an order that has no saga.
EventsHaveSagas ==
  \A e \in Known : e.type # "ORDER_CREATED" => sagas[e.order] # NoSaga

\* The workers never meet a command they must reject.
CommandsAreValid ==
  /\ \A e \in Known : e.type \in Commands =>
       /\ e.status = CommandStatus(e.type)
       /\ e.type = "PAYMENT_COMPENSATE" => e.tx # 0
  /\ \A o \in Orders :
       sagas[o].current = "PAYMENT_REFUND_PENDING" => sagas[o].tx # 0

\* The inductive invariant: OneInFlight with what its preservation needs of
\* event ids, and what keeps the handlers out of their error returns.
SagaInv == /\ TypeOK
           /\ IdsWereIssued
           /\ IdsAreUnique
           /\ EventsHaveSagas
           /\ CommandsAreValid
           /\ OneInFlight
           /\ OneOutcomePerOrder
           /\ OnlyDuplicateCreationsDeadLettered

\* Once a saga is terminal its row never changes again and no gateway is
\* called for the order any more, in spite of redeliveries.
TerminalIsFinal ==
  [][\A o \in Orders :
       sagas[o].current \in Terminal =>
         sagas'[o] = sagas[o] /\ effects'[o] = effects[o]]_vars

\* Every order that was created ends: a terminal event of it reaches the bus.
EveryOrderIsDecided ==
  \A o \in Orders :
    (\E e \in bus : e.order = o) ~>
      (\E e \in bus : e.order = o /\ e.type \in Announcements)

\* Every creation is answered for: it started the saga, or it is in the DLQ.
EveryCreationIsAccountedFor ==
  \A o \in Orders :
    []<>(\A e \in bus : e.order = o /\ e.type = "ORDER_CREATED" =>
           e \in dlq \/ Processed(e))
-----------------------------------------------------------------------------
(* The abstract specification and the refinement mapping.                  *)

\* The stage of an order is read off its saga row.
Stage(current) == CASE current = ""          -> "unknown"
                    [] current = "COMPLETED" -> "completed"
                    [] current = "FAILED"    -> "failed"
                    [] OTHER                 -> "open"

\* What a terminal event announces.
OutcomeOf(type) == IF type = "ORDER_COMPLETED" THEN "completed" ELSE "failed"

Lifecycle == INSTANCE OrderLifecycle WITH
  stage <- [o \in Orders |-> Stage(sagas[o].current)],
  announced <- {<<e.order, OutcomeOf(e.type)>> :
                  e \in {f \in bus : f.type \in Announcements}}

\* Seen from outside, every execution opens an order at most once, decides it
\* exactly once and announces just that decision, and the services' fairness
\* is enough for every open order to be decided and announced.
ImplementsLifecycle == Lifecycle!FairSpec
-----------------------------------------------------------------------------
(* A promise of the documentation that the code does not keep.             *)

\* README.md:571: a saga with an approved payment that fails is closed only
\* after the PAYMENT_COMPENSATE_RESULT.
FailedAfterCompensation ==
  \A o \in Orders :
    sagas[o].current = "FAILED" /\ sagas[o].tx # 0 =>
      \E e \in outbox : /\ e.order = o
                        /\ e.type = "PAYMENT_COMPENSATE_RESULT"
                        /\ Processed(e)
=============================================================================
