--------------------------- MODULE ResultTransaction ---------------------------
(***************************************************************************)
(* The saga of OrderSaga with the orchestrator's transactions taken apart  *)
(* into the statements that two of them can get between, as PostgreSQL     *)
(* runs them under READ COMMITTED: StartOrder and handleResult ask the     *)
(* journal (Has), read the saga row without a lock (Load), append the      *)
(* received event (ON CONFLICT DO NOTHING), decide on the copy they read,  *)
(* upsert the saga row and commit.  The other services are those of        *)
(* OrderSaga, a step each, without their crashes.                          *)
(*                                                                         *)
(* The events of an order in one topic are in one partition.  While one    *)
(* process is at such an event a rebalance may give the partition to       *)
(* another process, which gets the same event, or a later one, or an       *)
(* earlier one; such a delivery is counted in overlaps.                    *)
(***************************************************************************)
EXTENDS OrderSaga

CONSTANTS
  Processes,     \* orchestrator goroutines, of one or several processes
  MaxTransients, \* bound: RETRYING results
  MaxOverlaps    \* bound: deliveries while another process is at the partition

ASSUME TransactionBoundsAssumption ==
  MaxTransients \in Nat /\ MaxOverlaps \in Nat

VARIABLES
  txn,        \* process -> the transaction it is in
  overlaps

txnVars == <<txn, overlaps>>
allVars == <<vars, txn, overlaps>>

NoEvent == [type |-> ""]
Idle == [at |-> "idle", event |-> NoEvent, saga |-> NoSaga]
Places == {"idle", "has", "load", "append", "decide"}

TransactionInit == /\ Init
                   /\ txn = [p \in Processes |-> Idle]
                   /\ overlaps = 0

TopicForEventType(type) ==
  CASE type \in {"PAYMENT_RESULT", "PAYMENT_COMPENSATE_RESULT"}
                                      -> "orders.payment.result"
    [] type = "INVENTORY_RESULT"      -> "orders.inventory.result"
    [] type = "NOTIFICATION_RESULT"   -> "orders.notification.result"
    [] OTHER                          -> "orders.created"

\* Another process is at an event of the same partition.
Overlaps(p, e) ==
  \E q \in Processes \ {p} :
    /\ txn[q].at # "idle"
    /\ txn[q].event.order = e.order
    /\ TopicForEventType(txn[q].event.type) = TopicForEventType(e.type)

\* A row that a transaction inserts is locked until it ends.
Free(p, e) == \A q \in Processes \ {p} :
                txn[q].at = "decide" => txn[q].event # e

\* p goes on with its transaction, or ends it.
GoTo(p, place) == txn' = [txn EXCEPT ![p].at = place]
Leave(p) == txn' = [txn EXCEPT ![p] = Idle]
-----------------------------------------------------------------------------
\* A redelivery that finds its event in the journal reads and leaves: it is
\* left out, so that it does not even count as an overlap.  So is a second
\* delivery of a dead-lettered event.
Wanted(e) == ~ AlreadyProcessed(e.id, "orchestrator") /\ e \notin dlq

Deliver(p, e) ==
  /\ txn[p].at = "idle"
  /\ Consumer(e.type) = "orchestrator"
  /\ Wanted(e)
  /\ IF Overlaps(p, e) THEN overlaps < MaxOverlaps /\ overlaps' = overlaps + 1
                       ELSE UNCHANGED overlaps
  /\ txn' = [txn EXCEPT ![p].event = e,
                        ![p].at = IF e.type = "ORDER_CREATED" THEN "has" ELSE "load"]
  /\ UNCHANGED vars

\* Has sees committed rows only.  startOrder asks it before it loads the saga,
\* handleResult after.
Has(p) ==
  LET e == txn[p].event
  IN  /\ txn[p].at = "has"
      /\ IF AlreadyProcessed(e.id, "orchestrator") THEN Leave(p)
         ELSE GoTo(p, IF e.type = "ORDER_CREATED" THEN "load" ELSE "append")
      /\ UNCHANGED <<vars, overlaps>>

\* An unknown saga of a result, a known one of a creation: see Reject.
Load(p) ==
  LET e == txn[p].event
  IN  /\ txn[p].at = "load"
      /\ e.type = "ORDER_CREATED" <=> sagas[e.order] = NoSaga
      /\ txn' = [txn EXCEPT ![p].saga = sagas[e.order],
                            ![p].at = IF e.type = "ORDER_CREATED" THEN "append"
                                                                  ELSE "has"]
      /\ UNCHANGED <<vars, overlaps>>

\* Mutation of AppendIn: the journal's repository is not bound to the
\* transaction, so that the row is committed on its own.
AppendInAtOnce(p) ==
  /\ txn[p].at = "append"
  /\ journal' = journal \cup {<<txn[p].event.id, "orchestrator", "IN">>}
  /\ GoTo(p, "decide")
  /\ UNCHANGED <<sagas, outbox, bus, dlq, nextId, effects, crashes, overlaps>>

\* Mutation of AppendIn: there is no UNIQUE constraint to wait for.
AppendInUnchecked(p) ==
  /\ txn[p].at = "append"
  /\ GoTo(p, "decide")
  /\ UNCHANGED <<vars, overlaps>>

\* The insertion waits for a transaction that has the same row uncommitted; if
\* that one commits, nothing is inserted and no error is raised.
AppendIn(p) ==
  /\ txn[p].at = "append"
  /\ Free(p, txn[p].event)
  /\ GoTo(p, "decide")
  /\ UNCHANGED <<vars, overlaps>>

\* What handleResult looks at from here on is the copy it loaded, not the row.
Copy(s) == INSTANCE OrderSaga WITH sagas <- [o \in Orders |-> s], journal <- {}

\* handleResult's checks of the loaded saga; a creation has none.
Accepted(s, e) == \/ e.type = "ORDER_CREATED"
                  \/ e.type \in Results /\ Copy(s)!Accepts(e)

\* The decision, and all that it writes, becomes visible.
Decide(e, s) ==
  \/ /\ e.type = "ORDER_CREATED"
     /\ DispatchNext(e, [s EXCEPT !.current = "PENDING"])
  \/ /\ e.type \in Results
     /\ \/ /\ Copy(s)!Retries(e)
           /\ DispatchNext(e, [s EXCEPT !.retryCount = @ + 1])
        \/ /\ Advances(e)
           /\ CanTransitionTo(s.current, e.status)
           /\ DispatchNext(e, Advanced(s, e))
        \/ /\ Copy(s)!Compensates(e)
           /\ CanTransitionTo(s.current, "PAYMENT_REFUND_PENDING")
           /\ DispatchNext(e, MovedTo(s, "PAYMENT_REFUND_PENDING"))
        \/ /\ Copy(s)!Fails(e)
           /\ CanTransitionTo(s.current, "FAILED")
           /\ Commit(e, MovedTo(s, "FAILED"),
                     NewEvent(e.order, "ORDER_FAILED", "FAILED", 0, FailureNote(e)))
        \/ /\ Copy(s)!Completes(e)
           /\ CanTransitionTo(s.current, "NOTIFIED")
           /\ Commit(e, MovedTo(MovedTo(s, "NOTIFIED"), "COMPLETED"),
                     NewEvent(e.order, "ORDER_COMPLETED", "COMPLETED", 0,
                              IF e.status = "NOTIFIED" THEN ""
                                                       ELSE "notification_error"))

\* From its first Save to its commit a transaction holds the lock of the saga
\* row.  Another one only waits for it, at its own first Save: the saves and the
\* commit are one step.
CommitTx(p) ==
  /\ txn[p].at = "decide"
  /\ Accepted(txn[p].saga, txn[p].event)
  /\ Decide(txn[p].event, txn[p].saga)
  /\ Leave(p)
  /\ UNCHANGED overlaps

\* ErrNonRetryable: all is rolled back, the message goes to the DLQ.
Reject(p) ==
  LET e == txn[p].event
  IN  /\ \/ txn[p].at = "load" /\ (e.type = "ORDER_CREATED" <=> sagas[e.order] # NoSaga)
         \/ txn[p].at = "decide" /\ ~ Accepted(txn[p].saga, e)
      /\ dlq' = dlq \cup {e}
      /\ Leave(p)
      /\ UNCHANGED <<sagas, journal, outbox, bus, nextId, effects, crashes>>
      /\ UNCHANGED overlaps

\* An error of a statement, or the end of the process.
Rollback(p) ==
  /\ txn[p].at # "idle"
  /\ Leave(p)
  /\ UNCHANGED <<vars, overlaps>>
-----------------------------------------------------------------------------
Statement(p) == \/ Has(p) \/ Load(p) \/ AppendIn(p) \/ CommitTx(p)
                \/ Reject(p)

Others == \/ \E o \in Orders : CreateOrder(o)
          \/ OutboxRelay
          \/ PaymentWorker
          \/ InventoryWorker
          \/ NotificationWorker

TransactionNext ==
  \/ /\ Others
     /\ Cardinality({e \in outbox' : e.status = "RETRYING"}) <= MaxTransients
     /\ UNCHANGED txnVars
  \/ \E p \in Processes : \/ \E e \in bus : Deliver(p, e)
                          \/ Statement(p)
                          \/ Rollback(p)

TransactionSpec == TransactionInit /\ [][TransactionNext]_allVars
-----------------------------------------------------------------------------
\* Every transaction is where it can be with the locks it can have, and no row
\* is locked by two.
TransactionTypeOK ==
  /\ TypeOK
  /\ overlaps \in 0..MaxOverlaps
  /\ \A p \in Processes :
       /\ txn[p].at \in Places
       /\ txn[p] = Idle \/ txn[p].event \in bus
       /\ txn[p].at = "decide" => Free(p, txn[p].event)

\* What OrderSaga takes for granted: as long as no process handled an event of
\* a partition while another one was at it, every transaction has the effect of
\* one step of OrderSaga at its commit, although the saga it decides on was
\* read earlier, without a lock.
AtomicWithoutOverlap == [][overlaps' = 0 => Next \/ UNCHANGED vars]_allVars

\* An overlap may fork the saga or turn it back, but not strand it: an open
\* saga always has a command or a result on its way, not dead-lettered, that
\* fits the step the row is at.
OpenSagasHaveAToken ==
  \A o \in Orders :
    Open(o) => \E e \in InFlight(o) \ dlq : Fits(sagas[o], e)

\* Only an overlap forks a saga: without as many of them there are not as many
\* commands and results on their way, nor as many effects of a gateway.
ForksNeedAnOverlap ==
  \A o \in Orders :
    /\ Cardinality(InFlight(o) \ dlq) <= 1 + overlaps
    /\ \A k \in EffectKinds : effects[o][k] <= 1 + overlaps
=============================================================================
