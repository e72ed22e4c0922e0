------------------------ MODULE ResultTransactionProofs ------------------------
(***************************************************************************)
(* Theorems of ResultTransaction for any set of orders and processes, any  *)
(* retry limit, and any number of overlaps.                                *)
(***************************************************************************)
EXTENDS ResultTransaction, OrderSagaProofs

\* What a process remembers of its transaction.
Memory == [at : Places, event : bus \cup {NoEvent}, saga : SagaRow]

\* A transaction holds a copy of the row it is going to decide on.
Loaded(t) == \/ t.at \in {"append", "decide"}
             \/ t.at = "has" /\ t.event.type # "ORDER_CREATED"

\* What is true of a transaction whatever the others do.
Proper(t) ==
  /\ t.at = "idle" => t = Idle
  /\ t.at # "idle" => t.event \in bus /\ Consumer(t.event.type) = "orchestrator"
  /\ t.saga.current = "PAYMENT_REFUND_PENDING" => t.saga.tx # 0
  /\ Loaded(t) /\ t.event.type = "ORDER_CREATED" => t.saga = NoSaga

\* Transactions have their types, and no two inserted the same row.
TxnInv ==
  /\ txn \in [Processes -> Memory]
  /\ overlaps \in 0..MaxOverlaps
  /\ \A p \in Processes : /\ Proper(txn[p])
                          /\ txn[p].at = "decide" => Free(p, txn[p].event)

\* e is on its way, fits the row, and nobody is going to decide on it by a copy
\* that is not the row.
Token(o, e) ==
  /\ e \in InFlight(o) \ dlq
  /\ Fits(sagas[o], e)
  /\ \A p \in Processes :
       Loaded(txn[p]) /\ txn[p].event = e => txn[p].saga = sagas[o]

TokenInv == \A o \in Orders : Open(o) => \E e \in InFlight(o) : Token(o, e)

\* What holds of the saga's tables whatever the overlaps.
TablesInv == TypeOK /\ CommandsAreValid /\ IdsWereIssued /\ IdsAreUnique

\* Two transactions are at different partitions.
Apart(t, u) ==
  t.at # "idle" /\ u.at # "idle" =>
    \/ t.event.order # u.event.order
    \/ TopicForEventType(t.event.type) # TopicForEventType(u.event.type)

\* Without an overlap nobody else is at the partition, the event is new, and
\* the copy is the row.
Undisturbed(p) ==
  /\ \A q \in Processes \ {p} : Apart(txn[p], txn[q])
  /\ txn[p].at # "idle" => ~ AlreadyProcessed(txn[p].event.id, "orchestrator")
  /\ Loaded(txn[p]) => txn[p].saga = sagas[txn[p].event.order]

CleanInv == SagaInv /\ \A p \in Processes : Undisturbed(p)

\* The inductive invariant.
TransactionInv == TablesInv /\ TxnInv /\ TokenInv /\ (overlaps = 0 => CleanInv)
-----------------------------------------------------------------------------
(* Counting forks.  A thread of an order is a command or result on its way   *)
(* that no process is at, a process that can still commit, or the creation   *)
(* that is still to come.                                                    *)

\* The commands that may follow a command of this type, itself included.
From(type) == CASE type = "PAYMENT_COMMAND"   -> Commands
                [] type = "INVENTORY_COMMAND" -> Commands \ {"PAYMENT_COMMAND"}
                [] OTHER                      -> {type}

\* A command and its effect, or "" for any.
Goals == Commands \cup {""}

\* The gateway may still be asked for x in consequence of e.
AheadOf(e, x) ==
  \/ x = ""
  \/ e.type = "ORDER_CREATED"
  \/ \E c \in Commands :
       /\ x \in From(c)
       /\ \/ e.type = c
          \/ e.type = ResultOf(c) /\ (x # c \/ e.status = "RETRYING")

At(p, e) == txn[p].at # "idle" /\ txn[p].event = e
AtCreation(p, o) == /\ txn[p].at # "idle"
                    /\ txn[p].event.type = "ORDER_CREATED"
                    /\ txn[p].event.order = o

\* p can commit something of order o that leads to x: a creation only if it
\* found no saga, or will not find one.
CanCommit(p, o, x) ==
  /\ txn[p].at # "idle"
  /\ txn[p].event.order = o
  /\ AheadOf(txn[p].event, x)
  /\ txn[p].event.type = "ORDER_CREATED" => Loaded(txn[p]) \/ sagas[o] = NoSaga

Waiting(o, x) == {e \in InFlight(o) \ dlq :
                    AheadOf(e, x) /\ \A p \in Processes : ~ At(p, e)}
AtWork(o, x) == {p \in Processes : CanCommit(p, o, x)}
ToCome(o) == IF sagas[o] = NoSaga /\ \A p \in Processes : ~ AtCreation(p, o)
             THEN 1 ELSE 0

\* How often the effect of command x was brought about.
Performances(o, x) == IF x = "" THEN 0 ELSE effects[o][EffectOf(x)]

\* Effects and the threads that lead to another one are paid for by overlaps.
Paid(o, x) ==
  /\ IsFiniteSet(Waiting(o, x)) /\ IsFiniteSet(AtWork(o, x))
  /\ Performances(o, x) + Cardinality(Waiting(o, x)) + Cardinality(AtWork(o, x))
       + ToCome(o) <= 1 + overlaps

ForkInv == /\ \A e \in dlq : e.type \notin Commands
           /\ \A o \in Orders, x \in Goals : Paid(o, x)
-----------------------------------------------------------------------------
(* Decisions.                                                              *)

\* What the orchestrator consumes (topicForEventType).
LEMMA OrchestratorEvents ==
  ASSUME NEW e, e.type \in EventType, Consumer(e.type) = "orchestrator"
  PROVE  e.type \in {"ORDER_CREATED"} \cup Results
  BY DEF Consumer, EventType, Commands, Announcements

\* handleResult's checks, asked of a copy.
LEMMA CopyAccepts ==
  ASSUME NEW s, NEW e, e.order \in Orders
  PROVE  Copy(s)!Accepts(e) <=>
           /\ e \in bus /\ Consumer(e.type) # "" /\ e.type \in Results
           /\ s.current = ExpectedStatusForResult(e.type)
           /\ ValidResultStatus(e.type, e.status)
<1>1. Copy(s)!Consumer(e.type) = Consumer(e.type)
  BY DEF Copy!Consumer, Consumer, Copy!Results, Results
<1>2. Copy(s)!ExpectedStatusForResult(e.type) = ExpectedStatusForResult(e.type)
  BY DEF Copy!ExpectedStatusForResult, ExpectedStatusForResult
<1>3. Copy(s)!ValidResultStatus(e.type, e.status) <=> ValidResultStatus(e.type, e.status)
  BY DEF Copy!ValidResultStatus, ValidResultStatus, Copy!SuccessStatus, SuccessStatus
<1>4. Copy(s)!Results = Results
  BY DEF Copy!Results, Results
<1> QED BY <1>1, <1>2, <1>3, <1>4
        DEF Copy!Accepts, Copy!Delivers, Copy!AlreadyProcessed

\* handleResult's choice is the same for a copy that is the row.
LEMMA CopyChooses ==
  ASSUME NEW s, NEW e, e.order \in Orders, s = sagas[e.order]
  PROVE  /\ Copy(s)!Retries(e) <=> Retries(e)
         /\ Copy(s)!Completes(e) <=> Completes(e)
         /\ Copy(s)!Compensates(e) <=> Compensates(e)
         /\ Copy(s)!Fails(e) <=> Fails(e)
<1>1. Copy(s)!Exhausted(e) <=> Exhausted(e)
  BY DEF Copy!Exhausted, Exhausted
<1>2. Copy(s)!Completes(e) <=> Completes(e)
  BY <1>1 DEF Copy!Completes, Completes
<1>3. Copy(s)!Compensates(e) <=> Compensates(e)
  BY DEF Copy!Compensates, Compensates
<1>4. Copy(s)!Fails(e) <=> Fails(e)
  BY <1>1, <1>2, <1>3 DEF Copy!Fails, Fails
<1> QED BY <1>1, <1>2, <1>3, <1>4 DEF Copy!Retries, Retries

\* dispatchNext commits a row and a command that fit each other.
LEMMA DispatchCommits ==
  ASSUME TypeOK, NEW e \in bus, NEW s \in SagaRow, DispatchNext(e, s),
         s.current \in SagaStatus,
         s.current = "PAYMENT_REFUND_PENDING" => s.tx # 0
  PROVE  \E r \in SagaRow, out \in Event :
           Commits(e, r, out) /\ out.type = NextCommand(s.current)
<1>1. PICK r \in SagaRow, out \in Event :
        /\ Commit(e, r, out)
        /\ r.current \in SagaStatus \ Terminal
        /\ r.current = "PAYMENT_REFUND_PENDING" => r.tx # 0
        /\ r.current = TargetStatus(s.current)
        /\ r.tx = s.tx /\ r.retryCount = s.retryCount
        /\ out.id = <<e.order, nextId[e.order]>>
        /\ out.order = e.order
        /\ out.type \in Commands
        /\ Fits(r, out)
        /\ out.type = "PAYMENT_COMPENSATE" => out.tx # 0
  BY DispatchFits
<1>2. out.type = NextCommand(r.current)
  BY <1>1 DEF Fits, Commands, Results
<1>3. NextCommand(TargetStatus(s.current)) = NextCommand(s.current)
  BY DEF NextCommand, TargetStatus
<1> QED BY <1>1, <1>2, <1>3 DEF Commits

\* And so do fail and complete, with a terminal row and its announcement.
LEMMA AnnouncementCommits ==
  ASSUME TypeOK, NEW e \in bus, NEW r \in SagaRow,
         NEW type \in Announcements, NEW status \in Terminal, NEW note \in Notes,
         \/ type = "ORDER_COMPLETED" /\ status = "COMPLETED"
         \/ type = "ORDER_FAILED" /\ status = "FAILED",
         r.current = status,
         Commit(e, r, NewEvent(e.order, type, status, 0, note))
  PROVE  \E out \in Event : Commits(e, r, out) /\ out.type \in Announcements
<1> DEFINE out == NewEvent(e.order, type, status, 0, note)
<1>1. /\ out \in Event /\ out.order = e.order /\ out.type = type
      /\ out.id = <<e.order, nextId[e.order]>>
  BY AnnouncementTyped
<1>2. r.current \in SagaStatus /\ r.current # "PAYMENT_REFUND_PENDING"
  BY DEF SagaStatus
<1>3. Commit(e, r, out)
  OBVIOUS
<1> HIDE DEF out
<1> QED BY <1>1, <1>2, <1>3 DEF Commits

\* The commands of the steps that a result can be accepted at, and what follows
\* them (nextCommand, advance, retry, startCompensation).
LEMMA Continues ==
  ASSUME NEW e, NEW out, out.type \in Commands, NEW x \in Goals, AheadOf(out, x),
         \/ e.type = "ORDER_CREATED"
         \/ /\ e.type \in Results /\ e.status = "RETRYING"
            /\ out.type = NextCommand(ExpectedStatusForResult(e.type))
         \/ e.type = "PAYMENT_RESULT" /\ out.type = "INVENTORY_COMMAND"
         \/ e.type = "INVENTORY_RESULT" /\ out.type = "NOTIFICATION_COMMAND"
         \/ e.type = "INVENTORY_RESULT" /\ out.type = "PAYMENT_COMPENSATE"
  PROVE  AheadOf(e, x)
<1>1. x = "" \/ x \in From(out.type)
  BY DEF AheadOf, Commands, ResultOf
<1>2. CASE e.type = "ORDER_CREATED" \/ x = ""
  BY <1>2 DEF AheadOf
<1>3. CASE x # "" /\ e.type \in Results /\ e.status = "RETRYING"
             /\ out.type = NextCommand(ExpectedStatusForResult(e.type))
  <2>1. e.type = ResultOf(out.type)
    BY <1>3 DEF Results, ResultOf, NextCommand, ExpectedStatusForResult
  <2> QED BY <1>1, <1>3, <2>1 DEF AheadOf
<1>4. CASE x # "" /\ e.type = "PAYMENT_RESULT" /\ out.type = "INVENTORY_COMMAND"
  <2>1. x \in From("PAYMENT_COMMAND") /\ x # "PAYMENT_COMMAND"
    BY <1>1, <1>4 DEF From, Commands
  <2> QED BY <1>4, <2>1 DEF AheadOf, ResultOf, Commands
<1>5. CASE /\ x # "" /\ e.type = "INVENTORY_RESULT"
           /\ out.type \in {"NOTIFICATION_COMMAND", "PAYMENT_COMPENSATE"}
  <2>1. x \in From("INVENTORY_COMMAND") /\ x # "INVENTORY_COMMAND"
    BY <1>1, <1>5 DEF From, Commands
  <2> QED BY <1>5, <2>1 DEF AheadOf, ResultOf, Commands
<1> QED BY <1>2, <1>3, <1>4, <1>5

\* Whatever copy the decision is made on, it commits a row and one event that
\* fit each other, and that leads to nothing that the received one did not lead
\* to (startOrder, handleResult).
LEMMA DecisionCommits ==
  ASSUME TypeOK, NEW e \in bus, NEW s \in SagaRow,
         s.current = "PAYMENT_REFUND_PENDING" => s.tx # 0,
         Accepted(s, e), Decide(e, s)
  PROVE  \E r \in SagaRow, out \in Event :
           /\ Commits(e, r, out)
           /\ out.type \in Commands =>
                \A x \in Goals : AheadOf(out, x) => AheadOf(e, x)
<1>1. e \in Event /\ e.order \in Orders /\ e.tx \in Nat /\ MaxRetries \in Nat
  BY MaxRetriesAssumption DEF TypeOK, Event
<1>2. [o \in Orders |-> s][e.order] = s
  BY <1>1
<1>3. CASE e.type = "ORDER_CREATED" /\ DispatchNext(e, [s EXCEPT !.current = "PENDING"])
  <2>1. /\ [s EXCEPT !.current = "PENDING"] \in SagaRow
        /\ [s EXCEPT !.current = "PENDING"].current = "PENDING"
        /\ "PENDING" \in SagaStatus
    BY DEF SagaRow, SagaStatus
  <2>2. PICK r \in SagaRow, out \in Event : Commits(e, r, out)
    BY <1>3, <2>1, DispatchCommits
  <2> QED BY <1>3, <2>2, Continues
<1>4. ASSUME e.type \in Results
      PROVE  /\ s.current \in {"PAYMENT_PENDING", "PAYMENT_APPROVED",
                               "PAYMENT_REFUND_PENDING", "INVENTORY_RESERVED"}
             /\ s.current = ExpectedStatusForResult(e.type)
             /\ ValidResultStatus(e.type, e.status)
  <2>1. Copy(s)!Accepts(e)
    BY <1>4 DEF Accepted, Results
  <2>2. /\ s.current = ExpectedStatusForResult(e.type)
        /\ ValidResultStatus(e.type, e.status)
    BY <1>1, <2>1, CopyAccepts
  <2> QED BY <1>4, <2>2 DEF Results, ExpectedStatusForResult
<1>5. CASE /\ e.type \in Results /\ Copy(s)!Retries(e)
           /\ DispatchNext(e, [s EXCEPT !.retryCount = @ + 1])
  <2> DEFINE t == [s EXCEPT !.retryCount = @ + 1]
  <2>1. ~ (s.retryCount + 1 > MaxRetries)
    BY <1>2, <1>5 DEF Copy!Retries, Copy!Exhausted
  <2>2. s.retryCount + 1 \in 0..MaxRetries
    <3>1. s.retryCount \in 0..MaxRetries
      BY DEF SagaRow
    <3> QED BY <1>1, <2>1, <3>1
  <2>3. t \in SagaRow /\ t.current = s.current /\ t.tx = s.tx
    BY <2>2 DEF SagaRow
  <2>4. t.current \in SagaStatus
    BY <1>4, <1>5, <2>3 DEF SagaStatus
  <2>5. DispatchNext(e, t)
    BY <1>5
  <2> HIDE DEF t
  <2>6. PICK r \in SagaRow, out \in Event :
          Commits(e, r, out) /\ out.type = NextCommand(s.current)
    BY <2>3, <2>4, <2>5, DispatchCommits
  <2>7. e.status = "RETRYING" /\ s.current = ExpectedStatusForResult(e.type)
    BY <1>4, <1>5 DEF Copy!Retries
  <2> QED BY <1>5, <2>6, <2>7, Continues
<1>6. CASE e.type \in Results /\ Advances(e) /\ DispatchNext(e, Advanced(s, e))
  <2>1. e.status \in SagaStatus /\ e.status # "PAYMENT_REFUND_PENDING"
    BY <1>6 DEF Advances, SagaStatus
  <2>2. 0 \in 0..MaxRetries
    BY <1>1
  <2>3. /\ Advanced(s, e) \in SagaRow
        /\ Advanced(s, e).current = e.status
    BY <1>1, <2>1, <2>2 DEF Advanced, SagaRow
  <2>4. PICK r \in SagaRow, out \in Event :
          Commits(e, r, out) /\ out.type = NextCommand(e.status)
    BY <1>6, <2>1, <2>3, DispatchCommits
  <2>5. \/ e.type = "PAYMENT_RESULT" /\ e.status = "PAYMENT_APPROVED"
        \/ e.type = "INVENTORY_RESULT" /\ e.status = "INVENTORY_RESERVED"
    BY <1>4, <1>6 DEF Advances, ValidResultStatus, SuccessStatus, Results
  <2>6. \/ e.type = "PAYMENT_RESULT" /\ out.type = "INVENTORY_COMMAND"
        \/ e.type = "INVENTORY_RESULT" /\ out.type = "NOTIFICATION_COMMAND"
    BY <2>4, <2>5 DEF NextCommand
  <2> QED BY <2>4, <2>6, Continues
<1>7. CASE /\ e.type \in Results /\ Copy(s)!Compensates(e)
           /\ DispatchNext(e, MovedTo(s, "PAYMENT_REFUND_PENDING"))
  <2>1. s.tx # 0
    BY <1>2, <1>7 DEF Copy!Compensates
  <2>2. "PAYMENT_REFUND_PENDING" \in SagaStatus
    BY DEF SagaStatus
  <2>3. /\ MovedTo(s, "PAYMENT_REFUND_PENDING") \in SagaRow
        /\ MovedTo(s, "PAYMENT_REFUND_PENDING").current = "PAYMENT_REFUND_PENDING"
        /\ MovedTo(s, "PAYMENT_REFUND_PENDING").tx = s.tx
    BY <1>1, <2>2, MovedToTyped
  <2>4. PICK r \in SagaRow, out \in Event :
          Commits(e, r, out) /\ out.type = NextCommand("PAYMENT_REFUND_PENDING")
    BY <1>7, <2>1, <2>2, <2>3, DispatchCommits
  <2>5. e.type = "INVENTORY_RESULT" /\ out.type = "PAYMENT_COMPENSATE"
    BY <1>7, <2>4 DEF Copy!Compensates, NextCommand
  <2> QED BY <2>4, <2>5, Continues
<1>8. CASE Commit(e, MovedTo(s, "FAILED"),
                  NewEvent(e.order, "ORDER_FAILED", "FAILED", 0, FailureNote(e)))
  <2>1. "FAILED" \in SagaStatus /\ FailureNote(e) \in Notes
    BY DEF SagaStatus, FailureNote, Notes
  <2>2. MovedTo(s, "FAILED") \in SagaRow /\ MovedTo(s, "FAILED").current = "FAILED"
    BY <1>1, <2>1, MovedToTyped
  <2>3. "FAILED" \in Terminal /\ "ORDER_FAILED" \in Announcements
    BY DEF Terminal, Announcements
  <2>4. \A type \in Announcements : type \notin Commands
    BY DEF Commands, Announcements
  <2> QED BY <1>8, <2>1, <2>2, <2>3, <2>4, AnnouncementCommits
<1>9. CASE Commit(e, MovedTo(MovedTo(s, "NOTIFIED"), "COMPLETED"),
                  NewEvent(e.order, "ORDER_COMPLETED", "COMPLETED", 0,
                           IF e.status = "NOTIFIED" THEN "" ELSE "notification_error"))
  <2> DEFINE r == MovedTo(MovedTo(s, "NOTIFIED"), "COMPLETED")
             note == IF e.status = "NOTIFIED" THEN "" ELSE "notification_error"
  <2>1. "NOTIFIED" \in SagaStatus /\ "COMPLETED" \in SagaStatus /\ note \in Notes
    BY DEF SagaStatus, Notes
  <2>2. MovedTo(s, "NOTIFIED") \in SagaRow
    BY <1>1, <2>1, MovedToTyped
  <2>3. r \in SagaRow /\ r.current = "COMPLETED"
    BY <1>1, <2>1, <2>2, MovedToTyped
  <2>4. Commit(e, r, NewEvent(e.order, "ORDER_COMPLETED", "COMPLETED", 0, note))
    BY <1>9
  <2>5. "COMPLETED" \in Terminal /\ "ORDER_COMPLETED" \in Announcements
    BY DEF Terminal, Announcements
  <2> HIDE DEF r, note
  <2>6. \A type \in Announcements : type \notin Commands
    BY DEF Commands, Announcements
  <2> QED BY <2>1, <2>3, <2>4, <2>5, <2>6, AnnouncementCommits
<1> QED BY <1>3, <1>5, <1>6, <1>7, <1>8, <1>9 DEF Decide
-----------------------------------------------------------------------------
(* The tables.                                                             *)

\* What a handler sends was not known before.
LEMMA FreshEvent ==
  ASSUME TypeOK, IdsWereIssued, NEW e, NEW out, Handled(e, out)
  PROVE  /\ out \notin Known
         /\ \A f \in Known : f.id # out.id
<1>1. e.order \in Orders /\ out.id = <<e.order, nextId[e.order]>>
  BY DEF Handled, Event
<1>2. ASSUME NEW f \in Known PROVE f.id # out.id
  <2>1. f.id[1] = f.order /\ f.id[2] < nextId[f.order] /\ f.id[2] \in Nat
    BY KnownTyped DEF IdsWereIssued
  <2>2. nextId[e.order] \in Nat
    BY <1>1 DEF TypeOK
  <2> QED BY <1>1, <2>1, <2>2
<1> QED BY <1>2

\* A commit of the orchestrator writes one row, sends one event, and keeps the
\* tables in order.
LEMMA CommitKeepsTables ==
  ASSUME TablesInv, NEW e \in bus, NEW r \in SagaRow, NEW out \in Event,
         Commits(e, r, out), e.type \in {"ORDER_CREATED"} \cup Results
  PROVE  /\ TablesInv'
         /\ Handled(e, out)
         /\ e.order \in Orders
         /\ sagas'[e.order] = r
         /\ \A o \in Orders \ {e.order} : sagas'[o] = sagas[o]
         /\ UNCHANGED <<bus, dlq, effects, crashes>>
<1>1. TypeOK /\ CommandsAreValid /\ IdsWereIssued /\ IdsAreUnique
  BY DEF TablesInv
<1>2. Handled(e, out) /\ e \in Event /\ e.order \in Orders
  BY <1>1, CommitHandles DEF Handled, Event
<1>3. /\ sagas \in [Orders -> SagaRow]
      /\ sagas' = [sagas EXCEPT ![e.order] = r]
      /\ UNCHANGED <<bus, dlq, effects, crashes>>
      /\ Known' = Known \cup {out}
  BY <1>1 DEF TypeOK, SagaRow, Commits, Commit, Known
<1>4. /\ sagas'[e.order] = r
      /\ \A o \in Orders \ {e.order} : sagas'[o] = sagas[o]
  BY <1>2, <1>3
<1>5. TypeOK'
  <2>1. sagas' \in [Orders -> SagaRow]
    BY <1>2, <1>3
  <2>2. /\ journal' \subseteq EventId \X Components \X Directions
        /\ outbox' \subseteq Event /\ bus' \subseteq Event
        /\ nextId' \in [Orders -> Nat]
    BY <1>1, <1>2, HandledTyped
  <2> QED BY <1>1, <1>3, <2>1, <2>2 DEF TypeOK, SagaRow
<1>6. IdsWereIssued' /\ IdsAreUnique'
  BY <1>1, <1>2, IdsKept
<1>7. CommandsAreValid'
  <2>1. ASSUME out.type \in Commands
        PROVE  /\ out.status = CommandStatus(out.type)
               /\ out.type = "PAYMENT_COMPENSATE" => out.tx # 0
    <3>1. /\ out.type \notin {"ORDER_COMPLETED", "ORDER_FAILED"}
          /\ out.type \notin Results
      BY <2>1 DEF Commands, Results
    <3>2. Fits(r, out) /\ (out.type = "PAYMENT_COMPENSATE" => out.tx # 0)
      BY <3>1 DEF Commits
    <3> QED BY <3>1, <3>2 DEF Fits
  <2>2. r.current = "PAYMENT_REFUND_PENDING" => r.tx # 0
    BY DEF Commits
  <2> QED BY <1>1, <1>3, <1>4, <2>1, <2>2 DEF CommandsAreValid
<1> QED BY <1>2, <1>3, <1>4, <1>5, <1>6, <1>7 DEF TablesInv

\* The ways the coordinator, the relay and the workers move.
LEMMA OtherSteps ==
  ASSUME TypeOK, Others
  PROVE  \/ \/ \E o \in Orders : CreateOrder(o)
            \/ \E e \in outbox : Relay(e)
         \/ \E e \in bus, status \in OrderStatus, tx \in Nat : WorkerStep(e, status, tx)
  BY WorkerSteps DEF Others, OutboxRelay

\* They keep the tables in order, too, and the rows as they are.
LEMMA OthersKeepTables ==
  ASSUME TablesInv, Others
  PROVE  TablesInv' /\ sagas' = sagas /\ dlq' = dlq /\ bus \subseteq bus'
<1>1. TypeOK /\ CommandsAreValid /\ IdsWereIssued /\ IdsAreUnique
  BY DEF TablesInv
<1>2. TypeOK'
  BY <1>1, TypeKept DEF Others, Next
<1>3. CASE (\E o \in Orders : CreateOrder(o)) \/ (\E e \in outbox : Relay(e))
  <2>1. /\ UNCHANGED <<sagas, journal, outbox>>
        /\ Known \subseteq Known'
        /\ \A f \in Known' \ Known : f.type = "ORDER_CREATED"
    BY <1>1, <1>3, QuietSteps
  <2>2. "ORDER_CREATED" \notin Commands
    BY DEF Commands
  <2>3. CommandsAreValid'
    BY <1>1, <2>1, <2>2 DEF CommandsAreValid
  <2>4. dlq' = dlq /\ bus \subseteq bus'
    BY <1>3 DEF CreateOrder, Relay
  <2>5. IdsWereIssued' /\ IdsAreUnique'
    <3>1. CASE \E o \in Orders : CreateOrder(o)
      BY <1>1, <3>1, IdsKept
    <3>2. CASE \E e \in outbox : Relay(e)
      <4>1. Known' = Known /\ UNCHANGED <<journal, nextId>>
        BY <3>2 DEF Relay, Known
      <4> QED BY <1>1, <4>1 DEF IdsWereIssued, IdsAreUnique
    <3> QED BY <1>3, <3>1, <3>2
  <2> QED BY <1>2, <2>1, <2>3, <2>4, <2>5 DEF TablesInv
<1>4. ASSUME NEW e \in bus, NEW status \in OrderStatus, NEW tx \in Nat,
             WorkerStep(e, status, tx)
      PROVE  TablesInv' /\ sagas' = sagas /\ dlq' = dlq /\ bus \subseteq bus'
  <2>1. PICK out \in Event :
          /\ Handled(e, out) /\ out.type \in Results
          /\ UNCHANGED <<sagas, bus, dlq, crashes>>
          /\ outbox' = outbox \cup {out}
    BY <1>1, <1>4, WorkerRows
  <2>2. e \in Event /\ Known' = Known \cup {out} /\ out.type \notin Commands
    BY <2>1 DEF Handled, Known, Commands, Results
  <2>3. IdsWereIssued' /\ IdsAreUnique'
    BY <1>1, <2>1, <2>2, IdsKept
  <2>4. CommandsAreValid'
    BY <1>1, <2>1, <2>2 DEF CommandsAreValid
  <2> QED BY <1>2, <2>1, <2>3, <2>4 DEF TablesInv
<1> QED BY <1>1, <1>3, <1>4, OtherSteps
-----------------------------------------------------------------------------
(* The transactions.                                                       *)

\* A step of p that leaves it in transaction t.
Turns(p, t) == txn' = [txn EXCEPT ![p] = t]

\* It changes p's transaction only.
LEMMA TurnsOne ==
  ASSUME TxnInv, NEW p \in Processes, NEW t, Turns(p, t)
  PROVE  txn'[p] = t /\ \A q \in Processes \ {p} : txn'[q] = txn[q]
  BY DEF TxnInv, Turns

\* A transaction that is proper, and the only one with its row, keeps TxnInv.
LEMMA TurnKeepsTxn ==
  ASSUME TxnInv, NEW p \in Processes, NEW t, Turns(p, t),
         t.at \in Places, t.event \in bus \cup {NoEvent}, t.saga \in SagaRow,
         t = [at |-> t.at, event |-> t.event, saga |-> t.saga],
         Proper(t), t.at = "decide" => Free(p, t.event),
         bus' = bus, overlaps' \in 0..MaxOverlaps
  PROVE  TxnInv'
<1>1. txn'[p] = t /\ \A q \in Processes \ {p} : txn'[q] = txn[q]
  BY TurnsOne
<1>2. t \in Memory
  BY DEF Memory
<1>3. txn' \in [Processes -> Memory']
  BY <1>2 DEF TxnInv, Turns, Memory
<1>4. \A q \in Processes : Proper(txn[q])'
  <2>1. \A q \in Processes : Proper(txn'[q])
    BY <1>1 DEF TxnInv
  <2> QED BY <2>1 DEF Proper, Loaded
<1>5. ASSUME NEW q \in Processes, txn'[q].at = "decide" PROVE Free(q, txn[q].event)'
  BY <1>1, <1>5 DEF TxnInv, Free
<1> QED BY <1>3, <1>4, <1>5 DEF TxnInv

\* What the invariant says of a transaction that is under way.
LEMMA TransactionFacts ==
  ASSUME TypeOK, TxnInv, NEW p \in Processes
  PROVE  /\ txn[p] \in Memory /\ Proper(txn[p])
         /\ txn[p] = [at |-> txn[p].at, event |-> txn[p].event, saga |-> txn[p].saga]
         /\ txn[p].at # "idle" =>
              /\ txn[p].event \in bus /\ txn[p].event \in Known
              /\ txn[p].event \in Event /\ txn[p].event.order \in Orders
              /\ txn[p].event.type \in {"ORDER_CREATED"} \cup Results
<1>1. txn[p] \in Memory /\ Proper(txn[p])
  BY DEF TxnInv
<1>2. ASSUME txn[p].at # "idle"
      PROVE  /\ txn[p].event \in bus /\ txn[p].event \in Known
             /\ txn[p].event \in Event /\ txn[p].event.order \in Orders
             /\ txn[p].event.type \in {"ORDER_CREATED"} \cup Results
  <2>1. txn[p].event \in bus /\ Consumer(txn[p].event.type) = "orchestrator"
    BY <1>1, <1>2 DEF Proper
  <2>2. /\ txn[p].event \in Event /\ txn[p].event.order \in Orders
        /\ txn[p].event.type \in EventType /\ txn[p].event \in Known
    BY <2>1 DEF TypeOK, Event, Known
  <2> QED BY <2>1, <2>2, OrchestratorEvents
<1>3. txn[p] = [at |-> txn[p].at, event |-> txn[p].event, saga |-> txn[p].saga]
  BY <1>1 DEF Memory
<1> QED BY <1>1, <1>2, <1>3

\* Being idle is a proper transaction.
LEMMA IdleFacts ==
  /\ Idle.at = "idle" /\ Idle.event = NoEvent /\ Idle.saga = NoSaga
  /\ Idle = [at |-> Idle.at, event |-> Idle.event, saga |-> Idle.saga]
  /\ Idle.at \in Places /\ NoSaga \in SagaRow
  /\ Proper(Idle) /\ ~ Loaded(Idle)
<1>1. /\ Idle.at = "idle" /\ Idle.event = NoEvent /\ Idle.saga = NoSaga
      /\ Idle = [at |-> Idle.at, event |-> Idle.event, saga |-> Idle.saga]
      /\ Idle.at \in Places
  BY DEF Idle, Places
<1>2. NoSaga.current = ""
  BY DEF NoSaga
<1>3. NoSaga \in SagaRow
  BY MaxRetriesAssumption DEF NoSaga, SagaRow
<1>4. ~ Loaded(Idle)
  BY <1>1 DEF Loaded
<1> QED BY <1>1, <1>2, <1>3, <1>4 DEF Proper

\* A process that ends its transaction is out of everybody's way.
LEMMA LeaveKeepsTxn ==
  ASSUME TxnInv, NEW p \in Processes, Leave(p), bus' = bus, overlaps' = overlaps
  PROVE  Turns(p, Idle) /\ TxnInv'
<1>1. Turns(p, Idle) /\ overlaps' \in 0..MaxOverlaps
  BY DEF Leave, Turns, TxnInv
<1> QED BY <1>1, IdleFacts, TurnKeepsTxn

\* Transactions are written field by field.
LEMMA MemoryUpdates ==
  ASSUME NEW m, m = [at |-> m.at, event |-> m.event, saga |-> m.saga], NEW a
  PROVE  /\ [m EXCEPT !.at = a] = [at |-> a, event |-> m.event, saga |-> m.saga]
         /\ \A e : [m EXCEPT !.event = e, !.at = a]
                     = [at |-> a, event |-> e, saga |-> m.saga]
         /\ \A s : [m EXCEPT !.saga = s, !.at = a]
                     = [at |-> a, event |-> m.event, saga |-> s]
<1>1. ASSUME NEW e
      PROVE  [m EXCEPT !.event = e, !.at = a] = [at |-> a, event |-> e, saga |-> m.saga]
  <2> DEFINE r == [at |-> m.at, event |-> e, saga |-> m.saga]
  <2>1. [m EXCEPT !.event = e] = r
    OBVIOUS
  <2>2. [r EXCEPT !.at = a] = [at |-> a, event |-> e, saga |-> m.saga]
    OBVIOUS
  <2> QED BY <2>1, <2>2
<1>2. ASSUME NEW s
      PROVE  [m EXCEPT !.saga = s, !.at = a] = [at |-> a, event |-> m.event, saga |-> s]
  <2> DEFINE r == [at |-> m.at, event |-> m.event, saga |-> s]
  <2>1. [m EXCEPT !.saga = s] = r
    OBVIOUS
  <2>2. [r EXCEPT !.at = a] = [at |-> a, event |-> m.event, saga |-> s]
    OBVIOUS
  <2> QED BY <2>1, <2>2
<1>3. [m EXCEPT !.at = a] = [at |-> a, event |-> m.event, saga |-> m.saga]
  OBVIOUS
<1> QED BY <1>1, <1>2, <1>3

\* What a step that writes neither rows nor journal does to p's transaction: a
\* copy is fresh or the one that p had, an event is the one that p was at or one
\* that is wanted, and another process is at it only if that is counted.
Reads(p, t) ==
  /\ UNCHANGED <<sagas, journal>>
  /\ Turns(p, t)
  /\ overlaps' \in {overlaps, overlaps + 1}
  /\ Loaded(t) => \/ t.saga = sagas[t.event.order]
                  \/ /\ Loaded(txn[p])
                     /\ t.saga = txn[p].saga /\ t.event = txn[p].event
  /\ t.at # "idle" => \/ txn[p].at # "idle" /\ t.event = txn[p].event
                      \/ /\ txn[p].at = "idle" /\ Wanted(t.event)
                         /\ overlaps' = overlaps => ~ Overlaps(p, t.event)

\* A delivery (Consumer.Start, another process after a rebalance).
LEMMA DeliverReads ==
  ASSUME TypeOK, TxnInv, NEW p \in Processes, NEW e \in bus, Deliver(p, e)
  PROVE  TxnInv' /\ \E t : Reads(p, t)
<1>0. PICK t : t = [at |-> IF e.type = "ORDER_CREATED" THEN "has" ELSE "load",
                    event |-> e, saga |-> txn[p].saga]
  OBVIOUS
<1>1. /\ txn[p] \in Memory /\ Proper(txn[p]) /\ txn[p].at = "idle" /\ p \in DOMAIN txn
      /\ txn[p] = [at |-> txn[p].at, event |-> txn[p].event, saga |-> txn[p].saga]
  BY TransactionFacts DEF Deliver, TxnInv
<1>2. txn[p].saga = NoSaga
  BY <1>1 DEF Proper, Idle
<1>3. /\ UNCHANGED vars
      /\ \/ Overlaps(p, e) /\ overlaps < MaxOverlaps /\ overlaps' = overlaps + 1
         \/ ~ Overlaps(p, e) /\ overlaps' = overlaps
      /\ Wanted(e) /\ Consumer(e.type) = "orchestrator"
      /\ txn' = [txn EXCEPT ![p].event = e,
                            ![p].at = IF e.type = "ORDER_CREATED" THEN "has" ELSE "load"]
  BY DEF Deliver
<1>4. Turns(p, t)
  <2> DEFINE place == IF e.type = "ORDER_CREATED" THEN "has" ELSE "load"
  <2>1. [txn[p] EXCEPT !.event = e, !.at = place] = t
    BY <1>0, <1>1, MemoryUpdates
  <2> QED BY <1>1, <1>3, <2>1 DEF Turns
<1>5. /\ ~ Loaded(t) /\ t.at \in Places /\ t.at \notin {"idle", "decide"}
      /\ t.event = e /\ t.saga = NoSaga
      /\ t = [at |-> t.at, event |-> t.event, saga |-> t.saga]
  BY <1>0, <1>2 DEF Loaded, Places
<1>6. /\ overlaps' \in 0..MaxOverlaps /\ overlaps' \in {overlaps, overlaps + 1}
      /\ overlaps' = overlaps => ~ Overlaps(p, e)
  <2>1. overlaps \in 0..MaxOverlaps /\ MaxOverlaps \in Nat
    BY TransactionBoundsAssumption DEF TxnInv
  <2> QED BY <1>3, <2>1
<1>7. Proper(t)
  BY <1>2, <1>3, <1>5, IdleFacts DEF Proper, NoSaga
<1>8. TxnInv'
  <2>1. bus' = bus
    BY <1>3 DEF vars
  <2>2. t.event \in bus \cup {NoEvent} /\ t.saga \in SagaRow
    BY <1>5, IdleFacts
  <2> QED BY <1>4, <1>5, <1>6, <1>7, <2>1, <2>2, TurnKeepsTxn
<1>9. Reads(p, t)
  <2>1. Wanted(t.event) /\ (overlaps' = overlaps => ~ Overlaps(p, t.event))
    BY <1>3, <1>5, <1>6
  <2> QED BY <1>1, <1>3, <1>4, <1>5, <1>6, <2>1 DEF Reads, vars
<1> QED BY <1>8, <1>9

\* Going on with the copy and the event it has.
LEMMA GoToReads ==
  ASSUME TypeOK, TxnInv, NEW p \in Processes, NEW place \in Places \ {"idle"},
         GoTo(p, place), UNCHANGED <<vars, overlaps>>, txn[p].at # "idle",
         place \in {"append", "decide"} => Loaded(txn[p]),
         place # "has",
         place = "decide" => Free(p, txn[p].event)
  PROVE  TxnInv' /\ \E t : Reads(p, t)
<1> DEFINE t == [at |-> place, event |-> txn[p].event, saga |-> txn[p].saga]
<1>1. /\ txn[p] \in Memory /\ Proper(txn[p]) /\ p \in DOMAIN txn
      /\ txn[p] = [at |-> txn[p].at, event |-> txn[p].event, saga |-> txn[p].saga]
  BY TransactionFacts DEF TxnInv
<1>2. Turns(p, t)
  <2>1. [txn[p] EXCEPT !.at = place] = t
    BY <1>1, MemoryUpdates
  <2> QED BY <1>1, <2>1 DEF GoTo, Turns
<1>3. Loaded(t) => Loaded(txn[p])
  BY DEF Loaded
<1>4. Proper(t)
  BY <1>1, <1>3 DEF Proper
<1>5. /\ t.event \in bus \cup {NoEvent} /\ t.saga \in SagaRow /\ bus' = bus
      /\ overlaps' \in 0..MaxOverlaps /\ overlaps' = overlaps
  BY <1>1 DEF Memory, vars, TxnInv
<1>6. TxnInv'
  BY <1>2, <1>4, <1>5, TurnKeepsTxn
<1>7. Reads(p, t)
  BY <1>2, <1>3 DEF Reads, vars
<1> QED BY <1>6, <1>7

\* Leaving, without having written anything.
LEMMA LeaveReads ==
  ASSUME TypeOK, TxnInv, NEW p \in Processes, Leave(p), UNCHANGED <<vars, overlaps>>
  PROVE  TxnInv' /\ \E t : Reads(p, t)
<1>1. TxnInv' /\ Turns(p, Idle)
  BY LeaveKeepsTxn DEF vars
<1>2. Reads(p, Idle)
  BY <1>1, IdleFacts DEF Reads, vars
<1> QED BY <1>1, <1>2

\* EventLog.Has.
LEMMA HasReads ==
  ASSUME TypeOK, TxnInv, NEW p \in Processes, Has(p)
  PROVE  TxnInv' /\ \E t : Reads(p, t)
<1> DEFINE place == IF txn[p].event.type = "ORDER_CREATED" THEN "load" ELSE "append"
<1>1. UNCHANGED <<vars, overlaps>> /\ txn[p].at = "has"
  BY DEF Has
<1>2. CASE Leave(p)
  BY <1>1, <1>2, LeaveReads
<1>3. CASE GoTo(p, place)
  <2>1. place \in Places \ {"idle"} /\ place \notin {"has", "decide"}
    BY DEF Places
  <2>2. place = "append" => Loaded(txn[p])
    BY <1>1 DEF Loaded
  <2> HIDE DEF place
  <2> QED BY <1>1, <1>3, <2>1, <2>2, GoToReads
<1> QED BY <1>2, <1>3 DEF Has

\* SagaRepository.Load.
LEMMA LoadReads ==
  ASSUME TypeOK, CommandsAreValid, TxnInv, NEW p \in Processes, Load(p)
  PROVE  TxnInv' /\ \E t : Reads(p, t)
<1>0. PICK e, t :
        /\ e = txn[p].event
        /\ t = [at |-> IF e.type = "ORDER_CREATED" THEN "append" ELSE "has",
                event |-> e, saga |-> sagas[e.order]]
  OBVIOUS
<1>1. /\ txn[p] \in Memory /\ Proper(txn[p]) /\ txn[p].at = "load" /\ p \in DOMAIN txn
      /\ txn[p] = [at |-> txn[p].at, event |-> txn[p].event, saga |-> txn[p].saga]
  BY TransactionFacts DEF Load, TxnInv
<1>2. e \in bus /\ Consumer(e.type) = "orchestrator" /\ e.order \in Orders
  BY <1>0, <1>1, TransactionFacts DEF Proper
<1>3. /\ UNCHANGED <<vars, overlaps>>
      /\ e.type = "ORDER_CREATED" <=> sagas[e.order] = NoSaga
      /\ txn' = [txn EXCEPT ![p].saga = sagas[e.order],
                            ![p].at = IF e.type = "ORDER_CREATED" THEN "append"
                                                                  ELSE "has"]
  BY <1>0 DEF Load
<1>4. Turns(p, t)
  <2> DEFINE place == IF e.type = "ORDER_CREATED" THEN "append" ELSE "has"
  <2>1. [txn[p] EXCEPT !.saga = sagas[e.order], !.at = place]
          = [at |-> place, event |-> e, saga |-> sagas[e.order]]
    <3> HIDE DEF place
    <3> DEFINE m == txn[p]
               row == sagas[e.order]
    <3>1. m = [at |-> m.at, event |-> m.event, saga |-> m.saga]
      BY <1>1
    <3> HIDE DEF m, row
    <3>2. \A s : [m EXCEPT !.saga = s, !.at = place]
                  = [at |-> place, event |-> m.event, saga |-> s]
      BY <3>1, MemoryUpdates, Zenon
    <3>3. [m EXCEPT !.saga = row, !.at = place]
            = [at |-> place, event |-> m.event, saga |-> row]
      BY <3>2, Zenon
    <3> QED BY <1>0, <3>3 DEF m, row
  <2>2. t = [at |-> place, event |-> e, saga |-> sagas[e.order]]
    BY <1>0
  <2> QED BY <1>1, <1>3, <2>1, <2>2 DEF Turns
<1>5. sagas[e.order] \in SagaRow
      /\ (sagas[e.order].current = "PAYMENT_REFUND_PENDING" => sagas[e.order].tx # 0)
  BY <1>2 DEF TypeOK, SagaRow, CommandsAreValid
<1>6. /\ t.at \in Places /\ t.at \notin {"idle", "decide"}
      /\ t.event = e /\ t.saga = sagas[e.order]
      /\ t = [at |-> t.at, event |-> t.event, saga |-> t.saga]
  BY <1>0 DEF Places
<1>7. Proper(t)
  BY <1>2, <1>3, <1>5, <1>6 DEF Proper
<1>8. bus' = bus /\ overlaps' = overlaps /\ overlaps' \in 0..MaxOverlaps
  BY <1>3 DEF vars, TxnInv
<1>9. TxnInv'
  BY <1>2, <1>4, <1>5, <1>6, <1>7, <1>8, TurnKeepsTxn
<1>10. Reads(p, t)
  BY <1>0, <1>1, <1>3, <1>4, <1>6 DEF Reads, vars
<1> QED BY <1>9, <1>10

\* The ways a process goes on without writing a table.
LEMMA QuietStatements ==
  ASSUME TablesInv, TxnInv, NEW p \in Processes,
         \/ \E e \in bus : Deliver(p, e)
         \/ Has(p) \/ Load(p) \/ AppendIn(p) \/ Rollback(p)
  PROVE  TxnInv' /\ UNCHANGED vars /\ \E t : Reads(p, t)
<1>1. TypeOK /\ CommandsAreValid
  BY DEF TablesInv
<1>0. UNCHANGED vars
  BY DEF Deliver, Has, Load, AppendIn, Rollback
<1>2. CASE \E e \in bus : Deliver(p, e)
  BY <1>0, <1>1, <1>2, DeliverReads
<1>3. CASE Has(p)
  BY <1>0, <1>1, <1>3, HasReads
<1>4. CASE Load(p)
  BY <1>0, <1>1, <1>4, LoadReads
<1>5. CASE AppendIn(p)
  <2>1. /\ txn[p].at = "append" /\ Free(p, txn[p].event) /\ GoTo(p, "decide")
        /\ UNCHANGED <<vars, overlaps>>
    BY <1>5 DEF AppendIn
  <2>2. Loaded(txn[p]) /\ "decide" \in Places \ {"idle"}
    BY <2>1 DEF Loaded, Places
  <2> QED BY <1>0, <1>1, <2>1, <2>2, GoToReads
<1>6. CASE Rollback(p)
  BY <1>0, <1>1, <1>6, LeaveReads DEF Rollback
<1> QED BY <1>2, <1>3, <1>4, <1>5, <1>6
-----------------------------------------------------------------------------
(* The token.                                                              *)

\* Reading and leaving loses no token: a copy is of the row.
LEMMA ReadsKeepTokens ==
  ASSUME TxnInv, TokenInv, NEW p \in Processes, NEW t, Reads(p, t), UNCHANGED vars
  PROVE  TokenInv'
<1>1. /\ sagas' = sagas /\ dlq' = dlq /\ journal' = journal
      /\ Known' = Known
  BY DEF vars, Known
<1>2. /\ txn'[p] = t /\ \A q \in Processes \ {p} : txn'[q] = txn[q]
      /\ Loaded(t) => \/ t.saga = sagas[t.event.order]
                      \/ /\ Loaded(txn[p])
                         /\ t.saga = txn[p].saga /\ t.event = txn[p].event
  BY TurnsOne DEF Reads
<1>3. ASSUME NEW o \in Orders, NEW e \in InFlight(o), Token(o, e) PROVE Token(o, e)'
  <2>1. e \in InFlight(o)' \ dlq' /\ e.order = o
    BY <1>1, <1>3, InFlightUndisturbed DEF Token, InFlight
  <2>2. \A q \in Processes :
          Loaded(txn'[q]) /\ txn'[q].event = e => txn'[q].saga = sagas'[o]
    BY <1>1, <1>2, <1>3, <2>1 DEF Token
  <2>3. Fits(sagas[o], e)'
    BY <1>1, <1>3 DEF Token
  <2> QED BY <2>1, <2>2, <2>3 DEF Token, Loaded
<1>4. \A o \in Orders : InFlight(o)' = InFlight(o) /\ (Open(o)' <=> Open(o))
  BY <1>1, InFlightUndisturbed DEF Open
<1> QED BY <1>3, <1>4 DEF TokenInv

\* An event that was not known before is on nobody's mind.
LEMMA FreshIsNobodys ==
  ASSUME TypeOK, TxnInv, NEW f, f \notin Known
  PROVE  /\ f \notin dlq
         /\ \A q \in Processes : Loaded(txn[q]) => txn[q].event # f
<1>1. f \notin bus /\ f \notin dlq
  BY DEF Known, TypeOK
<1>2. ASSUME NEW q \in Processes, Loaded(txn[q]) PROVE txn[q].event # f
  <2>1. txn[q].at # "idle" /\ Proper(txn[q])
    BY <1>2 DEF Loaded, TxnInv
  <2> QED BY <1>1, <2>1 DEF Proper
<1> QED BY <1>1, <1>2

\* The other services hand the token on.
LEMMA OthersKeepTokens ==
  ASSUME TablesInv, TxnInv, TokenInv, Others, txn' = txn
  PROVE  TokenInv'
<1>1. TypeOK /\ CommandsAreValid /\ IdsWereIssued /\ IdsAreUnique
  BY DEF TablesInv
<1>2. sagas' = sagas /\ dlq' = dlq /\ \A o \in Orders : Open(o)' <=> Open(o)
  BY OthersKeepTables DEF Open
<1>3. ASSUME NEW o \in Orders, NEW e, Token(o, e), e \in InFlight(o)'
      PROVE  Token(o, e)'
  BY <1>2, <1>3 DEF Token, Loaded, Fits
<1>4. CASE (\E o \in Orders : CreateOrder(o)) \/ (\E e \in outbox : Relay(e))
  <2>1. /\ UNCHANGED <<sagas, journal, outbox>>
        /\ Known \subseteq Known'
        /\ \A f \in Known' \ Known : f.type = "ORDER_CREATED"
    BY <1>1, <1>4, QuietSteps
  <2>2. "ORDER_CREATED" \notin Commands \cup Results
    BY DEF Commands, Results
  <2>3. \A o \in Orders : InFlight(o)' = InFlight(o)
    BY <2>1, <2>2, InFlightUndisturbed
  <2> QED BY <1>2, <1>3, <2>3 DEF TokenInv
<1>5. ASSUME NEW e \in bus, NEW status \in OrderStatus, NEW tx \in Nat,
             WorkerStep(e, status, tx)
      PROVE  TokenInv'
  <2>1. PICK out \in Event :
          /\ Handled(e, out) /\ out.type = ResultOf(e.type) /\ out.type \in Results
          /\ out.status = status
    BY <1>1, <1>5, WorkerRows
  <2>2. /\ \A o \in Orders \ {e.order} : InFlight(o)' = InFlight(o)
        /\ InFlight(e.order)' = (InFlight(e.order) \ {e}) \cup {out}
    BY <1>1, <2>1, InFlightAfterHandling
  <2>3. ASSUME NEW o \in Orders, NEW f, Token(o, f), f # e
        PROVE  Token(o, f)'
    BY <1>3, <2>2, <2>3 DEF Token
  <2>4. ASSUME NEW o \in Orders, Token(o, e) PROVE Token(o, out)'
    <3>1. o = e.order /\ Fits(sagas[o], e) /\ sagas[o] \in SagaRow
      BY <1>1, <2>4 DEF Token, InFlight, TypeOK, SagaRow
    <3>2. e.type \in Commands /\ ValidResultStatus(out.type, out.status)
      BY <1>5, <2>1 DEF WorkerStep
    <3>3. Fits(sagas[o], out)
      BY <2>1, <3>1, <3>2, ResultFits
    <3>4. out \notin Known
      BY <1>1, <2>1, FreshEvent
    <3>5. out \notin dlq' /\ \A q \in Processes : Loaded(txn[q]) => txn[q].event # out
      BY <1>1, <1>2, <3>4, FreshIsNobodys
    <3>6. Fits(sagas[o], out)'
      BY <1>2, <3>3 DEF Fits
    <3>7. \A q \in Processes : ~ (Loaded(txn'[q]) /\ txn'[q].event = out)
      BY <3>5
    <3> QED BY <2>2, <3>1, <3>5, <3>6, <3>7 DEF Token, Loaded
  <2> QED BY <1>2, <2>3, <2>4 DEF TokenInv, Token
<1> QED BY <1>1, <1>4, <1>5, OtherSteps

\* A commit of the orchestrator makes a new token, or closes the saga.
LEMMA CommitKeepsTokens ==
  ASSUME TablesInv, TxnInv, TokenInv, NEW p \in Processes, Leave(p),
         NEW e \in bus, NEW r \in SagaRow, NEW out \in Event, Commits(e, r, out),
         e.type \in {"ORDER_CREATED"} \cup Results
  PROVE  TokenInv'
<1>1. TypeOK /\ IdsWereIssued /\ IdsAreUnique
  BY DEF TablesInv
<1>2. /\ Handled(e, out) /\ e.order \in Orders /\ sagas'[e.order] = r
      /\ \A o \in Orders \ {e.order} : sagas'[o] = sagas[o]
      /\ dlq' = dlq
  BY CommitKeepsTables
<1>3. /\ txn'[p] = Idle /\ \A q \in Processes \ {p} : txn'[q] = txn[q]
      /\ ~ Loaded(Idle)
  BY TurnsOne, IdleFacts DEF Leave, Turns
<1>4. /\ \A o \in Orders \ {e.order} : InFlight(o)' = InFlight(o)
      /\ InFlight(e.order)' =
           (InFlight(e.order) \ {e}) \cup {f \in {out} : f.type \in Commands \cup Results}
  BY <1>1, <1>2, InFlightAfterHandling
<1>5. ASSUME NEW o \in Orders \ {e.order}, NEW f, Token(o, f) PROVE Token(o, f)'
  <2>1. f \in InFlight(o)' \ dlq'
    BY <1>2, <1>4, <1>5 DEF Token
  <2>2. Fits(sagas[o], f)'
    BY <1>2, <1>5 DEF Token, Fits
  <2>3. \A q \in Processes :
          Loaded(txn'[q]) /\ txn'[q].event = f => txn'[q].saga = sagas'[o]
    BY <1>2, <1>3, <1>5 DEF Token
  <2> QED BY <2>1, <2>2, <2>3 DEF Token, Loaded
<1>6. ASSUME Open(e.order)' PROVE Token(e.order, out)'
  <2>1. r.current \notin Terminal
    BY <1>2, <1>6 DEF Open
  <2>2. out.type \in Commands /\ Fits(r, out)
    BY <2>1 DEF Commits, Terminal
  <2>3. out \notin dlq' /\ \A q \in Processes : Loaded(txn[q]) => txn[q].event # out
    BY <1>1, <1>2, FreshEvent, FreshIsNobodys
  <2>4. out \in InFlight(e.order)' \ dlq'
    BY <1>4, <2>2, <2>3
  <2>5. Fits(sagas[e.order], out)'
    BY <1>2, <2>2 DEF Fits
  <2>6. \A q \in Processes : ~ (Loaded(txn'[q]) /\ txn'[q].event = out)
    BY <1>3, <2>3
  <2> QED BY <2>4, <2>5, <2>6 DEF Token, Loaded
<1>7. \A o \in Orders \ {e.order} : Open(o)' <=> Open(o)
  BY <1>2 DEF Open
<1> QED BY <1>5, <1>6, <1>7 DEF TokenInv, Token

\* What is rejected is not the token.
LEMMA RejectKeepsTokens ==
  ASSUME TypeOK, TxnInv, TokenInv, NEW p \in Processes, Reject(p)
  PROVE  TokenInv'
<1> DEFINE e == txn[p].event
<1>1. /\ \/ txn[p].at = "load" /\ (e.type = "ORDER_CREATED" <=> sagas[e.order] # NoSaga)
         \/ txn[p].at = "decide" /\ ~ Accepted(txn[p].saga, e)
      /\ dlq' = dlq \cup {e}
      /\ Leave(p)
      /\ UNCHANGED <<sagas, journal, outbox, bus>>
  BY DEF Reject
<1>2. /\ txn'[p] = Idle /\ \A q \in Processes \ {p} : txn'[q] = txn[q]
      /\ ~ Loaded(Idle)
  BY <1>1, TurnsOne, IdleFacts DEF Leave, Turns
<1>3. e \in bus /\ e.order \in Orders /\ e.type \in {"ORDER_CREATED"} \cup Results
  BY <1>1, TransactionFacts
<1>4. ASSUME NEW o \in Orders, Open(o), Token(o, e) PROVE FALSE
  <2>1. o = e.order /\ e.type \in Commands \cup Results /\ Fits(sagas[o], e)
    BY <1>4 DEF Token, InFlight
  <2>2. e.type \in Results /\ e.type # "ORDER_CREATED" /\ e.type \notin Commands
    BY <1>3, <2>1 DEF Commands, Results
  <2>3. CASE txn[p].at = "load"
    BY <1>1, <1>4, <2>1, <2>2, <2>3 DEF Open
  <2>4. CASE txn[p].at = "decide" /\ ~ Accepted(txn[p].saga, e)
    <3>1. Loaded(txn[p])
      BY <2>4 DEF Loaded
    <3>2. txn[p].saga = sagas[o]
      BY <1>4, <3>1 DEF Token
    <3>3. /\ sagas[o].current = ExpectedStatusForResult(e.type)
          /\ ValidResultStatus(e.type, e.status)
      BY <2>1, <2>2 DEF Fits
    <3>4. Consumer(e.type) # ""
      BY <2>2, ConsumerOfResults
    <3>5. Copy(txn[p].saga)!Accepts(e)
      BY <1>3, <2>2, <3>2, <3>3, <3>4, CopyAccepts
    <3> QED BY <2>2, <2>4, <3>5 DEF Accepted
  <2> QED BY <1>1, <2>3, <2>4
<1> HIDE DEF e
<1>5. \A o \in Orders : InFlight(o)' = InFlight(o) /\ (Open(o)' <=> Open(o))
  BY <1>1, InFlightUndisturbed DEF Open, Known
<1>6. ASSUME NEW o \in Orders, Open(o), NEW f \in InFlight(o), Token(o, f)
      PROVE  Token(o, f)'
  <2>1. f \in InFlight(o)' \ dlq'
    BY <1>1, <1>4, <1>5, <1>6 DEF Token
  <2>2. Fits(sagas[o], f)'
    BY <1>1, <1>6 DEF Token, Fits
  <2>3. \A q \in Processes :
          Loaded(txn'[q]) /\ txn'[q].event = f => txn'[q].saga = sagas'[o]
    BY <1>1, <1>2, <1>6 DEF Token
  <2> QED BY <2>1, <2>2, <2>3 DEF Token, Loaded
<1> QED BY <1>5, <1>6 DEF TokenInv
-----------------------------------------------------------------------------
(* The invariant.                                                          *)

\* The services but the orchestrator, seen from the transactions.
LEMMA OthersKeepTxn ==
  ASSUME TablesInv, TxnInv, Others, UNCHANGED txnVars
  PROVE  TxnInv'
<1>1. bus \subseteq bus' /\ txn' = txn /\ overlaps' = overlaps
  BY OthersKeepTables DEF txnVars
<1>2. /\ txn' \in [Processes -> Memory']
      /\ overlaps' \in 0..MaxOverlaps
  BY <1>1 DEF TxnInv, Memory
<1>3. ASSUME NEW p \in Processes
      PROVE  Proper(txn[p])' /\ (txn'[p].at = "decide" => Free(p, txn[p].event)')
  <2>1. Proper(txn[p]) /\ (txn[p].at = "decide" => Free(p, txn[p].event))
    BY DEF TxnInv
  <2> QED BY <1>1, <2>1 DEF Proper, Loaded, Free
<1> QED BY <1>2, <1>3 DEF TxnInv

\* A commit of the orchestrator, with the tables it leaves.
LEMMA CommitTxKeeps ==
  ASSUME TablesInv, TxnInv, TokenInv, NEW p \in Processes, CommitTx(p)
  PROVE  /\ TablesInv' /\ TxnInv' /\ TokenInv' /\ overlaps' = overlaps
         /\ \E e \in bus, r \in SagaRow, out \in Event :
              /\ e = txn[p].event /\ Commits(e, r, out)
              /\ out.type \in Commands =>
                   \A x \in Goals : AheadOf(out, x) => AheadOf(e, x)
<1>1. /\ txn[p].at = "decide" /\ Accepted(txn[p].saga, txn[p].event)
      /\ Decide(txn[p].event, txn[p].saga)
      /\ Leave(p) /\ overlaps' = overlaps
  BY DEF CommitTx
<1>2. TypeOK
  BY DEF TablesInv
<1>3. PICK e \in bus, s \in SagaRow : e = txn[p].event /\ s = txn[p].saga
  BY <1>1, <1>2, TransactionFacts DEF Memory
<1>4. /\ e.type \in {"ORDER_CREATED"} \cup Results
      /\ s.current = "PAYMENT_REFUND_PENDING" => s.tx # 0
  BY <1>1, <1>2, <1>3, TransactionFacts DEF Proper
<1>5. Accepted(s, e) /\ Decide(e, s)
  BY <1>1, <1>3 DEF Decide, Accepted
<1>6. PICK r \in SagaRow, out \in Event :
        /\ Commits(e, r, out)
        /\ out.type \in Commands => \A x \in Goals : AheadOf(out, x) => AheadOf(e, x)
  BY <1>2, <1>4, <1>5, DecisionCommits
<1>7. TablesInv' /\ bus' = bus
  BY <1>4, <1>6, CommitKeepsTables
<1>8. TxnInv'
  BY <1>1, <1>7, LeaveKeepsTxn
<1>9. TokenInv'
  BY <1>1, <1>4, <1>6, CommitKeepsTokens
<1> QED BY <1>1, <1>3, <1>6, <1>7, <1>8, <1>9

\* A rejection leaves all but the dead letters alone.
LEMMA RejectKeeps ==
  ASSUME TablesInv, TxnInv, TokenInv, NEW p \in Processes, Reject(p)
  PROVE  TablesInv' /\ TxnInv' /\ TokenInv' /\ overlaps' = overlaps /\ Reads(p, Idle)
<1>1. /\ dlq' = dlq \cup {txn[p].event} /\ Leave(p) /\ txn[p].at # "idle"
      /\ UNCHANGED <<sagas, journal, outbox, bus, nextId, effects, crashes>>
      /\ overlaps' = overlaps
  BY DEF Reject
<1>2. TypeOK /\ CommandsAreValid /\ IdsWereIssued /\ IdsAreUnique
  BY DEF TablesInv
<1>3. txn[p].event \in bus
  BY <1>1, <1>2, TransactionFacts
<1>4. TypeOK'
  BY <1>1, <1>2, <1>3 DEF TypeOK
<1>5. CommandsAreValid' /\ IdsWereIssued' /\ IdsAreUnique'
  BY <1>1, <1>2 DEF CommandsAreValid, IdsWereIssued, IdsAreUnique, Known
<1>6. TxnInv' /\ Turns(p, Idle)
  BY <1>1, LeaveKeepsTxn
<1>7. TokenInv'
  BY <1>2, RejectKeepsTokens
<1>8. Reads(p, Idle)
  BY <1>1, <1>6, IdleFacts DEF Reads
<1> QED BY <1>1, <1>4, <1>5, <1>6, <1>7, <1>8 DEF TablesInv
-----------------------------------------------------------------------------
(* Without an overlap.                                                     *)

\* Every step is one of the other services, one that writes nothing, a commit
\* or a rejection.
LEMMA TransactionCases ==
  ASSUME TablesInv, TxnInv, TransactionNext
  PROVE  \/ Others /\ UNCHANGED txnVars
         \/ \E p \in Processes : \/ TxnInv' /\ UNCHANGED vars /\ \E t : Reads(p, t)
                                 \/ CommitTx(p)
                                 \/ Reject(p)
  BY QuietStatements DEF TransactionNext, Statement

\* A commit has the effect of a step of OrderSaga: the decision on the copy is
\* the one on the row.
LEMMA CommitTxIsAStep ==
  ASSUME TypeOK, TxnInv, NEW p \in Processes, Undisturbed(p), CommitTx(p)
  PROVE  Orchestrator
<1> DEFINE e == txn[p].event
           s == txn[p].saga
<1>1. txn[p].at = "decide" /\ Accepted(s, e) /\ Decide(e, s)
  BY DEF CommitTx
<1>2. Loaded(txn[p]) /\ Proper(txn[p])
  BY <1>1 DEF Loaded, TxnInv
<1>3. /\ e \in bus /\ e.order \in Orders /\ e.type \in {"ORDER_CREATED"} \cup Results
      /\ s = sagas[e.order] /\ ~ AlreadyProcessed(e.id, "orchestrator")
      /\ e.type = "ORDER_CREATED" => s = NoSaga
  BY <1>1, <1>2, TransactionFacts DEF Undisturbed, Proper
<1> HIDE DEF e, s
<1>4. Delivers(e)
  BY <1>3, ConsumerOfResults DEF Delivers
<1>5. CASE e.type = "ORDER_CREATED" /\ DispatchNext(e, [s EXCEPT !.current = "PENDING"])
  BY <1>3, <1>4, <1>5 DEF StartOrder, Orchestrator
<1>6. CASE e.type \in Results
  <2>1. e.type # "ORDER_CREATED"
    BY <1>6 DEF Results
  <2>2. Copy(s)!Accepts(e)
    BY <1>1, <2>1 DEF Accepted
  <2>3. Accepts(e)
    BY <1>3, <1>4, <2>2, CopyAccepts DEF Accepts
  <2>4. /\ Copy(s)!Retries(e) <=> Retries(e)
        /\ Copy(s)!Completes(e) <=> Completes(e)
        /\ Copy(s)!Compensates(e) <=> Compensates(e)
        /\ Copy(s)!Fails(e) <=> Fails(e)
    BY <1>3, CopyChooses
  <2>5. \/ Retry(e) \/ Advance(e) \/ StartCompensation(e) \/ Fail(e) \/ Complete(e)
    BY <1>1, <1>3, <2>1, <2>3, <2>4
       DEF Decide, Retry, Advance, StartCompensation, Fail, Complete
  <2> QED BY <1>3, <2>5 DEF Orchestrator
<1> QED BY <1>1, <1>5, <1>6 DEF Decide

\* And a rejection that of DeadLetter.
LEMMA RejectIsAStep ==
  ASSUME TypeOK, TxnInv, NEW p \in Processes, Undisturbed(p), Reject(p)
  PROVE  \E e \in bus : DeadLetter(e)
<1> DEFINE e == txn[p].event
           s == txn[p].saga
<1>1. /\ \/ txn[p].at = "load" /\ (e.type = "ORDER_CREATED" <=> sagas[e.order] # NoSaga)
         \/ txn[p].at = "decide" /\ ~ Accepted(s, e)
      /\ dlq' = dlq \cup {e}
      /\ UNCHANGED <<sagas, journal, outbox, bus, nextId, effects, crashes>>
  BY DEF Reject
<1>2. /\ e \in bus /\ e.order \in Orders /\ e.type \in {"ORDER_CREATED"} \cup Results
      /\ ~ AlreadyProcessed(e.id, "orchestrator")
      /\ txn[p].at = "decide" => s = sagas[e.order]
  BY <1>1, TransactionFacts DEF Undisturbed, Loaded
<1> HIDE DEF e, s
<1>3. Delivers(e) /\ Consumer(e.type) # ""
  BY <1>2, ConsumerOfResults DEF Delivers
<1>4. CASE txn[p].at = "load" /\ (e.type = "ORDER_CREATED" <=> sagas[e.order] # NoSaga)
  <2>1. NonRetryable(e)
    BY <1>2, <1>3, <1>4 DEF NonRetryable
  <2> QED BY <1>1, <1>2, <2>1 DEF DeadLetter
<1>5. CASE txn[p].at = "decide" /\ ~ Accepted(s, e)
  <2>1. e.type \in Results /\ ~ Copy(s)!Accepts(e)
    BY <1>2, <1>5 DEF Accepted
  <2>2. \/ sagas[e.order].current # ExpectedStatusForResult(e.type)
        \/ ~ ValidResultStatus(e.type, e.status)
    BY <1>2, <1>3, <1>5, <2>1, CopyAccepts
  <2>3. NonRetryable(e)
    BY <1>3, <2>1, <2>2 DEF NonRetryable
  <2> QED BY <1>1, <1>2, <2>3 DEF DeadLetter
<1> QED BY <1>1, <1>4, <1>5

\* So every step without an overlap is one of OrderSaga, or invisible there.
LEMMA CleanStep ==
  ASSUME TransactionInv, [TransactionNext]_allVars, overlaps' = 0
  PROVE  overlaps = 0 /\ [Next]_vars
<1>1. TablesInv /\ TxnInv /\ TokenInv /\ TypeOK /\ overlaps \in Nat
  BY TransactionBoundsAssumption DEF TransactionInv, TablesInv, TxnInv
<1>2. CASE UNCHANGED allVars
  BY <1>2 DEF allVars, vars
<1>3. CASE Others /\ UNCHANGED txnVars
  BY <1>3 DEF txnVars, Others, Next
<1>4. ASSUME NEW p \in Processes, UNCHANGED vars, \E t : Reads(p, t)
      PROVE  overlaps = 0
  BY <1>1, <1>4 DEF Reads
<1>5. ASSUME NEW p \in Processes, CommitTx(p) PROVE overlaps = 0 /\ [Next]_vars
  <2>1. overlaps = 0
    BY <1>5 DEF CommitTx
  <2>2. Undisturbed(p)
    BY <2>1 DEF TransactionInv, CleanInv
  <2> QED BY <1>1, <1>5, <2>1, <2>2, CommitTxIsAStep DEF Next
<1>6. ASSUME NEW p \in Processes, Reject(p) PROVE overlaps = 0 /\ [Next]_vars
  <2>1. overlaps = 0
    BY <1>6 DEF Reject
  <2>2. Undisturbed(p)
    BY <2>1 DEF TransactionInv, CleanInv
  <2> QED BY <1>1, <1>6, <2>1, <2>2, RejectIsAStep DEF Next
<1> QED BY <1>1, <1>2, <1>3, <1>4, <1>5, <1>6, TransactionCases

\* Nobody gets in the way of a process that reads, and it in nobody's.
LEMMA ReadsUndisturbed ==
  ASSUME TxnInv, \A q \in Processes : Undisturbed(q), overlaps' = overlaps,
         NEW p \in Processes, NEW t, Reads(p, t)
  PROVE  \A q \in Processes : Undisturbed(q)'
<1>1. /\ txn'[p] = t /\ \A q \in Processes \ {p} : txn'[q] = txn[q]
      /\ UNCHANGED <<sagas, journal>>
  BY TurnsOne DEF Reads
<1>2. ASSUME t.at # "idle"
      PROVE  /\ \A q \in Processes \ {p} : Apart(t, txn[q])
             /\ ~ AlreadyProcessed(t.event.id, "orchestrator")
  <2>1. CASE txn[p].at # "idle" /\ t.event = txn[p].event
    BY <2>1 DEF Undisturbed, Apart
  <2>2. CASE Wanted(t.event) /\ ~ Overlaps(p, t.event)
    BY <2>2 DEF Wanted, Overlaps, Apart
  <2> QED BY <1>2, <2>1, <2>2 DEF Reads
<1>3. Loaded(t) => t.saga = sagas[t.event.order]
  BY DEF Reads, Undisturbed
<1>4. \A q \in Processes \ {p} : Apart(t, txn[q]) /\ Apart(txn[q], t)
  BY <1>2 DEF Apart
<1>5. ASSUME NEW q \in Processes
      PROVE  /\ \A r \in Processes \ {q} : Apart(txn'[q], txn'[r])
             /\ txn'[q].at # "idle" => ~ AlreadyProcessed(txn'[q].event.id, "orchestrator")
             /\ Loaded(txn'[q]) => txn'[q].saga = sagas[txn'[q].event.order]
  <2>1. CASE q = p
    BY <1>1, <1>2, <1>3, <1>4, <2>1
  <2>2. CASE q # p
    BY <1>1, <1>4, <2>2 DEF Undisturbed
  <2> QED BY <2>1, <2>2
<1> QED BY <1>1, <1>5 DEF Undisturbed, Apart, Loaded, AlreadyProcessed

\* Nor do the other services, whose journal rows are their own.
LEMMA OthersUndisturbed ==
  ASSUME TypeOK, \A q \in Processes : Undisturbed(q), Others, UNCHANGED txnVars
  PROVE  \A q \in Processes : Undisturbed(q)'
<1>1. /\ sagas' = sagas
      /\ \A id : AlreadyProcessed(id, "orchestrator")' => AlreadyProcessed(id, "orchestrator")
  <2>1. CASE (\E o \in Orders : CreateOrder(o)) \/ (\E e \in outbox : Relay(e))
    <3>1. UNCHANGED <<sagas, journal, outbox>>
      BY <2>1, QuietSteps
    <3> QED BY <3>1 DEF AlreadyProcessed
  <2>2. ASSUME NEW e \in bus, NEW status \in OrderStatus, NEW tx \in Nat,
               WorkerStep(e, status, tx)
        PROVE  /\ sagas' = sagas
               /\ \A id : AlreadyProcessed(id, "orchestrator")'
                            => AlreadyProcessed(id, "orchestrator")
    <3>1. PICK out \in Event : Handled(e, out) /\ sagas' = sagas
      BY <2>2, WorkerRows
    <3>2. Consumer(e.type) # "orchestrator"
      BY <2>2, ResultFacts DEF WorkerStep
    <3>3. \A r \in journal' : r \in journal \/ r[2] = Consumer(e.type)
      BY <3>1 DEF Handled
    <3>4. \A id, d : <<id, "orchestrator", d>>[2] = "orchestrator"
      OBVIOUS
    <3> QED BY <3>1, <3>2, <3>3, <3>4 DEF AlreadyProcessed
  <2> QED BY <2>1, <2>2, OtherSteps
<1>2. txn' = txn
  BY DEF txnVars
<1>3. ASSUME NEW q \in Processes PROVE Undisturbed(q)'
  <2>1. Undisturbed(q)
    OBVIOUS
  <2>2. \A r \in Processes \ {q} : Apart(txn[q], txn[r])'
    BY <1>2, <2>1 DEF Undisturbed, Apart
  <2>3. txn'[q].at # "idle" => ~ AlreadyProcessed(txn[q].event.id, "orchestrator")'
    BY <1>1, <1>2, <2>1 DEF Undisturbed, AlreadyProcessed
  <2>4. Loaded(txn[q])' => txn'[q].saga = sagas'[txn'[q].event.order]
    BY <1>1, <1>2, <2>1 DEF Undisturbed, Loaded
  <2> QED BY <2>2, <2>3, <2>4 DEF Undisturbed
<1> QED BY <1>3

\* An order's unhandled events for the orchestrator are of different partitions
\* only if one is a creation that knows the saga.
LEMMA OneAtATime ==
  ASSUME TypeOK, OneInFlight,
         NEW e \in bus, NEW f \in bus, e.order = f.order,
         ~ AlreadyProcessed(e.id, "orchestrator"),
         ~ AlreadyProcessed(f.id, "orchestrator"),
         e.type \in {"ORDER_CREATED"} \cup Results,
         f.type \in {"ORDER_CREATED"} \cup Results,
         e.type = "ORDER_CREATED" => sagas[e.order] = NoSaga,
         f.type = "ORDER_CREATED" => sagas[f.order] = NoSaga
  PROVE  TopicForEventType(e.type) = TopicForEventType(f.type)
<1>1. e.order \in Orders
  BY DEF TypeOK, Event
<1>2. ASSUME NEW g \in {e, f}, g.type \in Results PROVE g \in InFlight(e.order)
  <2>1. Consumer(g.type) = "orchestrator"
    BY <1>2, ConsumerOfResults
  <2> QED BY <1>2, <2>1 DEF InFlight, Processed
<1>3. CASE e.type = "ORDER_CREATED" /\ f.type = "ORDER_CREATED"
  BY <1>3
<1>4. CASE e.type \in Results /\ f.type \in Results
  BY <1>1, <1>2, <1>4 DEF OneInFlight
<1>5. CASE sagas[e.order] = NoSaga /\ (e.type \in Results \/ f.type \in Results)
  BY <1>1, <1>2, <1>5 DEF OneInFlight, Open
<1> QED BY <1>3, <1>4, <1>5

\* Nor does a commit: whoever else is at the order is at another partition,
\* where without an overlap nothing has come.
LEMMA CommitUndisturbed ==
  ASSUME TablesInv, TxnInv, TokenInv, OneInFlight, \A q \in Processes : Undisturbed(q),
         NEW p \in Processes, CommitTx(p)
  PROVE  \A q \in Processes : Undisturbed(q)'
<1>1. TypeOK /\ IdsWereIssued /\ IdsAreUnique
  BY DEF TablesInv
<1>2. PICK e \in bus, r \in SagaRow, out \in Event :
        e = txn[p].event /\ Commits(e, r, out)
  BY CommitTxKeeps
<1>3. txn[p].at = "decide" /\ Leave(p)
  BY DEF CommitTx
<1>4. /\ e \in bus /\ e \in Known /\ e.type \in {"ORDER_CREATED"} \cup Results
      /\ ~ AlreadyProcessed(e.id, "orchestrator")
      /\ e.type = "ORDER_CREATED" => sagas[e.order] = NoSaga
  BY <1>2, <1>1, <1>3, TransactionFacts DEF Undisturbed, Loaded, Proper
<1>5. /\ txn'[p] = Idle /\ \A q \in Processes \ {p} : txn'[q] = txn[q]
      /\ Idle.at = "idle" /\ ~ Loaded(Idle)
  BY <1>3, TurnsOne, IdleFacts DEF Leave, Turns
<1>6. /\ Handled(e, out)
      /\ \A o \in Orders \ {e.order} : sagas'[o] = sagas[o]
  BY <1>2, <1>4, CommitKeepsTables
<1>7. \A id : AlreadyProcessed(id, "orchestrator")' =>
                AlreadyProcessed(id, "orchestrator") \/ id \in {e.id, out.id}
  <2>1. \A x \in journal' : x \in journal \/ x[1] \in {e.id, out.id}
    BY <1>6 DEF Handled
  <2>2. \A id, d : <<id, "orchestrator", d>>[1] = id
    OBVIOUS
  <2> QED BY <2>1, <2>2 DEF AlreadyProcessed
<1>8. ASSUME NEW q \in Processes \ {p}, txn[q].at # "idle"
      PROVE  /\ ~ AlreadyProcessed(txn[q].event.id, "orchestrator")'
             /\ Loaded(txn[q]) => txn[q].saga = sagas'[txn[q].event.order]
  <2>1. PICK f : f = txn[q].event
    OBVIOUS
  <2>2. /\ f \in bus /\ f \in Known /\ f.order \in Orders
        /\ f.type \in {"ORDER_CREATED"} \cup Results
        /\ ~ AlreadyProcessed(f.id, "orchestrator")
        /\ Loaded(txn[q]) => txn[q].saga = sagas[f.order]
        /\ Loaded(txn[q]) /\ f.type = "ORDER_CREATED" => sagas[f.order] = NoSaga
    BY <1>1, <1>8, <2>1, TransactionFacts DEF Undisturbed, Proper
  <2>3. \/ e.order # f.order
        \/ TopicForEventType(e.type) # TopicForEventType(f.type)
    BY <1>2, <1>3, <1>8, <2>1 DEF Undisturbed, Apart
  <2>4. f.id # e.id
    BY <1>1, <1>4, <2>2, <2>3 DEF IdsAreUnique
  <2>5. f.id # out.id
    BY <1>1, <1>6, <2>2, FreshEvent
  <2>6. ASSUME Loaded(txn[q]) PROVE f.order # e.order
    BY <1>1, <1>4, <2>2, <2>3, <2>6, OneAtATime
  <2>7. ~ AlreadyProcessed(f.id, "orchestrator")'
    BY <1>7, <2>2, <2>4, <2>5
  <2>8. ~ AlreadyProcessed(txn[q].event.id, "orchestrator")'
    BY <1>5, <2>1, <2>7 DEF AlreadyProcessed
  <2> QED BY <1>6, <2>1, <2>2, <2>6, <2>8
<1>9. ASSUME NEW q \in Processes
      PROVE  /\ \A u \in Processes \ {q} : Apart(txn'[q], txn'[u])
             /\ txn'[q].at # "idle" => ~ AlreadyProcessed(txn[q].event.id, "orchestrator")'
             /\ Loaded(txn'[q]) => txn'[q].saga = sagas'[txn'[q].event.order]
  <2>1. CASE q = p
    BY <1>5, <2>1 DEF Apart
  <2>2. CASE q # p
    <3>1. \A u \in Processes \ {q} : Apart(txn'[q], txn'[u])
      BY <1>5, <2>2 DEF Undisturbed, Apart
    <3>2. Loaded(txn[q]) => txn[q].at # "idle"
      BY DEF Loaded
    <3> QED BY <1>5, <1>8, <2>2, <3>1, <3>2
  <2> QED BY <2>1, <2>2
<1> QED BY <1>9 DEF Undisturbed, Apart, Loaded, AlreadyProcessed
-----------------------------------------------------------------------------
LEMMA TransactionInvKept == TransactionInv /\ [TransactionNext]_allVars => TransactionInv'
<1> SUFFICES ASSUME TransactionInv, [TransactionNext]_allVars
             PROVE  TransactionInv'
  OBVIOUS
<1>1. /\ TablesInv /\ TxnInv /\ TokenInv /\ TypeOK
      /\ overlaps = 0 => CleanInv
  BY DEF TransactionInv, TablesInv
<1>2. TablesInv' /\ TxnInv' /\ TokenInv'
  <2>1. CASE UNCHANGED allVars
    <3>1. UNCHANGED vars /\ txn' = txn /\ overlaps' = overlaps
      BY <2>1 DEF allVars
    <3>2. TablesInv'
      BY <1>1, <3>1 DEF vars, TablesInv, TypeOK, CommandsAreValid, IdsWereIssued,
           IdsAreUnique, Known
    <3>3. TxnInv'
      BY <1>1, <3>1 DEF vars, TxnInv, Memory, Proper, Loaded, Free
    <3>4. TokenInv'
      BY <1>1, <3>1 DEF vars, TokenInv, Token, InFlight, Processed, AlreadyProcessed,
           Open, Loaded
    <3> QED BY <3>2, <3>3, <3>4
  <2>2. CASE Others /\ UNCHANGED txnVars
    BY <1>1, <2>2, OthersKeepTables, OthersKeepTxn, OthersKeepTokens DEF txnVars
  <2>3. ASSUME NEW p \in Processes, TxnInv', UNCHANGED vars, \E t : Reads(p, t)
        PROVE  TablesInv' /\ TokenInv'
    <3>1. TokenInv'
      BY <1>1, <2>3, ReadsKeepTokens
    <3>2. TablesInv'
      BY <1>1, <2>3 DEF vars, TablesInv, TypeOK, CommandsAreValid, IdsWereIssued,
           IdsAreUnique, Known
    <3> QED BY <3>1, <3>2
  <2> QED BY <1>1, <2>1, <2>2, <2>3, CommitTxKeeps, RejectKeeps, TransactionCases
<1>3. ASSUME overlaps' = 0 PROVE CleanInv'
  <2>1. overlaps = 0 /\ [Next]_vars
    BY <1>3, CleanStep
  <2>2. SagaInv /\ OneInFlight /\ \A q \in Processes : Undisturbed(q)
    BY <1>1, <2>1 DEF CleanInv, SagaInv
  <2>3. SagaInv'
    BY <2>1, <2>2, SagaInvKept
  <2>4. \A q \in Processes : Undisturbed(q)'
    <3>1. CASE UNCHANGED allVars
      BY <2>2, <3>1 DEF allVars, vars, Undisturbed, Apart, Loaded, AlreadyProcessed
    <3>2. CASE Others /\ UNCHANGED txnVars
      BY <1>1, <2>2, <3>2, OthersUndisturbed
    <3>3. ASSUME NEW p \in Processes, \E t : Reads(p, t)
          PROVE  \A q \in Processes : Undisturbed(q)'
      BY <1>1, <1>3, <2>1, <2>2, <3>3, ReadsUndisturbed
    <3>4. ASSUME NEW p \in Processes, CommitTx(p)
          PROVE  \A q \in Processes : Undisturbed(q)'
      BY <1>1, <2>2, <3>4, CommitUndisturbed
    <3>5. ASSUME NEW p \in Processes, Reject(p)
          PROVE  \E t : Reads(p, t)
      BY <1>1, <3>5, RejectKeeps
    <3> QED BY <1>1, <3>1, <3>2, <3>3, <3>4, <3>5, TransactionCases
  <2> QED BY <2>3, <2>4 DEF CleanInv
<1> QED BY <1>2, <1>3 DEF TransactionInv

LEMMA InitTransactionInv == TransactionInit => TransactionInv
<1> SUFFICES ASSUME TransactionInit PROVE TransactionInv
  OBVIOUS
<1>1. /\ SagaInv /\ overlaps = 0 /\ \A p \in Processes : txn[p] = Idle
      /\ txn = [p \in Processes |-> Idle]
  BY InitSagaInv DEF TransactionInit
<1>2. TablesInv /\ \A o \in Orders : ~ Open(o)
  <2>1. \A o \in Orders : sagas[o] = NoSaga
    BY DEF TransactionInit, Init
  <2> QED BY <1>1, <2>1 DEF SagaInv, TablesInv, Open
<1>3. TxnInv
  <2>1. Idle \in Memory
    BY IdleFacts DEF Memory
  <2>2. 0 \in 0..MaxOverlaps
    BY TransactionBoundsAssumption
  <2> QED BY <1>1, <2>1, <2>2, IdleFacts DEF TxnInv
<1>4. \A p \in Processes : Undisturbed(p)
  BY <1>1, IdleFacts DEF Undisturbed, Apart
<1> QED BY <1>1, <1>2, <1>3, <1>4 DEF TransactionInv, TokenInv, CleanInv

\* The invariant of the orchestrator's transactions, whatever they overlap with:
\* the tables stay in order, and an open saga keeps an event that drives it
\* (Load, Has, LogEvent, SaveSaga as statements of their own).
THEOREM TransactionInvariant == TransactionSpec => []TransactionInv
<1> QED BY InitTransactionInv, TransactionInvKept, PTL DEF TransactionSpec

\* Every transaction is where its locks allow, and no journal row is inserted by
\* two at once (ON CONFLICT DO NOTHING waits).
THEOREM TransactionTypeCorrect == TransactionSpec => []TransactionTypeOK
<1>1. TransactionInv => TransactionTypeOK
  BY DEF TransactionInv, TablesInv, TxnInv, Memory, Proper, TransactionTypeOK
<1> QED BY <1>1, TransactionInvariant, PTL

\* However many deliveries overlap, and whatever is rolled back, an open saga has
\* a command or result on its way that fits it (handleResult, dispatchNext).
THEOREM SagasAreNeverStranded == TransactionSpec => []OpenSagasHaveAToken
<1>1. TransactionInv => OpenSagasHaveAToken
  BY DEF TransactionInv, TokenInv, Token, OpenSagasHaveAToken
<1> QED BY <1>1, TransactionInvariant, PTL

\* Without an overlap the statements of concurrent transactions add up to the
\* steps of OrderSaga, all of whose theorems then hold (WithTx at READ COMMITTED).
THEOREM TransactionsAreAtomic == TransactionSpec => AtomicWithoutOverlap
<1>1. TransactionInv /\ [TransactionNext]_allVars
        => [overlaps' = 0 => Next \/ UNCHANGED vars]_allVars
  BY CleanStep
<1> QED BY <1>1, TransactionInvariant, PTL DEF TransactionSpec, AtomicWithoutOverlap
-----------------------------------------------------------------------------
(* Forks.                                                                  *)

\* Sizes of sets that lose and gain an element.
LEMMA SetSizes ==
  ASSUME NEW S, IsFiniteSet(S)
  PROVE  /\ Cardinality(S) \in Nat
         /\ \A T : T \subseteq S => IsFiniteSet(T) /\ Cardinality(T) <= Cardinality(S)
         /\ \A T, x : T \subseteq S \cup {x} =>
              IsFiniteSet(T) /\ Cardinality(T) <= Cardinality(S) + 1
         /\ \A T, x : x \in S /\ T \subseteq S \ {x} =>
              IsFiniteSet(T) /\ Cardinality(T) + 1 <= Cardinality(S)
         /\ \A T, x, y : x \in S /\ T \subseteq (S \ {x}) \cup {y} =>
              IsFiniteSet(T) /\ Cardinality(T) <= Cardinality(S)
<1>1. ASSUME NEW U, IsFiniteSet(U), NEW T, T \subseteq U
      PROVE  /\ IsFiniteSet(T) /\ Cardinality(T) <= Cardinality(U)
             /\ Cardinality(T) \in Nat /\ Cardinality(U) \in Nat
  BY <1>1, FS_Subset, FS_CardinalityType
<1>2. ASSUME NEW U, IsFiniteSet(U), NEW x
      PROVE  IsFiniteSet(U \cup {x}) /\ Cardinality(U \cup {x}) <= Cardinality(U) + 1
  <2>1. Cardinality(U) \in Nat
    BY <1>2, FS_CardinalityType
  <2>2. /\ IsFiniteSet(U \cup {x})
        /\ \/ Cardinality(U \cup {x}) = Cardinality(U)
           \/ Cardinality(U \cup {x}) = Cardinality(U) + 1
    BY <1>2, FS_AddElement
  <2> QED BY <2>1, <2>2
<1>3. ASSUME NEW x \in S
      PROVE  IsFiniteSet(S \ {x}) /\ Cardinality(S \ {x}) = Cardinality(S) - 1
  BY <1>3, FS_RemoveElement
<1>4. Cardinality(S) \in Nat
  BY FS_CardinalityType
<1>5. ASSUME NEW T, NEW x, T \subseteq S \cup {x}
      PROVE  IsFiniteSet(T) /\ Cardinality(T) <= Cardinality(S) + 1
  <2>1. /\ IsFiniteSet(S \cup {x}) /\ Cardinality(S \cup {x}) <= Cardinality(S) + 1
    BY <1>2
  <2>2. /\ IsFiniteSet(T) /\ Cardinality(T) <= Cardinality(S \cup {x})
        /\ Cardinality(T) \in Nat /\ Cardinality(S \cup {x}) \in Nat
    BY <1>1, <1>5, <2>1
  <2> QED BY <1>4, <2>1, <2>2
<1>6. ASSUME NEW T, NEW x \in S, T \subseteq S \ {x}
      PROVE  IsFiniteSet(T) /\ Cardinality(T) + 1 <= Cardinality(S)
  <2>1. /\ IsFiniteSet(T) /\ Cardinality(T) <= Cardinality(S \ {x})
        /\ Cardinality(T) \in Nat
    BY <1>1, <1>3, <1>6
  <2> QED BY <1>3, <1>4, <2>1
<1>7. ASSUME NEW T, NEW x \in S, NEW y, T \subseteq (S \ {x}) \cup {y}
      PROVE  IsFiniteSet(T) /\ Cardinality(T) <= Cardinality(S)
  <2>1. /\ IsFiniteSet((S \ {x}) \cup {y})
        /\ Cardinality((S \ {x}) \cup {y}) <= Cardinality(S \ {x}) + 1
    BY <1>2, <1>3
  <2>2. /\ IsFiniteSet(T) /\ Cardinality(T) <= Cardinality((S \ {x}) \cup {y})
        /\ Cardinality(T) \in Nat /\ Cardinality((S \ {x}) \cup {y}) \in Nat
    BY <1>1, <1>7, <2>1
  <2> QED BY <1>3, <1>4, <2>1, <2>2
<1> QED BY <1>1, <1>4, <1>5, <1>6, <1>7

\* Commands and effects correspond, and a worker's result leads to nothing that
\* its command did not lead to; once it reports the effect, not to that either.
LEMMA CommandsAndEffects ==
  /\ \A c \in Commands : EffectOf(c) \in EffectKinds
  /\ \A c, d \in Commands : EffectOf(c) = EffectOf(d) => c = d
  /\ \A kind \in EffectKinds : \E c \in Commands : EffectOf(c) = kind
  /\ \A c \in Commands : SuccessStatus(ResultOf(c)) # "RETRYING"
  BY DEF Commands, EffectKinds, EffectOf, ResultOf, SuccessStatus

LEMMA WorkerContinues ==
  ASSUME NEW e, e.type \in Commands, NEW out, out.type = ResultOf(e.type)
  PROVE  /\ \A x \in Goals : AheadOf(out, x) => AheadOf(e, x)
         /\ AheadOf(e, e.type)
         /\ out.status # "RETRYING" => ~ AheadOf(out, e.type)
<1>1. \A c \in Commands : out.type = ResultOf(c) <=> c = e.type
  BY DEF Commands, ResultOf
<1>2. out.type \notin Commands /\ out.type # "ORDER_CREATED" /\ e.type # ""
  BY DEF Commands, ResultOf
<1>3. e.type \in From(e.type)
  BY DEF From, Commands
<1>4. ASSUME NEW x \in Goals, AheadOf(out, x) PROVE AheadOf(e, x)
  <2>1. CASE x = ""
    BY <2>1 DEF AheadOf
  <2>2. CASE x # ""
    <3>1. x \in From(e.type)
      BY <1>1, <1>2, <1>4, <2>2 DEF AheadOf
    <3> QED BY <3>1 DEF AheadOf
  <2> QED BY <2>1, <2>2
<1>5. AheadOf(e, e.type)
  BY <1>3 DEF AheadOf
<1>6. ASSUME out.status # "RETRYING", AheadOf(out, e.type) PROVE FALSE
  BY <1>1, <1>2, <1>6 DEF AheadOf
<1> QED BY <1>4, <1>5, <1>6

\* What the counts are made of are numbers.
LEMMA PerformancesAreNumbers ==
  ASSUME TypeOK, NEW o \in Orders, NEW x \in Goals
  PROVE  Performances(o, x) \in Nat /\ ToCome(o) \in {0, 1}
<1>1. effects[o] \in [EffectKinds -> Nat]
  BY DEF TypeOK
<1>2. x # "" => EffectOf(x) \in EffectKinds
  BY CommandsAndEffects DEF Goals
<1> QED BY <1>1, <1>2 DEF Performances, ToCome

\* A step that changes nothing that is counted for an order.
LEMMA NothingToPay ==
  ASSUME NEW o \in Orders, NEW x \in Goals, Paid(o, x),
         sagas'[o] = sagas[o], effects'[o] = effects[o], dlq' = dlq,
         InFlight(o)' = InFlight(o), UNCHANGED txnVars
  PROVE  Paid(o, x)'
<1>1. txn' = txn /\ overlaps' = overlaps
  BY DEF txnVars
<1>2. Performances(o, x)' = Performances(o, x)
  BY DEF Performances
<1>3. Waiting(o, x)' = Waiting(o, x)
  BY <1>1 DEF Waiting, At
<1>4. AtWork(o, x)' = AtWork(o, x)
  BY <1>1 DEF AtWork, CanCommit, Loaded
<1>5. ToCome(o)' = ToCome(o)
  BY <1>1 DEF ToCome, AtCreation
<1> QED BY <1>1, <1>2, <1>3, <1>4, <1>5 DEF Paid

\* A worker turns a command that waits into a result that waits, and an effect
\* is one that the command was counted for.
LEMMA WorkersPay ==
  ASSUME TablesInv, TablesInv', TxnInv, ForkInv, UNCHANGED txnVars,
         NEW e \in bus, NEW status \in OrderStatus, NEW tx \in Nat,
         WorkerStep(e, status, tx), Exchanges(e, status, tx),
         NEW o \in Orders, NEW x \in Goals
  PROVE  Paid(o, x)'
<1>1. TypeOK /\ TypeOK' /\ IdsWereIssued /\ IdsAreUnique
  BY DEF TablesInv
<1>2. PICK out \in Event :
        /\ Handled(e, out) /\ out.type = ResultOf(e.type) /\ out.status = status
        /\ UNCHANGED <<sagas, bus, dlq, crashes>>
  BY <1>1, WorkerRows
<1>3. /\ e.type \in Commands /\ e.order \in Orders /\ e \in Event
      /\ ~ AlreadyProcessed(e.id, Consumer(e.type))
      /\ \A q \in Orders \ {e.order} : effects'[q] = effects[q]
  BY <1>2 DEF WorkerStep, Delivers, Handled, Event
<1>4. /\ \A q \in Orders \ {e.order} : InFlight(q)' = InFlight(q)
      /\ InFlight(e.order)' \subseteq (InFlight(e.order) \ {e}) \cup {out}
  BY <1>1, <1>2, InFlightAfterHandling
<1>5. Paid(o, x) /\ txn' = txn /\ overlaps' = overlaps /\ overlaps \in Nat
  BY DEF ForkInv, txnVars, TxnInv
<1>6. CASE o # e.order
  BY <1>2, <1>3, <1>4, <1>5, <1>6, NothingToPay
<1>7. CASE o = e.order
  <2>1. AtWork(o, x)' = AtWork(o, x)
    BY <1>2, <1>5 DEF AtWork, CanCommit, Loaded
  <2>2. ToCome(o)' = ToCome(o)
    BY <1>2, <1>5 DEF ToCome, AtCreation
  <2>3. e \in InFlight(o) \ dlq /\ \A p \in Processes : ~ At(p, e)
    <3>1. e \in InFlight(o)
      BY <1>3, <1>7 DEF InFlight, Processed
    <3>2. e \notin dlq
      BY <1>3 DEF ForkInv
    <3>3. ASSUME NEW p \in Processes, At(p, e) PROVE FALSE
      BY <1>1, <1>3, <3>3, TransactionFacts DEF At, Commands, Results
    <3> QED BY <3>1, <3>2, <3>3
  <2>4. Waiting(o, x)' \subseteq (Waiting(o, x) \ {e}) \cup {out}
    BY <1>2, <1>4, <1>5, <1>7 DEF Waiting, At
  <2>5. out \in Waiting(o, x)' => AheadOf(out, x)
    BY DEF Waiting
  <2>6. AheadOf(out, x) => AheadOf(e, x)
    BY <1>2, <1>3, WorkerContinues
  <2>7. AheadOf(e, x) => e \in Waiting(o, x)
    BY <2>3 DEF Waiting
  <2>8. /\ IsFiniteSet(Waiting(o, x)) /\ IsFiniteSet(AtWork(o, x))
        /\ Cardinality(Waiting(o, x)) \in Nat /\ Cardinality(AtWork(o, x)) \in Nat
        /\ Performances(o, x) \in Nat /\ ToCome(o) \in {0, 1}
        /\ Performances(o, x) + Cardinality(Waiting(o, x)) + Cardinality(AtWork(o, x))
             + ToCome(o) <= 1 + overlaps
    BY <1>1, <1>5, SetSizes, PerformancesAreNumbers DEF Paid
  <2>9. /\ IsFiniteSet(Waiting(o, x)')
        /\ Cardinality(Waiting(o, x)') \in Nat
        /\ Cardinality(Waiting(o, x)') <= Cardinality(Waiting(o, x))
        /\ e \in Waiting(o, x) /\ ~ AheadOf(out, x) =>
             Cardinality(Waiting(o, x)') + 1 <= Cardinality(Waiting(o, x))
    <3>1. CASE e \notin Waiting(o, x)
      <4>1. Waiting(o, x)' \subseteq Waiting(o, x)
        BY <2>4, <2>5, <2>6, <2>7, <3>1
      <4> QED BY <2>8, <3>1, <4>1, SetSizes
    <3>2. CASE e \in Waiting(o, x) /\ AheadOf(out, x)
      <4>1. /\ IsFiniteSet(Waiting(o, x)')
            /\ Cardinality(Waiting(o, x)') <= Cardinality(Waiting(o, x))
        BY <2>4, <2>8, <3>2, SetSizes
      <4>2. Cardinality(Waiting(o, x)') \in Nat
        BY <4>1, SetSizes
      <4> QED BY <3>2, <4>1, <4>2
    <3>3. CASE e \in Waiting(o, x) /\ ~ AheadOf(out, x)
      <4>1. Waiting(o, x)' \subseteq Waiting(o, x) \ {e}
        BY <2>4, <2>5, <3>3
      <4>2. /\ IsFiniteSet(Waiting(o, x)') /\ Cardinality(Waiting(o, x)') \in Nat
            /\ Cardinality(Waiting(o, x)') + 1 <= Cardinality(Waiting(o, x))
        BY <2>8, <3>3, <4>1, SetSizes
      <4> QED BY <2>8, <4>2
    <3> QED BY <3>1, <3>2, <3>3
  <2>10. \/ Performances(o, x)' = Performances(o, x)
         \/ /\ Performances(o, x)' = Performances(o, x) + 1
            /\ e \in Waiting(o, x) /\ ~ AheadOf(out, x)
    <3>1. CASE x = "" \/ effects' = effects
      BY <3>1 DEF Performances
    <3>2. CASE /\ x # ""
               /\ status = SuccessStatus(ResultOf(e.type))
               /\ effects' = [effects EXCEPT ![e.order][EffectOf(e.type)] = @ + 1]
      <4>1. /\ effects \in [Orders -> [EffectKinds -> Nat]]
            /\ EffectOf(e.type) \in EffectKinds /\ EffectOf(x) \in EffectKinds
            /\ x \in Commands
        <5>1. x \in Commands
          BY <3>2 DEF Goals
        <5> QED BY <1>1, <1>3, <5>1, CommandsAndEffects DEF TypeOK
      <4>2. CASE x # e.type
        <5>1. EffectOf(x) # EffectOf(e.type)
          BY <1>3, <4>1, <4>2, CommandsAndEffects
        <5>2. effects'[o][EffectOf(x)] = effects[o][EffectOf(x)]
          BY <1>7, <3>2, <4>1, <5>1
        <5> QED BY <5>2 DEF Performances
      <4>3. CASE x = e.type
        <5>1. effects'[o][EffectOf(x)] = effects[o][EffectOf(x)] + 1
          BY <1>7, <3>2, <4>1, <4>3
        <5>2. Performances(o, x)' = Performances(o, x) + 1
          BY <3>2, <5>1 DEF Performances
        <5>3. out.status # "RETRYING"
          BY <1>2, <1>3, <3>2, CommandsAndEffects
        <5>4. AheadOf(e, x) /\ ~ AheadOf(out, x)
          BY <1>2, <1>3, <4>3, <5>3, WorkerContinues
        <5> QED BY <2>7, <5>2, <5>4
      <4> QED BY <4>2, <4>3
    <3> QED BY <3>1, <3>2 DEF Exchanges, Performed
  <2>11. Performances(o, x)' + Cardinality(Waiting(o, x)') + Cardinality(AtWork(o, x)')
           + ToCome(o)' <= 1 + overlaps'
    BY <1>5, <2>1, <2>2, <2>8, <2>9, <2>10
  <2> QED BY <2>1, <2>8, <2>9, <2>11 DEF Paid
<1> QED BY <1>6, <1>7

\* So do the coordinator and the relay, who have nothing to do with threads.
LEMMA OthersPay ==
  ASSUME TablesInv, TxnInv, ForkInv, Others, UNCHANGED txnVars
  PROVE  ForkInv'
<1>1. TypeOK /\ TablesInv' /\ sagas' = sagas /\ dlq' = dlq
  BY OthersKeepTables DEF TablesInv
<1>2. CASE (\E o \in Orders : CreateOrder(o)) \/ (\E e \in outbox : Relay(e))
  <2>1. /\ UNCHANGED <<sagas, journal, outbox>>
        /\ Known \subseteq Known'
        /\ \A f \in Known' \ Known : f.type = "ORDER_CREATED"
    BY <1>1, <1>2, QuietSteps
  <2>2. "ORDER_CREATED" \notin Commands \cup Results
    BY DEF Commands, Results
  <2>3. \A o \in Orders : InFlight(o)' = InFlight(o)
    BY <2>1, <2>2, InFlightUndisturbed
  <2>4. effects' = effects
    BY <1>2 DEF CreateOrder, Relay
  <2> QED BY <1>1, <2>3, <2>4, NothingToPay DEF ForkInv
<1>3. ASSUME NEW e \in bus, NEW status \in OrderStatus, NEW tx \in Nat,
             WorkerStep(e, status, tx), Exchanges(e, status, tx)
      PROVE  ForkInv'
  BY <1>1, <1>3, WorkersPay DEF ForkInv
<1> QED BY <1>1, <1>2, <1>3, WorkerSteps DEF Others, OutboxRelay

\* A step after which each set has lost or gained as much as the overlaps allow.
LEMMA Balances ==
  ASSUME TypeOK, NEW o \in Orders, NEW x \in Goals, Paid(o, x),
         Performances(o, x)' = Performances(o, x),
         overlaps \in Nat, overlaps' \in {overlaps, overlaps + 1},
         \/ /\ Waiting(o, x)' \subseteq Waiting(o, x)
            /\ AtWork(o, x)' \subseteq AtWork(o, x)
            /\ ToCome(o)' <= ToCome(o)
         \/ /\ Waiting(o, x)' \subseteq Waiting(o, x)
            /\ \E p : AtWork(o, x)' \subseteq AtWork(o, x) \cup {p}
            /\ ToCome(o)' <= ToCome(o) /\ overlaps' = overlaps + 1
         \/ /\ Waiting(o, x)' \subseteq Waiting(o, x)
            /\ \E p : AtWork(o, x)' \subseteq AtWork(o, x) \cup {p}
            /\ ToCome(o) = 1 /\ ToCome(o)' = 0
         \/ /\ \E f \in Waiting(o, x) : Waiting(o, x)' \subseteq Waiting(o, x) \ {f}
            /\ \E p : AtWork(o, x)' \subseteq AtWork(o, x) \cup {p}
            /\ ToCome(o)' <= ToCome(o)
         \/ /\ \E f : Waiting(o, x)' \subseteq Waiting(o, x) \cup {f}
            /\ \E p \in AtWork(o, x) : AtWork(o, x)' \subseteq AtWork(o, x) \ {p}
            /\ ToCome(o)' <= ToCome(o)
         \/ /\ Waiting(o, x)' \subseteq Waiting(o, x)
            /\ \E p \in AtWork(o, x) : AtWork(o, x)' \subseteq AtWork(o, x) \ {p}
            /\ ToCome(o)' <= ToCome(o) + 1
  PROVE  Paid(o, x)'
<1> DEFINE W == Waiting(o, x)
           V == Waiting(o, x)'
           A == AtWork(o, x)
           B == AtWork(o, x)'
<1>1. /\ IsFiniteSet(W) /\ IsFiniteSet(A)
      /\ Cardinality(W) \in Nat /\ Cardinality(A) \in Nat
      /\ Performances(o, x) \in Nat /\ ToCome(o) \in {0, 1}
      /\ Performances(o, x) + Cardinality(W) + Cardinality(A) + ToCome(o) <= 1 + overlaps
  BY SetSizes, PerformancesAreNumbers DEF Paid
<1>2. ToCome(o)' \in {0, 1}
  BY DEF ToCome
<1>3. \/ V \subseteq W /\ B \subseteq A /\ ToCome(o)' <= ToCome(o)
      \/ /\ V \subseteq W /\ (\E p : B \subseteq A \cup {p})
         /\ ToCome(o)' <= ToCome(o) /\ overlaps' = overlaps + 1
      \/ /\ V \subseteq W /\ (\E p : B \subseteq A \cup {p})
         /\ ToCome(o) = 1 /\ ToCome(o)' = 0
      \/ /\ (\E f \in W : V \subseteq W \ {f}) /\ (\E p : B \subseteq A \cup {p})
         /\ ToCome(o)' <= ToCome(o)
      \/ /\ (\E f : V \subseteq W \cup {f}) /\ (\E p \in A : B \subseteq A \ {p})
         /\ ToCome(o)' <= ToCome(o)
      \/ /\ V \subseteq W /\ (\E p \in A : B \subseteq A \ {p})
         /\ ToCome(o)' <= ToCome(o) + 1
  BY Zenon
<1> HIDE DEF W, V, A, B
<1>4. V \subseteq W => IsFiniteSet(V) /\ Cardinality(V) <= Cardinality(W)
  BY <1>1, SetSizes
<1>5. (\E f : V \subseteq W \cup {f}) => IsFiniteSet(V) /\ Cardinality(V) <= Cardinality(W) + 1
  BY <1>1, SetSizes
<1>6. (\E f \in W : V \subseteq W \ {f}) =>
        IsFiniteSet(V) /\ Cardinality(V) + 1 <= Cardinality(W)
  BY <1>1, SetSizes
<1>7. B \subseteq A => IsFiniteSet(B) /\ Cardinality(B) <= Cardinality(A)
  BY <1>1, SetSizes
<1>8. (\E p : B \subseteq A \cup {p}) => IsFiniteSet(B) /\ Cardinality(B) <= Cardinality(A) + 1
  BY <1>1, SetSizes
<1>9. (\E p \in A : B \subseteq A \ {p}) =>
        IsFiniteSet(B) /\ Cardinality(B) + 1 <= Cardinality(A)
  BY <1>1, SetSizes
<1>10. IsFiniteSet(V) /\ IsFiniteSet(B)
  BY <1>3, <1>4, <1>5, <1>6, <1>7, <1>8, <1>9
<1>11. Cardinality(V) \in Nat /\ Cardinality(B) \in Nat
  BY <1>10, SetSizes
<1>12. \/ /\ Cardinality(V) <= Cardinality(W) /\ Cardinality(B) <= Cardinality(A)
          /\ ToCome(o)' <= ToCome(o)
       \/ /\ Cardinality(V) <= Cardinality(W) /\ Cardinality(B) <= Cardinality(A) + 1
          /\ ToCome(o)' <= ToCome(o) /\ overlaps' = overlaps + 1
       \/ /\ Cardinality(V) <= Cardinality(W) /\ Cardinality(B) <= Cardinality(A) + 1
          /\ ToCome(o) = 1 /\ ToCome(o)' = 0
       \/ /\ Cardinality(V) + 1 <= Cardinality(W) /\ Cardinality(B) <= Cardinality(A) + 1
          /\ ToCome(o)' <= ToCome(o)
       \/ /\ Cardinality(V) <= Cardinality(W) + 1 /\ Cardinality(B) + 1 <= Cardinality(A)
          /\ ToCome(o)' <= ToCome(o)
       \/ /\ Cardinality(V) <= Cardinality(W) /\ Cardinality(B) + 1 <= Cardinality(A)
          /\ ToCome(o)' <= ToCome(o) + 1
  BY <1>3, <1>4, <1>5, <1>6, <1>7, <1>8, <1>9, Zenon
<1>13. Performances(o, x)' + Cardinality(V) + Cardinality(B) + ToCome(o)' <= 1 + overlaps'
  BY <1>1, <1>11, <1>12, <1>2
<1> QED BY <1>10, <1>13 DEF Paid, V, B

\* Reading and leaving: who leaves gives back what it was counted for, who gets
\* an event takes the place of that event, or of the creation to come, unless
\* the delivery overlaps.
LEMMA ReadsPay ==
  ASSUME TablesInv, TxnInv, TxnInv', NEW p \in Processes, NEW t, Reads(p, t),
         UNCHANGED <<sagas, journal, outbox, bus, effects>>, dlq \subseteq dlq',
         NEW o \in Orders, NEW x \in Goals, Paid(o, x)
  PROVE  Paid(o, x)'
<1>1. /\ txn'[p] = t /\ \A q \in Processes \ {p} : txn'[q] = txn[q]
      /\ sagas' = sagas /\ overlaps' \in {overlaps, overlaps + 1} /\ overlaps \in Nat
      /\ Loaded(t) => \/ t.saga = sagas[t.event.order]
                      \/ /\ Loaded(txn[p])
                         /\ t.saga = txn[p].saga /\ t.event = txn[p].event
      /\ t.at # "idle" => \/ txn[p].at # "idle" /\ t.event = txn[p].event
                          \/ /\ txn[p].at = "idle" /\ Wanted(t.event)
                             /\ overlaps' = overlaps => ~ Overlaps(p, t.event)
  BY TurnsOne DEF Reads, TxnInv
<1>2. Proper(t) /\ TypeOK
  <2>1. Proper(txn[p])'
    BY DEF TxnInv
  <2> QED BY <1>1, <2>1 DEF Proper, Loaded, TablesInv
<1>3. InFlight(o)' = InFlight(o)
  BY InFlightUndisturbed DEF Known
<1>4. Performances(o, x)' = Performances(o, x)
  BY DEF Performances
<1>5. CASE t.at = "idle"
  <2> DEFINE f == txn[p].event
  <2>1. AtWork(o, x)' \subseteq AtWork(o, x) \ {p}
    BY <1>1, <1>5 DEF AtWork, CanCommit, Loaded
  <2>2. \A e \in Waiting(o, x)' : e \in Waiting(o, x) \/ (e = f /\ At(p, f))
    BY <1>1, <1>3 DEF Waiting, At
  <2>3. \A e \in Waiting(o, x)' : AheadOf(e, x) /\ e.order = o
                                  /\ e.type \in Commands \cup Results
    BY <1>3 DEF Waiting, InFlight
  <2>4. ~ AtCreation(p, o) => ToCome(o)' <= ToCome(o)
    BY <1>1, <1>5 DEF ToCome, AtCreation
  <2>5. ToCome(o)' <= ToCome(o) + 1
    BY DEF ToCome
  <2>6. CASE ~ CanCommit(p, o, x)
    <3>1. f \in Waiting(o, x)' /\ At(p, f) => FALSE
      BY <2>3, <2>6 DEF CanCommit, At, Commands, Results
    <3>2. Waiting(o, x)' \subseteq Waiting(o, x)
      BY <2>2, <3>1
    <3>3. ToCome(o)' <= ToCome(o)
      <4>1. CASE sagas[o] = NoSaga
        <5>1. ~ AtCreation(p, o)
          BY <2>6, <4>1 DEF CanCommit, AtCreation, AheadOf
        <5> QED BY <2>4, <5>1
      <4>2. CASE sagas[o] # NoSaga
        BY <1>1, <4>2 DEF ToCome
      <4> QED BY <4>1, <4>2
    <3>4. AtWork(o, x)' \subseteq AtWork(o, x)
      BY <2>1
    <3> QED BY <1>1, <1>2, <1>4, <3>2, <3>3, <3>4, Balances
  <2>7. CASE CanCommit(p, o, x) /\ AtCreation(p, o)
    <3>1. Waiting(o, x)' \subseteq Waiting(o, x)
      BY <2>2, <2>3, <2>7 DEF AtCreation, Commands, Results
    <3>2. p \in AtWork(o, x)
      BY <2>7 DEF AtWork
    <3> QED BY <1>1, <1>2, <1>4, <2>1, <2>5, <3>1, <3>2, Balances
  <2>8. CASE CanCommit(p, o, x) /\ ~ AtCreation(p, o)
    <3>1. Waiting(o, x)' \subseteq Waiting(o, x) \cup {f}
      BY <2>2
    <3>2. p \in AtWork(o, x)
      BY <2>8 DEF AtWork
    <3> HIDE DEF f
    <3> QED BY <1>1, <1>2, <1>4, <2>1, <2>4, <2>8, <3>1, <3>2, Balances
  <2> QED BY <2>6, <2>7, <2>8
<1>6. CASE t.at # "idle" /\ txn[p].at # "idle" /\ t.event = txn[p].event
  <2>1. Waiting(o, x)' \subseteq Waiting(o, x)
    BY <1>1, <1>3, <1>6 DEF Waiting, At
  <2>2. ToCome(o)' = ToCome(o)
    BY <1>1, <1>6 DEF ToCome, AtCreation
  <2>3. CanCommit(p, o, x)' => CanCommit(p, o, x)
    <3>1. Loaded(t) /\ t.event.type = "ORDER_CREATED" /\ t.event.order = o =>
            Loaded(txn[p]) \/ sagas[o] = NoSaga
      BY <1>1, <1>2 DEF Proper
    <3> QED BY <1>1, <1>6, <3>1 DEF CanCommit, Loaded
  <2>4. \A q \in Processes \ {p} : CanCommit(q, o, x)' => CanCommit(q, o, x)
    BY <1>1 DEF CanCommit, Loaded
  <2>5. AtWork(o, x)' \subseteq AtWork(o, x)
    BY <2>3, <2>4 DEF AtWork
  <2>6. ToCome(o)' <= ToCome(o)
    BY <2>2 DEF ToCome
  <2> QED BY <1>1, <1>2, <1>4, <2>1, <2>5, <2>6, Balances
<1>7. CASE /\ t.at # "idle" /\ txn[p].at = "idle" /\ Wanted(t.event)
           /\ overlaps' = overlaps => ~ Overlaps(p, t.event)
  <2> DEFINE f == t.event
  <2>1. Waiting(o, x)' \subseteq Waiting(o, x)
    BY <1>1, <1>3, <1>7 DEF Waiting, At
  <2>2. ToCome(o)' <= ToCome(o)
    BY <1>1, <1>7 DEF ToCome, AtCreation
  <2>3. \A q \in Processes \ {p} : CanCommit(q, o, x)' => CanCommit(q, o, x)
    BY <1>1 DEF CanCommit, Loaded
  <2>4. AtWork(o, x)' \subseteq AtWork(o, x) \cup {p}
    BY <2>3 DEF AtWork
  <2>5. CASE overlaps' = overlaps + 1
    BY <1>1, <1>2, <1>4, <2>1, <2>2, <2>4, <2>5, Balances
  <2>6. CASE ~ CanCommit(p, o, x)'
    <3>1. AtWork(o, x)' \subseteq AtWork(o, x)
      BY <2>3, <2>6 DEF AtWork
    <3> QED BY <1>1, <1>2, <1>4, <2>1, <2>2, <3>1, Balances
  <2>7. CASE ~ Overlaps(p, f) /\ CanCommit(p, o, x)'
    <3>1. /\ f.order = o /\ AheadOf(f, x)
          /\ f.type = "ORDER_CREATED" => Loaded(t) \/ sagas[o] = NoSaga
      BY <1>1, <2>7 DEF CanCommit, AheadOf, Loaded
    <3>2. f \in bus /\ f.type \in EventType /\ Consumer(f.type) = "orchestrator"
      BY <1>2, <1>7 DEF Proper, TypeOK, Event
    <3>3. CASE f.type = "ORDER_CREATED"
      <4>1. ~ Loaded(txn[p])
        BY <1>7 DEF Loaded
      <4>2. sagas[o] = NoSaga
        BY <1>1, <1>2, <3>1, <3>3, <4>1 DEF Proper
      <4>3. \A q \in Processes : ~ AtCreation(q, o)
        BY <1>7, <2>7, <3>1, <3>3 DEF AtCreation, Overlaps
      <4>4. AtCreation(p, o)'
        BY <1>1, <1>7, <3>1, <3>3 DEF AtCreation
      <4>5. ToCome(o) = 1 /\ ToCome(o)' = 0
        BY <4>2, <4>3, <4>4 DEF ToCome
      <4> QED BY <1>1, <1>2, <1>4, <2>1, <2>4, <4>5, Balances
    <3>4. CASE f.type \in Results
      <4>1. f \in InFlight(o) \ dlq
        BY <1>7, <3>1, <3>2, <3>4 DEF InFlight, Processed, Wanted
      <4>2. \A q \in Processes : ~ At(q, f)
        BY <1>7, <2>7 DEF At, Overlaps
      <4>3. f \in Waiting(o, x)
        BY <3>1, <4>1, <4>2 DEF Waiting
      <4>4. f \notin Waiting(o, x)'
        BY <1>1, <1>7 DEF Waiting, At
      <4>5. Waiting(o, x)' \subseteq Waiting(o, x) \ {f}
        BY <2>1, <4>4
      <4> HIDE DEF f
      <4> QED BY <1>1, <1>2, <1>4, <2>2, <2>4, <4>3, <4>5, Balances
    <3> QED BY <3>2, <3>3, <3>4, OrchestratorEvents
  <2> QED BY <1>1, <1>7, <2>5, <2>6, <2>7
<1> QED BY <1>1, <1>5, <1>6, <1>7

\* A commit of the orchestrator: whoever made it could, and it leads to nothing
\* new.
LEMMA CommitsPay ==
  ASSUME TablesInv, TxnInv, NEW p \in Processes, Leave(p), overlaps' = overlaps,
         txn[p].at = "decide", NEW e \in bus, e = txn[p].event,
         NEW r \in SagaRow, NEW out \in Event, Commits(e, r, out),
         out.type \in Commands => \A x \in Goals : AheadOf(out, x) => AheadOf(e, x),
         NEW o \in Orders, NEW x \in Goals, Paid(o, x)
  PROVE  Paid(o, x)'
<1>1. TypeOK /\ IdsWereIssued /\ IdsAreUnique /\ overlaps \in Nat
  BY DEF TablesInv, TxnInv
<1>2. e.type \in {"ORDER_CREATED"} \cup Results
  BY <1>1, TransactionFacts
<1>3. /\ Handled(e, out) /\ e.order \in Orders /\ sagas'[e.order] = r
      /\ \A q \in Orders \ {e.order} : sagas'[q] = sagas[q]
      /\ dlq' = dlq /\ effects' = effects
  BY <1>2, CommitKeepsTables
<1>4. /\ txn'[p].at = "idle" /\ \A q \in Processes \ {p} : txn'[q] = txn[q]
  BY TurnsOne, IdleFacts DEF Leave, Turns
<1>5. /\ \A q \in Orders \ {e.order} : InFlight(q)' = InFlight(q)
      /\ InFlight(e.order)' =
           (InFlight(e.order) \ {e}) \cup {f \in {out} : f.type \in Commands \cup Results}
  BY <1>1, <1>3, InFlightAfterHandling
<1>6. Performances(o, x)' = Performances(o, x)
  BY <1>3 DEF Performances
<1>7. CASE o # e.order
  <2>1. \A f \in InFlight(o) : f.order = o
    BY DEF InFlight
  <2>2. Waiting(o, x)' \subseteq Waiting(o, x)
    BY <1>3, <1>4, <1>5, <1>7, <2>1 DEF Waiting, At
  <2>3. AtWork(o, x)' \subseteq AtWork(o, x)
    BY <1>3, <1>4, <1>7 DEF AtWork, CanCommit, Loaded
  <2>4. ~ AtCreation(p, o)
    BY <1>7 DEF AtCreation
  <2>5. ToCome(o)' <= ToCome(o)
    BY <1>3, <1>4, <1>7, <2>4 DEF ToCome, AtCreation
  <2> QED BY <1>1, <1>6, <2>2, <2>3, <2>5, Balances
<1>8. CASE o = e.order
  <2>1. r # NoSaga
    <3>1. r.current \in SagaStatus
      BY DEF Commits
    <3>2. NoSaga.current \notin SagaStatus
      BY DEF NoSaga, SagaStatus
    <3> QED BY <3>1, <3>2
  <2>2. ToCome(o)' <= ToCome(o)
    BY <1>3, <1>8, <2>1 DEF ToCome
  <2>3. AtWork(o, x)' \subseteq AtWork(o, x) \ {p}
    BY <1>3, <1>4, <1>8, <2>1 DEF AtWork, CanCommit, Loaded
  <2>4. Waiting(o, x)' \subseteq Waiting(o, x) \cup {out}
    BY <1>3, <1>4, <1>5, <1>8 DEF Waiting, At
  <2>5. CASE out \in Waiting(o, x)'
    <3>1. out.type \in Commands \cup Results /\ AheadOf(out, x)
      BY <2>5 DEF Waiting, InFlight
    <3>2. out.type \in Commands
      BY <3>1 DEF Commits, Commands, Results
    <3>3. p \in AtWork(o, x)
      BY <1>8, <3>1, <3>2 DEF AtWork, CanCommit, Loaded
    <3> QED BY <1>1, <1>6, <2>2, <2>3, <2>4, <3>3, Balances
  <2>6. CASE out \notin Waiting(o, x)'
    <3>1. Waiting(o, x)' \subseteq Waiting(o, x)
      BY <2>4, <2>6
    <3>2. AtWork(o, x)' \subseteq AtWork(o, x)
      BY <2>3
    <3> QED BY <1>1, <1>6, <2>2, <3>1, <3>2, Balances
  <2> QED BY <2>5, <2>6
<1> QED BY <1>7, <1>8

LEMMA ForkInvKept ==
  TransactionInv /\ TransactionInv' /\ ForkInv /\ [TransactionNext]_allVars => ForkInv'
<1> SUFFICES ASSUME TransactionInv, TransactionInv', ForkInv, [TransactionNext]_allVars
             PROVE  ForkInv'
  OBVIOUS
<1>1. TablesInv /\ TypeOK /\ TxnInv /\ TokenInv /\ TxnInv'
  BY DEF TransactionInv, TablesInv
<1>2. CASE UNCHANGED allVars
  <2>1. /\ UNCHANGED <<sagas, effects, dlq, journal, outbox, bus, txn, overlaps>>
        /\ UNCHANGED txnVars
    BY <1>2 DEF allVars, vars, txnVars
  <2>2. \A o \in Orders : InFlight(o)' = InFlight(o)
    BY <2>1 DEF InFlight, Processed, AlreadyProcessed
  <2> QED BY <2>1, <2>2, NothingToPay DEF ForkInv
<1>3. CASE Others /\ UNCHANGED txnVars
  BY <1>1, <1>3, OthersPay
<1>4. ASSUME NEW p \in Processes, UNCHANGED vars, \E t : Reads(p, t)
      PROVE  ForkInv'
  <2>1. UNCHANGED <<sagas, journal, outbox, bus, effects>> /\ dlq' = dlq
    BY <1>4 DEF vars
  <2> QED BY <1>1, <1>4, <2>1, ReadsPay DEF ForkInv
<1>5. ASSUME NEW p \in Processes, CommitTx(p) PROVE ForkInv'
  <2>1. /\ overlaps' = overlaps /\ Leave(p) /\ txn[p].at = "decide"
    BY <1>5 DEF CommitTx
  <2>2. PICK e \in bus, r \in SagaRow, out \in Event :
          /\ e = txn[p].event /\ Commits(e, r, out)
          /\ out.type \in Commands => \A x \in Goals : AheadOf(out, x) => AheadOf(e, x)
    BY <1>1, <1>5, CommitTxKeeps
  <2>3. dlq' = dlq
    BY <2>2 DEF Commits, Commit
  <2> QED BY <1>1, <2>1, <2>2, <2>3, CommitsPay DEF ForkInv
<1>6. ASSUME NEW p \in Processes, Reject(p) PROVE ForkInv'
  <2>1. /\ dlq' = dlq \cup {txn[p].event} /\ txn[p].at # "idle"
        /\ UNCHANGED <<sagas, journal, outbox, bus, effects>>
    BY <1>6 DEF Reject
  <2>2. Reads(p, Idle)
    BY <1>1, <1>6, RejectKeeps
  <2>3. txn[p].event.type \notin Commands
    BY <1>1, <2>1, TransactionFacts DEF Commands, Results
  <2> QED BY <1>1, <2>1, <2>2, <2>3, ReadsPay DEF ForkInv
<1> QED BY <1>1, <1>2, <1>3, <1>4, <1>5, <1>6, TransactionCases

LEMMA InitForkInv == TransactionInit => ForkInv
<1> SUFFICES ASSUME TransactionInit PROVE ForkInv
  OBVIOUS
<1>1. /\ overlaps = 0 /\ \A p \in Processes : txn[p].at = "idle"
      /\ TypeOK /\ dlq = {}
  BY InitSagaInv, IdleFacts DEF TransactionInit, SagaInv, Init
<1>2. ASSUME NEW o \in Orders, NEW x \in Goals PROVE Paid(o, x)
  <2>1. Waiting(o, x) = {} /\ AtWork(o, x) = {}
    BY <1>1 DEF TransactionInit, Init, Waiting, InFlight, AtWork, CanCommit
  <2>2. Performances(o, x) = 0
    <3>1. x # "" => EffectOf(x) \in EffectKinds
      BY CommandsAndEffects DEF Goals
    <3> QED BY <3>1 DEF TransactionInit, Init, Performances
  <2>3. ToCome(o) \in {0, 1}
    BY DEF ToCome
  <2> QED BY <1>1, <2>1, <2>2, <2>3, FS_EmptySet DEF Paid
<1> QED BY <1>1, <1>2 DEF ForkInv

\* What is in flight waits or is attended to.
LEMMA ForksAreThreads ==
  ASSUME TypeOK, TxnInv, ForkInv PROVE ForksNeedAnOverlap
<1>1. overlaps \in Nat
  BY DEF TxnInv
<1>2. ASSUME NEW o \in Orders, NEW k \in EffectKinds
      PROVE  effects[o][k] <= 1 + overlaps
  <2>1. PICK c \in Commands : EffectOf(c) = k
    BY CommandsAndEffects
  <2>2. c \in Goals /\ c # ""
    BY DEF Goals, Commands
  <2>3. Performances(o, c) = effects[o][k]
    BY <2>1, <2>2 DEF Performances
  <2>4. /\ Cardinality(Waiting(o, c)) \in Nat /\ Cardinality(AtWork(o, c)) \in Nat
        /\ Performances(o, c) + Cardinality(Waiting(o, c)) + Cardinality(AtWork(o, c))
             + ToCome(o) <= 1 + overlaps
    BY <2>2, SetSizes DEF ForkInv, Paid
  <2>5. ToCome(o) \in {0, 1} /\ Performances(o, c) \in Nat
    BY <2>2, PerformancesAreNumbers
  <2> QED BY <1>1, <2>3, <2>4, <2>5
<1>3. ASSUME NEW o \in Orders
      PROVE  Cardinality(InFlight(o) \ dlq) <= 1 + overlaps
  <2>1. PICK x \in Goals : x = ""
    BY DEF Goals
  <2> DEFINE W == Waiting(o, x)
             A == AtWork(o, x)
             T == {f \in InFlight(o) \ dlq : \E p \in Processes : At(p, f)}
             S == {p \in A : txn[p].event \in T}
             g == [p \in S |-> txn[p].event]
  <2>2. /\ IsFiniteSet(W) /\ IsFiniteSet(A)
        /\ Performances(o, x) + Cardinality(W) + Cardinality(A) + ToCome(o)
             <= 1 + overlaps
    BY DEF ForkInv, Paid
  <2>3. ToCome(o) \in {0, 1} /\ Performances(o, x) \in Nat
    BY PerformancesAreNumbers
  <2>4. InFlight(o) \ dlq = W \cup T
    BY <2>1 DEF Waiting, AheadOf
  <2>5. \A f \in T : \E p \in S : txn[p].event = f
    <3> SUFFICES ASSUME NEW f \in T PROVE \E p \in S : txn[p].event = f
      OBVIOUS
    <3>1. PICK p \in Processes : At(p, f)
      OBVIOUS
    <3>2. txn[p].at # "idle" /\ txn[p].event = f /\ f.order = o /\ f.type # "ORDER_CREATED"
      BY <3>1 DEF At, InFlight, Commands, Results
    <3>3. p \in A
      BY <2>1, <3>2 DEF AtWork, CanCommit, AheadOf
    <3> QED BY <3>2, <3>3
  <2>6. g \in Surjection(S, T)
    BY <2>5 DEF Surjection
  <2>7. S \subseteq A
    OBVIOUS
  <2> HIDE DEF W, A, T, S, g
  <2>8. IsFiniteSet(S) /\ Cardinality(S) <= Cardinality(A)
    BY <2>2, <2>7, SetSizes
  <2>9. IsFiniteSet(T) /\ Cardinality(T) <= Cardinality(S)
    BY <2>6, <2>8, FS_Surjection
  <2>10. /\ Cardinality(W \cup T) = Cardinality(W) + Cardinality(T) - Cardinality(W \cap T)
         /\ IsFiniteSet(W \cap T)
    <3>1. W \cap T \subseteq W
      OBVIOUS
    <3>2. IsFiniteSet(W \cap T)
      BY <2>2, <3>1, SetSizes
    <3> QED BY <2>2, <2>9, <3>2, FS_Union
  <2>11. /\ Cardinality(W) \in Nat /\ Cardinality(A) \in Nat /\ Cardinality(S) \in Nat
         /\ Cardinality(T) \in Nat /\ Cardinality(W \cap T) \in Nat
    BY <2>2, <2>8, <2>9, <2>10, FS_CardinalityType
  <2>12. Cardinality(W) + Cardinality(A) <= 1 + overlaps
    BY <1>1, <2>2, <2>3, <2>11
  <2>13. Cardinality(W \cup T) <= Cardinality(W) + Cardinality(A)
    BY <2>8, <2>9, <2>10, <2>11
  <2>14. Cardinality(W \cup T) <= 1 + overlaps
    <3>1. Cardinality(W \cup T) \in Int
      BY <2>10, <2>11
    <3> QED BY <1>1, <2>11, <2>12, <2>13, <3>1
  <2> QED BY <2>4, <2>14
<1> QED BY <1>2, <1>3 DEF ForksNeedAnOverlap

\* An order has as many commands and results on their way, and as many effects
\* of a kind, as it had overlapping deliveries, and one more: every fork is made
\* by an overlap (the copy of a saga that is no longer the row, in handleResult).
THEOREM ForksAreCounted == TransactionSpec => []ForksNeedAnOverlap
<1>1. TransactionSpec => []ForkInv
  BY InitForkInv, ForkInvKept, TransactionInvariant, PTL DEF TransactionSpec
<1>2. TransactionInv /\ ForkInv => ForksNeedAnOverlap
  BY ForksAreThreads DEF TransactionInv, TablesInv
<1> QED BY <1>1, <1>2, TransactionInvariant, PTL
-----------------------------------------------------------------------------
(* What OrderSaga proves, for the statements.                              *)

\* The safety properties of OrderSaga that concern several events of an order.
SafeAsOneService ==
  /\ OneInFlight
  /\ OneOutcomePerOrder
  /\ OnlyDuplicateCreationsDeadLettered
  /\ RepeatedEffectsNeedACrash
  /\ OutcomeMatchesEffects
  /\ RetryCountIsHonest

\* They hold until the first overlap, although the saga is read without a lock:
\* partitions of one consumer each are what protects it (handleResult, Load).
THEOREM SagasAreSafeUntilAnOverlap ==
  TransactionSpec => [](overlaps = 0 => SafeAsOneService)
<1> DEFINE Inv == overlaps = 0 => EffectsInv /\ CommandsInv
<1>1. TransactionInit => Inv
  BY InitEffectsInv, InitCommandsInv DEF TransactionInit
<1>2. TransactionInv /\ Inv /\ [TransactionNext]_allVars => Inv'
  <2> SUFFICES ASSUME TransactionInv, Inv, [TransactionNext]_allVars, overlaps' = 0
               PROVE  EffectsInv' /\ CommandsInv'
    OBVIOUS
  <2>1. overlaps = 0 /\ [Next]_vars
    BY CleanStep
  <2>2. SagaInv /\ EffectsInv /\ CommandsInv
    BY <2>1 DEF TransactionInv, CleanInv
  <2> QED BY <2>1, <2>2, EffectsInvKept, CommandsInvKept
<1>3. TransactionInv /\ Inv => (overlaps = 0 => SafeAsOneService)
  <2> SUFFICES ASSUME TransactionInv, Inv, overlaps = 0 PROVE SafeAsOneService
    OBVIOUS
  <2>1. SagaInv /\ EffectsInv /\ CommandsInv
    BY DEF TransactionInv, CleanInv
  <2>2. RepeatedEffectsNeedACrash /\ OutcomeMatchesEffects
    BY <2>1 DEF EffectsInv, Repetitions, Money, Charged, RepeatedEffectsNeedACrash,
         OutcomeMatchesEffects
  <2>3. RetryCountIsHonest
    BY <2>1 DEF CommandsInv, Honest, RetryCountIsHonest, SentCommands
  <2>4. OneInFlight /\ OneOutcomePerOrder /\ OnlyDuplicateCreationsDeadLettered
    BY <2>1 DEF SagaInv
  <2> QED BY <2>2, <2>3, <2>4 DEF SafeAsOneService
<1> HIDE DEF Inv
<1> QED BY <1>1, <1>2, <1>3, TransactionInvariant, PTL DEF TransactionSpec
=============================================================================
