----------------------------- MODULE SagaDomain -----------------------------
(***************************************************************************)
(* The vocabulary and the pure tables of the order saga: the statuses and  *)
(* event types of internal/domain, and the lookup functions with which the *)
(* orchestrator decides (internal/application/orchestrator).  Nothing here *)
(* has state.                                                              *)
(***************************************************************************)
EXTENDS Naturals

\* The statuses a row of table "sagas" can hold.  "" is the Go zero value:
\* the Previous of a new saga and the Current of a saga that does not exist.
SagaStatus == {"PENDING", "PAYMENT_PENDING", "PAYMENT_APPROVED",
               "PAYMENT_REFUND_PENDING", "INVENTORY_RESERVED", "NOTIFIED",
               "COMPLETED", "FAILED"}

\* Two more statuses travel in results only.
OrderStatus == SagaStatus \cup {"PAYMENT_REFUNDED", "RETRYING"}

Terminal == {"COMPLETED", "FAILED"}

Commands == {"PAYMENT_COMMAND", "PAYMENT_COMPENSATE", "INVENTORY_COMMAND",
             "NOTIFICATION_COMMAND"}
Results == {"PAYMENT_RESULT", "PAYMENT_COMPENSATE_RESULT", "INVENTORY_RESULT",
            "NOTIFICATION_RESULT"}
Announcements == {"ORDER_COMPLETED", "ORDER_FAILED"}
EventType == {"ORDER_CREATED"} \cup Commands \cup Results \cup Announcements

\* domain.Saga.  TransactionID is the number of the charge it stands for; 0
\* is the empty string.
Saga == [current : SagaStatus \cup {""}, previous : SagaStatus \cup {""},
         retryCount : Nat, tx : Nat]

\* The zero Saga that Load returns together with ErrSagaNotFound.
NoSaga == [current |-> "", previous |-> "", retryCount |-> 0, tx |-> 0]

\* What the metadata of an ORDER_FAILED or ORDER_COMPLETED event reports.
Notes == {"", "payment_refunded", "payment_refund_failed", "notification_error"}
-----------------------------------------------------------------------------
(* The state machine table.                                                *)

ValidTransitions ==
  {<<"PENDING", "PAYMENT_PENDING">>,
   <<"PAYMENT_PENDING", "PAYMENT_APPROVED">>, <<"PAYMENT_PENDING", "FAILED">>,
   <<"PAYMENT_APPROVED", "INVENTORY_RESERVED">>,
   <<"PAYMENT_APPROVED", "PAYMENT_REFUND_PENDING">>,
   <<"PAYMENT_APPROVED", "FAILED">>,
   <<"PAYMENT_REFUND_PENDING", "FAILED">>,
   <<"INVENTORY_RESERVED", "NOTIFIED">>,
   <<"INVENTORY_RESERVED", "COMPLETED">>,
   <<"INVENTORY_RESERVED", "FAILED">>,
   <<"NOTIFIED", "COMPLETED">>}

\* Mutation of CanTransitionTo: the entry for a confirmed notification is missing.
CanTransitionToWithoutNotified(from, to) ==
  <<from, to>> \in ValidTransitions \ {<<"INVENTORY_RESERVED", "NOTIFIED">>}

CanTransitionTo(from, to) == <<from, to>> \in ValidTransitions
-----------------------------------------------------------------------------
(* What to send next, and what to accept.                                  *)

\* The command that drives the step the saga is at; "" is the error.
NextCommand(current) ==
  CASE current \in {"PENDING", "PAYMENT_PENDING"} -> "PAYMENT_COMMAND"
    [] current = "PAYMENT_APPROVED"               -> "INVENTORY_COMMAND"
    [] current = "PAYMENT_REFUND_PENDING"         -> "PAYMENT_COMPENSATE"
    [] current = "INVENTORY_RESERVED"             -> "NOTIFICATION_COMMAND"
    [] OTHER                                      -> ""

\* The status the command carries, which is also the saga's next status: only
\* PENDING has an intermediate status of its own.
TargetStatus(current) ==
  IF current = "PENDING" THEN "PAYMENT_PENDING" ELSE current

\* The status the saga must be in for a result of this type to be in order.
ExpectedStatusForResult(type) ==
  CASE type = "PAYMENT_RESULT"            -> "PAYMENT_PENDING"
    [] type = "PAYMENT_COMPENSATE_RESULT" -> "PAYMENT_REFUND_PENDING"
    [] type = "INVENTORY_RESULT"          -> "PAYMENT_APPROVED"
    [] type = "NOTIFICATION_RESULT"       -> "INVENTORY_RESERVED"
    [] OTHER                              -> ""

\* The success status of each worker's result.
SuccessStatus(type) ==
  CASE type = "PAYMENT_RESULT"            -> "PAYMENT_APPROVED"
    [] type = "PAYMENT_COMPENSATE_RESULT" -> "PAYMENT_REFUNDED"
    [] type = "INVENTORY_RESULT"          -> "INVENTORY_RESERVED"
    [] type = "NOTIFICATION_RESULT"       -> "NOTIFIED"
    [] OTHER                              -> ""

ValidResultStatus(type, status) ==
  status \in {SuccessStatus(type), "RETRYING", "FAILED"}

\* The status a worker requires of the command it handles.
CommandStatus(type) ==
  CASE type = "PAYMENT_COMMAND"      -> "PAYMENT_PENDING"
    [] type = "PAYMENT_COMPENSATE"   -> "PAYMENT_REFUND_PENDING"
    [] type = "INVENTORY_COMMAND"    -> "PAYMENT_APPROVED"
    [] type = "NOTIFICATION_COMMAND" -> "INVENTORY_RESERVED"
    [] OTHER                         -> ""

\* The service whose handler acts on an event of this type, by the topic it is
\* routed to and the consumer group that reads it; announcements have none.
Consumer(type) ==
  CASE type \in {"ORDER_CREATED"} \cup Results                -> "orchestrator"
    [] type \in {"PAYMENT_COMMAND", "PAYMENT_COMPENSATE"} -> "worker-payment"
    [] type = "INVENTORY_COMMAND"                         -> "worker-inventory"
    [] type = "NOTIFICATION_COMMAND"                      -> "worker-notification"
    [] OTHER                                              -> ""
=============================================================================
