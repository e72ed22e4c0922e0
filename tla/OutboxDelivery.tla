---------------------------- MODULE OutboxDelivery ----------------------------
(***************************************************************************)
(* What the transactional outbox promises to the rest of the system:       *)
(* whatever a business transaction committed is delivered to Kafka, sooner *)
(* or later and at least once, and nothing else is.  OrderSaga's action    *)
(* Relay and its fairness rest on this promise; OutboxRelay keeps it.      *)
(***************************************************************************)
CONSTANT Rows

VARIABLES committed,  \* rows that business transactions have committed
          delivered   \* rows whose event is in Kafka

delivery == <<committed, delivered>>

Init == committed = {} /\ delivered = {}

Commit(row) == /\ row \in Rows \ committed
               /\ committed' = committed \cup {row}
               /\ UNCHANGED delivered

\* A batch reaches Kafka, as a whole or in part, with or without old rows.
Deliver(batch) == /\ batch \subseteq committed
                  /\ delivered' = delivered \cup batch
                  /\ UNCHANGED committed

Next == \/ \E row \in Rows : Commit(row)
        \/ \E batch \in SUBSET Rows : Deliver(batch)

Spec == Init /\ [][Next]_delivery

Delivers(row) == /\ row \notin delivered
                 /\ \E batch \in SUBSET Rows : row \in batch /\ Deliver(batch)

FairSpec == Spec /\ \A row \in Rows : WF_delivery(Delivers(row))
=============================================================================
