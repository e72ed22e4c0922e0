---------------------------- MODULE OrderLifecycle ----------------------------
(***************************************************************************)
(* What the saga promises to whoever places orders and watches the topic   *)
(* orders.status: an order is opened at most once, an open order is        *)
(* decided exactly once, and the decision, and nothing else, is announced. *)
(* OrderSaga implements it.                                                *)
(***************************************************************************)
CONSTANT Orders

VARIABLES stage,     \* order -> how far it is
          announced  \* the <<order, outcome>> pairs seen on the status topic

lifecycle == <<stage, announced>>

Outcome == {"completed", "failed"}

Init == /\ stage = [o \in Orders |-> "unknown"]
        /\ announced = {}

OpenOrder(o) == /\ stage[o] = "unknown"
                /\ stage' = [stage EXCEPT ![o] = "open"]
                /\ UNCHANGED announced

Decide(o) == /\ stage[o] = "open"
             /\ \E r \in Outcome : stage' = [stage EXCEPT ![o] = r]
             /\ UNCHANGED announced

Announce(o) == /\ stage[o] \in Outcome
               /\ announced' = announced \cup {<<o, stage[o]>>}
               /\ UNCHANGED stage

Next == \E o \in Orders : OpenOrder(o) \/ Decide(o) \/ Announce(o)

Spec == Init /\ [][Next]_lifecycle

\* An open order does not stay open, and a decision does not stay a secret.
FairSpec == Spec /\ \A o \in Orders : /\ WF_lifecycle(Decide(o))
                                      /\ WF_lifecycle(Announce(o))
=============================================================================
