----------------------------- MODULE MCOrderSaga -----------------------------
(* Instances of OrderSaga for TLC: the order is a model value.               *)
EXTENDS OrderSaga, TLC

CONSTANT o1
=============================================================================
