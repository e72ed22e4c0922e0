------------------------------ MODULE MCOrderView ------------------------------
(* Instances of OrderView: the orders are model values.                      *)
EXTENDS OrderView

CONSTANTS o1
=============================================================================
