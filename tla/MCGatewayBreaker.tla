--------------------------- MODULE MCGatewayBreaker ---------------------------
(* Instances of GatewayBreaker: the orders are model values.                 *)
EXTENDS GatewayBreaker, TLC

CONSTANTS o1, o2, o3

\* The orders are alike, and the run checks invariants only.
OrderSymmetry == Permutations(Orders)
=============================================================================
