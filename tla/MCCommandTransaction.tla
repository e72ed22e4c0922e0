------------------------- MODULE MCCommandTransaction -------------------------
(* Instances of CommandTransaction: the handlers are model values.           *)
EXTENDS CommandTransaction

CONSTANTS h1, h2, h3
=============================================================================
