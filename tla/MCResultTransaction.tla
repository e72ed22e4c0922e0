-------------------------- MODULE MCResultTransaction --------------------------
(* Instances of ResultTransaction: orders and processes are model values.    *)
EXTENDS ResultTransaction, TLC

CONSTANTS o1, p1, p2

\* The processes are alike, and the run checks safety only.
ProcessSymmetry == Permutations(Processes)
=============================================================================
