---------------------------- MODULE CommandHandling ----------------------------
(***************************************************************************)
(* One command as OrderSaga sees a worker handle it: at most once, in one  *)
(* step that calls the gateway and answers; except that a gateway's        *)
(* success may be lost with the step (CrashAfterGateway).  A worker's      *)
(* transaction, statement by statement, implements this as long as no two  *)
(* processes are at the command together: see CommandTransaction.          *)
(***************************************************************************)
EXTENDS Naturals

VARIABLES answered,  \* was the command's result committed?
          effects    \* how often the gateway did what it was asked

command == <<answered, effects>>

Init == answered = FALSE /\ effects = 0

Handle == /\ ~ answered
          /\ answered' = TRUE
          /\ effects' \in {effects, effects + 1}

LoseEffect == /\ ~ answered
              /\ effects' = effects + 1
              /\ UNCHANGED answered

Next == Handle \/ LoseEffect

Spec == Init /\ [][Next]_command
=============================================================================
