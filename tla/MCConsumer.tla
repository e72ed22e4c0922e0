------------------------------ MODULE MCConsumer ------------------------------
(* Instances of Consumer, and what a comment promises but the code does       *)
(* not do.                                                                   *)
EXTENDS Consumer

CONSTANTS p1, p2

SecondIsPoison == {<<p1, 1>>}
NoPoison == {}

\* consumer.go:95: Consume "Retorna o primeiro erro".  Once a worker has
\* returned its error, Consume returns and the process ends.
FirstErrorIsReturned == (\E w \in Workers : phase[w] = "returned") ~> ~ up
=============================================================================
