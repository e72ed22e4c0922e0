---------------------------- MODULE MCOutboxRelay ----------------------------
(* Instances of OutboxRelay for TLC: rows are numbers, because their order  *)
(* matters to a cycle; relays are interchangeable model values.             *)
EXTENDS OutboxRelay, TLC

CONSTANTS r1, r2

=============================================================================
