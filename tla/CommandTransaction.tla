-------------------------- MODULE CommandTransaction --------------------------
(***************************************************************************)
(* A worker's transaction on one command, statement by statement, as       *)
(* PostgreSQL runs it under READ COMMITTED (WithTx begins it with no       *)
(* options): the journal is asked for the command, the IN row is appended  *)
(* with ON CONFLICT DO NOTHING, the gateway is called, the result is       *)
(* written and all is committed or rolled back.                            *)
(*                                                                         *)
(* Kafka delivers the command to some process of the worker's consumer     *)
(* group, again and again.  A rebalance may deliver it to a second process *)
(* while the first is still at it (Rebalance in module Consumer), which is *)
(* counted in overlaps.  The statements of payment.go's process stand for  *)
(* those of refund, reserve and notify, which have the same order.         *)
(***************************************************************************)
EXTENDS Naturals

CONSTANTS
  Handlers,      \* the processes of the group
  MaxRollbacks,  \* bound: transactions rolled back, by an error or a crash
  MaxOverlaps    \* bound: deliveries to a process while another is at it

ASSUME CommandBoundsAssumption == MaxRollbacks \in Nat /\ MaxOverlaps \in Nat
ASSUME HandlersAssumption == {"absent", "committed"} \cap Handlers = {}

VARIABLES
  pc,         \* handler -> the statement it is at
  row,        \* the IN row: absent, committed, or who inserted it uncommitted
  performed,  \* handler -> did the gateway do it, in this transaction?
  answers,    \* results committed to the outbox
  effects,    \* how often the gateway did what it was asked
  rollbacks,
  overlaps

vars == <<pc, row, performed, answers, effects, rollbacks, overlaps>>

Init == /\ pc = [h \in Handlers |-> "idle"]
        /\ row = "absent"
        /\ performed = [h \in Handlers |-> FALSE]
        /\ answers = 0
        /\ effects = 0
        /\ rollbacks = 0
        /\ overlaps = 0

GoTo(h, place) == pc' = [pc EXCEPT ![h] = place]

Busy(h) == \E g \in Handlers \ {h} : pc[g] # "idle"

Deliver(h) ==
  /\ pc[h] = "idle"
  /\ IF Busy(h) THEN overlaps < MaxOverlaps /\ overlaps' = overlaps + 1
                ELSE UNCHANGED overlaps
  /\ GoTo(h, "has")
  /\ UNCHANGED <<row, performed, answers, effects, rollbacks>>

\* Mutation of Has: the journal is not asked.
HasNot(h) ==
  /\ pc[h] = "has"
  /\ GoTo(h, "append")
  /\ UNCHANGED <<row, performed, answers, effects, rollbacks, overlaps>>

\* alreadyProcessed sees committed rows only.
Has(h) ==
  /\ pc[h] = "has"
  /\ GoTo(h, IF row = "committed" THEN "idle" ELSE "append")
  /\ UNCHANGED <<row, performed, answers, effects, rollbacks, overlaps>>

\* The insertion waits for a transaction that has the same key uncommitted.
\* If that one commits, nothing is inserted, no error is raised, and the
\* handler goes on.
AppendIn(h) ==
  /\ pc[h] = "append"
  /\ row \notin Handlers
  /\ row' = (IF row = "committed" THEN row ELSE h)
  /\ GoTo(h, "gateway")
  /\ UNCHANGED <<performed, answers, effects, rollbacks, overlaps>>

\* Mutation of CallGateway: an error of the gateway is tried again on the spot.
CallGatewayTwice(h) ==
  /\ pc[h] = "gateway"
  /\ \E n \in 0..2 : /\ effects' = effects + n
                     /\ performed' = [performed EXCEPT ![h] = n > 0]
  /\ GoTo(h, "commit")
  /\ UNCHANGED <<row, answers, rollbacks, overlaps>>

CallGateway(h) ==
  /\ pc[h] = "gateway"
  /\ \E done \in BOOLEAN :
       /\ performed' = [performed EXCEPT ![h] = done]
       /\ effects' = (IF done THEN effects + 1 ELSE effects)
  /\ GoTo(h, "commit")
  /\ UNCHANGED <<row, answers, rollbacks, overlaps>>

\* Mutation of Commit: the handler marks the command and publishes no result.
CommitWithoutResult(h) ==
  /\ pc[h] = "commit"
  /\ row' = "committed"
  /\ performed' = [performed EXCEPT ![h] = FALSE]
  /\ GoTo(h, "idle")
  /\ UNCHANGED <<answers, effects, rollbacks, overlaps>>

\* The result has an id of its own: its rows conflict with nothing.
Commit(h) ==
  /\ pc[h] = "commit"
  /\ answers' = answers + 1
  /\ row' = "committed"
  /\ performed' = [performed EXCEPT ![h] = FALSE]
  /\ GoTo(h, "idle")
  /\ UNCHANGED <<effects, rollbacks, overlaps>>

\* Mutation of Rollback: the inserted row stays locked.
RollbackLeaksRow(h) ==
  /\ pc[h] # "idle"
  /\ rollbacks < MaxRollbacks
  /\ rollbacks' = rollbacks + 1
  /\ performed' = [performed EXCEPT ![h] = FALSE]
  /\ GoTo(h, "idle")
  /\ UNCHANGED <<row, answers, effects, overlaps>>

\* An error of a statement, or the end of the process; what the gateway did
\* stays done.
Rollback(h) ==
  /\ pc[h] # "idle"
  /\ rollbacks < MaxRollbacks
  /\ rollbacks' = rollbacks + 1
  /\ row' = (IF row = h THEN "absent" ELSE row)
  /\ performed' = [performed EXCEPT ![h] = FALSE]
  /\ GoTo(h, "idle")
  /\ UNCHANGED <<answers, effects, overlaps>>
-----------------------------------------------------------------------------
Statement(h) == Has(h) \/ AppendIn(h) \/ CallGateway(h) \/ Commit(h)

Next == \E h \in Handlers : Deliver(h) \/ Statement(h) \/ Rollback(h)

Spec == Init /\ [][Next]_vars

\* Transactions run on, and Kafka delivers until the offset is committed.
Fairness == /\ \A h \in Handlers : WF_vars(Statement(h))
            /\ WF_vars(\E h \in Handlers : Deliver(h))

FairSpec == Spec /\ Fairness
-----------------------------------------------------------------------------
\* Every variable keeps its type, and only a handler past its insertion holds
\* the row.
TypeOK == /\ pc \in [Handlers -> {"idle", "has", "append", "gateway", "commit"}]
          /\ row \in Handlers \cup {"absent", "committed"}
          /\ row \in Handlers => pc[row] \in {"gateway", "commit"}
          /\ performed \in [Handlers -> BOOLEAN]
          /\ answers \in Nat
          /\ effects \in Nat
          /\ rollbacks \in 0..MaxRollbacks
          /\ overlaps \in 0..MaxOverlaps

\* A command gets one result for every process that was at it together with
\* another one: redelivery, however often, and rollbacks add none.
AnswersNeedAnOverlap == answers <= 1 + overlaps

\* The gateway repeats itself only for a transaction that was rolled back or a
\* process that overlapped.
EffectsNeedACause == effects <= 1 + rollbacks + overlaps

\* Every command is answered, through rollbacks, and nobody waits for a row
\* for ever.
CommandIsAnswered ==
  /\ <>(answers > 0)
  /\ \A h \in Handlers : pc[h] = "append" ~> pc[h] # "append"

\* As long as no two processes were at the command together, the transaction is
\* the one step OrderSaga takes a worker's handler for, at its commit, or the
\* gateway's success that CrashAfterGateway loses, at a rollback.  In particular
\* a command that is skipped was answered.
Handling == INSTANCE CommandHandling WITH
  answered <- answers > 0,
  effects <- IF \E h \in Handlers : performed[h] THEN effects - 1 ELSE effects
HandledInOneStep == [][overlaps' = 0 => [Handling!Next]_Handling!command]_vars
=============================================================================
