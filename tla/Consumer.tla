------------------------------- MODULE Consumer -------------------------------
(***************************************************************************)
(* A service's Kafka consumer: one process with a consumer group member    *)
(* per worker goroutine (Consumer.Consume, consumeWorker).  Offsets are    *)
(* committed in batches; a message the handler rejects for good moves to   *)
(* the dead letter topic; any other error of a handler ends the worker,    *)
(* cancels the others (errgroup) and is meant to end the process, which    *)
(* its supervisor restarts.  A watchdog reconnects a reader that stalls.   *)
(*                                                                         *)
(* The broker (log, committed offsets, assignment of partitions) is        *)
(* external and modelled from how the code uses it.  When partitions are   *)
(* assigned anew, reading resumes at the committed offsets, and a worker   *)
(* keeps what it has pending, whoever owns the partition now.              *)
(***************************************************************************)
EXTENDS Integers, Sequences

CONSTANTS
  Partitions,
  Workers,      \* the goroutines, SAGA_WORKERS of them
  CommitBatch,  \* KAFKA_COMMIT_BATCH
  Poison,       \* the <<partition, offset>> pairs no handler accepts
  MaxOffset,    \* bound: messages per partition
  MaxFaults     \* bound: errors, stalls, rebalances, signals and crashes

ASSUME WorkersAssumption == Workers # {}
ASSUME CommitBatchAssumption == CommitBatch \in Nat \ {0}
ASSUME ConsumerBoundsAssumption == MaxOffset \in Nat /\ MaxFaults \in Nat

VARIABLES
  end,          \* partition -> how many messages its log has
  committed,    \* partition -> the group's committed offset
  owner,        \* partition -> the worker it is assigned to
  position,     \* partition -> the next offset its owner fetches
  up,           \* does the process run?
  ctx,          \* the errgroup's context, see Contexts
  phase,        \* worker -> what its goroutine is at, see Phases
  msg,          \* worker -> the <<partition, offset>> it handles
  pending,      \* worker -> pendingCommits
  due,          \* worker -> has CommitInterval passed since its last flush?
  reconnected,  \* worker -> has it closed the channel its defer will close?
  settled,      \* partition -> the offsets handled or moved to the DLQ
  faults        \* faults so far

broker == <<end, committed, owner, position>>
worker == <<phase, msg, pending, due, reconnected>>
vars == <<broker, up, ctx, worker, settled, faults>>

Offsets == 0..MaxOffset - 1
Messages == Partitions \X Offsets
NoMessage == <<>>

\* Cancelled by the errgroup ("failed") or by SIGTERM ("signalled").
Contexts == {"live", "failed", "signalled"}
\* "spin" is the reconnection branch of a loop whose context is cancelled.
Phases == {"fetch", "handle", "spin", "returned"}

Cancelled == ctx # "live"

Init == /\ end = [p \in Partitions |-> 0]
        /\ committed = [p \in Partitions |-> 0]
        /\ owner \in [Partitions -> Workers]
        /\ position = [p \in Partitions |-> 0]
        /\ up = TRUE
        /\ ctx = "live"
        /\ phase = [w \in Workers |-> "fetch"]
        /\ msg = [w \in Workers |-> NoMessage]
        /\ pending = [w \in Workers |-> <<>>]
        /\ due = [w \in Workers |-> FALSE]
        /\ reconnected = [w \in Workers |-> FALSE]
        /\ settled = [p \in Partitions |-> {}]
        /\ faults = 0

Costs(n) == faults + n <= MaxFaults /\ faults' = faults + n

\* What is given a cancelled context may fail without a fault of its own.
FailureCost == IF Cancelled THEN 0 ELSE 1
-----------------------------------------------------------------------------
(* The broker.                                                             *)

Produce(p) ==
  /\ end[p] < MaxOffset
  /\ end' = [end EXCEPT ![p] = @ + 1]
  /\ UNCHANGED <<committed, owner, position, up, ctx, worker, settled, faults>>

InBatch(batch, p) == {batch[i][2] : i \in {j \in 1..Len(batch) : batch[j][1] = p}}

\* CommitMessages: the group's offset goes behind the highest message of each
\* partition, even if that is lower than what it was.
Committing(batch) ==
  [p \in Partitions |->
     IF InBatch(batch, p) = {} THEN committed[p]
     ELSE 1 + CHOOSE o \in InBatch(batch, p) : \A n \in InBatch(batch, p) : n <= o]

\* A commit in a step that costs n faults without it; it may fail.
Commit(batch, n) == \/ Costs(n) /\ committed' = Committing(batch)
                    \/ Costs(n + FailureCost) /\ committed' = committed

\* The members get new assignments and start from the offsets committed by then.
Rebalanced(members) ==
  /\ IF members = {} THEN owner' = owner ELSE owner' \in [Partitions -> members]
  /\ position' = committed'

Members == {w \in Workers : phase[w] # "returned"}

\* Another process of the service joins or leaves the group.
Rebalance ==
  /\ up
  /\ committed' = committed
  /\ Rebalanced(Members)
  /\ Costs(1)
  /\ UNCHANGED <<end, up, ctx, worker, settled>>
-----------------------------------------------------------------------------
(* The process.                                                            *)

\* Whatever ends the process, its memory is gone.
ProcessStops ==
  /\ up' = FALSE
  /\ ctx' = "live"
  /\ phase' = [w \in Workers |-> "fetch"]
  /\ msg' = [w \in Workers |-> NoMessage]
  /\ pending' = [w \in Workers |-> <<>>]
  /\ due' = [w \in Workers |-> FALSE]
  /\ reconnected' = [w \in Workers |-> FALSE]
  /\ UNCHANGED <<owner, position>>

Restart ==
  /\ ~ up
  /\ up' = TRUE
  /\ committed' = committed
  /\ Rebalanced(Workers)
  /\ UNCHANGED <<end, ctx, worker, settled, faults>>

Crash ==
  /\ up
  /\ ProcessStops
  /\ Costs(1)
  /\ UNCHANGED <<end, committed, settled>>

\* SIGTERM: NotifyContext cancels the context of every worker.
Terminate ==
  /\ up
  /\ ctx # "signalled"
  /\ ctx' = "signalled"
  /\ Costs(1)
  /\ UNCHANGED <<broker, up, worker, settled>>

\* SIGKILL, when the grace period is over.
Kill ==
  /\ up
  /\ ctx = "signalled"
  /\ ProcessStops
  /\ UNCHANGED <<end, committed, settled, faults>>

\* eg.Wait returns once every worker has, and main exits.
ConsumeReturns ==
  /\ up
  /\ \A w \in Workers : phase[w] = "returned"
  /\ ProcessStops
  /\ UNCHANGED <<end, committed, settled, faults>>

\* Mutation of WorkerReturns: the loop logs the error and goes on with the next
\* message.
WorkerGoesOn(w) ==
  /\ phase' = [phase EXCEPT ![w] = "fetch"]
  /\ msg' = [msg EXCEPT ![w] = NoMessage]
  /\ UNCHANGED <<owner, position, up, ctx, pending, due, reconnected>>

\* consumeWorker returns an error, which cancels the others.  Its deferred
\* close hits the channel made at its start: after a reconnection that channel
\* is closed already, and the panic takes the process down.
WorkerReturns(w) ==
  IF reconnected[w]
    THEN ProcessStops
    ELSE /\ ctx' = (IF Cancelled THEN ctx ELSE "failed")
         /\ phase' = [phase EXCEPT ![w] = "returned"]
         /\ msg' = [msg EXCEPT ![w] = NoMessage]
         /\ pending' = [pending EXCEPT ![w] = <<>>]
         /\ due' = [due EXCEPT ![w] = FALSE]
         /\ Rebalanced(Members \ {w})
         /\ UNCHANGED <<up, reconnected>>
-----------------------------------------------------------------------------
(* The loop of consumeWorker.                                              *)

\* Mutation of Fetch: ReadMessage, which commits what it returns.
FetchAndCommit(w) ==
  /\ up
  /\ phase[w] = "fetch"
  /\ \E p \in Partitions :
       /\ owner[p] = w
       /\ position[p] < end[p]
       /\ msg' = [msg EXCEPT ![w] = <<p, position[p]>>]
       /\ position' = [position EXCEPT ![p] = @ + 1]
       /\ committed' = [committed EXCEPT ![p] = position[p] + 1]
  /\ phase' = [phase EXCEPT ![w] = "handle"]
  /\ UNCHANGED <<end, owner, up, ctx, pending, due, reconnected, settled, faults>>

\* Mutation of Fetch: the offset joins the batch before the handler has run.
FetchIntoBatch(w) ==
  /\ up
  /\ phase[w] = "fetch"
  /\ \E p \in Partitions :
       /\ owner[p] = w
       /\ position[p] < end[p]
       /\ msg' = [msg EXCEPT ![w] = <<p, position[p]>>]
       /\ position' = [position EXCEPT ![p] = @ + 1]
       /\ pending' = [pending EXCEPT ![w] = Append(@, <<p, position[p]>>)]
  /\ phase' = [phase EXCEPT ![w] = "handle"]
  /\ UNCHANGED <<end, committed, owner, up, ctx, due, reconnected, settled, faults>>

\* FetchMessage returns a message.  With a cancelled context it may still do
\* so, if the reader has one buffered.
Fetch(w) ==
  /\ up
  /\ phase[w] = "fetch"
  /\ \E p \in Partitions :
       /\ owner[p] = w
       /\ position[p] < end[p]
       /\ msg' = [msg EXCEPT ![w] = <<p, position[p]>>]
       /\ position' = [position EXCEPT ![p] = @ + 1]
  /\ phase' = [phase EXCEPT ![w] = "handle"]
  /\ UNCHANGED <<end, committed, owner, up, ctx, pending, due, reconnected,
                 settled, faults>>

\* A fetch error that is not transient, or a context cancelled in the wait
\* after a transient one: flush and return.
FetchFails(w) ==
  /\ up
  /\ phase[w] = "fetch"
  /\ Commit(pending[w], 1)
  /\ WorkerReturns(w)
  /\ UNCHANGED <<end, settled>>

\* Flush, then a new reader for the same worker.  A flush of nothing leaves the
\* clock alone.
Reconnect(w) ==
  /\ pending' = [pending EXCEPT ![w] = <<>>]
  /\ due' = [due EXCEPT ![w] = @ /\ pending[w] = <<>>]
  /\ reconnected' = [reconnected EXCEPT ![w] = TRUE]
  /\ Rebalanced(Members)

\* The watchdog cancels the fetch.
Stall(w) ==
  /\ up
  /\ ~ Cancelled
  /\ phase[w] = "fetch"
  /\ Commit(pending[w], 1)
  /\ Reconnect(w)
  /\ UNCHANGED <<end, up, ctx, phase, msg, settled>>

\* The parent's cancellation looks to the loop like the watchdog's: it
\* reconnects, again and again, and every fetch of a new reader fails at once.
Spin(w) ==
  /\ up
  /\ Cancelled
  /\ phase[w] \in {"fetch", "spin"}
  /\ Commit(pending[w], 0)
  /\ Reconnect(w)
  /\ phase' = [phase EXCEPT ![w] = "spin"]
  /\ UNCHANGED <<end, up, ctx, msg, settled>>

\* The message is done with; worker w is back at its fetch.
Done(w) ==
  /\ phase' = [phase EXCEPT ![w] = "fetch"]
  /\ msg' = [msg EXCEPT ![w] = NoMessage]
  /\ settled' = [settled EXCEPT ![msg[w][1]] = @ \cup {msg[w][2]}]

\* Mutation of Succeeds: a batch is full one message too late.
SucceedsLate(w) ==
  LET batch == Append(pending[w], msg[w])
  IN  /\ up
      /\ phase[w] = "handle"
      /\ msg[w] \notin Poison
      /\ Done(w)
      /\ IF Len(batch) > CommitBatch \/ due[w]
           THEN /\ Commit(batch, 0)
                /\ pending' = [pending EXCEPT ![w] = <<>>]
                /\ due' = [due EXCEPT ![w] = FALSE]
           ELSE /\ pending' = [pending EXCEPT ![w] = batch]
                /\ UNCHANGED <<committed, due, faults>>
      /\ UNCHANGED <<end, owner, position, up, ctx, reconnected>>

\* The handler returns nil: the offset joins the batch, which is committed when
\* it is full or its interval is over.  A failed commit loses the batch.
Succeeds(w) ==
  LET batch == Append(pending[w], msg[w])
  IN  /\ up
      /\ phase[w] = "handle"
      /\ msg[w] \notin Poison
      /\ Done(w)
      /\ IF Len(batch) >= CommitBatch \/ due[w]
           THEN /\ Commit(batch, 0)
                /\ pending' = [pending EXCEPT ![w] = <<>>]
                /\ due' = [due EXCEPT ![w] = FALSE]
           ELSE /\ pending' = [pending EXCEPT ![w] = batch]
                /\ UNCHANGED <<committed, due, faults>>
      /\ UNCHANGED <<end, owner, position, up, ctx, reconnected>>

\* Mutation of Rejects: a message without a DLQ is not skipped but returned
\* as the worker's error.
RejectsAsError(w) ==
  /\ up
  /\ phase[w] = "handle"
  /\ msg[w] \in Poison
  /\ committed' = committed
  /\ WorkerReturns(w)
  /\ UNCHANGED <<end, settled, faults>>

\* moveToDLQ: the message is copied and its own offset committed at once.
Rejects(w) ==
  /\ up
  /\ phase[w] = "handle"
  /\ msg[w] \in Poison
  /\ Done(w)
  /\ Commit(<<msg[w]>>, 0)
  /\ UNCHANGED <<end, owner, position, up, ctx, pending, due, reconnected>>

\* The handler's error is transient, or the DLQ cannot be written: return
\* without a flush.
HandlerFails(w) ==
  /\ up
  /\ phase[w] = "handle"
  /\ Costs(FailureCost)
  /\ committed' = committed
  /\ WorkerReturns(w)
  /\ UNCHANGED <<end, settled>>

IntervalPasses(w) ==
  /\ up
  /\ ~ due[w]
  /\ phase[w] # "returned"
  /\ due' = [due EXCEPT ![w] = TRUE]
  /\ UNCHANGED <<broker, up, ctx, phase, msg, pending, reconnected, settled, faults>>
-----------------------------------------------------------------------------
Handle(w) == Succeeds(w) \/ Rejects(w) \/ HandlerFails(w)

Next == \/ \E p \in Partitions : Produce(p)
        \/ Rebalance \/ Restart \/ Crash \/ Terminate \/ Kill \/ ConsumeReturns
        \/ \E w \in Workers : \/ Fetch(w) \/ FetchFails(w) \/ Stall(w) \/ Spin(w)
                              \/ Handle(w) \/ IntervalPasses(w)

Spec == Init /\ [][Next]_vars

\* Goroutines make progress, time passes, SIGTERM is followed by SIGKILL and a
\* process that ended is started again.
Fairness == /\ \A w \in Workers : /\ WF_vars(Fetch(w) \/ Spin(w))
                                  /\ WF_vars(Handle(w))
                                  /\ WF_vars(IntervalPasses(w))
            /\ WF_vars(Restart)
            /\ WF_vars(Kill)
            /\ WF_vars(ConsumeReturns)

FairSpec == Spec /\ Fairness
-----------------------------------------------------------------------------
\* Every variable keeps its type, and no batch grows past CommitBatch.
TypeOK == /\ end \in [Partitions -> 0..MaxOffset]
          /\ committed \in [Partitions -> 0..MaxOffset]
          /\ owner \in [Partitions -> Workers]
          /\ position \in [Partitions -> 0..MaxOffset]
          /\ up \in BOOLEAN
          /\ ctx \in Contexts
          /\ phase \in [Workers -> Phases]
          /\ msg \in [Workers -> Messages \cup {NoMessage}]
          /\ pending \in [Workers -> UNION {[1..n -> Messages] : n \in 0..CommitBatch - 1}]
          /\ due \in [Workers -> BOOLEAN]
          /\ reconnected \in [Workers -> BOOLEAN]
          /\ settled \in [Partitions -> SUBSET Offsets]
          /\ faults \in 0..MaxFaults

\* An offset is committed only when every message below it was handled or moved
\* to the DLQ, however commits fail, partitions move and workers end: a group
\* that starts from its committed offsets misses nothing.
NothingSkipped == \A p \in Partitions : 0..committed[p] - 1 \subseteq settled[p]

\* "a ordem é preservada por partição": a message is settled for the first time
\* only after every message before it in its partition, so that the events of
\* one order reach the handler in the order they were published.
InPartitionOrder == \A p \in Partitions : \A o \in settled[p] : 0..o \subseteq settled[p]

\* A worker that holds a message while another worker owns its partition can
\* only repeat work: its commit never passes what was settled, and what it puts
\* into its batch was settled before.
BatchesAreSettled ==
  \A w \in Workers : \A p \in Partitions : InBatch(pending[w], p) \subseteq settled[p]

\* Every message in the log is handled or moved to the DLQ in the end, through
\* failing handlers, stalls, signals and crashes, when one worker runs.
EveryMessageIsSettled ==
  \A m \in Messages : m[2] < end[m[1]] ~> m[2] \in settled[m[1]]
=============================================================================
