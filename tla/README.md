# TLA+ models of workers-kafka

`workers-kafka` runs an order saga over Kafka and PostgreSQL: a coordinator
announces an order, an orchestrator drives it through payment, inventory and
notification, three workers call gateways and answer, and a relay carries what
the services commit to their outbox table to Kafka.  This directory holds TLA+
modules of that program, configurations with which TLC checks them, and
theorems that TLAPS proves about them.  All paths below are relative to the
repository root; `PROJECT.json` maps each definition to the lines it models.

## 1. The system

| Component | State | Operations | Talks to | What is hard | What makes it correct |
|---|---|---|---|---|---|
| Coordinator (`worker/coordinator.go`, `cmd/create-order`, `cmd/load-generator`) | none | `CreateOrder` | writes `orders.created` directly | the caller may use an order id again | a second creation neither restarts nor blocks anything |
| Orchestrator (`orchestrator/*.go`) | table `sagas`, its rows in `saga_events` | `startOrder`, `handleResult` → `retry`, `startCompensation`, `fail`, `complete`, `dispatchNext` | outbox; results from Kafka | redelivery, late and stray results, retry limits, one terminal event | one event in flight per open saga; one outcome; compensation |
| Workers (`worker/payment.go`, `inventory.go`, `notification.go`) | rows in `saga_events` | `process`, `refund`, `reserve`, `notify` | gateways inside the transaction; outbox | the gateway is not part of the transaction | an effect is repeated only if a transaction was lost |
| Unit of work, repositories (`uow`, `persistence/postgres`) | `pgx.Tx` | `WithTx`, `Load`, `Save`, `Append`, `Has` | PostgreSQL, READ COMMITTED | two processes in the same event | one committed result per command |
| Outbox relay (`cmd/outbox-relay`, `outbox_repository.go`) | `published_at`, `claimed_at` | `ClaimPending`, `PublishBatch`, `MarkPublishedBatch`, `PurgePublished` | outbox → Kafka | replicas, partial publication, claims that expire | no event lost, duplicates only with a cause |
| Consumer (`kafka/consumer.go`) | offsets, `pendingCommits`, reader, contexts | `Consume`, `consumeWorker`, `moveToDLQ`, `watchdogStall` | Kafka consumer group; handlers | rebalances, batch commits, cancellation, watchdog | nothing skipped, order per partition, progress |
| Projector (`projector.go`, `order_view_repository.go`) | `order_views`, `processed_events` | `MarkProcessed`, `ApplyEvent` | all topics → read database | two transactions per event; no order between topics | every mark is accounted for; the row agrees with its timeline and shows the saga's outcome |
| Breakers and simulators (`external/`) | state, consecutive failures, generation | `Execute` | gateways | one breaker for all orders; calls that outlive a state | one trial in half-open; one failing order never opens it |
| Autoscaler (`cmd/autoscaler`) | replicas it believes in, `highCount`, `idleStart` | control loop | docker-compose, Kafka's lag | scaling that fails, restarts, lags that are read wrongly or late | stays within its limits, follows a lasting demand, removes a replica only after the idle time unless its belief drifted |
| Metrics, tracing, logging, health, env, migrations, deployment | – | – | – | – | – |

The components interact through two media only: rows of the write database,
which one transaction (`WithTx`) commits together, and Kafka topics, which
deliver at least once.  The list of hazards, each at its line and with the
property that watches it, is in `PROJECT.json`.

## 2. The modules

```
OrderLifecycle  <--implements--  OrderSaga (+ SagaDomain)
                                   |  takes delivery for granted     <- OutboxDelivery  <--implements-- OutboxRelay
                                   |  one step per command           <- CommandHandling <--implements-- CommandTransaction
                                   |  one step per result, creation  <----------------- ResultTransaction (extends OrderSaga)
                                   |  at-least-once reading          <- Consumer
                                   |  a gateway may refuse (RETRYING) <- GatewayBreaker
                                   +--- read by                      -> OrderView (extends OrderSaga)
Autoscaler (on its own)
```

The saga is modelled once, with coarse steps.  Detailed modules each justify one
of the abstractions it makes, or show where the code falls short of it; OrderView
puts the read side next to it.

* **SagaDomain** – statuses, event types and the tables of
  `state_machine.go`, `nextCommand`, `expectedStatusForResult`,
  `validateResultStatus` and `topicForEventType`, as pure operators.
* **OrderSaga** – one action per outcome of a handler (`StartOrder`, `Retry`,
  `Advance`, `StartCompensation`, `Fail`, `Complete`; `ProcessPayment`,
  `RefundPayment`, `ReserveInventory`, `Notify`), each the whole transaction:
  saga row, journal rows, outbox row.  `bus` is the set of events ever written
  to Kafka; it never shrinks, so every event can be delivered again, late, and
  in any order, which covers rebalances, replays from a DLQ and a relay that
  publishes twice.  `CrashAfterGateway` is the transaction lost after the
  gateway's success.  Payloads, prices and times are abstracted away; event ids
  are numbers that are fresh per order; a transaction id is the number of the
  charge.
* **OrderLifecycle** – what an outside observer is promised: opened at most
  once, decided exactly once, the decision announced and nothing else.
* **OutboxRelay** – any number of relay replicas over a set of outbox rows.
  `Claim`, `Publish`, `PublishFails` (any subset of the batch is written),
  `Mark`, `CycleLost` (the relay dies or marking fails), `ClaimExpires`
  (under a working relay only `MaxSlow` times: the relay that is slower than
  `claimTimeout`), `Purge`.  **OutboxDelivery** is its promise.
* **CommandTransaction** – the statements of a worker's transaction on one
  command under READ COMMITTED: `Has`, `AppendIn` (which waits for an
  uncommitted row of the same key and goes on without an error if that row is
  committed), `CallGateway`, `Commit`, `Rollback`.  `Deliver` may hand the
  command to a second process while the first is at it; that is what a
  rebalance does (`Consumer`, action `Rebalance` while a worker is in phase
  "handle").  **CommandHandling** is the atomic step of OrderSaga.
* **ResultTransaction** – the same for the orchestrator, inside the whole saga:
  `Has`, `Load` (without a lock), `AppendIn`, `CommitTx`, `Reject`, `Rollback`,
  for creations and results.  What a transaction decides it decides with the
  operators of OrderSaga, on the copy it loaded (`Copy(s)`), and its upsert
  overwrites whatever the row is by then.  Saves and commit are one step: from
  its first `Save` on a transaction holds the lock of the saga row.
* **OrderView** – OrderSaga with the projector beside it.  `MarkProcessed` and
  `ApplyEvent` are two transactions and two actions; `LoseEvent` is the handler
  that ends between them.  Any event of the bus may come next, which is what
  reading eight topics in one group amounts to.  `Upsert` is the query of
  `order_view_repository.go`: statuses COMPLETED and FAILED are frozen, flags
  collect.  The variable `timeline` is the `timeline` column of all rows, and
  `lost` records what the projector passed over.
* **GatewayBreaker** – one breaker of one process and the commands of several
  orders that go through it: `Call`, `Refuse`, `Succeed`, `Error`,
  `TimeoutExpires`, `Restart`.  `gobreaker` ignores the result of a call that
  began in an earlier generation; such a call is "late".
* **Autoscaler** – the loop of `cmd/autoscaler`: `TotalLag` reads, and one action
  per branch acts on what was read, while the lag changes and time passes.
  `replicas` is what the loop believes, `deployed` what runs, which is anything
  when the loop starts.  What is read may be less than the lag: `totalLag` skips
  partitions whose LAG is no number, and an output that does not mention the
  group adds up to zero.  A failing CLI is a check that is not made.  `quiet` is
  an auxiliary clock for `RemovalsNeedIdleTime`.
* **Consumer** – one process, its worker goroutines, and the broker as the code
  uses it: `Fetch`, `Succeeds`, `Rejects` (DLQ), `HandlerFails`, `FetchFails`,
  `Stall` (watchdog), `Spin` (the reconnection branch with a cancelled
  context), commits that fail or set the group's offset back, `Rebalance`,
  `Terminate`/`Kill`/`Crash`/`Restart`.
* **MC…** – the modules TLC runs; they declare the model values, and
  `MCConsumer` states what the consumer's comments promise.
* **OrderSagaProofs**, **ResultTransactionProofs**, **OutboxRelayProofs**,
  **CommandTransactionProofs**, **ConsumerProofs**, **OrderViewProofs**,
  **GatewayBreakerProofs**, **AutoscalerProofs** – the theorems, a module for
  each module with variables; those of ResultTransaction and OrderView use those
  of OrderSaga.

Operators introduced by "Mutation of" are plausible mistakes in the definition
they precede.  No specification uses them; each shows that some property would
notice (`PROJECT.json`, "mutants").

## 3. What TLC checks

| Run | Instance | Shows |
|---|---|---|
| `one_order` | 1 order created twice, 1 retry per step, 1 crash | all safety properties of the saga, its two liveness properties and the refinement of OrderLifecycle |
| `overlaps` | 3 processes, 2 overlaps, 2 rollbacks | repeated results and effects of a worker's command have a cause; nobody deadlocks; the command is answered; without an overlap the transaction is one step |
| `results` | 1 order, 2 orchestrators, 1 overlap, 1 transient error | without an overlap each transaction of the orchestrator is one step of OrderSaga; with one the saga may fork, but not more often than that, and is never stranded |
| `two_relays` | 2 relays, 1 fault, 1 slow relay | the relay's safety, liveness and `ImplementsDelivery` |
| `two_workers` | 2 workers, 2 partitions, 2 messages each, 1 for the DLQ, 2 faults | `NothingSkipped`, `InPartitionOrder`, `BatchesAreSettled` |
| `one_worker` | 1 worker, otherwise the same | every message is settled |
| `order_view` | 1 order, 2 handlers of the projector at a time, 1 event lost | the row agrees with its timeline in whatever order the events come, shows the saga's outcome but for a failed notification, and shows every decision in the end unless an event was lost |
| `breaker` | 3 orders of 2 steps, 1 retry, threshold 3 | the states and counts fit the calls that are out; one failing order never opens the breaker |
| `autoscaler` | 1 to 4 replicas in steps of 2, up to 5 at the start, an idle time of 2 | limits, no removal before the idle time, a demand that is read lastingly is followed |

Three runs find what a comment or document promises violated by what the code
does; `PROJECT.json` quotes the promises.

| Run | Property | In short |
|---|---|---|
| `no_compensation` | `FailedAfterCompensation` | inventory retries that run out fail the order and keep the money |
| `first_error` | `FirstErrorIsReturned` | a cancelled worker reconnects for ever instead of returning |
| `wrong_view` | `CompletedIsNotShownFailed` | a declined notification completes the order and pins its row to FAILED |

**Other disagreements.**  These need no run of their own: a passing property says
how far they go, or there is nothing to explore.

* A gateway is called before the commit and without an idempotency key
  (`worker/payment.go:73`), so a crash between the two charges twice, although
  `README.md:878-879` calls reprocessing "at-least-once sem duplicação de efeito"
  and `PHASE_3_PLAN.md:9` forbids "efeitos duplicados".
  `RepeatedEffectsNeedACrash` and `EffectsNeedACause` say that nothing else does.
* A rebalance in the middle of a command gets it two results
  (`event_log_repository.go:51`: the insertion that finds a row raises no error),
  although `PHASE_5_PLAN.md:55` has redelivery after a rebalance "coberto pela
  idempotência por `event_id`".  `AnswersNeedAnOverlap` bounds them.
* Two orchestrators at the same partition fork a saga, or set it back, because
  the row is read without a lock and overwritten (`saga_repository.go:66`).
  `ForksNeedAnOverlap` and `OpenSagasHaveAToken` bound the damage.
* A relay that is slower than `claimTimeout` loses its claim, and both relays
  publish the row, although `README.md:902` has each event "publicado 1×" and
  `README.md:815-816` says that replicas never process the same row.
  `DuplicatesHaveACause` bounds the copies.
* An event that was marked and not applied is skipped when it is redelivered
  (`projector.go:24`), while `PHASE_2_PLAN.md:256` answers "Projector escreve e
  morre antes do commit" with redelivery.  In OrderView that is `lost`, and
  `DecidedIsShown` holds only while it is empty.
* A breaker that two failing orders opened refuses the commands of all others,
  and refusals count as their retries.  `OneOrderNeverTrips` is what the comment
  at `breaker.go:13-17` argues for, and no more than that holds.
* The autoscaler's `totalLag` returns less than the sum of the group's lag, which
  is what `autoscaler/main.go:86` says it returns, when a partition has no committed offset
  (`:103`).  A high lag may then be taken for none: the loop waits, or
  removes replicas.  `RemovalsNeedIdleTime` and `DemandIsFollowed` therefore speak
  of the lag that is read, and hold only of that.
* A loop that is started next to more replicas than the minimum believes in the
  minimum (`autoscaler/main.go:33`): its first command under a high lag sets the
  count to the minimum plus a step and can remove replicas, although
  `PHASE_5_PLAN.md:73` has a high lag answered by `N+1`.  `RemovalsNeedIdleTime`
  excuses that, too (`Drifted`), and nothing else.
* A scale command that fails is not tried again, as the belief has changed
  (`autoscaler/main.go:57`): a service whose last step up failed stays below
  `AUTOSCALE_MAX`, however high the lag.  `DemandIsFollowed` excuses it in the
  same way.
* `metrics-exporter/main.go:129` takes the age of the oldest saga (`:125`) from
  `MAX(created_at)`, which is the youngest.
* The commit interval is looked at only after a message (`consumer.go:247`), and
  a handler error drops the batch without a commit (`consumer.go:240`), although
  `PHASE_7_PLAN.md:105` asks for one.

`OrderSaga` therefore speaks of executions in which no event is handled by two
processes at the same time.  `overlaps` and `results` bound what happens in the
others.

**Bounds.**  One retry lets every step be retried and run out (three are
deployed; the invariant is proved for every limit).  Two creations are the least
that duplicates.  One crash makes an effect repeat, and the properties relate the
repetitions to the crashes, so more of them would only count further.  One order
is enough for the saga because handlers touch the rows of one order only, and
`SagaInvariant` is proved for every set of orders.  Two relays, workers and
partitions, and three processes, are the least at which "somebody else" differs
from "me" (and from a third that waits).  Two messages per partition let one
follow another.  Faults are few because each recovers to a state like an initial
one; two allow a fault during the recovery from another.  The consumer's batch of
two is the smallest with a non-empty batch pending.

`results` has one overlap: two transactions with different copies of the row are
the smallest fork, and `ForksNeedAnOverlap` relates forks to overlaps.  One
transient error gives a retry that may meet a stale copy.  `order_view` leaves
retries out, as they only add results whose statuses the row shows and leaves;
two handlers at a time let events overtake each other, and one loss is the least
that shows.  The theorem about it has no such bounds.  `breaker` keeps the relation
of the deployed values (three retries, threshold five: one more than the tries of
a step) with smaller numbers; of three orders, two can fail and the third be
refused.  `autoscaler` has a step that does not divide the range, so that both
limits are met in the middle of one, and may start next to more replicas than the
maximum.  An idle time of two units lets a reading come between its start and its
end.

Orders in `breaker` and processes in `results` are symmetric; both check safety
only.  Each mutant's violation shows that the situation its property is about
does occur within the bounds.

**Deadlock** is not checked where the system may legitimately come to rest:
the saga and what reads it (all orders decided, bounds used up), the relay
(nothing left), the consumer (nothing to fetch), the breaker (no commands left).
It is checked in `CommandTransaction` and `Autoscaler`.

**Fairness.**  OrderSaga assumes weak fairness of each service, not of each
message or outcome: a consumer fetches while there is something to fetch and
the process is restarted when it ends (`restart: unless-stopped` in
`docker-compose.yml`, Deployments in `deploy/`), and the relay polls again after
every cycle.  A service never chooses the same result forever because its
retries are limited.  OutboxRelay assumes that a working replica goes on with
its cycle and that time passes for claims nobody works on.  CommandTransaction
assumes that statements return (PostgreSQL releases the locks of a dead
connection: `Rollback`) and that Kafka delivers again.  Consumer assumes that
goroutines run, time passes, SIGTERM is followed by SIGKILL, and an ended
process is restarted; it assumes nothing of stalls, failures or rebalances,
which are only bounded.  OrderView adds the projector as one more service,
without fairness for a particular event or for losses.  Autoscaler assumes that
time passes, that the loop goes on and that the CLI does not fail for ever; nothing
of the lag or of how it is read, which the property has as its premise; and nothing
of scale commands, which may fail each time: the property then says `Drifted`.  ResultTransaction and GatewayBreaker are checked for safety
only.

## 4. What TLAPS proves

Every invariant and every safety property of a step that a passing run checks is
proved for every set of orders, processes, relays, workers and partitions, for
every retry limit, batch size and bound, from the assumptions declared in the
modules: the numbers are natural numbers, of which the batch sizes, the scaling
step and the breaker's limit of failures are not zero; the minimum of replicas is
at most the maximum, and that at most what is ever run; the outbox is finite; there is a worker to consume; and no
handler has the name of a state of a row.  An invariant that is not inductive gets a strengthening, of which each
part is there for a reason.

**OrderSaga** (`OrderSagaProofs`)

* `Spec => []SagaInv` (`SagaInvariant`).  `OneInFlight` – while a saga is open
  exactly one command or result of it waits, and it fits the saga's step – is
  the property that carries the design, and is not inductive alone.  A handler
  consumes the one event and puts one with a new id in its place; that the new
  id is unknown to the journal and to other events needs `IdsWereIssued` and
  `IdsAreUnique`; that the first event of an order starts from nothing in flight
  needs `EventsHaveSagas`; that the command is accepted by its worker, so that
  it is not dead-lettered, needs `CommandsAreValid`.  `OneOutcomePerOrder` and
  `OnlyDuplicateCreationsDeadLettered` are then carried along.
* Its consequences `TypeCorrect`, `SagaIsAToken`, `OutcomeIsUnique`,
  `DeadLettersAreDuplicateCreations`; `HandlersDoNotStumble` (no result that
  passes the checks of `handleResult` ends in an error the consumer would retry
  for ever); and the action property `FinishedStaysFinished`.
* `Spec => [](SagaInv /\ EffectsInv)` (`EffectsInvariant`), from which
  `OnlyCrashesRepeatEffects` and `OutcomeIsTrue` follow.  An effect is at most
  one more than the crashes, which is only inductive with the distinction of
  `Owed`: as long as the saga can still come to the command for the effect, and
  no report of it is on its way, the crashes account for all of them.  `Money`
  says the same of the outcome for every step of a saga instead of the last, and
  of the reports that are about to move it, so that the transaction id a refund
  names is one of a charge that happened.
* `RetriesAreCounted`: `CommandsInv` adds to `RetryCountIsHonest` that a saga has
  sent no command yet of the steps ahead of it (`StepsAhead`); that is what makes
  a retry count start at zero honest.
* `Spec => Lifecycle!Spec` (`ServicesImplementLifecycle`): every step of the
  services is a step of OrderLifecycle or a stutter.  The announcement step is
  where the invariant is needed: the terminal event that reaches the bus is the
  one the row agrees with.

**ResultTransaction** (`ResultTransactionProofs`)

* `TransactionSpec => []TransactionInv` (`TransactionInvariant`), with
  `TransactionTypeCorrect` and `SagasAreNeverStranded`.  `SagaInv` does not
  survive an overlap, and what does is only this much: the tables are in order
  (`TablesInv`); a transaction is where its locks allow and a creation that
  loaded found no saga (`TxnInv`); an open saga has a *token*, an event on its
  way that fits the row and such that whoever is going to decide on it by a copy
  has a copy equal to the row (`TokenInv`).  A commit by a stale copy destroys
  the token and leaves a new one, the command it sends with the row it writes;
  a rejection never hits the token, because its holder's copy is the row.
* `TransactionsAreAtomic`: while no delivery overlapped, every step is a step of
  OrderSaga.  `TransactionInv` therefore also contains, for `overlaps = 0`,
  `SagaInv` and that every process is `Undisturbed`: alone at its partition, at
  an event that is not in the journal, with a copy that is the row.  Consequently
  (`SagasAreSafeUntilAnOverlap`) the properties of OrderSaga hold until then.
* `ForksAreCounted`: commands and results on their way, and effects of a kind,
  are at most one more than the overlaps.  `ForkInv` counts, for each kind of
  effect, the effects there are and the threads that lead to another one: events
  nobody is at, processes that can still commit such an event, and the creation
  that is still to come.  Every step moves a unit from one to another, and only a
  delivery that overlaps adds one.  That a command or result leads to fewer
  effects the further the saga is (`AheadOf`) is what `DecisionCommits` shows of
  whatever copy a decision is made on.

**OutboxRelay** (`OutboxRelayProofs`)

* `Spec => []RelayInv` (`RelayInvariant`) with `RelayTypeCorrect`,
  `NoEventIsLost` and `ClaimsExclude`, and `Spec => Delivery!Spec`
  (`RelaysImplementDelivery`).  `RelayInv` adds to the properties that a relay in
  its marking phase has published its whole batch, and that rows in a batch are
  claimed recently unless a claim expired under a working relay.
* `DuplicatesAreCaused`: a row has no more copies than one, the faults and the
  slow relays.  What is bounded is not the copies but those that are `Foreseen`:
  one more for each relay that is about to publish the row, and one if the row is
  free to be claimed.

**CommandTransaction** (`CommandTransactionProofs`)

* `Spec => []CommandInv` (`CommandInvariant`), from which `CommandTypeCorrect`,
  `AnswersHaveACause` and `EffectsHaveACause` follow.  The bounds on answers and
  effects are not inductive: what counts is what the processes are about to add.
  `AtWork` are the handlers that will answer as things stand, `Waiting` those of
  them whose gateway has not acted yet, `Spare` the process that is still to come
  when nobody is at work; answers plus `AtWork`, and effects plus `Waiting` plus
  `Spare`, stay within the causes, and every step moves one unit from one place
  to another.
* `TransactionIsOneStep`: without overlaps the statements implement
  CommandHandling (`HandledInOneStep`): then there is at most one process at
  work, so that the row it inserts is its own.

**Consumer** (`ConsumerProofs`)

* `Spec => []ConsumerInv` (`ConsumerInvariant`), with `ConsumerTypeCorrect`,
  `NoMessageIsSkipped`, `PartitionsKeepOrder` and `BatchesHoldSettledOffsets`.
  To these four, `ConsumerInv` adds where reading stands: all before the message
  a worker has in hand is settled (`HandledInv`), and a partition is read on from
  where all is settled but for the message its owner has in hand
  (`PositionInv`).  A commit takes the highest offset of its batch; that there is
  one (`Highest`) comes from `<` being well-founded on the natural numbers, as an
  induction is out of the prover's reach.  Owners may change at any time: a batch
  keeps only settled offsets, so that committing it after its partition went to
  another worker skips nothing.

**OrderView** (`OrderViewProofs`)

* `ViewSpec => []ViewInv` (`ViewInvariant`): marks, handlers and timelines account
  for each other, and a row agrees with its timeline.  The only step with
  substance is `ApplyEvent`: `UpsertMatches` shows that a row that agrees with
  some events agrees after the upsert with one more.
* `ShownOutcomeIsTrue`: a final status that is shown is the saga's, but for a
  declined notification.  It needs `StatusesAreTrue`: a COMPLETED on any topic is
  of a completed saga, and a FAILED of a payment or a reservation is still to be
  handled, or the saga is failing.  `SagaInv` supplies that the result that is
  still to be handled is the one the saga waits for.

**GatewayBreaker** (`GatewayBreakerProofs`)

* `Spec => []BreakerInv` (`BreakerInvariant`) and `SingleFailingOrderIsHarmless`:
  while one order alone fails the breaker stays closed, no call is late, and the
  run of failures is not longer than the tries of that order's step; the
  threshold is above those.  The theorem has the inequality between the retry
  limit and the threshold as its premise, so it also says what a change of
  `GATEWAY_CB_MAX_FAILURES` must respect.

**Autoscaler** (`AutoscalerProofs`)

* `LimitsAreKept`: the type invariant with the limits is inductive.
* `RemovalsAreLate`: without a drift nothing is removed under a lag that is read,
  nor before the idle time is over.  The strengthening is `IdleInv`: `idleStart`
  is no older than the last reading of a lag, except between that reading and the
  reset it leads to, and it is what every branch's reset is for.

**Only model-checked** are the liveness properties (`EveryOrderIsDecided`,
`EveryCreationIsAccountedFor`, `CommandIsAnswered`, `EveryRowIsMarked`,
`EveryMessageIsSettled`, `DecidedIsShown`, `DemandIsFollowed`) and the fairness
part of the refinements (`ImplementsLifecycle`, `ImplementsDelivery`): TLAPS proves
neither fairness nor ENABLED.  No module declares a recursive operator.

## 5. What is not modelled

* The simulators' random outcomes: in the models a gateway may succeed, decline or
  fail at any time.  Like the simulators, a gateway that declines or returns an
  error has done nothing; one that acts and then times out would repeat effects
  by retries, without a crash, and is not modelled.
* Retries inside kafka-go's Writer: a `PublishBatch` that succeeds writes each
  message once in OutboxRelay.  A write that is repeated inside would be one more
  copy without a fault.
* A second delivery of an event that the orchestrator has dead-lettered, which
  `moveToDLQ` causes when its commit fails: ResultTransaction leaves it out
  (`Wanted`).  Without an overlap it would be refused again.
* Two calls for one order at a time through one breaker, which an overlap of two
  deliveries could cause.
* The breaker's switch-off (`GATEWAY_CB_ENABLED=false`) and its composition with
  the saga: for the saga a refusal is a RETRYING result like any other.
* Topic creation, health probes, metrics, tracing, logging, configuration,
  migrations and deployment: I/O and observation, without state the saga
  depends on.  The exporter's queries only read; the one that reads the wrong
  thing is described above.
* The watchdog's arithmetic on reader statistics: a stall is detected at any
  time.
* `last_event_type` and `last_event_at` of a row: they change where the status
  does.
* The autoscaler's numbers: a lag and the sum that is read are zero, some or high.

## 6. Plan

The safety properties of the runs are proved.  What would say more, in this
order:

1. An abstract at-least-once in-order reader that Consumer implements; OrderSaga
   takes even less for granted, but OrderView and ResultTransaction could then be
   restricted to the redeliveries a batch commit really causes.
2. OrderSaga's `Deliver`ies derived from OutboxDelivery: a theorem that the bus of
   the one is the delivered set of the other.
3. The crash of a worker inside ResultTransaction, so that its counts have the
   crashes as a second cause.

Run a configuration with `tlc -config OneOrder.cfg MCOrderSaga`, a proof module
with `tlapm OrderSagaProofs.tla`.
