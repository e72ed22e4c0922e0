---------------------------- MODULE GatewayBreaker ----------------------------
(***************************************************************************)
(* The circuit breaker that a worker process puts in front of its gateway  *)
(* (internal/infrastructure/external/breaker.go), under the calls that the *)
(* orders' commands make through it.  A call that fails, or that the       *)
(* breaker refuses, is answered with RETRYING, and the orchestrator sends  *)
(* the command again until the step has used up its retries.               *)
(*                                                                         *)
(* The state machine itself is sony/gobreaker's, as far as the settings of *)
(* breaker.go use it: no Interval, one trial request in half-open.  It     *)
(* tags calls with the generation they began in, and ignores the result of *)
(* a call of an earlier generation: such a call is "late" here.            *)
(***************************************************************************)
EXTENDS Naturals

CONSTANTS
  Orders,       \* the orders whose commands this process handles
  MaxRetries,   \* orchestrator.New(uow, maxRetries)
  MaxFailures,  \* GATEWAY_CB_MAX_FAILURES
  MaxSteps      \* bound: steps of an order at this gateway (charge, refund)

ASSUME BreakerAssumption ==
  MaxRetries \in Nat /\ MaxFailures \in Nat \ {0} /\ MaxSteps \in Nat

VARIABLES
  cb,        \* the state of the breaker
  failures,  \* Counts.ConsecutiveFailures
  calls,     \* order -> its call: none, current, or late
  tries,     \* order -> RETRYING answers to the step it is at
  steps,     \* order -> steps that succeeded
  failing,   \* orders the gateway failed, in the life of this process
  refused    \* orders the breaker refused, in the life of this process

vars == <<cb, failures, calls, tries, steps, failing, refused>>

Init == /\ cb = "closed"
        /\ failures = 0
        /\ calls = [o \in Orders |-> "none"]
        /\ tries = [o \in Orders |-> 0]
        /\ steps = [o \in Orders |-> 0]
        /\ failing = {}
        /\ refused = {}

\* The order has a command for this gateway: its step is not given up.
Commanded(o) == calls[o] = "none" /\ tries[o] <= MaxRetries /\ steps[o] < MaxSteps

\* Mutation of Admits: two trial requests in half-open.
AdmitsTwo == \/ cb = "closed"
             \/ /\ cb = "halfOpen"
                /\ \A o, p \in Orders :
                     calls[o] = "current" /\ calls[p] = "current" => o = p

\* Execute lets the call through: MaxRequests is 1.
Admits == \/ cb = "closed"
          \/ cb = "halfOpen" /\ \A o \in Orders : calls[o] # "current"

Call(o) ==
  /\ Commanded(o)
  /\ Admits
  /\ calls' = [calls EXCEPT ![o] = "current"]
  /\ UNCHANGED <<cb, failures, tries, steps, failing, refused>>

\* ErrOpenState or ErrTooManyRequests, which the worker reports as RETRYING.
Refuse(o) ==
  /\ Commanded(o)
  /\ ~ Admits
  /\ tries' = [tries EXCEPT ![o] = @ + 1]
  /\ refused' = refused \cup {o}
  /\ UNCHANGED <<cb, failures, calls, steps, failing>>

\* A new state starts a new generation: the other calls are late from now on.
NewGeneration(o, state) ==
  /\ cb' = state
  /\ failures' = 0
  /\ calls' = [p \in Orders |-> IF p = o \/ calls[p] = "none" THEN "none"
                                                              ELSE "late"]

SameGeneration(o, n) ==
  /\ failures' = n
  /\ calls' = [calls EXCEPT ![o] = "none"]
  /\ UNCHANGED cb

\* Mutation of Succeed: a success does not end the run of failures.
SucceedWithoutReset(o) ==
  /\ calls[o] # "none"
  /\ IF calls[o] = "current" /\ cb = "halfOpen" THEN NewGeneration(o, "closed")
     ELSE SameGeneration(o, failures)
  /\ tries' = [tries EXCEPT ![o] = 0]
  /\ steps' = [steps EXCEPT ![o] = @ + 1]
  /\ UNCHANGED <<failing, refused>>

\* The gateway answers, with yes or no.
Succeed(o) ==
  /\ calls[o] # "none"
  /\ IF calls[o] = "late" THEN SameGeneration(o, failures)
     ELSE IF cb = "halfOpen" THEN NewGeneration(o, "closed")
     ELSE SameGeneration(o, 0)
  /\ tries' = [tries EXCEPT ![o] = 0]
  /\ steps' = [steps EXCEPT ![o] = @ + 1]
  /\ UNCHANGED <<failing, refused>>

\* The gateway returns an error; ReadyToTrip looks at the consecutive failures.
Error(o) ==
  /\ calls[o] # "none"
  /\ IF calls[o] = "late" THEN SameGeneration(o, failures)
     ELSE IF cb = "halfOpen" \/ failures + 1 >= MaxFailures
          THEN NewGeneration(o, "open")
     ELSE SameGeneration(o, failures + 1)
  /\ tries' = [tries EXCEPT ![o] = @ + 1]
  /\ failing' = failing \cup {o}
  /\ UNCHANGED <<steps, refused>>

\* GATEWAY_CB_TIMEOUT after the breaker opened.
TimeoutExpires ==
  /\ cb = "open"
  /\ cb' = "halfOpen"
  /\ UNCHANGED <<failures, calls, tries, steps, failing, refused>>

\* A new process has a new breaker.  The calls are lost with their
\* transactions, and made again when their commands are redelivered.
Restart ==
  /\ cb' = "closed"
  /\ failures' = 0
  /\ calls' = [o \in Orders |-> "none"]
  /\ failing' = {}
  /\ refused' = {}
  /\ UNCHANGED <<tries, steps>>

Next == \/ \E o \in Orders : Call(o) \/ Refuse(o) \/ Succeed(o) \/ Error(o)
        \/ TimeoutExpires
        \/ Restart

Spec == Init /\ [][Next]_vars
-----------------------------------------------------------------------------
\* Every variable has its type; a step is tried MaxRetries + 1 times at most,
\* and while a call is out it has a try left.  In half-open one call is out to
\* try the gateway, in open there is none but late ones.
BreakerTypeOK ==
  /\ cb \in {"closed", "open", "halfOpen"}
  /\ failures \in 0..(MaxFailures - 1)
  /\ calls \in [Orders -> {"none", "current", "late"}]
  /\ tries \in [Orders -> 0..(MaxRetries + 1)]
  /\ steps \in [Orders -> 0..MaxSteps]
  /\ failing \subseteq Orders
  /\ refused \subseteq Orders
  /\ \A o \in Orders :
       calls[o] # "none" => tries[o] <= MaxRetries /\ steps[o] < MaxSteps
  /\ cb = "open" => \A o \in Orders : calls[o] # "current"
  /\ cb = "halfOpen" =>
       \A o, p \in Orders : calls[o] = "current" /\ calls[p] = "current" => o = p

TwoOrdersFailed == \E o, p \in failing : o # p

\* breaker.go:13-17: the threshold is above the retries of one saga, so that a
\* single failing order, however it interleaves with healthy ones, never opens
\* the breaker and no order is refused because of it.
OneOrderNeverTrips ==
  MaxRetries + 1 < MaxFailures =>
    (cb # "closed" \/ refused # {} => TwoOrdersFailed)

\* Why: as long as one order alone fails, the run of failures is not longer
\* than the tries of its step.
RunsAreOneOrders ==
  MaxRetries + 1 < MaxFailures /\ ~ TwoOrdersFailed =>
    /\ cb = "closed"
    /\ refused = {}
    /\ \A o \in Orders : calls[o] # "late"
    /\ failing = {} => failures = 0
    /\ \A o \in failing : failures <= tries[o]

BreakerInv == BreakerTypeOK /\ RunsAreOneOrders
=============================================================================
