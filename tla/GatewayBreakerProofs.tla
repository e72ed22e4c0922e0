------------------------- MODULE GatewayBreakerProofs -------------------------
(***************************************************************************)
(* Theorems of GatewayBreaker for any set of orders, any number of retries *)
(* and any threshold.                                                      *)
(***************************************************************************)
EXTENDS GatewayBreaker, TLAPS

\* The parts of BreakerTypeOK that the proof treats apart: the types, the tries
\* a call has left, and the calls that may be out in each state.
Types == /\ cb \in {"closed", "open", "halfOpen"}
         /\ failures \in 0..(MaxFailures - 1)
         /\ calls \in [Orders -> {"none", "current", "late"}]
         /\ tries \in [Orders -> 0..(MaxRetries + 1)]
         /\ steps \in [Orders -> 0..MaxSteps]
         /\ failing \subseteq Orders
         /\ refused \subseteq Orders

CallsHaveTries == \A o \in Orders :
                    calls[o] # "none" => tries[o] <= MaxRetries /\ steps[o] < MaxSteps

CallsFitState ==
  /\ cb = "open" => \A o \in Orders : calls[o] # "current"
  /\ cb = "halfOpen" =>
       \A o, p \in Orders : calls[o] = "current" /\ calls[p] = "current" => o = p

LEMMA TypeParts == BreakerTypeOK <=> Types /\ CallsHaveTries /\ CallsFitState
  BY DEF BreakerTypeOK, Types, CallsHaveTries, CallsFitState

\* A process that starts has a closed breaker that counted nothing.
LEMMA InitBreakerInv == Init => BreakerInv
<1> SUFFICES ASSUME Init PROVE BreakerInv
  OBVIOUS
<1> USE BreakerAssumption
<1>1. BreakerTypeOK
  BY DEF Init, BreakerTypeOK
<1>2. RunsAreOneOrders
  BY DEF Init, RunsAreOneOrders
<1> QED BY <1>1, <1>2 DEF BreakerInv

\* Every step keeps the types and what they say about calls that are out: only
\* half-open and a free place let a call through, and a change of state makes
\* the calls that are out late.
LEMMA TypeKept == BreakerTypeOK /\ [Next]_vars => BreakerTypeOK'
<1> SUFFICES ASSUME BreakerTypeOK, [Next]_vars PROVE BreakerTypeOK'
  OBVIOUS
<1> USE BreakerAssumption
<1>1. Types /\ CallsHaveTries /\ CallsFitState
  BY TypeParts
<1>2. ASSUME NEW o \in Orders, Call(o) PROVE BreakerTypeOK'
  <2>1. Types'
    BY <1>1, <1>2 DEF Call, Types
  <2>2. CallsHaveTries'
    BY <1>1, <1>2 DEF Call, Commanded, Types, CallsHaveTries
  <2>3. CallsFitState'
    BY <1>1, <1>2 DEF Call, Admits, Types, CallsFitState
  <2> QED BY <2>1, <2>2, <2>3 DEF BreakerTypeOK, Types, CallsHaveTries, CallsFitState
<1>3. ASSUME NEW o \in Orders, Refuse(o) PROVE BreakerTypeOK'
  <2>1. Types'
    BY <1>1, <1>3 DEF Refuse, Commanded, Types
  <2>2. CallsHaveTries'
    BY <1>1, <1>3 DEF Refuse, Commanded, Types, CallsHaveTries
  <2>3. CallsFitState'
    BY <1>1, <1>3 DEF Refuse, CallsFitState
  <2> QED BY <2>1, <2>2, <2>3 DEF BreakerTypeOK, Types, CallsHaveTries, CallsFitState
<1>4. ASSUME NEW o \in Orders, NEW state \in {"closed", "open"}, Types,
             NewGeneration(o, state)
      PROVE  /\ cb' \in {"closed", "open", "halfOpen"}
             /\ failures' \in 0..(MaxFailures - 1)
             /\ calls' \in [Orders -> {"none", "current", "late"}]
             /\ calls'[o] = "none"
             /\ \A p \in Orders : calls'[p] # "none" => calls[p] # "none"
             /\ CallsFitState'
  BY <1>4 DEF NewGeneration, Types, CallsFitState
<1>5. ASSUME NEW o \in Orders, NEW n \in 0..(MaxFailures - 1), Types, CallsFitState,
             SameGeneration(o, n)
      PROVE  /\ cb' \in {"closed", "open", "halfOpen"}
             /\ failures' \in 0..(MaxFailures - 1)
             /\ calls' \in [Orders -> {"none", "current", "late"}]
             /\ calls'[o] = "none"
             /\ \A p \in Orders : calls'[p] # "none" => calls[p] # "none"
             /\ CallsFitState'
  BY <1>5 DEF SameGeneration, Types, CallsFitState
<1>6. ASSUME NEW o \in Orders, Succeed(o) PROVE BreakerTypeOK'
  <2>1. /\ cb' \in {"closed", "open", "halfOpen"}
        /\ failures' \in 0..(MaxFailures - 1)
        /\ calls' \in [Orders -> {"none", "current", "late"}]
        /\ calls'[o] = "none"
        /\ \A p \in Orders : calls'[p] # "none" => calls[p] # "none"
        /\ CallsFitState'
    BY <1>1, <1>4, <1>5, <1>6 DEF Succeed, Types
  <2>2. calls[o] # "none" /\ tries' = [tries EXCEPT ![o] = 0]
        /\ steps' = [steps EXCEPT ![o] = @ + 1] /\ UNCHANGED <<failing, refused>>
    BY <1>6 DEF Succeed
  <2>3. Types'
    BY <1>1, <2>1, <2>2 DEF Types, CallsHaveTries
  <2>4. CallsHaveTries'
    BY <1>1, <2>1, <2>2 DEF Types, CallsHaveTries
  <2> QED BY <2>1, <2>3, <2>4 DEF BreakerTypeOK, Types, CallsHaveTries, CallsFitState
<1>7. ASSUME NEW o \in Orders, Error(o) PROVE BreakerTypeOK'
  <2>1. /\ cb' \in {"closed", "open", "halfOpen"}
        /\ failures' \in 0..(MaxFailures - 1)
        /\ calls' \in [Orders -> {"none", "current", "late"}]
        /\ calls'[o] = "none"
        /\ \A p \in Orders : calls'[p] # "none" => calls[p] # "none"
        /\ CallsFitState'
    BY <1>1, <1>4, <1>5, <1>7 DEF Error, Types
  <2>2. calls[o] # "none" /\ tries' = [tries EXCEPT ![o] = @ + 1]
        /\ failing' = failing \cup {o} /\ UNCHANGED <<steps, refused>>
    BY <1>7 DEF Error
  <2>3. Types'
    BY <1>1, <2>1, <2>2 DEF Types, CallsHaveTries
  <2>4. CallsHaveTries'
    BY <1>1, <2>1, <2>2 DEF Types, CallsHaveTries
  <2> QED BY <2>1, <2>3, <2>4 DEF BreakerTypeOK, Types, CallsHaveTries, CallsFitState
<1>8. CASE TimeoutExpires
  BY <1>1, <1>8 DEF TimeoutExpires, BreakerTypeOK
<1>9. CASE Restart
  BY <1>1, <1>9 DEF Restart, BreakerTypeOK
<1>10. CASE UNCHANGED vars
  BY <1>10 DEF vars, BreakerTypeOK
<1> QED BY <1>2, <1>3, <1>6, <1>7, <1>8, <1>9, <1>10 DEF Next

\* Every step keeps the account of failures: a failure of the one failing order
\* adds one to the run and one to its tries, and a success that ends its tries
\* ends the run.
LEMMA RunsKept == BreakerInv /\ [Next]_vars => RunsAreOneOrders'
<1> SUFFICES ASSUME BreakerInv, [Next]_vars,
                    MaxRetries + 1 < MaxFailures, ~ TwoOrdersFailed'
             PROVE  /\ cb' = "closed"
                    /\ refused' = {}
                    /\ \A o \in Orders : calls'[o] # "late"
                    /\ failing' = {} => failures' = 0
                    /\ \A o \in failing' : failures' <= tries'[o]
  BY DEF RunsAreOneOrders
<1> USE BreakerAssumption
<1> DEFINE Goal == /\ cb' = "closed"
                   /\ refused' = {}
                   /\ \A o \in Orders : calls'[o] # "late"
                   /\ failing' = {} => failures' = 0
                   /\ \A o \in failing' : failures' <= tries'[o]
<1>1. Types /\ CallsHaveTries /\ RunsAreOneOrders
  BY TypeParts DEF BreakerInv
<1>2. ASSUME ~ TwoOrdersFailed
      PROVE  /\ cb = "closed"
             /\ refused = {}
             /\ \A o \in Orders : calls[o] # "late"
             /\ failing = {} => failures = 0
             /\ \A o \in failing : failures <= tries[o]
  BY <1>1, <1>2 DEF RunsAreOneOrders
<1>3. ASSUME failing \subseteq failing' PROVE ~ TwoOrdersFailed
  BY <1>3 DEF TwoOrdersFailed
<1>4. ASSUME NEW o \in Orders, Call(o) PROVE Goal
  <2>1. ~ TwoOrdersFailed
    BY <1>3, <1>4 DEF Call
  <2> QED BY <1>1, <1>2, <1>4, <2>1 DEF Call, Types
<1>5. ASSUME NEW o \in Orders, Refuse(o) PROVE Goal
  <2>1. ~ TwoOrdersFailed
    BY <1>3, <1>5 DEF Refuse
  <2> QED BY <1>2, <1>5, <2>1 DEF Refuse, Admits
<1>6. ASSUME NEW o \in Orders, Succeed(o) PROVE Goal
  <2>1. ~ TwoOrdersFailed /\ UNCHANGED <<failing, refused>>
    BY <1>3, <1>6 DEF Succeed
  <2>2. calls[o] = "current" /\ cb = "closed"
    BY <1>1, <1>2, <1>6, <2>1 DEF Succeed, Types
  <2>3. SameGeneration(o, 0) /\ tries' = [tries EXCEPT ![o] = 0]
    BY <1>6, <2>2 DEF Succeed
  <2>4. \A p \in Orders : tries'[p] >= 0
    BY <1>1, <2>3 DEF Types
  <2> QED BY <1>1, <1>2, <2>1, <2>2, <2>3, <2>4 DEF SameGeneration, Types
<1>7. ASSUME NEW o \in Orders, Error(o) PROVE Goal
  <2>1. ~ TwoOrdersFailed /\ failing' = failing \cup {o} /\ UNCHANGED refused
    BY <1>3, <1>7 DEF Error
  <2>2. calls[o] = "current" /\ cb = "closed" /\ tries[o] <= MaxRetries
    BY <1>1, <1>2, <1>7, <2>1 DEF Error, Types, CallsHaveTries
  <2>3. failing' = {o}
    BY <1>1, <2>1 DEF TwoOrdersFailed
  <2>4. failures <= tries[o]
    <3>1. CASE failing = {}
      BY <1>1, <1>2, <2>1, <3>1 DEF Types
    <3>2. CASE o \in failing
      BY <1>2, <2>1, <3>2
    <3> QED BY <2>1, <2>3, <3>1, <3>2
  <2>5. failures + 1 < MaxFailures
    BY <1>1, <2>2, <2>4 DEF Types
  <2>6. SameGeneration(o, failures + 1) /\ tries' = [tries EXCEPT ![o] = @ + 1]
    <3>1. ~ (failures + 1 >= MaxFailures)
      BY <1>1, <2>5 DEF Types
    <3> QED BY <1>7, <2>2, <3>1 DEF Error
  <2>7. failures' <= tries'[o]
    BY <1>1, <2>4, <2>6 DEF SameGeneration, Types
  <2>8. cb' = "closed" /\ \A p \in Orders : calls'[p] # "late"
    BY <1>1, <1>2, <2>1, <2>2, <2>6 DEF SameGeneration, Types
  <2> QED BY <1>2, <2>1, <2>3, <2>7, <2>8
<1>8. CASE TimeoutExpires
  BY <1>2, <1>3, <1>8 DEF TimeoutExpires
<1>9. CASE Restart
  BY <1>1, <1>9 DEF Restart, Types
<1>10. CASE UNCHANGED vars
  <2>1. ~ TwoOrdersFailed
    BY <1>3, <1>10 DEF vars
  <2> QED BY <1>2, <1>10, <2>1 DEF vars
<1> QED BY <1>4, <1>5, <1>6, <1>7, <1>8, <1>9, <1>10 DEF Next

\* Types, calls and the run of failures, in every reachable state: the
\* inductive invariant of the breaker.
THEOREM BreakerInvariant == Spec => []BreakerInv
<1>1. Init => BreakerInv
  BY InitBreakerInv
<1>2. BreakerInv /\ [Next]_vars => BreakerInv'
  BY TypeKept, RunsKept DEF BreakerInv
<1> QED BY <1>1, <1>2, PTL DEF Spec

\* A threshold above the tries of one step keeps a single failing order from
\* opening the breaker, whatever the other orders do in between, for any
\* number of retries: what breaker.go:13-17 argues for.
THEOREM SingleFailingOrderIsHarmless == Spec => []OneOrderNeverTrips
<1>1. BreakerInv => OneOrderNeverTrips
  BY DEF BreakerInv, RunsAreOneOrders, OneOrderNeverTrips
<1> QED BY <1>1, BreakerInvariant, PTL
=============================================================================
