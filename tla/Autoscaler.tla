------------------------------ MODULE Autoscaler ------------------------------
(***************************************************************************)
(* cmd/autoscaler: a loop that reads the lag of one consumer group every   *)
(* AUTOSCALE_CHECK_INTERVAL, and adds or removes replicas of the service.  *)
(* It never asks how many replicas are running: it goes by what it         *)
(* believes it has set, starting with the minimum.                         *)
(*                                                                         *)
(* The lag is abstracted to what the loop tells apart: zero, some, or more *)
(* than AUTOSCALE_HIGH_LAG.  Reading it and acting on it are two steps,    *)
(* and between any two steps the lag may change and time pass.             *)
(***************************************************************************)
EXTENDS Naturals

CONSTANTS
  MinReplicas, MaxReplicas,  \* AUTOSCALE_MIN, AUTOSCALE_MAX
  Step,                      \* AUTOSCALE_STEP
  IdleTime,                  \* AUTOSCALE_IDLE_SECONDS in units of time
  MaxRunning                 \* the most replicas the service is ever run with

ASSUME AutoscalerAssumption ==
  /\ MinReplicas \in Nat /\ MaxReplicas \in Nat /\ MinReplicas <= MaxReplicas
  /\ Step \in Nat \ {0} /\ IdleTime \in Nat
  /\ MaxRunning \in Nat /\ MaxReplicas <= MaxRunning

VARIABLES
  lag,        \* the lag of the group
  reading,    \* what the loop has just read and acts on next, or "none"
  replicas,   \* what the loop believes
  highCount,  \* high readings in a row, counted up to two
  idle,       \* time since idleStart, counted up to IdleTime; NotIdle if zero
  deployed,   \* the replicas that are running
  quiet       \* time, up to IdleTime, since the loop was started, last read a
              \* lag that is not zero, or last removed a replica; no code reads it

vars == <<lag, reading, replicas, highCount, idle, deployed, quiet>>

Lags == {"zero", "some", "high"}
NotIdle == IdleTime + 1
AtMost(n, limit) == IF n < limit THEN n ELSE limit

\* The loop is new; the service may be running with any number of replicas.
Init == /\ lag \in Lags
        /\ reading = "none"
        /\ replicas = MinReplicas
        /\ highCount = 0
        /\ idle = NotIdle
        /\ deployed \in 0..MaxRunning
        /\ quiet = 0

LagChanges == /\ lag' \in Lags \ {lag}
              /\ UNCHANGED <<reading, replicas, highCount, idle, deployed, quiet>>

TimePasses ==
  /\ idle' = IF idle = NotIdle THEN NotIdle ELSE AtMost(idle + 1, IdleTime)
  /\ quiet' = AtMost(quiet + 1, IdleTime)
  /\ UNCHANGED <<lag, reading, replicas, highCount, deployed>>

\* totalLag adds up the LAG column.  A partition without a number there (no
\* committed offset) and an output without the group count for nothing and are
\* no error: what is read may be less than the lag, zero included.
Sums == [zero |-> {"zero"}, some |-> {"zero", "some"}, high |-> Lags]

\* If the command fails, the loop continues without touching anything: that is
\* a check that is not made, during which time passes.
TotalLag(sum) ==
  /\ reading = "none"
  /\ sum \in Sums[lag]
  /\ reading' = sum
  /\ quiet' = IF sum = "zero" THEN quiet ELSE 0
  /\ UNCHANGED <<lag, replicas, highCount, idle, deployed>>

\* docker-compose up --scale.  It may fail after none, some or all of the
\* replicas were started or stopped; the belief has its new value in any case.
ScaleService(n) == /\ replicas' = n
                   /\ deployed' \in (deployed..n) \cup (n..deployed)

Keep == UNCHANGED <<replicas, deployed>>

\* Mutation of HighLag: the limit is neither compared with nor applied.
HighLagWithoutLimit ==
  /\ reading = "high"
  /\ idle' = NotIdle
  /\ highCount' = AtMost(highCount + 1, 2)
  /\ IF highCount' = 2 THEN ScaleService(replicas + Step) ELSE Keep
  /\ reading' = "none"
  /\ UNCHANGED <<lag, quiet>>

\* Mutation of HighLag: the limit is compared with what the step leads to.
HighLagStopsEarly ==
  /\ reading = "high"
  /\ idle' = NotIdle
  /\ IF AtMost(highCount + 1, 2) = 2 /\ replicas + Step < MaxReplicas
     THEN ScaleService(replicas + Step) /\ highCount' = 0
     ELSE Keep /\ highCount' = AtMost(highCount + 1, 2)
  /\ reading' = "none"
  /\ UNCHANGED <<lag, quiet>>

HighLag ==
  /\ reading = "high"
  /\ idle' = NotIdle
  /\ IF AtMost(highCount + 1, 2) = 2 /\ replicas < MaxReplicas
     THEN /\ ScaleService(AtMost(replicas + Step, MaxReplicas))
          /\ highCount' = 0
     ELSE /\ Keep
          /\ highCount' = AtMost(highCount + 1, 2)
  /\ reading' = "none"
  /\ UNCHANGED <<lag, quiet>>

Lowered == IF replicas < MinReplicas + Step THEN MinReplicas ELSE replicas - Step

NoLag ==
  LET since == IF idle = NotIdle THEN 0 ELSE idle
  IN  /\ reading = "zero"
      /\ highCount' = 0
      /\ IF since >= IdleTime /\ replicas > MinReplicas
         THEN ScaleService(Lowered) /\ idle' = NotIdle /\ quiet' = 0
         ELSE Keep /\ idle' = since /\ quiet' = quiet
      /\ reading' = "none"
      /\ UNCHANGED lag

\* Mutation of SomeLag: idleStart is not reset, as if only a high lag ended an
\* idle time.
SomeLagStaysIdle == /\ reading = "some"
                    /\ highCount' = 0
                    /\ Keep
                    /\ reading' = "none"
                    /\ UNCHANGED <<lag, idle, quiet>>

SomeLag == /\ reading = "some"
           /\ highCount' = 0
           /\ idle' = NotIdle
           /\ Keep
           /\ reading' = "none"
           /\ UNCHANGED <<lag, quiet>>

\* The loop is started anew; the service keeps its replicas.
Restart == /\ reading' = "none"
           /\ replicas' = MinReplicas
           /\ highCount' = 0
           /\ idle' = NotIdle
           /\ quiet' = 0
           /\ UNCHANGED <<lag, deployed>>

Act == HighLag \/ NoLag \/ SomeLag

Next == \/ LagChanges \/ TimePasses \/ Restart
        \/ \E sum \in Lags : TotalLag(sum)
        \/ Act

Spec == Init /\ [][Next]_vars

\* Time goes on, and so does the loop: the command that reads the lag does not
\* fail for ever.
FairSpec == /\ Spec
            /\ WF_vars(TimePasses)
            /\ WF_vars(\E sum \in Lags : TotalLag(sum))
            /\ WF_vars(Act)
-----------------------------------------------------------------------------
\* The belief is not what runs: the loop was started next to another number of
\* replicas than the minimum, or the last scale command failed.
Drifted == deployed # replicas

\* Every variable has its type, and the belief stays within the limits.
AutoscalerTypeOK ==
  /\ lag \in Lags
  /\ reading \in Lags \cup {"none"}
  /\ replicas \in MinReplicas..MaxReplicas
  /\ highCount \in 0..2
  /\ idle \in 0..NotIdle
  /\ deployed \in 0..MaxRunning
  /\ quiet \in 0..IdleTime

\* A loop whose belief is right removes a replica only when it reads no lag and
\* has read none for all of the idle time, counted from its start, its last
\* removal or the last lag it read, whichever came last (main: the branch
\* lag == 0 and the resets of idleStart in every other branch).
RemovalsNeedIdleTime ==
  [][deployed' < deployed
       => Drifted \/ (reading = "zero" /\ quiet >= IdleTime)]_vars

\* A lag that is read as high from some time on, or as zero, brings the service
\* to its maximum or its minimum (main: highCount, idleStart and the limits).
\* The excuses are a drift, which nothing but a later command repairs, and a loop
\* that is started anew for ever.
DemandIsFollowed ==
  /\ <>[](reading \in {"none", "high"})
       => []<>(deployed = MaxReplicas \/ Drifted) \/ []<><<Restart>>_vars
  /\ <>[](reading \in {"none", "zero"})
       => []<>(deployed = MinReplicas \/ Drifted) \/ []<><<Restart>>_vars
=============================================================================
