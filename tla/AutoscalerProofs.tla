--------------------------- MODULE AutoscalerProofs ---------------------------
(***************************************************************************)
(* Theorems of Autoscaler for any limits, any step and any idle time.      *)
(***************************************************************************)
EXTENDS Autoscaler, TLAPS

\* Adding a step and taking one away stay within the limits, and adding does not
\* lead down (main: the two if statements).
LEMMA StepsStayWithinLimits ==
  ASSUME AutoscalerTypeOK
  PROVE  /\ AtMost(replicas + Step, MaxReplicas) \in MinReplicas..MaxReplicas
         /\ AtMost(replicas + Step, MaxReplicas) >= replicas
         /\ Lowered \in MinReplicas..MaxReplicas
<1>1. /\ MinReplicas \in Nat /\ MaxReplicas \in Nat /\ MinReplicas <= MaxReplicas
      /\ Step \in Nat /\ replicas \in MinReplicas..MaxReplicas
  BY AutoscalerAssumption DEF AutoscalerTypeOK
<1> QED BY <1>1 DEF AtMost, Lowered

\* A scale command, even one that fails half-way, leads no further than to what
\* it asks for, and not back.
LEMMA ScaleKeepsLimits ==
  ASSUME AutoscalerTypeOK, NEW n \in MinReplicas..MaxReplicas, ScaleService(n)
  PROVE  /\ replicas' \in MinReplicas..MaxReplicas
         /\ deployed' \in 0..MaxRunning
         /\ n >= deployed => deployed' >= deployed
<1>1. /\ MinReplicas \in Nat /\ MaxReplicas \in Nat /\ MaxRunning \in Nat
      /\ MaxReplicas <= MaxRunning /\ deployed \in 0..MaxRunning
  BY AutoscalerAssumption DEF AutoscalerTypeOK
<1>2. deployed' \in (deployed..n) \cup (n..deployed) /\ replicas' = n
  BY DEF ScaleService
<1> QED BY <1>1, <1>2

\* The counters stay within their bounds.
LEMMA CountsStayWithinBounds ==
  ASSUME AutoscalerTypeOK
  PROVE  /\ IdleTime \in Nat /\ NotIdle = IdleTime + 1
         /\ 0 \in 0..2 /\ AtMost(highCount + 1, 2) \in 0..2
         /\ NotIdle \in 0..NotIdle /\ 0 \in 0..NotIdle
         /\ 0 \in 0..IdleTime /\ AtMost(quiet + 1, IdleTime) \in 0..IdleTime
         /\ idle # NotIdle => AtMost(idle + 1, IdleTime) \in 0..IdleTime
<1>1. /\ IdleTime \in Nat /\ NotIdle = IdleTime + 1
      /\ idle \in 0..NotIdle /\ highCount \in 0..2 /\ quiet \in 0..IdleTime
  BY AutoscalerAssumption DEF AutoscalerTypeOK, NotIdle
<1> QED BY <1>1 DEF AtMost

\* Acting on a high lag removes nothing if the belief is right.
LEMMA HighLagGrows ==
  ASSUME AutoscalerTypeOK, HighLag
  PROVE  /\ AutoscalerTypeOK'
         /\ ~ Drifted => deployed' >= deployed
<1> DEFINE more == AtMost(replicas + Step, MaxReplicas)
<1>1. /\ reading' = "none" /\ lag' = lag /\ quiet' = quiet /\ idle' = NotIdle
      /\ highCount' \in {0, AtMost(highCount + 1, 2)}
  BY DEF HighLag
<1>2. more \in MinReplicas..MaxReplicas /\ more >= replicas
  BY StepsStayWithinLimits
<1>3. CASE ScaleService(more)
  <2> HIDE DEF more
  <2>1. /\ replicas' \in MinReplicas..MaxReplicas /\ deployed' \in 0..MaxRunning
        /\ more >= deployed => deployed' >= deployed
    BY <1>2, <1>3, ScaleKeepsLimits
  <2> QED BY <1>1, <1>2, <2>1, CountsStayWithinBounds DEF AutoscalerTypeOK, Drifted
<1>4. CASE Keep
  <2>1. deployed' >= deployed
    BY <1>4, AutoscalerAssumption DEF Keep, AutoscalerTypeOK
  <2> QED BY <1>1, <1>4, <2>1, CountsStayWithinBounds DEF AutoscalerTypeOK, Keep
<1> QED BY <1>3, <1>4 DEF HighLag

\* What acting on no lag does: without the idle time nothing is removed.
LEMMA NoLagWaits ==
  ASSUME AutoscalerTypeOK, NoLag
  PROVE  /\ reading = "zero" /\ reading' = "none" /\ lag' = lag /\ highCount' = 0
         /\ \/ ScaleService(Lowered) /\ idle = IdleTime /\ idle' = NotIdle /\ quiet' = 0
            \/ ScaleService(Lowered) /\ IdleTime = 0 /\ idle' = NotIdle /\ quiet' = 0
            \/ Keep /\ quiet' = quiet /\ idle' = (IF idle = NotIdle THEN 0 ELSE idle)
<1>1. IdleTime \in Nat /\ NotIdle = IdleTime + 1 /\ idle \in 0..NotIdle
  BY AutoscalerAssumption DEF AutoscalerTypeOK, NotIdle
<1>2. ASSUME (IF idle = NotIdle THEN 0 ELSE idle) >= IdleTime
      PROVE  idle = IdleTime \/ IdleTime = 0
  BY <1>1, <1>2
<1> QED BY <1>2 DEF NoLag

\* Every step keeps the types and the limits.
LEMMA TypesKept == AutoscalerTypeOK /\ [Next]_vars => AutoscalerTypeOK'
<1> SUFFICES ASSUME AutoscalerTypeOK, [Next]_vars PROVE AutoscalerTypeOK'
  OBVIOUS
<1>1. CASE LagChanges
  BY <1>1 DEF LagChanges, AutoscalerTypeOK
<1>2. CASE TimePasses
  <2>1. idle' \in 0..NotIdle
    BY <1>2, CountsStayWithinBounds DEF TimePasses
  <2> QED BY <1>2, <2>1, CountsStayWithinBounds DEF TimePasses, AutoscalerTypeOK
<1>3. CASE Restart
  <2>1. MinReplicas \in MinReplicas..MaxReplicas
    BY AutoscalerAssumption
  <2> QED BY <1>3, <2>1, CountsStayWithinBounds DEF Restart, AutoscalerTypeOK
<1>4. CASE \E sum \in Lags : TotalLag(sum)
  BY <1>4, CountsStayWithinBounds DEF TotalLag, AutoscalerTypeOK
<1>5. CASE HighLag
  BY <1>5, HighLagGrows
<1>6. CASE NoLag
  <2>1. /\ reading' = "none" /\ lag' = lag /\ highCount' = 0
        /\ idle' \in {NotIdle, 0, idle} /\ quiet' \in {0, quiet}
        /\ ScaleService(Lowered) \/ Keep
    BY <1>6, NoLagWaits
  <2>2. replicas' \in MinReplicas..MaxReplicas /\ deployed' \in 0..MaxRunning
    <3>1. CASE ScaleService(Lowered)
      BY <3>1, StepsStayWithinLimits, ScaleKeepsLimits
    <3>2. CASE Keep
      BY <3>2 DEF Keep, AutoscalerTypeOK
    <3> QED BY <2>1, <3>1, <3>2
  <2> QED BY <2>1, <2>2, CountsStayWithinBounds DEF AutoscalerTypeOK
<1>7. CASE SomeLag
  BY <1>7, CountsStayWithinBounds DEF SomeLag, Keep, AutoscalerTypeOK
<1>8. CASE UNCHANGED vars
  BY <1>8 DEF vars, AutoscalerTypeOK
<1> QED BY <1>1, <1>2, <1>3, <1>4, <1>5, <1>6, <1>7, <1>8 DEF Next, Act

\* The belief stays within AUTOSCALE_MIN and AUTOSCALE_MAX whatever the step, and
\* whatever the service was started with or its commands have led to.
THEOREM LimitsAreKept == Spec => []AutoscalerTypeOK
<1>1. Init => AutoscalerTypeOK
  <2>1. MinReplicas \in MinReplicas..MaxReplicas /\ IdleTime \in Nat
    BY AutoscalerAssumption
  <2>2. NotIdle \in 0..NotIdle /\ 0 \in 0..2 /\ 0 \in 0..IdleTime
    BY <2>1 DEF NotIdle
  <2> QED BY <2>1, <2>2 DEF Init, AutoscalerTypeOK
<1> QED BY <1>1, TypesKept, PTL DEF Spec

-----------------------------------------------------------------------------
(* Removals.                                                                *)

\* The idle time is not longer than the quiet time, except between the reading
\* of a lag and the reset of idleStart that it leads to.
IdleInv == reading \in {"none", "zero"} /\ idle # NotIdle => idle <= quiet

\* Every step keeps it.
LEMMA IdleInvKept ==
  AutoscalerTypeOK /\ IdleInv /\ [Next]_vars => IdleInv'
<1> SUFFICES ASSUME AutoscalerTypeOK, IdleInv, [Next]_vars PROVE IdleInv'
  OBVIOUS
<1>0. NotIdle' = NotIdle
  BY DEF NotIdle
<1>1. CASE LagChanges
  BY <1>0, <1>1 DEF LagChanges, IdleInv
<1>2. CASE TimePasses
  <2>1. /\ IdleTime \in Nat /\ NotIdle = IdleTime + 1
        /\ idle \in 0..NotIdle /\ quiet \in 0..IdleTime
    BY CountsStayWithinBounds DEF AutoscalerTypeOK
  <2>2. ASSUME idle # NotIdle, idle <= quiet
        PROVE  AtMost(idle + 1, IdleTime) <= AtMost(quiet + 1, IdleTime)
    BY <2>1, <2>2 DEF AtMost
  <2> QED BY <1>0, <1>2, <2>2 DEF TimePasses, IdleInv
<1>3. CASE Restart \/ HighLag \/ SomeLag
  BY <1>0, <1>3 DEF Restart, HighLag, SomeLag, IdleInv
<1>4. CASE \E sum \in Lags : TotalLag(sum)
  BY <1>0, <1>4 DEF TotalLag, Lags, IdleInv
<1>5. CASE NoLag
  <2>1. quiet \in Nat /\ reading = "zero"
    BY <1>5, AutoscalerAssumption DEF AutoscalerTypeOK, NoLag
  <2>2. \/ idle' = NotIdle
        \/ idle' = 0 /\ quiet' = quiet
        \/ idle # NotIdle /\ idle' = idle /\ quiet' = quiet
    BY <1>5, NoLagWaits
  <2> QED BY <1>0, <2>1, <2>2 DEF IdleInv
<1>6. CASE UNCHANGED vars
  BY <1>0, <1>6 DEF vars, IdleInv
<1> QED BY <1>1, <1>2, <1>3, <1>4, <1>5, <1>6 DEF Next, Act

\* A loop whose belief is right removes nothing before the idle time is over,
\* and nothing under a lag, for every idle time and step (main: idleStart).
THEOREM RemovalsAreLate == Spec => RemovalsNeedIdleTime
<1>1. Init => IdleInv
  BY DEF Init, IdleInv
<1>2. AutoscalerTypeOK /\ IdleInv /\ [Next]_vars
        => [deployed' < deployed
              => Drifted \/ (reading = "zero" /\ quiet >= IdleTime)]_vars
  <2> SUFFICES ASSUME AutoscalerTypeOK, IdleInv, Next, deployed' < deployed, ~ Drifted
               PROVE  reading = "zero" /\ quiet >= IdleTime
    OBVIOUS
  <2>1. deployed \in Nat /\ IdleTime \in Nat /\ quiet \in Nat /\ NotIdle = IdleTime + 1
    BY AutoscalerAssumption DEF AutoscalerTypeOK, NotIdle
  <2>2. CASE HighLag
    <3>1. deployed' >= deployed /\ deployed' \in Nat
      BY <2>2, HighLagGrows, AutoscalerAssumption DEF AutoscalerTypeOK
    <3> QED BY <2>1, <3>1
  <2>3. CASE NoLag
    <3>1. ~ Keep
      BY <2>1 DEF Keep
    <3>2. reading = "zero" /\ (idle = IdleTime \/ IdleTime = 0)
      BY <2>3, <3>1, NoLagWaits
    <3>3. idle = IdleTime => idle <= quiet
      BY <2>1, <3>2 DEF IdleInv
    <3> QED BY <2>1, <3>2, <3>3
  <2>4. deployed' # deployed
    BY <2>1
  <2>5. ~ (LagChanges \/ TimePasses \/ Restart \/ SomeLag)
        /\ ~ \E sum \in Lags : TotalLag(sum)
    BY <2>4 DEF LagChanges, TimePasses, Restart, SomeLag, TotalLag, Keep
  <2> QED BY <2>2, <2>3, <2>5 DEF Next, Act
<1> QED BY <1>1, <1>2, LimitsAreKept, IdleInvKept, PTL DEF Spec, RemovalsNeedIdleTime
=============================================================================
