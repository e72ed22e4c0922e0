----------------------- MODULE CommandTransactionProofs -----------------------
(***************************************************************************)
(* Theorems of CommandTransaction for any number of processes, rollbacks   *)
(* and overlaps.                                                           *)
(***************************************************************************)
EXTENDS CommandTransaction, FiniteSetTheorems, TLAPS

\* The handlers that are going to answer: they passed the check of the
\* journal, or will pass it as things stand.
AtWork == {h \in Handlers : \/ pc[h] \in {"append", "gateway", "commit"}
                            \/ pc[h] = "has" /\ row # "committed"}

\* Those of them that have not called the gateway with success yet.
Waiting == {h \in AtWork : ~ performed[h]}

\* Another effect may come from a process that does not have the command yet.
Spare == IF row # "committed" /\ AtWork = {} THEN 1 ELSE 0

\* The IN row is committed exactly with a result, and only a transaction that
\* is about to commit has something performed.
RowInv == /\ answers = 0 <=> row # "committed"
          /\ \A h \in Handlers : performed[h] => pc[h] = "commit"

\* The answers there are and those to come have their causes.
AnswerInv == /\ IsFiniteSet(AtWork)
             /\ answers + Cardinality(AtWork) <= 1 + overlaps

\* So have the effects.
EffectInv == effects + Cardinality(Waiting) + Spare <= 1 + rollbacks + overlaps

\* The inductive invariant.
CommandInv == TypeOK /\ RowInv /\ AnswerInv /\ EffectInv
-----------------------------------------------------------------------------
\* A part of a finite set, and a part without one of its elements, are smaller.
LEMMA SubsetSize ==
  ASSUME NEW S, IsFiniteSet(S), NEW T, T \subseteq S
  PROVE  /\ IsFiniteSet(T)
         /\ Cardinality(T) \in Nat /\ Cardinality(S) \in Nat
         /\ Cardinality(T) <= Cardinality(S)
         /\ \A x \in S : x \notin T => Cardinality(T) + 1 <= Cardinality(S)
<1>1. IsFiniteSet(T) /\ Cardinality(T) <= Cardinality(S)
  BY FS_Subset
<1>2. Cardinality(T) \in Nat /\ Cardinality(S) \in Nat
  BY <1>1, FS_CardinalityType
<1>3. ASSUME NEW x \in S, x \notin T PROVE Cardinality(T) + 1 <= Cardinality(S)
  <2>1. IsFiniteSet(S \ {x}) /\ Cardinality(S \ {x}) = Cardinality(S) - 1
    BY FS_RemoveElement
  <2>2. Cardinality(T) <= Cardinality(S \ {x})
    BY <1>3, <2>1, FS_Subset
  <2> QED BY <1>2, <2>1, <2>2
<1> QED BY <1>1, <1>2, <1>3

\* The bookkeeping of the invariant in a state: sizes are numbers.
LEMMA Sizes ==
  ASSUME IsFiniteSet(AtWork)
  PROVE  /\ IsFiniteSet(Waiting)
         /\ Cardinality(AtWork) \in Nat
         /\ Cardinality(Waiting) \in Nat
         /\ Spare \in {0, 1}
<1>1. Waiting \subseteq AtWork
  BY DEF Waiting
<1> QED BY <1>1, SubsetSize DEF Spare

\* Before the command is delivered nothing was answered or performed.
LEMMA InitCommandInv == Init => CommandInv
<1> SUFFICES ASSUME Init PROVE CommandInv
  OBVIOUS
<1>1. AtWork = {} /\ Waiting = {}
  BY DEF Init, AtWork, Waiting
<1>2. IsFiniteSet({}) /\ Cardinality({}) = 0
  BY FS_EmptySet
<1>3. TypeOK
  BY CommandBoundsAssumption, HandlersAssumption DEF Init, TypeOK
<1>4. RowInv
  BY DEF Init, RowInv
<1>5. AnswerInv
  BY <1>1, <1>2 DEF Init, AnswerInv
<1>6. EffectInv
  BY <1>1, <1>2 DEF Init, EffectInv, Spare
<1> QED BY <1>3, <1>4, <1>5, <1>6 DEF CommandInv

\* Every step keeps the types and the truth of the IN row.
LEMMA RowKept == TypeOK /\ RowInv /\ [Next]_vars => TypeOK' /\ RowInv'
<1> SUFFICES ASSUME TypeOK, RowInv, [Next]_vars PROVE TypeOK' /\ RowInv'
  OBVIOUS
<1> USE CommandBoundsAssumption, HandlersAssumption DEF TypeOK, RowInv, GoTo
<1>1. ASSUME NEW h \in Handlers, Deliver(h) PROVE TypeOK' /\ RowInv'
  BY <1>1 DEF Deliver
<1>2. ASSUME NEW h \in Handlers, Has(h) PROVE TypeOK' /\ RowInv'
  BY <1>2 DEF Has
<1>3. ASSUME NEW h \in Handlers, AppendIn(h) PROVE TypeOK' /\ RowInv'
  BY <1>3 DEF AppendIn
<1>4. ASSUME NEW h \in Handlers, CallGateway(h) PROVE TypeOK' /\ RowInv'
  BY <1>4 DEF CallGateway
<1>5. ASSUME NEW h \in Handlers, Commit(h) PROVE TypeOK' /\ RowInv'
  BY <1>5 DEF Commit
<1>6. ASSUME NEW h \in Handlers, Rollback(h) PROVE TypeOK' /\ RowInv'
  BY <1>6 DEF Rollback
<1>7. CASE UNCHANGED vars
  BY <1>7 DEF vars
<1> QED BY <1>1, <1>2, <1>3, <1>4, <1>5, <1>6, <1>7 DEF Next, Statement

\* A delivery adds a handler at work, unless the command is answered already,
\* and that one is the first, or an overlap.
LEMMA DeliverKeepsCounts ==
  ASSUME CommandInv, NEW h \in Handlers, Deliver(h)
  PROVE  AnswerInv' /\ EffectInv'
<1>1. TypeOK /\ RowInv /\ AnswerInv /\ EffectInv
  BY DEF CommandInv
<1>2. /\ pc[h] = "idle" /\ pc' = [pc EXCEPT ![h] = "has"]
      /\ overlaps' \in {overlaps, overlaps + 1}
      /\ ~ Busy(h) \/ overlaps' = overlaps + 1
      /\ UNCHANGED <<row, performed, answers, effects, rollbacks>>
  BY DEF Deliver, GoTo
<1>3. ~ performed[h] /\ h \notin AtWork /\ h \notin Waiting
  BY <1>1, <1>2 DEF RowInv, AtWork, Waiting
<1>4. IsFiniteSet(Waiting) /\ Cardinality(AtWork) \in Nat
      /\ Cardinality(Waiting) \in Nat /\ Spare \in {0, 1}
  BY <1>1, Sizes DEF AnswerInv
<1>5. CASE row = "committed"
  <2>1. AtWork' = AtWork
    BY <1>1, <1>2, <1>5 DEF AtWork, TypeOK
  <2>2. Waiting' = Waiting
    BY <1>2, <2>1 DEF Waiting
  <2>3. Spare' = 0 /\ Spare = 0
    BY <1>2, <1>5 DEF Spare
  <2> QED BY <1>1, <1>2, <1>4, <2>1, <2>2, <2>3 DEF AnswerInv, EffectInv, TypeOK
<1>6. CASE row # "committed"
  <2>1. AtWork' = AtWork \cup {h}
    BY <1>1, <1>2, <1>6 DEF AtWork, TypeOK
  <2>2. Waiting' = Waiting \cup {h}
    BY <1>2, <1>3, <2>1 DEF Waiting
  <2>3. /\ IsFiniteSet(AtWork') /\ Cardinality(AtWork') = Cardinality(AtWork) + 1
        /\ Cardinality(Waiting') = Cardinality(Waiting) + 1
    BY <1>1, <1>3, <1>4, <2>1, <2>2, FS_AddElement DEF AnswerInv
  <2>4. Spare' = 0
    BY <2>1 DEF Spare
  <2>5. CASE overlaps' = overlaps + 1
    BY <1>1, <1>2, <1>4, <2>3, <2>4, <2>5 DEF AnswerInv, EffectInv, TypeOK
  <2>6. CASE ~ Busy(h)
    <3>1. AtWork = {}
      BY <1>2, <2>6 DEF AtWork, Busy
    <3>2. Cardinality(AtWork) = 0 /\ Spare = 1 /\ answers = 0
      BY <1>1, <1>6, <3>1, FS_EmptySet DEF Spare, RowInv
    <3>3. overlaps' \in Nat
      BY <1>1, <1>2 DEF TypeOK
    <3>4. answers' = 0
      BY <1>2, <3>2
    <3>5. Cardinality(AtWork') = 1
      BY <2>3, <3>2
    <3>6. AnswerInv'
      BY <2>3, <3>3, <3>4, <3>5 DEF AnswerInv
    <3>7. EffectInv'
      BY <1>1, <1>2, <1>4, <2>3, <2>4, <3>2 DEF EffectInv, TypeOK
    <3> QED BY <3>6, <3>7
  <2> QED BY <1>2, <2>5, <2>6
<1> QED BY <1>5, <1>6

\* A handler that ends, by its commit or a rollback, is at work no longer.
LEMMA EndingLeaves ==
  ASSUME CommandInv, NEW h \in Handlers,
         pc' = [pc EXCEPT ![h] = "idle"],
         performed' = [performed EXCEPT ![h] = FALSE],
         row # "committed" => row' # "committed" \/ h \in AtWork,
         row = "committed" => row' = "committed"
  PROVE  /\ IsFiniteSet(AtWork')
         /\ Cardinality(AtWork') \in Nat /\ Cardinality(AtWork) \in Nat
         /\ Cardinality(AtWork') <= Cardinality(AtWork)
         /\ h \in AtWork => Cardinality(AtWork') + 1 <= Cardinality(AtWork)
         /\ Cardinality(Waiting') \in Nat /\ Cardinality(Waiting) \in Nat
         /\ Cardinality(Waiting') <= Cardinality(Waiting)
<1>1. TypeOK /\ IsFiniteSet(AtWork)
  BY DEF CommandInv, AnswerInv
<1>2. AtWork' \subseteq AtWork /\ h \notin AtWork'
  BY <1>1 DEF AtWork, TypeOK
<1>3. Waiting' \subseteq Waiting
  BY <1>1, <1>2 DEF Waiting, TypeOK, AtWork
<1>4. IsFiniteSet(Waiting)
  BY <1>1, Sizes
<1> QED BY <1>1, <1>2, <1>3, <1>4, SubsetSize

\* Every step keeps the accounts of answers and effects.
LEMMA CountsKept == CommandInv /\ [Next]_vars => AnswerInv' /\ EffectInv'
<1> SUFFICES ASSUME CommandInv, [Next]_vars PROVE AnswerInv' /\ EffectInv'
  OBVIOUS
<1>1. TypeOK /\ RowInv /\ AnswerInv /\ EffectInv
  BY DEF CommandInv
<1>2. IsFiniteSet(Waiting) /\ Cardinality(AtWork) \in Nat
      /\ Cardinality(Waiting) \in Nat /\ Spare \in {0, 1}
  BY <1>1, Sizes DEF AnswerInv
<1>3. ASSUME AtWork' = AtWork, Waiting' = Waiting, Spare' = Spare,
             UNCHANGED <<answers, effects, rollbacks, overlaps>>
      PROVE  AnswerInv' /\ EffectInv'
  BY <1>1, <1>3 DEF AnswerInv, EffectInv
<1>4. ASSUME NEW h \in Handlers, Deliver(h) PROVE AnswerInv' /\ EffectInv'
  BY <1>4, DeliverKeepsCounts
<1>5. ASSUME NEW h \in Handlers, Has(h) PROVE AnswerInv' /\ EffectInv'
  <2>1. AtWork' = AtWork
    BY <1>1, <1>5 DEF Has, GoTo, AtWork, TypeOK
  <2>2. Waiting' = Waiting /\ Spare' = Spare
    BY <1>5, <2>1 DEF Has, Waiting, Spare
  <2> QED BY <1>3, <1>5, <2>1, <2>2 DEF Has
<1>6. ASSUME NEW h \in Handlers, AppendIn(h) PROVE AnswerInv' /\ EffectInv'
  <2>1. row' = "committed" <=> row = "committed"
    BY <1>6, HandlersAssumption DEF AppendIn
  <2>2. AtWork' = AtWork
    BY <1>1, <1>6, <2>1 DEF AppendIn, GoTo, AtWork, TypeOK
  <2>3. Waiting' = Waiting /\ Spare' = Spare
    BY <1>6, <2>1, <2>2 DEF AppendIn, Waiting, Spare
  <2> QED BY <1>3, <1>6, <2>2, <2>3 DEF AppendIn
<1>7. ASSUME NEW h \in Handlers, CallGateway(h) PROVE AnswerInv' /\ EffectInv'
  <2>1. PICK done \in BOOLEAN :
          /\ performed' = [performed EXCEPT ![h] = done]
          /\ effects' = (IF done THEN effects + 1 ELSE effects)
    BY <1>7 DEF CallGateway
  <2>2. /\ pc[h] = "gateway" /\ ~ performed[h] /\ h \in Waiting
        /\ pc' = [pc EXCEPT ![h] = "commit"]
        /\ UNCHANGED <<row, answers, rollbacks, overlaps>>
    BY <1>1, <1>7 DEF CallGateway, GoTo, RowInv, AtWork, Waiting
  <2>3. AtWork' = AtWork
    BY <1>1, <2>2 DEF AtWork, TypeOK
  <2>4. Spare' = Spare
    BY <2>2, <2>3 DEF Spare
  <2>5. CASE done = FALSE
    <3>1. Waiting' = Waiting
      BY <1>1, <2>1, <2>2, <2>3, <2>5 DEF Waiting, AtWork, TypeOK
    <3> QED BY <1>3, <2>1, <2>2, <2>3, <2>4, <2>5, <3>1
  <2>6. CASE done = TRUE
    <3>1. Waiting' \subseteq Waiting /\ h \notin Waiting'
      BY <1>1, <2>1, <2>2, <2>3, <2>6 DEF Waiting, AtWork, TypeOK
    <3>2. Cardinality(Waiting') \in Nat
          /\ Cardinality(Waiting') + 1 <= Cardinality(Waiting)
      BY <1>2, <2>2, <3>1, SubsetSize
    <3>3. AnswerInv'
      BY <1>1, <2>2, <2>3 DEF AnswerInv
    <3>4. EffectInv'
      BY <1>1, <1>2, <2>1, <2>2, <2>4, <2>6, <3>2 DEF EffectInv, TypeOK
    <3> QED BY <3>3, <3>4
  <2> QED BY <2>5, <2>6
<1>8. ASSUME NEW h \in Handlers, Commit(h) PROVE AnswerInv' /\ EffectInv'
  <2>1. /\ pc[h] = "commit" /\ answers' = answers + 1 /\ row' = "committed"
        /\ performed' = [performed EXCEPT ![h] = FALSE]
        /\ pc' = [pc EXCEPT ![h] = "idle"]
        /\ UNCHANGED <<effects, rollbacks, overlaps>>
    BY <1>8 DEF Commit, GoTo
  <2>2. h \in AtWork
    BY <2>1 DEF AtWork
  <2>3. /\ IsFiniteSet(AtWork') /\ Cardinality(AtWork') \in Nat
        /\ Cardinality(AtWork') + 1 <= Cardinality(AtWork)
        /\ Cardinality(Waiting') \in Nat
        /\ Cardinality(Waiting') <= Cardinality(Waiting)
    BY <2>1, <2>2, EndingLeaves
  <2>4. Spare' = 0
    BY <2>1 DEF Spare
  <2>5. AnswerInv'
    BY <1>1, <1>2, <2>1, <2>3 DEF AnswerInv, TypeOK
  <2>6. EffectInv'
    BY <1>1, <1>2, <2>1, <2>3, <2>4 DEF EffectInv, TypeOK
  <2> QED BY <2>5, <2>6
<1>9. ASSUME NEW h \in Handlers, Rollback(h) PROVE AnswerInv' /\ EffectInv'
  <2>1. /\ rollbacks' = rollbacks + 1
        /\ row' = "committed" <=> row = "committed"
        /\ performed' = [performed EXCEPT ![h] = FALSE]
        /\ pc' = [pc EXCEPT ![h] = "idle"]
        /\ UNCHANGED <<answers, effects, overlaps>>
    BY <1>9, HandlersAssumption DEF Rollback, GoTo
  <2>2. /\ IsFiniteSet(AtWork') /\ Cardinality(AtWork') \in Nat
        /\ Cardinality(AtWork') <= Cardinality(AtWork)
        /\ Cardinality(Waiting') \in Nat
        /\ Cardinality(Waiting') <= Cardinality(Waiting)
    BY <2>1, EndingLeaves
  <2>3. Spare' \in {0, 1}
    BY DEF Spare
  <2>4. AnswerInv'
    BY <1>1, <1>2, <2>1, <2>2 DEF AnswerInv, TypeOK
  <2>5. EffectInv'
    BY <1>1, <1>2, <2>1, <2>2, <2>3 DEF EffectInv, TypeOK
  <2> QED BY <2>4, <2>5
<1>10. CASE UNCHANGED vars
  <2>1. AtWork' = AtWork
    BY <1>10 DEF vars, AtWork
  <2>2. Waiting' = Waiting /\ Spare' = Spare
    BY <1>10, <2>1 DEF vars, Waiting, Spare
  <2> QED BY <1>3, <1>10, <2>1, <2>2 DEF vars
<1> QED BY <1>4, <1>5, <1>6, <1>7, <1>8, <1>9, <1>10 DEF Next, Statement

\* The inductive invariant holds in every reachable state: answers and effects,
\* those there are and those the processes are about to add, have their causes.
THEOREM CommandInvariant == Spec => []CommandInv
<1>1. Init => CommandInv
  BY InitCommandInv
<1>2. CommandInv /\ [Next]_vars => CommandInv'
  BY RowKept, CountsKept DEF CommandInv
<1> QED BY <1>1, <1>2, PTL DEF Spec

\* Type correctness; in particular only a handler past its insertion holds the
\* uncommitted IN row of a command.
THEOREM CommandTypeCorrect == Spec => []TypeOK
<1>1. CommandInv => TypeOK
  BY DEF CommandInv
<1> QED BY <1>1, CommandInvariant, PTL

\* A command has one result for every process that got it while another was at
\* it, and one more; redelivery and rollbacks add none (log.go, Append).
THEOREM AnswersHaveACause == Spec => []AnswersNeedAnOverlap
<1>1. CommandInv => AnswersNeedAnOverlap
  <2> SUFFICES ASSUME CommandInv PROVE AnswersNeedAnOverlap
    OBVIOUS
  <2>1. Cardinality(AtWork) \in Nat
    BY Sizes DEF CommandInv, AnswerInv
  <2> QED BY <2>1 DEF CommandInv, AnswerInv, TypeOK, AnswersNeedAnOverlap
<1> QED BY <1>1, CommandInvariant, PTL

\* The gateway repeats itself only for transactions that were rolled back and
\* processes that overlapped (payment.go:73).
THEOREM EffectsHaveACause == Spec => []EffectsNeedACause
<1>1. CommandInv => EffectsNeedACause
  <2> SUFFICES ASSUME CommandInv PROVE EffectsNeedACause
    OBVIOUS
  <2>1. Cardinality(Waiting) \in Nat /\ Spare \in {0, 1}
    BY Sizes DEF CommandInv, AnswerInv
  <2> QED BY <2>1 DEF CommandInv, EffectInv, TypeOK, EffectsNeedACause
<1> QED BY <1>1, CommandInvariant, PTL

\* As long as nobody overlapped, a handler at work is alone, and the command is
\* not answered.
LEMMA WorksAlone ==
  ASSUME CommandInv, overlaps = 0, NEW h \in AtWork
  PROVE  /\ answers = 0
         /\ \A g \in Handlers : performed[g] => g = h
<1>1. IsFiniteSet(AtWork) /\ answers + Cardinality(AtWork) <= 1 /\ answers \in Nat
  BY DEF CommandInv, AnswerInv, TypeOK
<1>2. {h} \subseteq AtWork /\ h \notin {}
  OBVIOUS
<1>3. Cardinality({}) = 0 /\ Cardinality({}) + 1 <= Cardinality(AtWork)
      /\ Cardinality(AtWork) \in Nat
  BY <1>1, SubsetSize, FS_EmptySet
<1>4. answers = 0
  BY <1>1, <1>3
<1>5. ASSUME NEW g \in AtWork, g # h PROVE FALSE
  <2>1. Cardinality({h}) = 1
    BY FS_Singleton
  <2>2. Cardinality({h}) + 1 <= Cardinality(AtWork)
    BY <1>1, <1>2, <1>5, SubsetSize
  <2> QED BY <1>1, <1>3, <2>1, <2>2
<1>6. \A g \in Handlers : performed[g] => g \in AtWork
  BY DEF CommandInv, RowInv, AtWork
<1> QED BY <1>4, <1>5, <1>6

\* Without overlaps the transaction of a worker is the one step of
\* CommandHandling that OrderSaga takes it for: whatever the interleaving of
\* rollbacks and redeliveries, its statements cannot be told from that step.
THEOREM TransactionIsOneStep == Spec => HandledInOneStep
<1>1. CommandInv /\ [Next]_vars =>
        [overlaps' = 0 => [Handling!Next]_(Handling!command)]_vars
  <2> SUFFICES ASSUME CommandInv, Next, overlaps' = 0
               PROVE  [Handling!Next]_(Handling!command)
    OBVIOUS
  <2> DEFINE Some == \E g \in Handlers : performed[g]
             Told == IF Some THEN effects - 1 ELSE effects
  <2>1. TypeOK /\ RowInv
    BY DEF CommandInv
  <2>2. ASSUME NEW h \in Handlers, Deliver(h)
        PROVE  UNCHANGED <<answers, performed, effects>>
    BY <2>2 DEF Deliver
  <2>3. ASSUME UNCHANGED <<answers, performed, effects>>
        PROVE  [Handling!Next]_(Handling!command)
    BY <2>3 DEF Handling!command
  <2>4. ASSUME NEW h \in Handlers, Has(h) \/ AppendIn(h)
        PROVE  UNCHANGED <<answers, performed, effects>>
    BY <2>4 DEF Has, AppendIn
  <2>5. ASSUME UNCHANGED overlaps PROVE overlaps = 0
    BY <2>5
  <2>6. ASSUME NEW h \in Handlers, CallGateway(h)
        PROVE  UNCHANGED <<answers, Told>>
    <3>1. PICK done \in BOOLEAN :
            /\ performed' = [performed EXCEPT ![h] = done]
            /\ effects' = (IF done THEN effects + 1 ELSE effects)
      BY <2>6 DEF CallGateway
    <3>2. h \in AtWork /\ ~ performed[h] /\ overlaps = 0 /\ UNCHANGED answers
      BY <2>1, <2>5, <2>6 DEF CallGateway, AtWork, RowInv
    <3>3. ~ Some
      BY <3>2, WorksAlone
    <3>4. Some' <=> done
      BY <2>1, <3>1, <3>3 DEF TypeOK
    <3> QED BY <2>1, <3>1, <3>2, <3>3, <3>4 DEF TypeOK
  <2>7. ASSUME NEW h \in Handlers, Commit(h) PROVE Handling!Handle
    <3>1. h \in AtWork /\ overlaps = 0
      BY <2>5, <2>7 DEF Commit, AtWork
    <3>2. answers = 0 /\ answers' = 1
      BY <2>7, <3>1, WorksAlone DEF Commit
    <3>3. ~ Some'
      BY <2>1, <2>7, <3>1, WorksAlone DEF Commit, TypeOK
    <3>4. Told' \in {Told, Told + 1}
      BY <2>1, <2>7, <3>3 DEF Commit, TypeOK
    <3> QED BY <3>2, <3>4 DEF Handling!Handle
  <2>8. ASSUME NEW h \in Handlers, Rollback(h)
        PROVE  Handling!LoseEffect \/ UNCHANGED <<answers, Told>>
    <3>1. CASE performed[h]
      <4>1. h \in AtWork /\ overlaps = 0 /\ UNCHANGED <<answers, effects>>
        BY <2>1, <2>5, <2>8, <3>1 DEF Rollback, RowInv, AtWork
      <4>2. answers = 0 /\ ~ Some'
        BY <2>1, <2>8, <4>1, WorksAlone DEF Rollback, TypeOK
      <4>3. Told' = Told + 1
        BY <2>1, <3>1, <4>1, <4>2 DEF TypeOK
      <4> QED BY <4>1, <4>2, <4>3 DEF Handling!LoseEffect
    <3>2. CASE ~ performed[h]
      <4>1. UNCHANGED performed
        BY <2>1, <2>8, <3>2 DEF Rollback, TypeOK
      <4> QED BY <2>8, <4>1 DEF Rollback
    <3> QED BY <3>1, <3>2
  <2>9. ASSUME UNCHANGED <<answers, Told>> PROVE [Handling!Next]_(Handling!command)
    BY <2>9 DEF Handling!command
  <2> QED BY <2>2, <2>3, <2>4, <2>6, <2>7, <2>8, <2>9
          DEF Next, Statement, Handling!Next
<1> QED BY <1>1, CommandInvariant, PTL DEF Spec, HandledInOneStep
=============================================================================
