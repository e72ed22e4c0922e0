---------------------------- MODULE ConsumerProofs ----------------------------
(***************************************************************************)
(* Theorems of Consumer for any number of partitions, workers and messages,*)
(* any batch size and any number of faults.                                *)
(***************************************************************************)
EXTENDS Consumer, SequenceTheorems, WellFoundedInduction, TLAPS

\* What a worker handles follows messages that are all settled.
HandledInv ==
  \A w \in Workers :
    phase[w] = "handle" => /\ msg[w] \in Messages
                           /\ 0..msg[w][2] - 1 \subseteq settled[msg[w][1]]

\* While the process runs, a partition is read on from where all is settled,
\* but for the one message its owner has in hand.
PositionInv ==
  up => \A p \in Partitions :
          \/ 0..position[p] - 1 \subseteq settled[p]
          \/ /\ phase[owner[p]] = "handle"
             /\ msg[owner[p]] = <<p, position[p] - 1>>

\* The inductive invariant.
ConsumerInv == /\ TypeOK
               /\ NothingSkipped
               /\ InPartitionOrder
               /\ BatchesAreSettled
               /\ HandledInv
               /\ PositionInv
-----------------------------------------------------------------------------
(* Batches and their highest offsets.                                      *)

Less == {ss \in Nat \X Nat : ss[1] < ss[2]}

\* There are no infinite descents in the naturals.
LEMMA LessWellFounded == IsWellFoundedOn(Less, Nat)
  BY NatLessThanWellFounded DEF OpToRel, Less

\* Offsets have a lowest one.
LEMMA Lowest ==
  ASSUME NEW S \in SUBSET Nat, S # {}
  PROVE  \E x \in S : \A y \in S : x <= y
<1>1. PICK x \in S : \A y \in S : ~ (<<y, x>> \in Less)
  BY LessWellFounded, WFMin
<1>2. ASSUME NEW y \in S PROVE x <= y
  <2>1. x \in Nat /\ y \in Nat /\ <<y, x>> \in Nat \X Nat
    OBVIOUS
  <2>2. ~ (y < x)
    BY <1>1, <2>1 DEF Less
  <2> QED BY <2>1, <2>2
<1> QED BY <1>2

\* The offsets of a batch have a highest one.
LEMMA Highest ==
  ASSUME NEW n \in Nat, NEW S \in SUBSET (0..n), S # {}
  PROVE  \E x \in S : \A y \in S : y <= x
<1> DEFINE T == {n - x : x \in S}
<1>1. T \in SUBSET Nat /\ T # {}
  <2>1. ASSUME NEW x \in S PROVE n - x \in Nat
    OBVIOUS
  <2>2. PICK x \in S : TRUE
    OBVIOUS
  <2> QED BY <2>1, <2>2
<1>2. PICK t \in T : \A u \in T : t <= u
  <2> HIDE DEF T
  <2> QED BY <1>1, Lowest
<1>3. PICK x \in S : t = n - x
  BY <1>2
<1>4. \A y \in S : n - x <= n - y
  BY <1>2, <1>3
<1> QED BY <1>3, <1>4

\* The type of pending says that a batch is short.
LEMMA BatchType ==
  ASSUME NEW b
  PROVE  b \in UNION {[1..n -> Messages] : n \in 0..CommitBatch - 1}
           <=> b \in Seq(Messages) /\ Len(b) < CommitBatch
<1>1. ASSUME NEW n \in 0..CommitBatch - 1, b \in [1..n -> Messages]
      PROVE  b \in Seq(Messages) /\ Len(b) < CommitBatch
  <2>1. n \in Nat /\ n < CommitBatch
    BY CommitBatchAssumption
  <2>2. b \in Seq(Messages)
    BY <1>1, <2>1, SeqDef
  <2>3. DOMAIN b = 1..n
    BY <1>1
  <2>4. Len(b) = n
    BY <2>1, <2>2, <2>3, LenProperties
  <2> QED BY <2>1, <2>2, <2>4
<1>2. ASSUME b \in Seq(Messages), Len(b) < CommitBatch
      PROVE  \E n \in 0..CommitBatch - 1 : b \in [1..n -> Messages]
  <2>1. Len(b) \in Nat /\ b \in [1..Len(b) -> Messages]
    BY <1>2, LenProperties, ElementOfSeq
  <2>2. Len(b) \in 0..CommitBatch - 1
    BY <1>2, <2>1, CommitBatchAssumption
  <2> QED BY <2>1, <2>2
<1> QED BY <1>1, <1>2

\* Offsets in a batch are offsets.
LEMMA InBatchType ==
  ASSUME NEW b \in Seq(Messages), NEW p
  PROVE  InBatch(b, p) \subseteq Offsets
<1>1. \A i \in 1..Len(b) : b[i] \in Messages
  BY ElementOfSeq
<1> QED BY <1>1 DEF InBatch, Messages

\* What is in a batch after a message joined it.
LEMMA InBatchAppend ==
  ASSUME NEW b \in Seq(Messages), NEW m \in Messages, NEW p
  PROVE  /\ Append(b, m) \in Seq(Messages)
         /\ Len(Append(b, m)) = Len(b) + 1
         /\ InBatch(Append(b, m), p) \subseteq
              InBatch(b, p) \cup (IF m[1] = p THEN {m[2]} ELSE {})
<1>1. Len(b) \in Nat
  BY LenProperties
<1>2. /\ Append(b, m) \in Seq(Messages)
      /\ Len(Append(b, m)) = Len(b) + 1
      /\ \A i \in 1..Len(b) : Append(b, m)[i] = b[i]
      /\ Append(b, m)[Len(b) + 1] = m
  BY AppendProperties
<1>3. \A i \in 1..Len(Append(b, m)) : i \in 1..Len(b) \/ i = Len(b) + 1
  BY <1>1, <1>2
<1> QED BY <1>1, <1>2, <1>3 DEF InBatch

\* Nothing is in an empty batch, and one message in a batch of one.
LEMMA InBatchSmall ==
  /\ <<>> \in Seq(Messages) /\ Len(<<>>) = 0
  /\ \A p : InBatch(<<>>, p) = {}
  /\ \A m \in Messages : /\ <<m>> \in Seq(Messages)
                         /\ \A p : InBatch(<<m>>, p) \subseteq
                                     (IF m[1] = p THEN {m[2]} ELSE {})
<1>1. <<>> \in Seq(Messages) /\ Len(<<>>) = 0
  OBVIOUS
<1>2. \A p : InBatch(<<>>, p) = {}
  BY DEF InBatch
<1>3. ASSUME NEW m \in Messages
      PROVE  /\ <<m>> \in Seq(Messages)
             /\ \A p : InBatch(<<m>>, p) \subseteq (IF m[1] = p THEN {m[2]} ELSE {})
  <2>1. <<m>> \in Seq(Messages) /\ Len(<<m>>) = 1 /\ <<m>>[1] = m
    OBVIOUS
  <2>2. \A i \in 1..Len(<<m>>) : i = 1
    BY <2>1
  <2> QED BY <2>1, <2>2 DEF InBatch
<1> QED BY <1>1, <1>2, <1>3

\* A commit never passes what is settled, as long as its batch does not.
LEMMA CommittingSettled ==
  ASSUME NEW b \in Seq(Messages), committed \in [Partitions -> 0..MaxOffset],
         NEW S,
         \A p \in Partitions : InBatch(b, p) \subseteq S[p],
         \A p \in Partitions : \A o \in S[p] : 0..o \subseteq S[p],
         \A p \in Partitions : 0..committed[p] - 1 \subseteq S[p]
  PROVE  /\ Committing(b) \in [Partitions -> 0..MaxOffset]
         /\ \A p \in Partitions : 0..Committing(b)[p] - 1 \subseteq S[p]
<1> USE ConsumerBoundsAssumption
<1>1. ASSUME NEW p \in Partitions
      PROVE  /\ Committing(b)[p] \in 0..MaxOffset
             /\ 0..Committing(b)[p] - 1 \subseteq S[p]
  <2>1. CASE InBatch(b, p) = {}
    BY <2>1 DEF Committing
  <2>2. CASE InBatch(b, p) # {}
    <3> DEFINE max == CHOOSE o \in InBatch(b, p) : \A n \in InBatch(b, p) : n <= o
    <3>1. InBatch(b, p) \in SUBSET (0..MaxOffset)
      BY InBatchType DEF Offsets
    <3>2. \E o \in InBatch(b, p) : \A n \in InBatch(b, p) : n <= o
      <4> DEFINE B == InBatch(b, p)
      <4> HIDE DEF B
      <4>1. B \in SUBSET (0..MaxOffset) /\ B # {}
        BY <2>2, <3>1 DEF B
      <4>2. \E x \in B : \A y \in B : y <= x
        BY <4>1, Highest
      <4> QED BY <4>2 DEF B
    <3>3. max \in InBatch(b, p)
      BY <3>2
    <3>4. max \in 0..MaxOffset - 1 /\ 0..max \subseteq S[p]
      BY <3>3, InBatchType DEF Offsets
    <3>5. Committing(b)[p] = 1 + max
      BY <2>2 DEF Committing
    <3> HIDE DEF max
    <3>6. 1 + max \in 0..MaxOffset /\ (1 + max) - 1 = max
      BY <3>4
    <3> QED BY <3>4, <3>5, <3>6
  <2> QED BY <2>1, <2>2
<1>2. Committing(b) = [p \in Partitions |-> Committing(b)[p]]
  BY DEF Committing
<1> QED BY <1>1, <1>2
-----------------------------------------------------------------------------
(* What the steps have in common.                                          *)

\* Faults are counted up to their bound.
LEMMA CostsKeepType ==
  ASSUME faults \in 0..MaxFaults, NEW n \in Nat, Costs(n)
  PROVE  faults' \in 0..MaxFaults
  BY ConsumerBoundsAssumption DEF Costs

\* The invariant of the log: what was committed, and what was settled, has all
\* that is before it settled.
LogInv == /\ committed \in [Partitions -> 0..MaxOffset]
          /\ settled \in [Partitions -> SUBSET Offsets]
          /\ NothingSkipped
          /\ InPartitionOrder

\* A commit that succeeds or fails keeps it, if its batch is settled by then
\* (CommitMessages).
LEMMA CommitKeepsLog ==
  ASSUME TypeOK, NothingSkipped, NEW b \in Seq(Messages), NEW n \in Nat, Commit(b, n),
         settled' \in [Partitions -> SUBSET Offsets], InPartitionOrder',
         \A p \in Partitions : settled[p] \subseteq settled'[p],
         \A p \in Partitions : InBatch(b, p) \subseteq settled'[p]
  PROVE  LogInv' /\ faults' \in 0..MaxFaults
<1>1. /\ committed \in [Partitions -> 0..MaxOffset]
      /\ \A p \in Partitions : 0..committed[p] - 1 \subseteq settled'[p]
      /\ \A p \in Partitions : \A o \in settled'[p] : 0..o \subseteq settled'[p]
  BY DEF TypeOK, NothingSkipped, InPartitionOrder
<1>2. /\ committed' \in [Partitions -> 0..MaxOffset]
      /\ \A p \in Partitions : 0..committed'[p] - 1 \subseteq settled'[p]
  <2>1. CASE committed' = Committing(b)
    <3>1. /\ Committing(b) \in [Partitions -> 0..MaxOffset]
          /\ \A p \in Partitions : 0..Committing(b)[p] - 1 \subseteq settled'[p]
      BY <1>1, CommittingSettled
    <3> QED BY <2>1, <3>1
  <2>2. CASE committed' = committed
    BY <1>1, <2>2
  <2> QED BY <2>1, <2>2 DEF Commit
<1>3. faults' \in 0..MaxFaults
  <2>1. n + FailureCost \in Nat /\ faults \in 0..MaxFaults
    BY DEF FailureCost, TypeOK
  <2> QED BY <2>1, CostsKeepType DEF Commit
<1> QED BY <1>2, <1>3 DEF LogInv, NothingSkipped

\* A batch is a sequence of messages, and settled.
LEMMA PendingSettled ==
  ASSUME TypeOK, BatchesAreSettled, NEW w \in Workers
  PROVE  /\ pending[w] \in Seq(Messages) /\ Len(pending[w]) < CommitBatch
         /\ \A p \in Partitions : InBatch(pending[w], p) \subseteq settled[p]
  BY BatchType DEF TypeOK, BatchesAreSettled

\* New assignments start from what is committed (Rebalance, Restart, a reader
\* that is closed).
LEMMA RebalancedStarts ==
  ASSUME TypeOK, LogInv', NEW members \in SUBSET Workers, Rebalanced(members)
  PROVE  /\ owner' \in [Partitions -> Workers]
         /\ position' \in [Partitions -> 0..MaxOffset]
         /\ PositionInv'
<1>1. owner' \in [Partitions -> Workers]
  BY DEF Rebalanced, TypeOK
<1>2. position' = committed' /\ position' \in [Partitions -> 0..MaxOffset]
  BY DEF Rebalanced, LogInv
<1>3. \A p \in Partitions : 0..position'[p] - 1 \subseteq settled'[p]
  BY <1>2 DEF LogInv, NothingSkipped
<1> QED BY <1>1, <1>2, <1>3 DEF PositionInv

\* The memory of the process: what its workers handle and keep.
MemoryInv ==
  /\ up \in BOOLEAN
  /\ ctx \in Contexts
  /\ phase \in [Workers -> Phases]
  /\ msg \in [Workers -> Messages \cup {NoMessage}]
  /\ pending \in [Workers -> UNION {[1..n -> Messages] : n \in 0..CommitBatch - 1}]
  /\ due \in [Workers -> BOOLEAN]
  /\ reconnected \in [Workers -> BOOLEAN]
  /\ BatchesAreSettled
  /\ HandledInv

\* The reading side: who reads which partition, and from where.
ReadingInv == /\ owner \in [Partitions -> Workers]
              /\ position \in [Partitions -> 0..MaxOffset]
              /\ PositionInv

\* Log, memory and reading side are all there is to keep.
LEMMA InvParts ==
  ASSUME LogInv', MemoryInv', ReadingInv',
         end' \in [Partitions -> 0..MaxOffset], faults' \in 0..MaxFaults
  PROVE  ConsumerInv'
  BY DEF ConsumerInv, TypeOK, LogInv, MemoryInv, ReadingInv

\* The empty batch fits.
LEMMA EmptyBatch == <<>> \in UNION {[1..n -> Messages] : n \in 0..CommitBatch - 1}
<1>1. Len(<<>>) < CommitBatch
  BY InBatchSmall, CommitBatchAssumption
<1> QED BY <1>1, BatchType, InBatchSmall

\* When the process ends nothing is in anybody's hands (ProcessStops).
LEMMA StopKeeps ==
  ASSUME TypeOK, ProcessStops
  PROVE  MemoryInv' /\ ReadingInv'
<1>1. pending' \in [Workers -> UNION {[1..n -> Messages] : n \in 0..CommitBatch - 1}]
  BY EmptyBatch DEF ProcessStops
<1>2. BatchesAreSettled'
  BY InBatchSmall DEF ProcessStops, BatchesAreSettled
<1>3. HandledInv' /\ PositionInv'
  BY DEF ProcessStops, HandledInv, PositionInv
<1>4. /\ up' \in BOOLEAN /\ ctx' \in Contexts
      /\ phase' \in [Workers -> Phases]
      /\ msg' \in [Workers -> Messages \cup {NoMessage}]
      /\ due' \in [Workers -> BOOLEAN] /\ reconnected' \in [Workers -> BOOLEAN]
      /\ owner' \in [Partitions -> Workers]
      /\ position' \in [Partitions -> 0..MaxOffset]
  BY DEF ProcessStops, TypeOK, Contexts, Phases
<1> QED BY <1>1, <1>2, <1>3, <1>4 DEF MemoryInv, ReadingInv

\* A worker drops its batch, and what others keep stays settled.
LEMMA BatchDropped ==
  ASSUME ConsumerInv, NEW w \in Workers, pending' = [pending EXCEPT ![w] = <<>>],
         \A p \in Partitions : settled[p] \subseteq settled'[p]
  PROVE  /\ pending' \in [Workers -> UNION {[1..n -> Messages] : n \in 0..CommitBatch - 1}]
         /\ BatchesAreSettled'
<1>1. pending' \in [Workers -> UNION {[1..n -> Messages] : n \in 0..CommitBatch - 1}]
  BY EmptyBatch DEF ConsumerInv, TypeOK
<1>2. ASSUME NEW v \in Workers, NEW p \in Partitions
      PROVE  InBatch(pending'[v], p) \subseteq settled'[p]
  <2>1. CASE v = w
    <3>1. pending'[v] = <<>>
      BY <2>1 DEF ConsumerInv, TypeOK
    <3> QED BY <3>1, InBatchSmall
  <2>2. CASE v # w
    <3>1. pending'[v] = pending[v]
      BY <2>2 DEF ConsumerInv, TypeOK
    <3> QED BY <3>1 DEF ConsumerInv, BatchesAreSettled
  <2> QED BY <2>1, <2>2
<1> QED BY <1>1, <1>2 DEF BatchesAreSettled

\* A worker that returns its error drops its batch and its message, and the
\* others share its partitions; or it takes the process down (consumeWorker).
LEMMA ReturnKeeps ==
  ASSUME ConsumerInv, NEW w \in Workers, WorkerReturns(w), LogInv', settled' = settled
  PROVE  MemoryInv' /\ ReadingInv'
<1>1. TypeOK
  BY DEF ConsumerInv
<1>2. CASE reconnected[w]
  BY <1>1, <1>2, StopKeeps DEF WorkerReturns
<1>3. CASE ~ reconnected[w]
  <2>1. /\ ctx' = (IF Cancelled THEN ctx ELSE "failed")
        /\ phase' = [phase EXCEPT ![w] = "returned"]
        /\ msg' = [msg EXCEPT ![w] = NoMessage]
        /\ pending' = [pending EXCEPT ![w] = <<>>]
        /\ due' = [due EXCEPT ![w] = FALSE]
        /\ Rebalanced(Members \ {w})
        /\ UNCHANGED <<up, reconnected>>
    BY <1>3 DEF WorkerReturns
  <2>2. Members \ {w} \in SUBSET Workers
    BY DEF Members
  <2>3. ReadingInv'
    BY <1>1, <2>1, <2>2, RebalancedStarts DEF ReadingInv
  <2>4. /\ pending' \in [Workers -> UNION {[1..n -> Messages] : n \in 0..CommitBatch - 1}]
        /\ BatchesAreSettled'
    BY <2>1, BatchDropped
  <2>5. /\ up' \in BOOLEAN /\ ctx' \in Contexts
        /\ phase' \in [Workers -> Phases]
        /\ msg' \in [Workers -> Messages \cup {NoMessage}]
        /\ due' \in [Workers -> BOOLEAN] /\ reconnected' \in [Workers -> BOOLEAN]
    BY <1>1, <2>1 DEF TypeOK, Contexts, Phases
  <2>6. HandledInv'
    BY <1>1, <2>1 DEF ConsumerInv, HandledInv, TypeOK
  <2> QED BY <2>3, <2>4, <2>5, <2>6 DEF MemoryInv
<1> QED BY <1>2, <1>3

\* A worker that reconnects has flushed its batch (watchdogStall).
LEMMA ReconnectKeeps ==
  ASSUME ConsumerInv, NEW w \in Workers, Reconnect(w), LogInv', settled' = settled,
         phase[w] # "handle",
         phase' = phase \/ phase' = [phase EXCEPT ![w] = "spin"],
         UNCHANGED <<up, ctx, msg>>
  PROVE  MemoryInv' /\ ReadingInv'
<1>1. TypeOK
  BY DEF ConsumerInv
<1>2. /\ pending' = [pending EXCEPT ![w] = <<>>]
      /\ due' = [due EXCEPT ![w] = @ /\ pending[w] = <<>>]
      /\ reconnected' = [reconnected EXCEPT ![w] = TRUE]
      /\ Rebalanced(Members)
  BY DEF Reconnect
<1>3. Members \in SUBSET Workers
  BY DEF Members
<1>4. ReadingInv'
  BY <1>1, <1>2, <1>3, RebalancedStarts DEF ReadingInv
<1>5. /\ pending' \in [Workers -> UNION {[1..n -> Messages] : n \in 0..CommitBatch - 1}]
      /\ BatchesAreSettled'
  BY <1>2, BatchDropped
<1>6. /\ phase' \in [Workers -> Phases]
      /\ reconnected' \in [Workers -> BOOLEAN]
      /\ up' \in BOOLEAN /\ ctx' \in Contexts
      /\ msg' \in [Workers -> Messages \cup {NoMessage}]
  BY <1>1, <1>2 DEF TypeOK, Phases
<1>7. due' \in [Workers -> BOOLEAN]
  BY <1>1, <1>2, Zenon DEF TypeOK
<1>8. HandledInv'
  BY <1>1 DEF ConsumerInv, HandledInv, TypeOK
<1> QED BY <1>4, <1>5, <1>6, <1>7, <1>8 DEF MemoryInv

\* A message that is done with is settled in its turn, and its worker has none
\* in hand any more (Done).
LEMMA DoneKeeps ==
  ASSUME ConsumerInv, NEW w \in Workers, up, phase[w] = "handle", Done(w),
         UNCHANGED <<owner, position, up>>
  PROVE  /\ msg[w] \in Messages
         /\ settled' \in [Partitions -> SUBSET Offsets]
         /\ \A p \in Partitions : settled[p] \subseteq settled'[p]
         /\ msg[w][2] \in settled'[msg[w][1]]
         /\ InPartitionOrder'
         /\ phase' \in [Workers -> Phases]
         /\ msg' \in [Workers -> Messages \cup {NoMessage}]
         /\ HandledInv'
         /\ ReadingInv'
<1> DEFINE q == msg[w][1]
           n == msg[w][2]
<1>1. msg[w] \in Messages /\ 0..n - 1 \subseteq settled[q]
  BY DEF ConsumerInv, HandledInv
<1>2. q \in Partitions /\ n \in Offsets /\ n \in Nat
  BY <1>1 DEF Messages, Offsets
<1>3. msg[w] = <<q, n>>
  BY <1>1 DEF Messages
<1>4. /\ settled \in [Partitions -> SUBSET Offsets]
      /\ phase \in [Workers -> Phases]
      /\ msg \in [Workers -> Messages \cup {NoMessage}]
      /\ owner \in [Partitions -> Workers]
      /\ position \in [Partitions -> 0..MaxOffset]
  BY DEF ConsumerInv, TypeOK
<1>5. /\ phase' = [phase EXCEPT ![w] = "fetch"]
      /\ msg' = [msg EXCEPT ![w] = NoMessage]
      /\ settled' = [settled EXCEPT ![q] = @ \cup {n}]
  BY DEF Done
<1> HIDE DEF q, n
<1>6. /\ settled' \in [Partitions -> SUBSET Offsets]
      /\ \A p \in Partitions : settled[p] \subseteq settled'[p]
      /\ settled'[q] = settled[q] \cup {n}
      /\ \A p \in Partitions \ {q} : settled'[p] = settled[p]
  BY <1>2, <1>4, <1>5
<1>7. 0..n \subseteq settled'[q]
  <2>1. 0..n \subseteq (0..n - 1) \cup {n}
    BY <1>2
  <2> QED BY <1>1, <1>6, <2>1 DEF q, n
<1>8. InPartitionOrder'
  <2>1. ASSUME NEW p \in Partitions, NEW o \in settled'[p] PROVE 0..o \subseteq settled'[p]
    <3>1. CASE o \in settled[p]
      BY <1>6, <3>1 DEF ConsumerInv, InPartitionOrder
    <3>2. CASE o \notin settled[p]
      <4>1. p = q /\ o = n
        BY <1>6, <2>1, <3>2
      <4> QED BY <1>7, <4>1
    <3> QED BY <3>1, <3>2
  <2> QED BY <2>1 DEF InPartitionOrder
<1>9. /\ phase' \in [Workers -> Phases]
      /\ msg' \in [Workers -> Messages \cup {NoMessage}]
      /\ phase'[w] # "handle"
      /\ \A v \in Workers \ {w} : phase'[v] = phase[v] /\ msg'[v] = msg[v]
  BY <1>4, <1>5 DEF Phases
<1>10. HandledInv'
  <2>1. ASSUME NEW v \in Workers, phase'[v] = "handle"
        PROVE  msg'[v] \in Messages /\ 0..msg'[v][2] - 1 \subseteq settled'[msg'[v][1]]
    <3>1. phase[v] = "handle" /\ msg'[v] = msg[v]
      BY <1>9, <2>1
    <3>2. msg[v] \in Messages /\ 0..msg[v][2] - 1 \subseteq settled[msg[v][1]]
      BY <3>1 DEF ConsumerInv, HandledInv
    <3>3. msg[v][1] \in Partitions
      BY <3>2 DEF Messages
    <3> QED BY <1>6, <3>1, <3>2, <3>3
  <2> QED BY <2>1 DEF HandledInv
<1>11. PositionInv'
  <2>1. ASSUME NEW p \in Partitions
        PROVE  \/ 0..position'[p] - 1 \subseteq settled'[p]
               \/ /\ phase'[owner'[p]] = "handle"
                  /\ msg'[owner'[p]] = <<p, position'[p] - 1>>
    <3>1. owner[p] \in Workers /\ position[p] \in 0..MaxOffset
      BY <1>4
    <3>2. CASE 0..position[p] - 1 \subseteq settled[p]
      BY <1>6, <3>2
    <3>3. CASE phase[owner[p]] = "handle" /\ msg[owner[p]] = <<p, position[p] - 1>>
      <4>1. CASE owner[p] = w
        <5>1. p = q /\ position[p] - 1 = n
          BY <1>3, <3>3, <4>1
        <5> QED BY <1>7, <5>1
      <4>2. CASE owner[p] # w
        BY <1>9, <3>1, <3>3, <4>2
      <4> QED BY <4>1, <4>2
    <3> QED BY <3>2, <3>3 DEF ConsumerInv, PositionInv
  <2> QED BY <2>1 DEF PositionInv
<1>12. ReadingInv'
  BY <1>4, <1>11 DEF ReadingInv
<1>13. n \in settled'[q]
  BY <1>6
<1> QED BY <1>1, <1>6, <1>8, <1>9, <1>10, <1>12, <1>13 DEF q, n

\* The handler accepts its message (Succeeds).
LEMMA SucceedsKeeps ==
  ASSUME ConsumerInv, NEW w \in Workers, Succeeds(w)
  PROVE  ConsumerInv'
<1> DEFINE batch == Append(pending[w], msg[w])
<1>1. /\ up /\ phase[w] = "handle" /\ Done(w)
      /\ UNCHANGED <<end, owner, position, up, ctx, reconnected>>
  BY DEF Succeeds
<1>2. \/ /\ Commit(batch, 0)
         /\ pending' = [pending EXCEPT ![w] = <<>>]
         /\ due' = [due EXCEPT ![w] = FALSE]
      \/ /\ Len(batch) < CommitBatch
         /\ pending' = [pending EXCEPT ![w] = batch]
         /\ UNCHANGED <<committed, due, faults>>
  <2>1. msg[w] \in Messages /\ pending[w] \in Seq(Messages)
    BY <1>1, PendingSettled DEF ConsumerInv, HandledInv
  <2>2. Len(batch) \in Nat
    BY <2>1, InBatchAppend, LenProperties
  <2>3. ~ (Len(batch) >= CommitBatch) => Len(batch) < CommitBatch
    BY <2>2, CommitBatchAssumption
  <2> QED BY <2>3 DEF Succeeds
<1>3. TypeOK /\ NothingSkipped /\ BatchesAreSettled
  BY DEF ConsumerInv
<1>4. /\ msg[w] \in Messages
      /\ settled' \in [Partitions -> SUBSET Offsets]
      /\ \A p \in Partitions : settled[p] \subseteq settled'[p]
      /\ msg[w][2] \in settled'[msg[w][1]]
      /\ InPartitionOrder'
      /\ phase' \in [Workers -> Phases]
      /\ msg' \in [Workers -> Messages \cup {NoMessage}]
      /\ HandledInv'
      /\ ReadingInv'
  BY <1>1, DoneKeeps
<1>5. /\ pending[w] \in Seq(Messages)
      /\ \A p \in Partitions : InBatch(pending[w], p) \subseteq settled[p]
  BY <1>3, PendingSettled
<1>6. /\ batch \in Seq(Messages)
      /\ \A p \in Partitions : InBatch(batch, p) \subseteq settled'[p]
  <2>1. batch \in Seq(Messages)
    BY <1>4, <1>5, InBatchAppend
  <2>2. ASSUME NEW p \in Partitions PROVE InBatch(batch, p) \subseteq settled'[p]
    <3>1. InBatch(batch, p) \subseteq
            InBatch(pending[w], p) \cup (IF msg[w][1] = p THEN {msg[w][2]} ELSE {})
      BY <1>4, <1>5, InBatchAppend
    <3> QED BY <1>4, <1>5, <3>1
  <2> QED BY <2>1, <2>2
<1> HIDE DEF batch
<1>7. CASE /\ Commit(batch, 0)
           /\ pending' = [pending EXCEPT ![w] = <<>>]
           /\ due' = [due EXCEPT ![w] = FALSE]
  <2>1. LogInv' /\ faults' \in 0..MaxFaults
    BY <1>3, <1>4, <1>6, <1>7, CommitKeepsLog
  <2>2. /\ pending' \in [Workers -> UNION {[1..n -> Messages] : n \in 0..CommitBatch - 1}]
        /\ BatchesAreSettled'
    BY <1>4, <1>7, BatchDropped
  <2>3. /\ end' \in [Partitions -> 0..MaxOffset] /\ up' \in BOOLEAN /\ ctx' \in Contexts
        /\ due' \in [Workers -> BOOLEAN] /\ reconnected' \in [Workers -> BOOLEAN]
    BY <1>1, <1>3, <1>7 DEF TypeOK
  <2>4. MemoryInv'
    BY <1>4, <2>2, <2>3 DEF MemoryInv
  <2> QED BY <1>4, <2>1, <2>3, <2>4, InvParts
<1>8. CASE /\ Len(batch) < CommitBatch
           /\ pending' = [pending EXCEPT ![w] = batch]
           /\ UNCHANGED <<committed, due, faults>>
  <2>1. LogInv' /\ faults' \in 0..MaxFaults
    <3>1. \A p \in Partitions : 0..committed'[p] - 1 \subseteq settled'[p]
      BY <1>3, <1>4, <1>8 DEF NothingSkipped
    <3> QED BY <1>3, <1>4, <1>8, <3>1 DEF LogInv, NothingSkipped, TypeOK
  <2>2. pending \in [Workers -> UNION {[1..n -> Messages] : n \in 0..CommitBatch - 1}]
    BY <1>3 DEF TypeOK
  <2>3. pending' \in [Workers -> UNION {[1..n -> Messages] : n \in 0..CommitBatch - 1}]
    BY <1>6, <1>8, <2>2, BatchType
  <2>4. BatchesAreSettled'
    <3>1. ASSUME NEW v \in Workers, NEW p \in Partitions
          PROVE  InBatch(pending'[v], p) \subseteq settled'[p]
      <4>1. CASE v = w
        BY <1>6, <1>8, <2>2, <4>1
      <4>2. CASE v # w
        <5>1. pending'[v] = pending[v]
          BY <1>8, <2>2, <4>2
        <5> QED BY <1>3, <1>4, <5>1 DEF BatchesAreSettled
      <4> QED BY <4>1, <4>2
    <3> QED BY <3>1 DEF BatchesAreSettled
  <2>5. /\ end' \in [Partitions -> 0..MaxOffset] /\ up' \in BOOLEAN /\ ctx' \in Contexts
        /\ due' \in [Workers -> BOOLEAN] /\ reconnected' \in [Workers -> BOOLEAN]
    BY <1>1, <1>3, <1>8 DEF TypeOK
  <2>6. MemoryInv'
    BY <1>4, <2>3, <2>4, <2>5 DEF MemoryInv
  <2> QED BY <1>4, <2>1, <2>5, <2>6, InvParts
<1> QED BY <1>2, <1>7, <1>8

\* The message moves to the dead letter topic (moveToDLQ).
LEMMA RejectsKeeps ==
  ASSUME ConsumerInv, NEW w \in Workers, Rejects(w)
  PROVE  ConsumerInv'
<1>1. /\ up /\ phase[w] = "handle" /\ Done(w) /\ Commit(<<msg[w]>>, 0)
      /\ UNCHANGED <<end, owner, position, up, ctx, pending, due, reconnected>>
  BY DEF Rejects
<1>2. TypeOK /\ NothingSkipped /\ BatchesAreSettled
  BY DEF ConsumerInv
<1>3. /\ msg[w] \in Messages
      /\ settled' \in [Partitions -> SUBSET Offsets]
      /\ \A p \in Partitions : settled[p] \subseteq settled'[p]
      /\ msg[w][2] \in settled'[msg[w][1]]
      /\ InPartitionOrder'
      /\ phase' \in [Workers -> Phases]
      /\ msg' \in [Workers -> Messages \cup {NoMessage}]
      /\ HandledInv'
      /\ ReadingInv'
  BY <1>1, DoneKeeps
<1>4. /\ <<msg[w]>> \in Seq(Messages)
      /\ \A p \in Partitions : InBatch(<<msg[w]>>, p) \subseteq settled'[p]
  <2>1. \A p \in Partitions : InBatch(<<msg[w]>>, p) \subseteq
                                (IF msg[w][1] = p THEN {msg[w][2]} ELSE {})
    BY <1>3, InBatchSmall
  <2> QED BY <1>3, <2>1, InBatchSmall
<1>5. LogInv' /\ faults' \in 0..MaxFaults
  BY <1>1, <1>2, <1>3, <1>4, CommitKeepsLog
<1>6. BatchesAreSettled'
  BY <1>1, <1>2, <1>3 DEF BatchesAreSettled
<1>7. /\ end' \in [Partitions -> 0..MaxOffset] /\ up' \in BOOLEAN /\ ctx' \in Contexts
      /\ pending' \in [Workers -> UNION {[1..n -> Messages] : n \in 0..CommitBatch - 1}]
      /\ due' \in [Workers -> BOOLEAN] /\ reconnected' \in [Workers -> BOOLEAN]
  BY <1>1, <1>2 DEF TypeOK
<1>8. MemoryInv'
  BY <1>3, <1>6, <1>7 DEF MemoryInv
<1> QED BY <1>3, <1>5, <1>7, <1>8, InvParts

\* A message is taken in its turn (FetchMessage).
LEMMA FetchKeeps ==
  ASSUME ConsumerInv, NEW w \in Workers, Fetch(w)
  PROVE  ConsumerInv'
<1>1. PICK p \in Partitions :
        /\ owner[p] = w /\ position[p] < end[p]
        /\ msg' = [msg EXCEPT ![w] = <<p, position[p]>>]
        /\ position' = [position EXCEPT ![p] = @ + 1]
  BY DEF Fetch
<1>2. /\ up /\ phase[w] = "fetch"
      /\ phase' = [phase EXCEPT ![w] = "handle"]
      /\ UNCHANGED <<end, committed, owner, up, ctx, pending, due, reconnected,
                     settled, faults>>
  BY DEF Fetch
<1>3. TypeOK
  BY DEF ConsumerInv
<1>4. position[p] \in Offsets /\ position[p] \in Nat /\ position[p] + 1 \in 0..MaxOffset
  BY <1>1, <1>3, ConsumerBoundsAssumption DEF TypeOK, Offsets
<1>5. <<p, position[p]>> \in Messages
  BY <1>4 DEF Messages
<1>6. /\ phase' \in [Workers -> Phases]
      /\ msg' \in [Workers -> Messages \cup {NoMessage}]
      /\ position' \in [Partitions -> 0..MaxOffset]
      /\ phase'[w] = "handle" /\ msg'[w] = <<p, position[p]>>
      /\ position'[p] = position[p] + 1
      /\ \A v \in Workers \ {w} : phase'[v] = phase[v] /\ msg'[v] = msg[v]
      /\ \A q \in Partitions \ {p} : position'[q] = position[q]
  BY <1>1, <1>2, <1>3, <1>4, <1>5 DEF TypeOK, Phases
<1>7. 0..position[p] - 1 \subseteq settled[p]
  BY <1>1, <1>2 DEF ConsumerInv, PositionInv
<1>8. HandledInv'
  <2>1. ASSUME NEW v \in Workers, phase'[v] = "handle"
        PROVE  msg'[v] \in Messages /\ 0..msg'[v][2] - 1 \subseteq settled'[msg'[v][1]]
    <3>1. CASE v = w
      BY <1>2, <1>5, <1>6, <1>7, <3>1
    <3>2. CASE v # w
      BY <1>2, <1>6, <2>1, <3>2 DEF ConsumerInv, HandledInv
    <3> QED BY <3>1, <3>2
  <2> QED BY <2>1 DEF HandledInv
<1>9. PositionInv'
  <2>1. ASSUME NEW q \in Partitions
        PROVE  \/ 0..position'[q] - 1 \subseteq settled'[q]
               \/ /\ phase'[owner'[q]] = "handle"
                  /\ msg'[owner'[q]] = <<q, position'[q] - 1>>
    <3>1. CASE q = p
      <4>1. position'[q] - 1 = position[p]
        BY <1>4, <1>6, <3>1
      <4> QED BY <1>1, <1>2, <1>6, <3>1, <4>1
    <3>2. CASE q # p
      <4>1. CASE owner[q] = w
        BY <1>2, <1>6, <3>2, <4>1 DEF ConsumerInv, PositionInv
      <4>2. CASE owner[q] # w
        <5>1. owner[q] \in Workers \ {w}
          BY <1>3, <4>2 DEF TypeOK
        <5> QED BY <1>2, <1>6, <3>2, <5>1 DEF ConsumerInv, PositionInv
      <4> QED BY <4>1, <4>2
    <3> QED BY <3>1, <3>2
  <2> QED BY <2>1 DEF PositionInv
<1>10. TypeOK'
  BY <1>2, <1>3, <1>6 DEF TypeOK
<1>11. NothingSkipped' /\ InPartitionOrder' /\ BatchesAreSettled'
  BY <1>2 DEF ConsumerInv, NothingSkipped, InPartitionOrder, BatchesAreSettled
<1> QED BY <1>8, <1>9, <1>10, <1>11 DEF ConsumerInv

\* Where nothing is settled or committed, the log is as it was.
LEMMA LogKept ==
  ASSUME ConsumerInv, UNCHANGED <<committed, settled>>
  PROVE  LogInv'
  BY DEF ConsumerInv, TypeOK, LogInv, NothingSkipped, InPartitionOrder

\* A worker that fails to fetch flushes and returns, one whose handler fails
\* only returns (consumeWorker).
LEMMA FailureKeeps ==
  ASSUME ConsumerInv, NEW w \in Workers, FetchFails(w) \/ HandlerFails(w)
  PROVE  ConsumerInv'
<1>1. TypeOK /\ NothingSkipped /\ BatchesAreSettled
  BY DEF ConsumerInv
<1>2. LogInv' /\ faults' \in 0..MaxFaults
  <2>1. CASE FetchFails(w)
    <3>1. Commit(pending[w], 1) /\ settled' = settled
      BY <2>1 DEF FetchFails
    <3>2. /\ settled' \in [Partitions -> SUBSET Offsets] /\ InPartitionOrder'
          /\ \A p \in Partitions : settled[p] \subseteq settled'[p]
      BY <3>1 DEF ConsumerInv, TypeOK, InPartitionOrder
    <3>3. /\ pending[w] \in Seq(Messages)
          /\ \A p \in Partitions : InBatch(pending[w], p) \subseteq settled'[p]
      BY <1>1, <3>1, PendingSettled
    <3> QED BY <1>1, <3>1, <3>2, <3>3, CommitKeepsLog
  <2>2. CASE HandlerFails(w)
    <3>1. Costs(FailureCost) /\ UNCHANGED <<committed, settled>>
      BY <2>2 DEF HandlerFails
    <3>2. FailureCost \in Nat /\ faults \in 0..MaxFaults
      BY <1>1 DEF FailureCost, TypeOK
    <3> QED BY <3>1, <3>2, CostsKeepType, LogKept
  <2> QED BY <2>1, <2>2
<1>3. WorkerReturns(w) /\ settled' = settled /\ end' = end
  BY DEF FetchFails, HandlerFails
<1>4. MemoryInv' /\ ReadingInv'
  BY <1>2, <1>3, ReturnKeeps
<1>5. end' \in [Partitions -> 0..MaxOffset]
  BY <1>1, <1>3 DEF TypeOK
<1> QED BY <1>2, <1>4, <1>5, InvParts

\* The watchdog, or a cancelled context, makes a worker flush and read anew
\* (the reconnection branch of consumeWorker).
LEMMA ReconnectionKeeps ==
  ASSUME ConsumerInv, NEW w \in Workers, Stall(w) \/ Spin(w)
  PROVE  ConsumerInv'
<1>1. TypeOK /\ NothingSkipped /\ BatchesAreSettled
  BY DEF ConsumerInv
<1>2. /\ Commit(pending[w], 1) \/ Commit(pending[w], 0)
      /\ Reconnect(w)
      /\ phase[w] # "handle"
      /\ phase' = phase \/ phase' = [phase EXCEPT ![w] = "spin"]
      /\ UNCHANGED <<end, up, ctx, msg, settled>>
  BY DEF Stall, Spin
<1>3. /\ settled' \in [Partitions -> SUBSET Offsets] /\ InPartitionOrder'
      /\ \A p \in Partitions : settled[p] \subseteq settled'[p]
  BY <1>2 DEF ConsumerInv, TypeOK, InPartitionOrder
<1>4. /\ pending[w] \in Seq(Messages)
      /\ \A p \in Partitions : InBatch(pending[w], p) \subseteq settled'[p]
  BY <1>1, <1>2, PendingSettled
<1>5. LogInv' /\ faults' \in 0..MaxFaults
  BY <1>1, <1>2, <1>3, <1>4, CommitKeepsLog
<1>6. MemoryInv' /\ ReadingInv'
  BY <1>2, <1>5, ReconnectKeeps
<1>7. end' \in [Partitions -> 0..MaxOffset]
  BY <1>1, <1>2 DEF TypeOK
<1> QED BY <1>5, <1>6, <1>7, InvParts

\* The process ends (a crash, SIGKILL, or main after Consume).
LEMMA EndKeeps ==
  ASSUME ConsumerInv, Crash \/ Kill \/ ConsumeReturns
  PROVE  ConsumerInv'
<1>1. TypeOK
  BY DEF ConsumerInv
<1>2. ProcessStops /\ UNCHANGED <<end, committed, settled>>
  BY DEF Crash, Kill, ConsumeReturns
<1>3. faults' \in 0..MaxFaults
  <2>1. Costs(1) \/ faults' = faults
    BY DEF Crash, Kill, ConsumeReturns
  <2> QED BY <1>1, <2>1, CostsKeepType DEF TypeOK
<1>4. LogInv' /\ MemoryInv' /\ ReadingInv'
  BY <1>1, <1>2, LogKept, StopKeeps
<1>5. end' \in [Partitions -> 0..MaxOffset]
  BY <1>1, <1>2 DEF TypeOK
<1> QED BY <1>3, <1>4, <1>5, InvParts

\* Partitions move, or the process starts (Rebalance, Restart).
LEMMA AssignmentKeeps ==
  ASSUME ConsumerInv, Rebalance \/ Restart
  PROVE  ConsumerInv'
<1>1. TypeOK
  BY DEF ConsumerInv
<1>2. /\ Rebalanced(Members) \/ Rebalanced(Workers)
      /\ up' \in BOOLEAN
      /\ UNCHANGED <<end, committed, ctx, worker, settled>>
  BY <1>1 DEF Rebalance, Restart, TypeOK
<1>3. faults' \in 0..MaxFaults
  <2>1. Costs(1) \/ faults' = faults
    BY DEF Rebalance, Restart
  <2> QED BY <1>1, <2>1, CostsKeepType DEF TypeOK
<1>4. LogInv'
  BY <1>2, LogKept
<1>5. ReadingInv'
  <2>1. Members \in SUBSET Workers
    BY DEF Members
  <2> QED BY <1>1, <1>2, <1>4, <2>1, RebalancedStarts DEF ReadingInv
<1>6. MemoryInv' /\ end' \in [Partitions -> 0..MaxOffset]
  BY <1>2 DEF ConsumerInv, MemoryInv, TypeOK, worker, BatchesAreSettled, HandledInv
<1> QED BY <1>3, <1>4, <1>5, <1>6, InvParts

\* Messages are published, time passes, SIGTERM arrives: nobody's messages or
\* offsets change.
LEMMA OthersKeep ==
  ASSUME ConsumerInv,
         \/ \E p \in Partitions : Produce(p)
         \/ Terminate
         \/ \E w \in Workers : IntervalPasses(w)
         \/ UNCHANGED vars
  PROVE  ConsumerInv'
<1>1. TypeOK
  BY DEF ConsumerInv
<1>2. /\ UNCHANGED <<committed, owner, position, up, phase, msg, pending, reconnected,
                     settled>>
      /\ ctx' \in Contexts
  BY <1>1 DEF Produce, Terminate, IntervalPasses, vars, broker, worker, TypeOK, Contexts
<1>3. faults' \in 0..MaxFaults
  <2>1. Costs(1) \/ faults' = faults
    BY DEF Produce, Terminate, IntervalPasses, vars
  <2> QED BY <1>1, <2>1, CostsKeepType DEF TypeOK
<1>4. end' \in [Partitions -> 0..MaxOffset]
  <2>1. ASSUME NEW p \in Partitions, Produce(p) PROVE end' \in [Partitions -> 0..MaxOffset]
    BY <1>1, <2>1, ConsumerBoundsAssumption DEF Produce, TypeOK
  <2>2. CASE end' = end
    BY <1>1, <2>2 DEF TypeOK
  <2> QED BY <2>1, <2>2 DEF Terminate, IntervalPasses, vars, broker
<1>5. due' \in [Workers -> BOOLEAN]
  BY <1>1 DEF Produce, Terminate, IntervalPasses, vars, worker, TypeOK
<1>6. MemoryInv'
  BY <1>1, <1>2, <1>5 DEF ConsumerInv, MemoryInv, TypeOK, BatchesAreSettled, HandledInv
<1>7. ReadingInv'
  BY <1>1, <1>2 DEF ConsumerInv, ReadingInv, TypeOK, PositionInv
<1>8. LogInv'
  BY <1>2, LogKept
<1> QED BY <1>3, <1>4, <1>6, <1>7, <1>8, InvParts
-----------------------------------------------------------------------------
\* The group starts at the beginning of an empty log.
LEMMA InitConsumerInv == Init => ConsumerInv
<1> SUFFICES ASSUME Init PROVE ConsumerInv
  OBVIOUS
<1>1. 0 \in 0..MaxOffset /\ 0 \in 0..MaxFaults /\ 0..0 - 1 = {}
  BY ConsumerBoundsAssumption
<1>2. TypeOK
  BY <1>1, EmptyBatch DEF Init, TypeOK, Contexts, Phases
<1>3. NothingSkipped /\ InPartitionOrder
  BY <1>1 DEF Init, NothingSkipped, InPartitionOrder
<1>4. BatchesAreSettled
  BY InBatchSmall DEF Init, BatchesAreSettled
<1>5. HandledInv
  BY DEF Init, HandledInv
<1>6. PositionInv
  BY <1>1 DEF Init, PositionInv
<1> QED BY <1>2, <1>3, <1>4, <1>5, <1>6 DEF ConsumerInv

\* Every step keeps the inductive invariant.
LEMMA ConsumerInvKept == ConsumerInv /\ [Next]_vars => ConsumerInv'
<1> SUFFICES ASSUME ConsumerInv, [Next]_vars PROVE ConsumerInv'
  OBVIOUS
<1>1. CASE \E p \in Partitions : Produce(p)
  BY <1>1, OthersKeep
<1>2. CASE Rebalance \/ Restart
  BY <1>2, AssignmentKeeps
<1>3. CASE Crash \/ Kill \/ ConsumeReturns
  BY <1>3, EndKeeps
<1>4. CASE Terminate
  BY <1>4, OthersKeep
<1>5. ASSUME NEW w \in Workers, Fetch(w) PROVE ConsumerInv'
  BY <1>5, FetchKeeps
<1>6. ASSUME NEW w \in Workers, FetchFails(w) \/ HandlerFails(w) PROVE ConsumerInv'
  BY <1>6, FailureKeeps
<1>7. ASSUME NEW w \in Workers, Stall(w) \/ Spin(w) PROVE ConsumerInv'
  BY <1>7, ReconnectionKeeps
<1>8. ASSUME NEW w \in Workers, Succeeds(w) PROVE ConsumerInv'
  BY <1>8, SucceedsKeeps
<1>9. ASSUME NEW w \in Workers, Rejects(w) PROVE ConsumerInv'
  BY <1>9, RejectsKeeps
<1>10. ASSUME NEW w \in Workers, IntervalPasses(w) PROVE ConsumerInv'
  BY <1>10, OthersKeep
<1>11. CASE UNCHANGED vars
  BY <1>11, OthersKeep
<1> QED BY <1>1, <1>2, <1>3, <1>4, <1>5, <1>6, <1>7, <1>8, <1>9, <1>10, <1>11
        DEF Next, Handle

\* Through failed handlers, fetches and commits, stalls, rebalances, signals and
\* crashes, the offsets of the group, the batches of its workers and what they
\* have in hand fit what is settled (Consume, consumeWorker).
THEOREM ConsumerInvariant == Spec => []ConsumerInv
<1>1. Init => ConsumerInv
  BY InitConsumerInv
<1>2. ConsumerInv /\ [Next]_vars => ConsumerInv'
  BY ConsumerInvKept
<1> QED BY <1>1, <1>2, PTL DEF Spec

\* Type correctness; in particular no batch grows past CommitBatch.
THEOREM ConsumerTypeCorrect == Spec => []TypeOK
<1>1. ConsumerInv => TypeOK
  BY DEF ConsumerInv
<1> QED BY <1>1, ConsumerInvariant, PTL

\* No committed offset is past a message that was neither handled nor moved to
\* the dead letter topic (CommitMessages, moveToDLQ).
THEOREM NoMessageIsSkipped == Spec => []NothingSkipped
<1>1. ConsumerInv => NothingSkipped
  BY DEF ConsumerInv
<1> QED BY <1>1, ConsumerInvariant, PTL

\* The messages of a partition, and so the events of an order, are handled in
\* the order they were published, whichever workers get them (Consume).
THEOREM PartitionsKeepOrder == Spec => []InPartitionOrder
<1>1. ConsumerInv => InPartitionOrder
  BY DEF ConsumerInv
<1> QED BY <1>1, ConsumerInvariant, PTL

\* A worker never has an unsettled offset in its batch, even one of a partition
\* it no longer owns (flush).
THEOREM BatchesHoldSettledOffsets == Spec => []BatchesAreSettled
<1>1. ConsumerInv => BatchesAreSettled
  BY DEF ConsumerInv
<1> QED BY <1>1, ConsumerInvariant, PTL
=============================================================================
