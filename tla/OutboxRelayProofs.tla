-------------------------- MODULE OutboxRelayProofs --------------------------
(***************************************************************************)
(* Theorems of OutboxRelay for any table, any number of relays, any batch  *)
(* size and any number of faults and expired claims.                       *)
(***************************************************************************)
EXTENDS OutboxRelay, FiniteSetTheorems, TLAPS

\* What a cycle knows about its rows between two statements: they are in the
\* table, or published and not deleted yet, and once the batch is in Kafka
\* there is a copy of each.
CycleInv ==
  \A r \in Relays : \A row \in batch[r] :
    /\ state[row] \in {"pending", "published"}
    /\ phase[r] = "mark" => copies[row] > 0

\* While no claim has expired under a working relay, the rows of a cycle that
\* are still pending carry a recent claim, and nobody else has them.
ClaimInv ==
  slow = 0 =>
    /\ \A r \in Relays : \A row \in batch[r] : claim[row] = "recent"
    /\ \A r, q \in Relays : r # q => batch[r] \cap batch[q] = {}

\* What is marked is in Kafka, and what is in Kafka was committed.
DeliveryInv ==
  \A row \in Rows : /\ state[row] \in {"published", "purged"} => copies[row] > 0
                    /\ copies[row] > 0 => state[row] # "absent"

\* The inductive invariant.
RelayInv == TypeOK /\ CycleInv /\ ClaimInv /\ DeliveryInv
-----------------------------------------------------------------------------
\* The rows a claim takes are claimable rows (ClaimPending).
LEMMA LowestIsSubset ==
  ASSUME NEW rows
  PROVE  Lowest(rows) \subseteq rows
  BY DEF Lowest

\* Publishing adds a copy to each row of the batch and takes none away
\* (PublishBatch).
LEMMA WrittenGrows ==
  ASSUME copies \in [Rows -> Nat], NEW rows \in SUBSET Rows
  PROVE  /\ Written(rows) \in [Rows -> Nat]
         /\ \A row \in rows : Written(rows)[row] > 0
         /\ \A row \in Rows \ rows : Written(rows)[row] = copies[row]
         /\ \A row \in Rows : copies[row] > 0 => Written(rows)[row] > 0
<1>1. \A row \in Rows : copies[row] \in Nat /\ copies[row] + 1 \in Nat /\ copies[row] + 1 > 0
  OBVIOUS
<1> QED BY <1>1 DEF Written

\* Ending a cycle empties its batch and leaves the others alone (relayOnce).
LEMMA EndCycleTyped ==
  ASSUME TypeOK, NEW r \in Relays, EndCycle(r)
  PROVE  /\ phase' \in [Relays -> {"claim", "publish", "mark"}]
         /\ batch' \in [Relays -> SUBSET Rows]
         /\ \A q \in Relays : phase'[q] = "claim" <=> batch'[q] = {}
         /\ \A q \in Relays : /\ batch'[q] \subseteq batch[q]
                              /\ \A row \in batch'[q] : phase'[q] = phase[q]
  BY DEF EndCycle, TypeOK

\* The initial state satisfies the inductive invariant.
LEMMA InitRelayInv == Init => RelayInv
<1> SUFFICES ASSUME Init PROVE RelayInv
  OBVIOUS
<1>1. 0 \in 0..MaxFaults /\ 0 \in 0..MaxSlow
  BY BoundsAssumption
<1>2. TypeOK
  BY <1>1 DEF Init, TypeOK
<1>3. CycleInv /\ ClaimInv
  BY DEF Init, CycleInv, ClaimInv
<1>4. DeliveryInv
  <2>1. ~ (0 > 0)
    OBVIOUS
  <2> QED BY <2>1 DEF Init, DeliveryInv
<1> QED BY <1>2, <1>3, <1>4 DEF RelayInv

\* Every step preserves the inductive invariant.
LEMMA RelayInvKept == RelayInv /\ [Next]_vars => RelayInv'
<1> SUFFICES ASSUME RelayInv, [Next]_vars PROVE RelayInv'
  OBVIOUS
<1>1. TypeOK /\ CycleInv /\ ClaimInv /\ DeliveryInv
  BY DEF RelayInv
<1>2. ASSUME NEW row \in Rows, Append(row) PROVE RelayInv'
  <2>1. TypeOK'
    BY <1>1, <1>2 DEF Append, TypeOK
  <2>2. CycleInv'
    BY <1>1, <1>2 DEF Append, TypeOK, CycleInv
  <2>3. ClaimInv'
    BY <1>1, <1>2 DEF Append, ClaimInv
  <2>4. DeliveryInv'
    BY <1>1, <1>2 DEF Append, TypeOK, DeliveryInv
  <2> QED BY <2>1, <2>2, <2>3, <2>4 DEF RelayInv
<1>3. ASSUME NEW r \in Relays, Claim(r) PROVE RelayInv'
  <2> DEFINE taken == Lowest({row \in Rows : Claimable(row)})
  <2>1. /\ taken \subseteq Rows /\ taken # {}
        /\ \A row \in taken : state[row] = "pending" /\ claim[row] # "recent"
    BY <1>3, LowestIsSubset DEF Claim, Claimable
  <2>2. /\ phase[r] = "claim"
        /\ claim' = [row \in Rows |-> IF row \in taken THEN "recent" ELSE claim[row]]
        /\ batch' = [batch EXCEPT ![r] = taken]
        /\ phase' = [phase EXCEPT ![r] = "publish"]
        /\ UNCHANGED <<state, copies, faults, slow>>
    BY <1>3 DEF Claim
  <2> HIDE DEF taken
  <2>3. TypeOK'
    BY <1>1, <2>1, <2>2 DEF TypeOK
  <2>4. CycleInv'
    BY <1>1, <2>1, <2>2 DEF TypeOK, CycleInv
  <2>5. ClaimInv'
    BY <1>1, <2>1, <2>2 DEF TypeOK, ClaimInv
  <2>6. DeliveryInv'
    BY <1>1, <2>2 DEF DeliveryInv
  <2> QED BY <2>3, <2>4, <2>5, <2>6 DEF RelayInv
<1>4. ASSUME NEW r \in Relays, NEW rows \in SUBSET batch[r],
             copies' = Written(rows), phase[r] # "claim",
             UNCHANGED <<state, claim, slow>>,
             faults' \in 0..MaxFaults,
             \/ /\ rows = batch[r] /\ UNCHANGED batch
                /\ phase' = [phase EXCEPT ![r] = "mark"]
             \/ EndCycle(r)
      PROVE  RelayInv'
  <2>1. batch[r] \in SUBSET Rows /\ rows \in SUBSET Rows /\ copies \in [Rows -> Nat]
    BY <1>1 DEF TypeOK
  <2>2. /\ copies' \in [Rows -> Nat]
        /\ \A row \in rows : copies'[row] > 0
        /\ \A row \in Rows \ rows : copies'[row] = copies[row]
        /\ \A row \in Rows : copies[row] > 0 => copies'[row] > 0
    BY <1>4, <2>1, WrittenGrows
  <2>3. /\ phase' \in [Relays -> {"claim", "publish", "mark"}]
        /\ batch' \in [Relays -> SUBSET Rows]
        /\ \A q \in Relays : phase'[q] = "claim" <=> batch'[q] = {}
        /\ \A q \in Relays : batch'[q] \subseteq batch[q]
        /\ \A q \in Relays : \A row \in batch'[q] :
             phase'[q] = "mark" => phase[q] = "mark" \/ row \in rows
    <3>1. CASE EndCycle(r)
      BY <1>1, <3>1, EndCycleTyped
    <3>2. CASE /\ rows = batch[r] /\ UNCHANGED batch
               /\ phase' = [phase EXCEPT ![r] = "mark"]
      BY <1>1, <1>4, <3>2 DEF TypeOK
    <3> QED BY <1>4, <3>1, <3>2
  <2>4. TypeOK'
    BY <1>1, <1>4, <2>2, <2>3 DEF TypeOK
  <2>5. CycleInv'
    BY <1>1, <1>4, <2>2, <2>3 DEF CycleInv, TypeOK
  <2>6. ClaimInv'
    BY <1>1, <1>4, <2>3 DEF ClaimInv
  <2>7. DeliveryInv'
    BY <1>1, <1>4, <2>1, <2>2 DEF DeliveryInv, CycleInv
  <2> QED BY <2>4, <2>5, <2>6, <2>7 DEF RelayInv
<1>5. ASSUME NEW r \in Relays, Publish(r) PROVE RelayInv'
  <2>1. faults \in 0..MaxFaults
    BY <1>1 DEF TypeOK
  <2> QED BY <1>4, <1>5, <2>1 DEF Publish
<1>6. ASSUME Fault PROVE faults' \in 0..MaxFaults
  <2>1. faults \in 0..MaxFaults
    BY <1>1 DEF TypeOK
  <2> QED BY <1>6, <2>1, BoundsAssumption DEF Fault
<1>7. ASSUME NEW r \in Relays, PublishFails(r) PROVE RelayInv'
  BY <1>4, <1>6, <1>7 DEF PublishFails
<1>8. ASSUME NEW r \in Relays, Mark(r) PROVE RelayInv'
  <2>1. /\ phase[r] = "mark"
        /\ state' = [row \in Rows |-> IF row \in batch[r] /\ state[row] = "pending"
                                        THEN "published" ELSE state[row]]
        /\ EndCycle(r)
        /\ UNCHANGED <<claim, copies, faults, slow>>
    BY <1>8 DEF Mark
  <2>2. /\ phase' \in [Relays -> {"claim", "publish", "mark"}]
        /\ batch' \in [Relays -> SUBSET Rows]
        /\ \A q \in Relays : phase'[q] = "claim" <=> batch'[q] = {}
        /\ \A q \in Relays : /\ batch'[q] \subseteq batch[q]
                             /\ \A row \in batch'[q] : phase'[q] = phase[q]
    BY <1>1, <2>1, EndCycleTyped
  <2>3. TypeOK'
    BY <1>1, <2>1, <2>2 DEF TypeOK
  <2>4. CycleInv'
    BY <1>1, <2>1, <2>2 DEF CycleInv, TypeOK
  <2>5. ClaimInv'
    BY <1>1, <2>1, <2>2 DEF ClaimInv
  <2>6. DeliveryInv'
    BY <1>1, <2>1 DEF DeliveryInv, CycleInv, TypeOK
  <2> QED BY <2>3, <2>4, <2>5, <2>6 DEF RelayInv
<1>9. ASSUME NEW r \in Relays, CycleLost(r) PROVE RelayInv'
  <2>1. /\ EndCycle(r) /\ faults' \in 0..MaxFaults
        /\ UNCHANGED <<state, claim, copies, slow>>
    BY <1>6, <1>9 DEF CycleLost
  <2>2. /\ phase' \in [Relays -> {"claim", "publish", "mark"}]
        /\ batch' \in [Relays -> SUBSET Rows]
        /\ \A q \in Relays : phase'[q] = "claim" <=> batch'[q] = {}
        /\ \A q \in Relays : /\ batch'[q] \subseteq batch[q]
                             /\ \A row \in batch'[q] : phase'[q] = phase[q]
    BY <1>1, <2>1, EndCycleTyped
  <2>3. TypeOK'
    BY <1>1, <2>1, <2>2 DEF TypeOK
  <2>4. CycleInv'
    BY <1>1, <2>1, <2>2 DEF CycleInv
  <2>5. ClaimInv'
    BY <1>1, <2>1, <2>2 DEF ClaimInv
  <2>6. DeliveryInv'
    BY <1>1, <2>1 DEF DeliveryInv
  <2> QED BY <2>3, <2>4, <2>5, <2>6 DEF RelayInv
<1>10. ASSUME NEW row \in Rows, ClaimExpires(row) PROVE RelayInv'
  <2>1. /\ claim' = [claim EXCEPT ![row] = "old"]
        /\ UNCHANGED <<state, copies, phase, batch, faults>>
        /\ \/ Holders(row) = {} /\ slow' = slow
           \/ slow < MaxSlow /\ slow' = slow + 1
    BY <1>10 DEF ClaimExpires
  <2>2. slow \in 0..MaxSlow
    BY <1>1 DEF TypeOK
  <2>3. slow' \in 0..MaxSlow /\ (slow' = 0 => slow = 0 /\ Holders(row) = {})
    BY <2>1, <2>2, BoundsAssumption
  <2>4. TypeOK'
    BY <1>1, <2>1, <2>3 DEF TypeOK
  <2>5. CycleInv' /\ DeliveryInv'
    BY <1>1, <2>1 DEF CycleInv, DeliveryInv
  <2>6. ClaimInv'
    BY <1>1, <2>1, <2>3 DEF ClaimInv, Holders, TypeOK
  <2> QED BY <2>4, <2>5, <2>6 DEF RelayInv
<1>11. ASSUME NEW row \in Rows, Purge(row) PROVE RelayInv'
  <2>1. /\ state[row] = "published" /\ Holders(row) = {}
        /\ state' = [state EXCEPT ![row] = "purged"]
        /\ UNCHANGED <<claim, copies, phase, batch, faults, slow>>
    BY <1>11 DEF Purge
  <2>2. TypeOK'
    BY <1>1, <2>1 DEF TypeOK
  <2>3. CycleInv'
    BY <1>1, <2>1 DEF CycleInv, Holders, TypeOK
  <2>4. ClaimInv'
    BY <1>1, <2>1 DEF ClaimInv
  <2>5. DeliveryInv'
    BY <1>1, <2>1 DEF DeliveryInv, TypeOK
  <2> QED BY <2>2, <2>3, <2>4, <2>5 DEF RelayInv
<1>12. CASE UNCHANGED vars
  BY <1>1, <1>12 DEF vars, RelayInv, TypeOK, CycleInv, ClaimInv, DeliveryInv
<1> QED BY <1>2, <1>3, <1>5, <1>7, <1>8, <1>9, <1>10, <1>11, <1>12 DEF Next, Cycle

\* The inductive invariant holds in every reachable state (relayOnce).
THEOREM RelayInvariant == Spec => []RelayInv
<1>1. Init => RelayInv
  BY InitRelayInv
<1>2. RelayInv /\ [Next]_vars => RelayInv'
  BY RelayInvKept
<1> QED BY <1>1, <1>2, PTL DEF Spec

\* No event is lost: whatever is marked, or deleted, is in Kafka, with any
\* number of relays, faults and expired claims (relayOnce marks last).
THEOREM NoEventIsLost == Spec => []NothingMarkedUnpublished
<1>1. RelayInv => NothingMarkedUnpublished
  BY DEF RelayInv, DeliveryInv, NothingMarkedUnpublished
<1> QED BY <1>1, RelayInvariant, PTL

\* The claims exclude replicas from each other's rows until one of them
\* expires too early (ClaimPending).
THEOREM ClaimsExclude == Spec => []ClaimsAreExclusive
<1>1. RelayInv => ClaimsAreExclusive
  BY DEF RelayInv, ClaimInv, ClaimsAreExclusive
<1> QED BY <1>1, RelayInvariant, PTL

\* Every variable keeps its type, and a relay has entries just while in a cycle.
THEOREM RelayTypeCorrect == Spec => []TypeOK
<1>1. RelayInv => TypeOK
  BY DEF RelayInv
<1> QED BY <1>1, RelayInvariant, PTL
-----------------------------------------------------------------------------
(* Duplicates.  What counts is not only the copies a row has but those it  *)
(* will get if nothing goes wrong any more: one from each relay that is    *)
(* about to publish it, and one more if it is free to be claimed.          *)

Publishers(row) == {r \in Relays : phase[r] = "publish" /\ row \in batch[r]}

\* A row nobody works on counts as free although its claim has yet to expire:
\* expiring then costs nothing.
Free(row) == /\ state[row] \in {"absent", "pending"}
             /\ claim[row] \in {"null", "old"} \/ Holders(row) = {}

Foreseen(row) ==
  copies[row] + Cardinality(Publishers(row)) + (IF Free(row) THEN 1 ELSE 0)

CopiesBounded(row) == /\ IsFiniteSet(Publishers(row))
                      /\ Foreseen(row) <= 1 + faults + slow

CopiesInv == \A row \in Rows : CopiesBounded(row)

\* The quantities of the bound are numbers, so that what a step moves from one
\* summand to another leaves the sum alone.
LEMMA ForeseenNumbers ==
  ASSUME TypeOK, CopiesInv, NEW row \in Rows
  PROVE  /\ copies[row] \in Nat /\ faults \in Nat /\ slow \in Nat
         /\ Cardinality(Publishers(row)) \in Nat
  BY FS_CardinalityType, BoundsAssumption DEF TypeOK, CopiesInv, CopiesBounded

\* The arithmetic of the next lemma: the bound grows with what it bounds.
LEMMA BoundMoves ==
  \A before, after, f, g, m, n \in Nat :
    before <= 1 + f + m =>
      /\ after <= before /\ g + n >= f + m => after <= 1 + g + n
      /\ after <= before + 1 /\ g + n >= f + m + 1 => after <= 1 + g + n
  OBVIOUS

\* A step that leaves a row's copies and publishers alone keeps the bound, if
\* it makes the row free only at the price of a fault or an expired claim.
LEMMA SamePublishers ==
  ASSUME TypeOK, CopiesInv, NEW row \in Rows,
         copies'[row] = copies[row],
         Publishers(row)' = Publishers(row),
         faults' \in Nat, slow' \in Nat,
         \/ faults' + slow' >= faults + slow /\ (Free(row)' => Free(row))
         \/ faults' + slow' >= faults + slow + 1
  PROVE  CopiesBounded(row)'
<1>1. /\ copies[row] \in Nat /\ faults \in Nat /\ slow \in Nat
      /\ Cardinality(Publishers(row)) \in Nat
  BY ForeseenNumbers
<1>2. CopiesBounded(row)
  BY DEF CopiesInv
<1>3. /\ IsFiniteSet(Publishers(row)')
      /\ Cardinality(Publishers(row)') = Cardinality(Publishers(row))
  BY <1>2 DEF CopiesBounded
<1>4. Foreseen(row)' = copies[row] + Cardinality(Publishers(row))
                         + (IF Free(row)' THEN 1 ELSE 0)
  BY <1>3 DEF Foreseen
<1>5. Foreseen(row) = copies[row] + Cardinality(Publishers(row))
                        + (IF Free(row) THEN 1 ELSE 0)
  BY DEF Foreseen
<1>6. Foreseen(row)' <= 1 + faults' + slow'
  <2>1. Foreseen(row) <= 1 + faults + slow
    BY <1>2 DEF CopiesBounded
  <2>2. Foreseen(row)' \in Nat /\ Foreseen(row) \in Nat
    BY <1>1, <1>4, <1>5
  <2>3. CASE faults' + slow' >= faults + slow /\ (Free(row)' => Free(row))
    <3>1. Foreseen(row)' <= Foreseen(row)
      BY <1>1, <1>4, <1>5, <2>3
    <3> QED BY <1>1, <2>1, <2>2, <2>3, <3>1, BoundMoves
  <2>4. CASE faults' + slow' >= faults + slow + 1
    <3>1. Foreseen(row)' <= Foreseen(row) + 1
      BY <1>1, <1>4, <1>5
    <3> QED BY <1>1, <2>1, <2>2, <2>4, <3>1, BoundMoves
  <2> QED BY <2>3, <2>4
<1> QED BY <1>3, <1>6 DEF CopiesBounded

\* A relay that leaves its publishing phase takes its foreseen copy from the
\* row: it has written it, or it pays with a fault for what becomes of the row.
LEMMA PublisherLeaves ==
  ASSUME TypeOK, CopiesInv, NEW row \in Rows, NEW r \in Publishers(row),
         Publishers(row)' = Publishers(row) \ {r},
         copies'[row] \in {copies[row], copies[row] + 1},
         faults' \in Nat, slow' = slow,
         \/ faults' = faults /\ (Free(row)' => Free(row))
         \/ faults' = faults + 1
  PROVE  CopiesBounded(row)'
<1>1. /\ copies[row] \in Nat /\ faults \in Nat /\ slow \in Nat
      /\ Cardinality(Publishers(row)) \in Nat
  BY ForeseenNumbers
<1>2. CopiesBounded(row)
  BY DEF CopiesInv
<1>3. /\ IsFiniteSet(Publishers(row)')
      /\ Cardinality(Publishers(row)') = Cardinality(Publishers(row)) - 1
  BY <1>2, FS_RemoveElement DEF CopiesBounded
<1>4. Foreseen(row)' = copies'[row] + (Cardinality(Publishers(row)) - 1)
                         + (IF Free(row)' THEN 1 ELSE 0)
  BY <1>3 DEF Foreseen
<1>5. Foreseen(row) = copies[row] + Cardinality(Publishers(row))
                        + (IF Free(row) THEN 1 ELSE 0)
  BY DEF Foreseen
<1> QED BY <1>1, <1>2, <1>3, <1>4, <1>5 DEF CopiesBounded

\* At first every row has the one copy to expect that it may be claimed for.
LEMMA InitCopiesInv == Init => CopiesInv
<1> SUFFICES ASSUME Init, NEW row \in Rows PROVE CopiesBounded(row)
  BY DEF CopiesInv
<1>1. Publishers(row) = {}
  BY DEF Init, Publishers
<1>2. IsFiniteSet({}) /\ Cardinality({}) = 0
  BY FS_EmptySet
<1>3. copies[row] = 0 /\ faults = 0 /\ slow = 0
  BY DEF Init
<1>4. Foreseen(row) = 0 + 0 + (IF Free(row) THEN 1 ELSE 0)
  BY <1>1, <1>2, <1>3 DEF Foreseen
<1> QED BY <1>1, <1>2, <1>3, <1>4 DEF CopiesBounded

\* Claiming turns the copy a free row may expect into that of its publisher.
LEMMA ClaimKeepsCopies ==
  ASSUME RelayInv, CopiesInv, NEW r \in Relays, Claim(r), NEW row \in Rows
  PROVE  CopiesBounded(row)'
<1> DEFINE taken == Lowest({p \in Rows : Claimable(p)})
<1>1. /\ taken \subseteq Rows
      /\ \A p \in taken : state[p] = "pending" /\ claim[p] \in {"null", "old"}
  BY LowestIsSubset DEF Claimable
<1>2. /\ phase[r] = "claim"
      /\ claim' = [p \in Rows |-> IF p \in taken THEN "recent" ELSE claim[p]]
      /\ batch' = [batch EXCEPT ![r] = taken]
      /\ phase' = [phase EXCEPT ![r] = "publish"]
      /\ UNCHANGED <<state, copies, faults, slow>>
  BY DEF Claim
<1> HIDE DEF taken
<1>3. TypeOK /\ batch[r] = {}
  BY <1>2 DEF RelayInv, TypeOK
<1>4. /\ copies[row] \in Nat /\ faults \in Nat /\ slow \in Nat
      /\ Cardinality(Publishers(row)) \in Nat
  BY <1>3, ForeseenNumbers
<1>5. CASE row \in taken
  <2>1. Publishers(row)' = Publishers(row) \cup {r} /\ r \notin Publishers(row)
    BY <1>2, <1>3, <1>5 DEF Publishers, TypeOK
  <2>2. r \in Holders(row)'
    BY <1>2, <1>3, <1>5 DEF Holders, TypeOK
  <2>3. Free(row) /\ ~ Free(row)'
    BY <1>1, <1>2, <1>5, <2>2 DEF Free
  <2>4. CopiesBounded(row)
    BY DEF CopiesInv
  <2>5. /\ IsFiniteSet(Publishers(row)')
        /\ Cardinality(Publishers(row)') = Cardinality(Publishers(row)) + 1
    BY <2>1, <2>4, FS_AddElement DEF CopiesBounded
  <2>6. Foreseen(row)' = copies[row] + (Cardinality(Publishers(row)) + 1) + 0
    BY <1>2, <2>3, <2>5 DEF Foreseen
  <2>7. Foreseen(row) = copies[row] + Cardinality(Publishers(row)) + 1
    BY <2>3 DEF Foreseen
  <2> QED BY <1>2, <1>4, <2>4, <2>5, <2>6, <2>7 DEF CopiesBounded
<1>6. CASE row \notin taken
  <2>1. Publishers(row)' = Publishers(row)
    BY <1>2, <1>3, <1>6 DEF Publishers, TypeOK
  <2>2. Holders(row)' = Holders(row)
    BY <1>2, <1>3, <1>6 DEF Holders, TypeOK
  <2>3. claim'[row] = claim[row]
    BY <1>2, <1>6
  <2>4. Free(row)' => Free(row)
    BY <1>2, <2>2, <2>3 DEF Free
  <2> QED BY <1>2, <1>3, <1>4, <2>1, <2>4, SamePublishers
<1> QED BY <1>5, <1>6

\* Publishing turns foreseen copies into copies; publishing a part and giving
\* up is a fault, after which the row may be claimed once more.
LEMMA PublishKeepsCopies ==
  ASSUME RelayInv, CopiesInv, NEW r \in Relays, Publish(r) \/ PublishFails(r),
         NEW row \in Rows
  PROVE  CopiesBounded(row)'
<1>1. TypeOK
  BY DEF RelayInv
<1>2. /\ copies[row] \in Nat /\ faults \in Nat /\ slow \in Nat
      /\ Cardinality(Publishers(row)) \in Nat
  BY <1>1, ForeseenNumbers
<1>3. PICK rows \in SUBSET batch[r] : copies' = Written(rows)
  BY DEF Publish, PublishFails
<1>4. /\ copies'[row] \in {copies[row], copies[row] + 1}
      /\ row \notin rows => copies'[row] = copies[row]
  BY <1>3 DEF Written
<1>5. /\ phase[r] = "publish"
      /\ UNCHANGED <<state, claim, slow>>
      /\ faults' \in Nat
      /\ \/ /\ faults' = faults /\ batch' = batch
            /\ phase' = [phase EXCEPT ![r] = "mark"]
         \/ faults' = faults + 1 /\ EndCycle(r)
  BY <1>2 DEF Publish, PublishFails, Fault
<1>6. CASE row \in batch[r]
  <2>1. r \in Publishers(row) /\ Publishers(row)' = Publishers(row) \ {r}
    BY <1>1, <1>5, <1>6 DEF Publishers, EndCycle, TypeOK
  <2>2. ASSUME batch' = batch PROVE Free(row)' => Free(row)
    BY <1>5, <2>2 DEF Free, Holders
  <2> QED BY <1>1, <1>4, <1>5, <2>1, <2>2, PublisherLeaves
<1>7. CASE row \notin batch[r]
  <2>1. Publishers(row)' = Publishers(row) /\ Holders(row)' = Holders(row)
    BY <1>1, <1>5, <1>7 DEF Publishers, Holders, EndCycle, TypeOK
  <2>2. Free(row)' => Free(row)
    BY <1>5, <2>1 DEF Free
  <2>3. copies'[row] = copies[row]
    BY <1>3, <1>4, <1>7
  <2>4. slow' = slow /\ faults' \in {faults, faults + 1}
    BY <1>5
  <2>5. slow' \in Nat /\ faults' + slow' >= faults + slow
    <3>1. CASE faults' = faults
      BY <1>2, <2>4, <3>1
    <3>2. CASE faults' = faults + 1
      BY <1>2, <2>4, <3>2
    <3> QED BY <2>4, <3>1, <3>2
  <2> QED BY <1>1, <1>5, <2>1, <2>2, <2>3, <2>5, SamePublishers
<1> QED BY <1>6, <1>7

\* A marked row is not free any more, and a lost cycle is a fault.
LEMMA EndKeepsCopies ==
  ASSUME RelayInv, CopiesInv, NEW r \in Relays, Mark(r) \/ CycleLost(r),
         NEW row \in Rows
  PROVE  CopiesBounded(row)'
<1>1. TypeOK /\ CycleInv
  BY DEF RelayInv
<1>2. copies[row] \in Nat /\ faults \in Nat /\ slow \in Nat
  BY <1>1, ForeseenNumbers
<1>3. CASE Mark(r)
  <2>1. /\ phase[r] = "mark"
        /\ state' = [p \in Rows |-> IF p \in batch[r] /\ state[p] = "pending"
                                      THEN "published" ELSE state[p]]
        /\ EndCycle(r)
        /\ UNCHANGED <<claim, copies, faults, slow>>
    BY <1>3 DEF Mark
  <2>2. Publishers(row)' = Publishers(row)
    BY <1>1, <2>1 DEF Publishers, EndCycle, TypeOK
  <2>3. CASE row \in batch[r]
    <3>1. state'[row] = "published"
      BY <1>1, <2>1, <2>3 DEF CycleInv
    <3>2. ~ Free(row)'
      BY <3>1 DEF Free
    <3> QED BY <1>1, <1>2, <2>1, <2>2, <3>2, SamePublishers
  <2>4. CASE row \notin batch[r]
    <3>1. Holders(row)' = Holders(row) /\ state'[row] = state[row]
      BY <1>1, <2>1, <2>4 DEF Holders, EndCycle, TypeOK
    <3>2. Free(row)' => Free(row)
      BY <2>1, <3>1 DEF Free
    <3> QED BY <1>1, <1>2, <2>1, <2>2, <3>2, SamePublishers
  <2> QED BY <2>3, <2>4
<1>4. CASE CycleLost(r)
  <2>1. /\ EndCycle(r)
        /\ faults' = faults + 1 /\ faults' \in Nat
        /\ UNCHANGED <<state, claim, copies, slow>>
    BY <1>2, <1>4 DEF CycleLost, Fault
  <2>2. CASE r \in Publishers(row)
    <3>1. Publishers(row)' = Publishers(row) \ {r}
      BY <1>1, <2>1, <2>2 DEF Publishers, EndCycle, TypeOK
    <3> QED BY <1>1, <2>1, <2>2, <3>1, PublisherLeaves
  <2>3. CASE r \notin Publishers(row)
    <3>1. Publishers(row)' = Publishers(row)
      BY <1>1, <2>1, <2>3 DEF Publishers, EndCycle, TypeOK
    <3>2. faults' + slow' >= faults + slow + 1 /\ slow' \in Nat
      BY <1>2, <2>1
    <3> QED BY <1>1, <2>1, <3>1, <3>2, SamePublishers
  <2> QED BY <2>2, <2>3
<1> QED BY <1>3, <1>4

\* Rows come and go without copies, and a claim that expires under a working
\* relay is what slow counts.
LEMMA RowStepKeepsCopies ==
  ASSUME RelayInv, CopiesInv, NEW p \in Rows,
         Append(p) \/ ClaimExpires(p) \/ Purge(p), NEW row \in Rows
  PROVE  CopiesBounded(row)'
<1>1. TypeOK /\ CycleInv
  BY DEF RelayInv
<1>2. copies[row] \in Nat /\ faults \in Nat /\ slow \in Nat
  BY <1>1, ForeseenNumbers
<1>3. UNCHANGED <<copies, phase, batch, faults>>
  BY DEF Append, ClaimExpires, Purge
<1>4. Publishers(row)' = Publishers(row) /\ Holders(row)' = Holders(row)
  BY <1>3 DEF Publishers, Holders
<1>5. ASSUME Free(row)' => Free(row), slow' = slow PROVE CopiesBounded(row)'
  BY <1>1, <1>2, <1>3, <1>4, <1>5, SamePublishers
<1>6. CASE Append(p)
  <2>1. /\ state[p] = "absent" /\ state' = [state EXCEPT ![p] = "pending"]
        /\ claim' = claim /\ slow' = slow
    BY <1>6 DEF Append
  <2>2. Free(row)' => Free(row)
    BY <1>1, <1>4, <2>1 DEF Free, TypeOK
  <2> QED BY <1>5, <2>1, <2>2
<1>7. CASE Purge(p)
  <2>1. /\ state' = [state EXCEPT ![p] = "purged"]
        /\ claim' = claim /\ slow' = slow
    BY <1>7 DEF Purge
  <2>2. Free(row)' => Free(row)
    BY <1>1, <1>4, <2>1 DEF Free, TypeOK
  <2> QED BY <1>5, <2>1, <2>2
<1>8. CASE ClaimExpires(p)
  <2>1. /\ state[p] = "pending" /\ state' = state
        /\ claim' = [claim EXCEPT ![p] = "old"]
        /\ \/ Holders(p) = {} /\ slow' = slow
           \/ slow' = slow + 1
    BY <1>8 DEF ClaimExpires
  <2>2. CASE slow' = slow
    <3>1. CASE row = p
      <4>1. slow' # slow + 1
        BY <1>2, <2>2
      <4>2. Free(row)
        BY <2>1, <3>1, <4>1 DEF Free
      <4> QED BY <1>5, <2>2, <4>2
    <3>2. CASE row # p
      <4>1. Free(row)' => Free(row)
        BY <1>1, <1>4, <2>1, <3>2 DEF Free, TypeOK
      <4> QED BY <1>5, <2>2, <4>1
    <3> QED BY <3>1, <3>2
  <2>3. CASE slow' = slow + 1
    <3>1. faults' + slow' >= faults + slow + 1 /\ slow' \in Nat /\ faults' \in Nat
      BY <1>2, <1>3, <2>3
    <3> QED BY <1>1, <1>3, <1>4, <3>1, SamePublishers
  <2> QED BY <2>1, <2>2, <2>3
<1> QED BY <1>6, <1>7, <1>8

\* Every step keeps the bound on copies and those foreseen.
LEMMA CopiesInvKept == RelayInv /\ CopiesInv /\ [Next]_vars => CopiesInv'
<1> SUFFICES ASSUME RelayInv, CopiesInv, [Next]_vars, NEW row \in Rows
             PROVE  CopiesBounded(row)'
  BY DEF CopiesInv
<1>1. CASE Next
  BY <1>1, ClaimKeepsCopies, PublishKeepsCopies, EndKeepsCopies,
     RowStepKeepsCopies DEF Next, Cycle
<1>2. CASE UNCHANGED vars
  BY <1>2 DEF vars, CopiesInv, CopiesBounded, Foreseen, Free, Publishers, Holders
<1> QED BY <1>1, <1>2

\* Each message of a row beyond the first is paid for by a fault or by a claim
\* that expired under a working relay, for any number of replicas.
THEOREM DuplicatesAreCaused == Spec => []DuplicatesHaveACause
<1>1. RelayInv /\ CopiesInv => DuplicatesHaveACause
  <2> SUFFICES ASSUME RelayInv, CopiesInv, NEW row \in Rows
               PROVE  copies[row] <= 1 + faults + slow
    BY DEF DuplicatesHaveACause
  <2>1. /\ copies[row] \in Nat /\ faults \in Nat /\ slow \in Nat
        /\ Cardinality(Publishers(row)) \in Nat
    BY ForeseenNumbers DEF RelayInv
  <2>2. Foreseen(row) <= 1 + faults + slow
    BY DEF CopiesInv, CopiesBounded
  <2> QED BY <2>1, <2>2 DEF Foreseen
<1> QED BY <1>1, InitCopiesInv, CopiesInvKept, RelayInvariant, PTL DEF Spec
-----------------------------------------------------------------------------
(* The relays implement the safety part of OutboxDelivery.                 *)

CommittedRows == {row \in Rows : state[row] # "absent"}
DeliveredRows == {row \in Rows : copies[row] > 0}

\* Only committed events get to Kafka, and none is taken back (relayOnce).
THEOREM RelaysImplementDelivery == Spec => Delivery!Spec
<1>1. Init => Delivery!Init
  <2>1. ~ (0 > 0)
    OBVIOUS
  <2> QED BY <2>1 DEF Init, Delivery!Init
<1>2. RelayInv /\ [Next]_vars => [Delivery!Next]_(Delivery!delivery)
  <2>1. SUFFICES ASSUME RelayInv, [Next]_vars
                 PROVE  [Delivery!Next]_(Delivery!delivery)
    OBVIOUS
  <2>2. TypeOK /\ CycleInv
    BY <2>1 DEF RelayInv
  <2>3. ASSUME CommittedRows' = CommittedRows, DeliveredRows' = DeliveredRows
        PROVE  [Delivery!Next]_(Delivery!delivery)
    BY <2>3 DEF CommittedRows, DeliveredRows, Delivery!delivery
  <2>4. ASSUME NEW row \in Rows, Append(row)
        PROVE  [Delivery!Next]_(Delivery!delivery)
    <3>1. /\ row \notin CommittedRows
          /\ CommittedRows' = CommittedRows \cup {row}
          /\ DeliveredRows' = DeliveredRows
      BY <2>2, <2>4 DEF Append, TypeOK, CommittedRows, DeliveredRows
    <3>2. Delivery!Commit(row)
      BY <3>1 DEF Delivery!Commit, CommittedRows, DeliveredRows
    <3> QED BY <3>2 DEF Delivery!Next
  <2>5. ASSUME NEW r \in Relays, NEW rows \in SUBSET batch[r],
               copies' = Written(rows), state' = state
        PROVE  [Delivery!Next]_(Delivery!delivery)
    <3>1. rows \in SUBSET Rows /\ copies \in [Rows -> Nat]
      BY <2>2 DEF TypeOK
    <3>2. DeliveredRows' = DeliveredRows \cup rows
      BY <2>5, <3>1, WrittenGrows DEF DeliveredRows
    <3>3. rows \subseteq CommittedRows
      BY <2>2, <3>1 DEF CycleInv, CommittedRows
    <3>4. CommittedRows' = CommittedRows
      BY <2>5 DEF CommittedRows
    <3>5. Delivery!Deliver(rows)
      BY <3>2, <3>3, <3>4 DEF Delivery!Deliver, CommittedRows, DeliveredRows
    <3> QED BY <3>1, <3>5 DEF Delivery!Next
  <2>6. ASSUME NEW r \in Relays, Publish(r) \/ PublishFails(r)
        PROVE  [Delivery!Next]_(Delivery!delivery)
    <3>1. PICK rows \in SUBSET batch[r] : copies' = Written(rows)
      BY <2>6 DEF Publish, PublishFails
    <3>2. state' = state
      BY <2>6 DEF Publish, PublishFails
    <3> QED BY <2>5, <3>1, <3>2
  <2>7. ASSUME NEW r \in Relays, Claim(r) \/ CycleLost(r)
        PROVE  [Delivery!Next]_(Delivery!delivery)
    BY <2>3, <2>7 DEF Claim, CycleLost, CommittedRows, DeliveredRows
  <2>8. ASSUME copies' = copies, \A row \in Rows : state'[row] = "absent" <=> state[row] = "absent"
        PROVE  [Delivery!Next]_(Delivery!delivery)
    BY <2>3, <2>8 DEF CommittedRows, DeliveredRows
  <2>9. ASSUME NEW r \in Relays, Mark(r)
        PROVE  [Delivery!Next]_(Delivery!delivery)
    BY <2>8, <2>9 DEF Mark
  <2>10. ASSUME NEW row \in Rows, Purge(row) \/ ClaimExpires(row)
         PROVE  [Delivery!Next]_(Delivery!delivery)
    BY <2>2, <2>8, <2>10 DEF Purge, ClaimExpires, TypeOK
  <2>11. CASE UNCHANGED vars
    BY <2>8, <2>11 DEF vars
  <2> QED BY <2>1, <2>4, <2>6, <2>7, <2>9, <2>10, <2>11 DEF Next, Cycle
<1> QED BY <1>1, <1>2, RelayInvariant, PTL DEF Spec, Delivery!Spec
=============================================================================
