----------------------------- MODULE OutboxRelay -----------------------------
(***************************************************************************)
(* The outbox-relay: replicas that share table outbox and copy its rows to *)
(* Kafka.  A cycle (relayOnce) is three steps with nothing held between    *)
(* them but the timestamp claimed_at: claim rows, publish them, mark them. *)
(* A claim older than claimTimeout no longer protects a row, whether its   *)
(* relay is dead or only slow.                                             *)
(*                                                                         *)
(* Every SQL statement is one action.  A statement that meets rows another *)
(* one has locked skips them (SKIP LOCKED), as it would skip them after it.*)
(***************************************************************************)
EXTENDS Naturals, FiniteSets

CONSTANTS
  Rows,       \* outbox.id, a bigserial: cycles take the lowest pending ids
  Relays,     \* the replicas
  BatchSize,  \* OUTBOX_BATCH_SIZE
  MaxFaults,  \* bound: failed statements and publications, lost processes
  MaxSlow     \* bound: claims that expire while their relay still works

ASSUME RowsAssumption == Rows \subseteq Nat /\ IsFiniteSet(Rows)
ASSUME BatchAssumption == BatchSize \in Nat \ {0}
ASSUME BoundsAssumption == MaxFaults \in Nat /\ MaxSlow \in Nat

VARIABLES
  state,   \* row -> whether it is there and whether published_at is set
  claim,   \* row -> claimed_at: NULL, recent, or older than claimTimeout
  copies,  \* row -> how many messages Kafka has of it
  phase,   \* relay -> what relayOnce does next
  batch,   \* relay -> the rows of its current cycle
  faults,  \* faults so far
  slow     \* claims that expired under a working relay so far

vars == <<state, claim, copies, phase, batch, faults, slow>>

Init == /\ state = [row \in Rows |-> "absent"]
        /\ claim = [row \in Rows |-> "null"]
        /\ copies = [row \in Rows |-> 0]
        /\ phase = [r \in Relays |-> "claim"]
        /\ batch = [r \in Relays |-> {}]
        /\ faults = 0
        /\ slow = 0

Holders(row) == {r \in Relays : row \in batch[r]}
-----------------------------------------------------------------------------
\* A business transaction with an Append commits.  Ids are drawn before the
\* commit, so rows need not appear in the order of their ids.
Append(row) ==
  /\ state[row] = "absent"
  /\ state' = [state EXCEPT ![row] = "pending"]
  /\ UNCHANGED <<claim, copies, phase, batch, faults, slow>>

\* Mutation of Claimable: claimed_at is not looked at.
ClaimableUnclaimed(row) == state[row] = "pending"

\* Mutation of Claimable: rows with an old claim are not taken over.
ClaimableOnce(row) == state[row] = "pending" /\ claim[row] = "null"

Claimable(row) == state[row] = "pending" /\ claim[row] \in {"null", "old"}

\* ORDER BY id LIMIT BatchSize.
Lowest(rows) ==
  {row \in rows : Cardinality({q \in rows : q < row}) < BatchSize}

\* Mutation of Claim: claimed_at is not set.
ClaimUnstamped(r) ==
  LET taken == Lowest({row \in Rows : Claimable(row)})
  IN  /\ phase[r] = "claim"
      /\ taken # {}
      /\ batch' = [batch EXCEPT ![r] = taken]
      /\ phase' = [phase EXCEPT ![r] = "publish"]
      /\ UNCHANGED <<state, claim, copies, faults, slow>>

Claim(r) ==
  LET taken == Lowest({row \in Rows : Claimable(row)})
  IN  /\ phase[r] = "claim"
      /\ taken # {}
      /\ claim' = [row \in Rows |-> IF row \in taken THEN "recent" ELSE claim[row]]
      /\ batch' = [batch EXCEPT ![r] = taken]
      /\ phase' = [phase EXCEPT ![r] = "publish"]
      /\ UNCHANGED <<state, copies, faults, slow>>

Written(rows) == [row \in Rows |-> IF row \in rows THEN copies[row] + 1
                                                   ELSE copies[row]]

\* Mutation of EndCycle: the entries of the last cycle are kept.
EndCycleWithEntries(r) == /\ phase' = [phase EXCEPT ![r] = "claim"]
                          /\ UNCHANGED batch

EndCycle(r) == /\ phase' = [phase EXCEPT ![r] = "claim"]
               /\ batch' = [batch EXCEPT ![r] = {}]

Fault == faults < MaxFaults /\ faults' = faults + 1

Publish(r) ==
  /\ phase[r] = "publish"
  /\ copies' = Written(batch[r])
  /\ phase' = [phase EXCEPT ![r] = "mark"]
  /\ UNCHANGED <<state, claim, batch, faults, slow>>

\* Mutation of PublishFails: the relay goes on and marks the batch.
PublishFailsUnnoticed(r) ==
  /\ phase[r] = "publish"
  /\ \E rows \in SUBSET batch[r] : copies' = Written(rows)
  /\ Fault
  /\ phase' = [phase EXCEPT ![r] = "mark"]
  /\ UNCHANGED <<state, claim, batch, slow>>

\* PublishBatch returns an error.  The batch spans topics and partitions, so
\* some of it may have been written; its claims stay.
PublishFails(r) ==
  /\ phase[r] = "publish"
  /\ \E rows \in SUBSET batch[r] : copies' = Written(rows)
  /\ Fault
  /\ EndCycle(r)
  /\ UNCHANGED <<state, claim, slow>>

\* MarkPublishedBatch; a row no longer in the table is not updated.
Mark(r) ==
  /\ phase[r] = "mark"
  /\ state' = [row \in Rows |-> IF row \in batch[r] /\ state[row] = "pending"
                                  THEN "published" ELSE state[row]]
  /\ EndCycle(r)
  /\ UNCHANGED <<claim, copies, faults, slow>>

\* MarkPublishedBatch fails, or the process is lost anywhere in its cycle.
CycleLost(r) ==
  /\ phase[r] # "claim"
  /\ Fault
  /\ EndCycle(r)
  /\ UNCHANGED <<state, claim, copies, slow>>

\* claimTimeout has passed.  Bounded only while a relay is at work on the row:
\* a publication may take longer than the timeout, but not for ever.
ClaimExpires(row) ==
  /\ state[row] = "pending"
  /\ claim[row] = "recent"
  /\ claim' = [claim EXCEPT ![row] = "old"]
  /\ IF Holders(row) = {} THEN UNCHANGED slow
                          ELSE slow < MaxSlow /\ slow' = slow + 1
  /\ UNCHANGED <<state, copies, phase, batch, faults>>

\* Mutation of Purge: the condition on published_at is missing.
PurgeAnything(row) ==
  /\ state[row] \in {"pending", "published"}
  /\ Holders(row) = {}
  /\ state' = [state EXCEPT ![row] = "purged"]
  /\ UNCHANGED <<claim, copies, phase, batch, faults, slow>>

\* PurgePublished deletes rows published a week ago.  No cycle lasts that long.
Purge(row) ==
  /\ state[row] = "published"
  /\ Holders(row) = {}
  /\ state' = [state EXCEPT ![row] = "purged"]
  /\ UNCHANGED <<claim, copies, phase, batch, faults, slow>>
-----------------------------------------------------------------------------
Cycle(r) == Claim(r) \/ Publish(r) \/ Mark(r)

Next == \/ \E row \in Rows : Append(row) \/ ClaimExpires(row) \/ Purge(row)
        \/ \E r \in Relays : Cycle(r) \/ PublishFails(r) \/ CycleLost(r)

Spec == Init /\ [][Next]_vars

\* Every replica's loop goes on (a lost process is restarted), and time passes
\* for the claims nobody works on any more.
Fairness == /\ \A r \in Relays : WF_vars(Cycle(r))
            /\ \A row \in Rows : WF_vars(Holders(row) = {} /\ ClaimExpires(row))

FairSpec == Spec /\ Fairness
-----------------------------------------------------------------------------
\* Every variable has its type, and a relay has entries just while in a cycle.
TypeOK == /\ state \in [Rows -> {"absent", "pending", "published", "purged"}]
          /\ claim \in [Rows -> {"null", "recent", "old"}]
          /\ copies \in [Rows -> Nat]
          /\ phase \in [Relays -> {"claim", "publish", "mark"}]
          /\ batch \in [Relays -> SUBSET Rows]
          /\ \A r \in Relays : phase[r] = "claim" <=> batch[r] = {}
          /\ faults \in 0..MaxFaults
          /\ slow \in 0..MaxSlow

\* No event is lost: a row is marked, and later deleted, only when Kafka has
\* its message, even if publications fail in part and relays overlap.
NothingMarkedUnpublished ==
  \A row \in Rows : state[row] \in {"published", "purged"} => copies[row] > 0

\* Every message beyond the first of a row has a cause: a fault, or a claim that
\* expired under a working relay.  Replicas alone never duplicate.
DuplicatesHaveACause == \A row \in Rows : copies[row] <= 1 + faults + slow

\* As long as no claim expired under a working relay, no row is in the hands of
\* two replicas: the timestamp does the work of a lock.
ClaimsAreExclusive ==
  slow = 0 => \A r, q \in Relays : r # q => batch[r] \cap batch[q] = {}

\* A committed row is published and marked in the end: a failed cycle's claims
\* do not keep it from the others for ever.
EveryRowIsMarked ==
  \A row \in Rows : state[row] = "pending" ~> state[row] \in {"published", "purged"}

Delivery == INSTANCE OutboxDelivery WITH
  committed <- {row \in Rows : state[row] # "absent"},
  delivered <- {row \in Rows : copies[row] > 0}

\* The relays deliver what was committed, at least once and nothing else.
ImplementsDelivery == Delivery!FairSpec
=============================================================================
