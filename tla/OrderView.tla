------------------------------- MODULE OrderView -------------------------------
(***************************************************************************)
(* The read model: the projector reads every topic of the bus and keeps    *)
(* one row of table order_views per order, beside the saga that module     *)
(* OrderSaga runs.  Nothing flows back from it.                            *)
(*                                                                         *)
(* HandleEvent is two transactions: MarkProcessed commits the event id,    *)
(* then ApplyEvent writes the row.  What happens in between - other events *)
(* being handled by other goroutines or processes, or the end of this one  *)
(* - is why they are two actions here.  The projector reads eight topics   *)
(* in one consumer group, so that any event of the bus may come next.      *)
(*                                                                         *)
(* last_event_type and last_event_at are left out: they change exactly     *)
(* where the status does.                                                  *)
(***************************************************************************)
EXTENDS OrderSaga

CONSTANTS
  MaxApplying,  \* bound: handlers between their two transactions
  MaxLosses     \* bound: handlers that never get to their second transaction

ASSUME ViewBoundsAssumption == MaxApplying \in Nat /\ MaxLosses \in Nat

VARIABLES
  processed,  \* table processed_events
  applying,   \* events whose handler is between MarkProcessed and ApplyEvent
  views,      \* table order_views: order -> its row, NoView where there is none
  timeline,   \* the timelines of all rows: event -> how often it was appended
  lost        \* events whose handler ended in between

viewVars == <<processed, applying, views, timeline, lost>>

ViewStatus == OrderStatus \cup {""}
View == [status : ViewStatus, tx : Nat,
         notificationError : BOOLEAN, refundFailed : BOOLEAN]
NoView == [status |-> "", tx |-> 0,
           notificationError |-> FALSE, refundFailed |-> FALSE]

ViewInit == /\ Init
            /\ processed = {}
            /\ applying = {}
            /\ views = [o \in Orders |-> NoView]
            /\ timeline = [e \in {} |-> 0]
            /\ lost = {}
-----------------------------------------------------------------------------
\* Mutation of MarkProcessed: every insertion counts as the first one.
MarkProcessedAlways(e) ==
  /\ e \in bus
  /\ e \notin applying
  /\ Cardinality(applying) < MaxApplying
  /\ processed' = processed \cup {e.id}
  /\ applying' = applying \cup {e}
  /\ UNCHANGED <<views, timeline, lost>>
  /\ UNCHANGED vars

\* The insertion with ON CONFLICT DO NOTHING: only the first handler of an
\* event goes on.  A redelivery of a marked event changes nothing.
MarkProcessed(e) ==
  /\ e \in bus
  /\ e.id \notin processed
  /\ Cardinality(applying) < MaxApplying
  /\ processed' = processed \cup {e.id}
  /\ applying' = applying \cup {e}
  /\ UNCHANGED <<views, timeline, lost>>
  /\ UNCHANGED vars

\* Mutation of Upsert: a terminal status is overwritten by a late event.
UpsertUnfrozen(v, e) ==
  [status |-> e.status,
   tx |-> IF e.tx # 0 THEN e.tx ELSE v.tx,
   notificationError |-> v.notificationError \/ e.note = "notification_error",
   refundFailed |-> v.refundFailed \/ e.note = "payment_refund_failed"]

\* Mutation of Upsert: the flags are taken from the last event.
UpsertForgetful(v, e) ==
  [status |-> IF v.status \in Terminal THEN v.status ELSE e.status,
   tx |-> IF e.tx # 0 THEN e.tx ELSE v.tx,
   notificationError |-> e.note = "notification_error",
   refundFailed |-> e.note = "payment_refund_failed"]

\* The row after event e: terminal statuses are final, the flags are sticky,
\* an empty transaction id does not erase one.
Upsert(v, e) ==
  [status |-> IF v.status \in Terminal THEN v.status ELSE e.status,
   tx |-> IF e.tx # 0 THEN e.tx ELSE v.tx,
   notificationError |-> v.notificationError \/ e.note = "notification_error",
   refundFailed |-> v.refundFailed \/ e.note = "payment_refund_failed"]

TimesApplied(e) == IF e \in DOMAIN timeline THEN timeline[e] ELSE 0

ApplyEvent(e) ==
  /\ e \in applying
  /\ applying' = applying \ {e}
  /\ views' = [views EXCEPT ![e.order] = Upsert(@, e)]
  /\ timeline' = [f \in DOMAIN timeline \cup {e} |->
                    TimesApplied(f) + (IF f = e THEN 1 ELSE 0)]
  /\ UNCHANGED <<processed, lost>>
  /\ UNCHANGED vars

\* ApplyEvent returns an error, or the process ends before it: the message is
\* delivered again, and skipped, because its id is in processed_events.
LoseEvent(e) ==
  /\ e \in applying
  /\ Cardinality(lost) < MaxLosses
  /\ applying' = applying \ {e}
  /\ lost' = lost \cup {e}
  /\ UNCHANGED <<processed, views, timeline>>
  /\ UNCHANGED vars
-----------------------------------------------------------------------------
Projector == \E e \in bus : MarkProcessed(e) \/ ApplyEvent(e)

ViewNext == \/ Next /\ UNCHANGED viewVars
            \/ Projector
            \/ \E e \in applying : LoseEvent(e)

ViewSpec == ViewInit /\ [][ViewNext]_<<vars, viewVars>>

\* The projector, like the other services, keeps handling while there is
\* something to handle.
ViewFairSpec == /\ ViewSpec
                /\ Fairness
                /\ WF_viewVars(Projector)
-----------------------------------------------------------------------------
\* The tables and the handlers account for every event: an id is marked
\* exactly if its event was applied, lost, or is in some handler's hands, and
\* it is only one of the three; what was applied was applied once, however
\* often it was delivered.
EveryMarkIsAccountedFor ==
  /\ applying \subseteq bus /\ lost \subseteq bus /\ DOMAIN timeline \subseteq bus
  /\ processed = {e.id : e \in applying \cup lost \cup DOMAIN timeline}
  /\ applying \cap (lost \cup DOMAIN timeline) = {}
  /\ lost \cap DOMAIN timeline = {}
  /\ \A e \in DOMAIN timeline : timeline[e] = 1

\* Every variable has its type, and a row exists as soon as the order's
\* timeline has an event.
ViewTypeOK ==
  /\ processed \subseteq EventId
  /\ Cardinality(lost) <= MaxLosses
  /\ views \in [Orders -> View]
  /\ \A o \in Orders :
       views[o] = NoView <=> \A e \in DOMAIN timeline : e.order # o

\* The row agrees with its timeline, in whatever order the events came: the
\* status is that of one of them, a terminal one as soon as there is one, and
\* the flags say whether one of them carried the note.
RowMatchesTimeline ==
  \A o \in Orders :
    LET Seen == {e \in DOMAIN timeline : e.order = o}
    IN  /\ views[o].status # "" => \E e \in Seen : e.status = views[o].status
        /\ views[o].status \in Terminal <=> \E e \in Seen : e.status \in Terminal
        /\ views[o].notificationError <=>
             \E e \in Seen : e.note = "notification_error"
        /\ views[o].refundFailed <=>
             \E e \in Seen : e.note = "payment_refund_failed"

\* The inductive invariant of the projector.
ViewInv == ViewTypeOK /\ EveryMarkIsAccountedFor /\ RowMatchesTimeline

NotificationFailed(o) ==
  \E e \in bus : /\ e.order = o
                 /\ e.type = "NOTIFICATION_RESULT"
                 /\ e.status = "FAILED"

\* A row that shows the end of an order shows the end the saga had or will
\* have: COMPLETED only for a completed saga, FAILED never for one that
\* completes; except where a notification failed.  The results of the workers
\* and the terminal event reach the row in any order, and a FAILED result is
\* as final to it as ORDER_FAILED.
ShownOutcomeIsTheOutcome ==
  \A o \in Orders :
    /\ views[o].status = "COMPLETED" => sagas[o].current = "COMPLETED"
    /\ views[o].status = "FAILED" /\ ~ NotificationFailed(o) =>
         sagas[o].current \notin {"INVENTORY_RESERVED", "COMPLETED"}

\* Once an order is decided its row comes to show some terminal status and
\* never leaves it, unless the projector lost an event.
DecidedIsShown ==
  \A o \in Orders :
    sagas[o].current \in Terminal ~>
      \/ [](views[o].status \in Terminal)
      \/ lost # {}

\* docs/DATABASE.md:183: current_status is the final status known to the
\* projection; and order_view_repository.go:35-38: a NOTIFICATION_RESULT does
\* not take a finished row away from COMPLETED.
CompletedIsNotShownFailed ==
  \A o \in Orders :
    sagas[o].current = "COMPLETED" => views[o].status # "FAILED"
=============================================================================
