-------------------------- MODULE DeliveryTracker --------------------------
(***************************************************************************)
(* The ordered completion accounting shared by the durable sink actors     *)
(* (transferia-delivery-contracts, delivery_tracker.rs).  A tracker is a   *)
(* value: `entries` maps the id of every accepted and not yet committed    *)
(* delivery to the number of its outputs that are not durable yet.  The    *)
(* methods that can fail are split into a guard (the `ensure!` or          *)
(* `ok_or_else` of the code) and the value after a success.                *)
(***************************************************************************)
EXTENDS Naturals

\* DeliveryTracker::new: delivery ids start at 1.
NewTracker ==
    [entries |-> [id \in {} |-> 0], next_received |-> 1, next_commit |-> 1]

\* A tracker holds one entry per delivery accepted and not yet committed.
TrackerOK(t) ==
    /\ t = [entries |-> t.entries, next_received |-> t.next_received,
            next_commit |-> t.next_commit]
    /\ t.next_received \in Nat \ {0}
    /\ t.next_commit \in 1..t.next_received
    /\ t.entries \in [t.next_commit..(t.next_received - 1) -> Nat]

\* The `ensure!` of DeliveryTracker::accept.
InOrder(t, id) == id = t.next_received

\* DeliveryTracker::accept, after its guard.
Accept(t, id, remaining) ==
    [entries |-> [i \in DOMAIN t.entries \cup {id} |->
                      IF i = id THEN remaining ELSE t.entries[i]],
     next_received |-> id + 1,
     next_commit |-> t.next_commit]

\* The two error returns of DeliveryTracker::complete.
Completable(t, id, units) == id \in DOMAIN t.entries /\ units <= t.entries[id]

\* DeliveryTracker::complete, after its guards.
Complete(t, id, units) == [t EXCEPT !.entries[id] = @ - units]

\* Slip: a finished delivery is committed before an earlier one.
CommittedIdsWithGaps(t) == {c \in DOMAIN t.entries : t.entries[c] = 0}

\* The ids DeliveryTracker::take_committed removes: the accepted deliveries
\* with nothing remaining that follow next_commit without a gap.
CommittedIds(t) ==
    {c \in DOMAIN t.entries :
        /\ t.next_commit <= c
        /\ \A i \in t.next_commit..c : i \in DOMAIN t.entries /\ t.entries[i] = 0}

\* take_committed returns Some(Committed { through: c, .. }).
IsThrough(t, c) ==
    /\ c \in CommittedIds(t)
    /\ \A d \in CommittedIds(t) : d <= c

\* The tracker after take_committed returned c.
TakeCommitted(t, c) ==
    [entries |-> [i \in DOMAIN t.entries \ CommittedIds(t) |-> t.entries[i]],
     next_received |-> t.next_received,
     next_commit |-> c + 1]

\* DeliveryTracker::is_empty.
IsEmpty(t) == DOMAIN t.entries = {}
============================================================================
