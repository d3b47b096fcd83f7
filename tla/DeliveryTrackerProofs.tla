----------------------- MODULE DeliveryTrackerProofs -----------------------
(***************************************************************************)
(* What the methods of DeliveryTracker do to a well-formed tracker.        *)
(***************************************************************************)
EXTENDS DeliveryTracker, TLAPS

\* DeliveryTracker::new makes a well-formed, empty tracker.
LEMMA NewTrackerOK == TrackerOK(NewTracker) /\ IsEmpty(NewTracker)
  BY DEF TrackerOK, NewTracker, IsEmpty

\* DeliveryTracker::accept adds one entry at the end of the window.
LEMMA AcceptOK ==
    ASSUME NEW t, TrackerOK(t), NEW id, InOrder(t, id), NEW n \in Nat
    PROVE  /\ TrackerOK(Accept(t, id, n))
           /\ Accept(t, id, n).next_received = id + 1
           /\ Accept(t, id, n).next_commit = t.next_commit
           /\ DOMAIN Accept(t, id, n).entries = DOMAIN t.entries \cup {id}
           /\ id \notin DOMAIN t.entries
           /\ Accept(t, id, n).entries[id] = n
           /\ \A i \in DOMAIN t.entries : Accept(t, id, n).entries[i] = t.entries[i]
  <1> DEFINE e == t.entries
             r == t.next_received
             c == t.next_commit
             f == [i \in DOMAIN e \cup {id} |-> IF i = id THEN n ELSE e[i]]
             u == Accept(t, id, n)
  <1>1. /\ t = [entries |-> e, next_received |-> r, next_commit |-> c]
        /\ r \in Nat \ {0} /\ c \in 1..r /\ e \in [c..(r - 1) -> Nat] /\ id = r
    BY DEF TrackerOK, InOrder
  <1>2. u = [entries |-> f, next_received |-> id + 1, next_commit |-> c]
    BY <1>1 DEF Accept
  <1>3. DOMAIN e \cup {id} = c..((id + 1) - 1)
    BY <1>1
  <1>4. f \in [c..((id + 1) - 1) -> Nat]
    BY <1>1, <1>3
  <1>5. TrackerOK(u)
    BY <1>1, <1>2, <1>4 DEF TrackerOK
  <1>6. u.next_received = id + 1 /\ u.next_commit = c /\ u.entries = f
    BY <1>2
  <1>7. id \notin DOMAIN e
    BY <1>1
  <1>8. f[id] = n /\ \A i \in DOMAIN e : f[i] = e[i]
    BY <1>7
  <1> QED
    BY <1>5, <1>6, <1>7, <1>8

\* DeliveryTracker::complete changes one count and never underflows.
LEMMA CompleteOK ==
    ASSUME NEW t, TrackerOK(t), NEW id, NEW n \in Nat, Completable(t, id, n)
    PROVE  /\ TrackerOK(Complete(t, id, n))
           /\ Complete(t, id, n).next_received = t.next_received
           /\ Complete(t, id, n).next_commit = t.next_commit
           /\ DOMAIN Complete(t, id, n).entries = DOMAIN t.entries
           /\ Complete(t, id, n).entries[id] = t.entries[id] - n
           /\ \A i \in DOMAIN t.entries \ {id} :
                 Complete(t, id, n).entries[i] = t.entries[i]
  <1> DEFINE e == t.entries
             r == t.next_received
             c == t.next_commit
             f == [e EXCEPT ![id] = @ - n]
             u == Complete(t, id, n)
  <1>1. /\ t = [entries |-> e, next_received |-> r, next_commit |-> c]
        /\ r \in Nat \ {0} /\ c \in 1..r /\ e \in [c..(r - 1) -> Nat]
    BY DEF TrackerOK
  <1>2. id \in DOMAIN e /\ n <= e[id]
    BY DEF Completable
  <1>3. u = [entries |-> f, next_received |-> r, next_commit |-> c]
    BY <1>1 DEF Complete
  <1>4. e[id] - n \in Nat
    BY <1>1, <1>2
  <1>5. f \in [c..(r - 1) -> Nat]
    BY <1>1, <1>4
  <1>6. u.next_received = r /\ u.next_commit = c /\ u.entries = f
    BY <1>3
  <1>7. TrackerOK(u)
    BY <1>1, <1>3, <1>5 DEF TrackerOK
  <1> QED
    BY <1>1, <1>2, <1>6, <1>7

\* take_committed releases the window up to and including `through`, and only
\* deliveries with nothing remaining.
LEMMA TakeCommittedOK ==
    ASSUME NEW t, TrackerOK(t), NEW k, IsThrough(t, k)
    PROVE  /\ TrackerOK(TakeCommitted(t, k))
           /\ k \in t.next_commit..(t.next_received - 1)
           /\ \A i \in t.next_commit..k : t.entries[i] = 0
           /\ TakeCommitted(t, k).next_received = t.next_received
           /\ TakeCommitted(t, k).next_commit = k + 1
           /\ DOMAIN TakeCommitted(t, k).entries = (k + 1)..(t.next_received - 1)
           /\ \A i \in (k + 1)..(t.next_received - 1) :
                 TakeCommitted(t, k).entries[i] = t.entries[i]
  <1> DEFINE e == t.entries
             r == t.next_received
             c == t.next_commit
             f == [i \in DOMAIN e \ CommittedIds(t) |-> e[i]]
             u == TakeCommitted(t, k)
  <1>1. /\ t = [entries |-> e, next_received |-> r, next_commit |-> c]
        /\ r \in Nat \ {0} /\ c \in 1..r /\ e \in [c..(r - 1) -> Nat]
    BY DEF TrackerOK
  <1>2. /\ k \in CommittedIds(t)
        /\ \A d \in CommittedIds(t) : d <= k
    BY DEF IsThrough
  <1>3. /\ k \in c..(r - 1)
        /\ \A i \in c..k : i \in DOMAIN e /\ e[i] = 0
    BY <1>1, <1>2 DEF CommittedIds
  <1>4. CommittedIds(t) = c..k
    BY <1>1, <1>2, <1>3 DEF CommittedIds
  <1>5. DOMAIN e \ CommittedIds(t) = (k + 1)..(r - 1)
    BY <1>1, <1>3, <1>4
  <1>6. u = [entries |-> f, next_received |-> r, next_commit |-> k + 1]
    BY <1>1 DEF TakeCommitted
  <1>7. f \in [(k + 1)..(r - 1) -> Nat]
    BY <1>1, <1>3, <1>5
  <1>8. k + 1 \in 1..r
    BY <1>1, <1>3
  <1>9. TrackerOK(u)
    BY <1>1, <1>6, <1>7, <1>8 DEF TrackerOK
  <1>10. u.next_received = r /\ u.next_commit = k + 1 /\ u.entries = f
    BY <1>6
  <1> QED
    BY <1>3, <1>5, <1>7, <1>9, <1>10
=============================================================================
