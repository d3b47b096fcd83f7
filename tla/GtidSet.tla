------------------------------ MODULE GtidSet ------------------------------
(***************************************************************************)
(* Sets of MySQL transaction numbers as the source keeps them: for one     *)
(* server, a sequence of half-open intervals that is canonical, so that    *)
(* two equal sets have one representation.  A set with several servers is  *)
(* one such sequence for each of them.                                     *)
(***************************************************************************)
EXTENDS Integers, Sequences, SequencesExt, FiniteSetsExt

Interval(start, end) == [start |-> start, end |-> end]

\* validate_intervals: ordered, not empty, and neither overlapping nor adjacent.
Canonical(set) ==
    /\ \A k \in DOMAIN set : set[k].start < set[k].end
    /\ \A k \in 1..Len(set) - 1 : set[k].end < set[k + 1].start

Includes(set, gno) == \E k \in DOMAIN set : set[k].start <= gno /\ gno < set[k].end

\* Slip: adjacent intervals stay apart.
MergeNothing(intervals) == intervals

\* The loop of include_transaction over the sorted intervals.
Merge(intervals) ==
    LET extend(merged, i) ==
            IF merged # <<>> /\ Last(merged).end = i.start
            THEN [merged EXCEPT ![Len(merged)].end = i.end]
            ELSE Append(merged, i)
    IN  FoldLeft(extend, <<>>, intervals)

\* include_transaction, for a transaction that the set does not contain.
Include(set, gno) ==
    Merge(SortSeq(Append(set, Interval(gno, gno + 1)), LAMBDA i, j : i.start < j.start))

IsSubsetOf(required, current) ==
    \A k \in DOMAIN required : \E n \in DOMAIN current :
        current[n].start <= required[k].start /\ required[k].end <= current[n].end

\* What the server reports for a set of numbers.
Reported(numbers) ==
    LET line == [g \in 1..(Max(numbers \cup {0}) + 1) |-> g]
        starts == SelectSeq(line, LAMBDA g : g \in numbers /\ g - 1 \notin numbers)
        ends == SelectSeq(line, LAMBDA g : g \notin numbers /\ g - 1 \in numbers)
    IN  [k \in DOMAIN starts |-> Interval(starts[k], ends[k])]

\* On the subsets s and t of 1..n, the interval arithmetic agrees with the sets
\* it stands for (include_transaction, is_subset_of).
GtidsExact(s, t, n) ==
    /\ Canonical(Reported(s))
    /\ \A g \in (1..n) \ s : Include(Reported(s), g) = Reported(s \cup {g})
    /\ IsSubsetOf(Reported(s), Reported(t)) <=> s \subseteq t
=============================================================================
