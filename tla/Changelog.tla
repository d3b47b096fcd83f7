----------------------------- MODULE Changelog ------------------------------
(***************************************************************************)
(* How a batch of changes is collapsed before a sink that keeps the        *)
(* current state of its tables writes it (data/changelog.rs): at most one  *)
(* change of each primary key is left, in runs of the same operation and   *)
(* with the same columns.                                                  *)
(*                                                                         *)
(* An event is [op, old, key, cols, value]: the operation ("c", "r", "u"   *)
(* or "d"), the primary key before and after it, the other columns that    *)
(* the event carries, and the value it gives to them.                      *)
(***************************************************************************)
EXTENDS Naturals, SequencesExt

CONSTANTS
    Key,        \* primary keys
    Column      \* the columns that are not part of the primary key

Absent == 0     \* Option::None as the source of a column's value
Nothing == [op |-> "none"]
Creates == {"c", "r"}

\* A row of the destination: the value of each column, or Nothing.
Image(op, source) == [op |-> op, source |-> source]

\* apply_collapsed_event, for a key that has no change yet and for one that
\* has.  `source` is the value of each column, Absent if it is not carried.
FirstChange(op, cols, value) ==
    Image(op, [c \in Column |-> IF op # "d" /\ c \in cols THEN value ELSE Absent])

\* Slip: an update forgets the columns of the change before it.
NextChangeForgetting(change, op, cols, value) ==
    CASE op \in Creates -> Image(op, [c \in Column |-> value])
      [] op = "u" -> Image(IF change.op \in Creates THEN change.op ELSE "u",
                           [c \in Column |-> IF c \in cols THEN value ELSE Absent])
      [] OTHER -> FirstChange("d", {}, Absent)

NextChange(change, op, cols, value) ==
    CASE op \in Creates -> Image(op, [c \in Column |-> value])
      [] op = "u" -> Image(IF change.op \in Creates THEN change.op ELSE "u",
                           [c \in Column |-> IF c \in cols THEN value ELSE change.source[c]])
      [] OTHER -> FirstChange("d", {}, Absent)

\* The changes of a batch so far: [key -> change or Nothing] and the order of
\* their last positions.
NoChanges == [change |-> [k \in Key |-> Nothing], order |-> <<>>]

ApplyCollapsedEvent(latest, key, op, cols, value) ==
    LET change == latest.change[key]
    IN  [change |-> [latest.change EXCEPT
                       ![key] = IF change = Nothing THEN FirstChange(op, cols, value)
                                ELSE NextChange(change, op, cols, value)],
         order  |-> Append(SelectSeq(latest.order, LAMBDA k : k # key), key)]

\* collapsed_rows_with_old_values: an update of the primary key deletes the
\* old key and creates the new one.  Without old values the key is the old one.
CollapseEvent(latest, e) ==
    IF e.op = "u" /\ e.old # e.key
    THEN ApplyCollapsedEvent(ApplyCollapsedEvent(latest, e.old, "d", {}, Absent),
                             e.key, "c", Column, e.value)
    ELSE IF e.op = "d" THEN ApplyCollapsedEvent(latest, e.old, "d", {}, Absent)
    ELSE ApplyCollapsedEvent(latest, e.key, e.op, e.cols, e.value)

\* An update of a key that the batch deleted is refused.
Collapsible(events) ==
    \A i \in DOMAIN events :
        LET latest == FoldLeft(CollapseEvent, NoChanges, SubSeq(events, 1, i - 1))
        IN  events[i].op = "u" => latest.change[events[i].old].op # "d"

\* materialize_runs: neighbours with the same sink operation and the same
\* columns form a run.
Carried(change) == {c \in Column : change.source[c] # Absent}
SameRun(a, b) ==
    /\ Carried(a) = Carried(b)
    /\ a.op = b.op \/ (a.op \in Creates /\ b.op \in Creates)

\* collapsed_runs: a sequence of runs, each a sequence of [key, change].
CollapsedRuns(events) ==
    LET latest == FoldLeft(CollapseEvent, NoChanges, events)
        extend(runs, k) ==
            LET row == [key |-> k, change |-> latest.change[k]]
                last == runs[Len(runs)]
            IN  IF runs # <<>> /\ SameRun(last[1].change, row.change)
                THEN [runs EXCEPT ![Len(runs)] = Append(@, row)]
                ELSE Append(runs, <<row>>)
    IN  FoldLeft(extend, <<>>, latest.order)

-----------------------------------------------------------------------------
(* The reference: what the events mean, one by one.  A row is a function   *)
(* from columns to values, <<>> if there is none.                          *)

NoRow == <<>>
ApplyEvent(rows, e) ==
    CASE e.op \in Creates -> [rows EXCEPT ![e.key] = [c \in Column |-> e.value]]
      [] e.op = "d" -> [rows EXCEPT ![e.old] = NoRow]
      [] OTHER ->
           LET row == [c \in Column |-> IF c \in e.cols THEN e.value ELSE rows[e.old][c]]
           IN  [rows EXCEPT ![e.old] = NoRow, ![e.key] = row]
ApplyAll(rows, events) == FoldLeft(ApplyEvent, rows, events)

\* The events that a database can produce from these rows.
Present(rows, k) == rows[k] # NoRow
Possible(rows, e) ==
    CASE e.op \in Creates -> ~Present(rows, e.key)
      [] e.op = "d" -> Present(rows, e.old)
      [] OTHER -> Present(rows, e.old) /\ (e.key # e.old => ~Present(rows, e.key))
Happens(rows, events) ==
    \A i \in DOMAIN events : Possible(ApplyAll(rows, SubSeq(events, 1, i - 1)), events[i])

\* What is left of the events by the time a sink has written every run.
WriteRow(rows, row) ==
    [rows EXCEPT ![row.key] =
       IF row.change.op = "d" THEN NoRow
       ELSE [c \in Column |-> IF row.change.source[c] # Absent THEN row.change.source[c]
                              ELSE IF Present(rows, row.key) THEN rows[row.key][c] ELSE Absent]]
WriteRuns(rows, events) == FoldLeft(WriteRow, rows, FlattenSeq(CollapsedRuns(events)))

\* An event of each kind; an update of the key carries every column.
EventOf(op, old, key, cols) == [op |-> op, old |-> old, key |-> key, cols |-> cols, value |-> Absent]
Events ==
    {EventOf("c", k, k, Column) : k \in Key}
      \cup {EventOf("d", k, k, {}) : k \in Key}
      \cup {EventOf("u", k, k, cols) : k \in Key, cols \in SUBSET Column}
      \cup {EventOf("u", k, l, Column) : k \in Key, l \in Key}

\* The batches of n events, each with the rows from before it.
Batches(n) ==
    {[rows |-> rows, events |-> [i \in 1..n |-> [kinds[i] EXCEPT !.value = i]]] :
       rows \in [Key -> {NoRow, [c \in Column |-> n + 1]}], kinds \in [1..n -> Events]}

\* The collapsed runs of possible events are accepted and leave the rows that
\* the events leave one by one (collapsed_runs_with_changed_columns).
CollapseExact(batch) ==
    Happens(batch.rows, batch.events) =>
        /\ Collapsible(batch.events)
        /\ WriteRuns(batch.rows, batch.events) = ApplyAll(batch.rows, batch.events)
=============================================================================
