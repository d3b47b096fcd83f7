--------------------------- MODULE ClickHouseSink ---------------------------
(***************************************************************************)
(* The ClickHouse sink actor of one partition.  Rows of append-only        *)
(* outputs are buffered by table and written by concurrent INSERTs; a      *)
(* delivery of changes waits until nothing else is buffered or active, is  *)
(* collapsed, completed with the current rows of the destination where an  *)
(* update does not carry all columns, and written alone.                   *)
(*                                                                         *)
(* A message is a transaction: [tables, events], the tables to which it    *)
(* appends a row and its events for the changelog table.  It is delivered  *)
(* alone.  An INSERT that times out is repeated although it may have been  *)
(* executed, or will be executed later.                                    *)
(***************************************************************************)
EXTENDS SinkSession, Changelog

CONSTANTS
    Logs,           \* the logs considered, each a sequence of transactions
    Table,          \* the append-only tables
    TargetRows,     \* insert_target_rows and insert_target_bytes
    Concurrency,    \* insert_concurrency
    MaxAttempts     \* effective_retry_max_attempts

VARIABLES
    log,            \* the log of the source
    runs,           \* collapsed_runs of each transaction of the log
    expected,       \* what the changelog table should hold after each prefix of it
    inputClosed,    \* the actor has seen the end of its input
    pending,        \* pending_changelog, 0 if none
    serial,         \* serial_changelog_active
    buffers,        \* [table -> sequence of batches]
    active,         \* the INSERTs under way
    late,           \* INSERTs nobody waits for that may still be executed
    appended,       \* destination: the <<message, table>> pairs of append-only tables
    current         \* destination: the row of each key that FINAL selects

source == <<log, runs, expected>>
chVars == <<sessionVars, source, inputClosed, pending, serial, buffers, active, late,
            appended, current>>

Changes == "changelog"
Tables == Table \cup {Changes}

\* A batch of delivery id: its rows, and its schema, which decides what can be
\* written by one INSERT.
Batch(id, schema, rows) == [id |-> id, schema |-> schema, rows |-> rows]

NeverWritten == [version |-> 0, deleted |-> TRUE, row |-> NoRow]

-----------------------------------------------------------------------------
(* The destination.                                                        *)

\* Slip: the row inserted last is the current one.
ReplacedByLast(old, new) == new
\* ReplacingMergeTree(version, deleted): the highest version, among equal ones
\* the row inserted last.
Replaced(old, new) == IF new.version >= old.version THEN new ELSE old

RowsOf(insert) == UNION {insert.batches[i].rows : i \in DOMAIN insert.batches}

\* An INSERT is executed.
Execute(insert) ==
    IF insert.table = Changes
    THEN /\ current' = [k \in Key |->
                          LET new == {r \in RowsOf(insert) : r.key = k}
                          IN  IF new = {} THEN current[k]
                              ELSE Replaced(current[k], (CHOOSE r \in new : TRUE).value)]
         /\ UNCHANGED appended
    ELSE /\ appended' = appended \cup {<<r.value.version, insert.table>> : r \in RowsOf(insert)}
         /\ UNCHANGED current
NotExecuted == UNCHANGED <<appended, current>>

-----------------------------------------------------------------------------
(* From a delivery to batches.                                             *)

IsChangelog(m) == log[m].events # <<>>

\* restore_clickhouse_update: current_rows_query selects no deleted rows.
NeedsRestore(row) == row.change.op = "u" /\ Carried(row.change) # Column
CanRestore(run) == NeedsRestore(run[1]) => \A i \in DOMAIN run : ~current[run[i].key].deleted
Restored(row) ==
    [c \in Column |-> IF row.change.source[c] = Absent THEN current[row.key].row[c]
                      ELSE row.change.source[c]]

\* Of an appended row only its message matters.
AppendedRow(m) == [key |-> "row", value |-> [version |-> m, deleted |-> FALSE, row |-> NoRow]]

\* clickhouse_change_batch: versions are shifted by one, so that 0 is free.
ChangeRow(m, row) ==
    [key |-> row.key,
     value |-> IF row.change.op = "d" THEN [version |-> m + 1, deleted |-> TRUE, row |-> NoRow]
               ELSE [version |-> m + 1, deleted |-> FALSE,
                     row |-> IF NeedsRestore(row) THEN Restored(row) ELSE row.change.source]]

\* clickhouse_changelog_batches: one batch for each run.
ChangelogBatches(m) ==
    [i \in DOMAIN runs[m] |->
       Batch(m, IF runs[m][i][1].change.op = "d" THEN "keys" ELSE "rows",
             {ChangeRow(m, row) : row \in Range(runs[m][i])})]
Acceptable(m) ==
    /\ Collapsible(log[m].events)
    /\ \A run \in Range(runs[m]) : CanRestore(run)

\* accept
Buffer(m) ==
    buffers' = [t \in Tables |->
                  IF t = Changes THEN buffers[t] \o ChangelogBatches(m)
                  ELSE IF t \in log[m].tables THEN Append(buffers[t], Batch(m, "rows", {AppendedRow(m)}))
                  ELSE buffers[t]]

-----------------------------------------------------------------------------
(* The loop of run_actor.                                                  *)

Drained == active = {} /\ \A t \in Tables : buffers[t] = <<>>
SizeOf(batches) == MapThenSumSet(LAMBDA i : Cardinality(batches[i].rows), DOMAIN batches)

\* take_insert: as many batches of one schema as fill an INSERT.
TakeCount(t) ==
    Max({n \in 1..Len(buffers[t]) :
           \A i \in 2..n : /\ SizeOf(SubSeq(buffers[t], 1, i - 1)) < TargetRows
                           /\ buffers[t][i].schema = buffers[t][1].schema})

\* next_flush: this buffer must be written before the actor waits.
Due(t) ==
    /\ buffers[t] # <<>>
    /\ inputClosed \/ pending # 0 \/ serial \/ SizeOf(buffers[t]) >= TargetRows

ChangelogDue == pending # 0 /\ Drained
InsertDue == Cardinality(active) < Concurrency /\ \E t \in Tables : Due(t)
Selecting == Runs /\ ~ChangelogDue /\ ~InsertDue

\* DeliveryTracker: every batch of the delivery was written.
Durable ==
    {m \in Message : /\ m <= LastHanded /\ m # pending
                     /\ \A t \in Tables : \A i \in DOMAIN buffers[t] : buffers[t][i].id # m
                     /\ \A a \in active : \A i \in DOMAIN a.batches : a.batches[i].id # m}

EmitCommitted ==
    /\ Emit(Durable)
    /\ UNCHANGED <<source, inputClosed, pending, serial, buffers, active, late, appended, current>>

\* The delivery that waited is alone now.  A row that cannot be restored
\* fails the session with a retryable error.
AcceptChangelog ==
    /\ Runs /\ ChangelogDue
    /\ pending' = 0
    /\ IF Acceptable(pending)
       THEN /\ Buffer(pending)
            /\ serial' = TRUE
            /\ UNCHANGED session
       ELSE /\ session' = "stopped"
            /\ UNCHANGED <<buffers, serial>>
    /\ UNCHANGED <<committed, base, handed, input, faults, source, inputClosed, active, late,
                   appended, current>>

\* The loop takes an INSERT from a buffer that is due or whose timer expired.
StartInsert ==
    /\ Runs /\ ~ChangelogDue
    /\ Cardinality(active) < Concurrency
    /\ \E t \in Tables :
          /\ buffers[t] # <<>>
          /\ InsertDue => Due(t)
          /\ buffers' = [buffers EXCEPT ![t] = SubSeq(@, TakeCount(t) + 1, Len(@))]
          /\ active' = active \cup {[table |-> t, attempt |-> 1,
                                     batches |-> SubSeq(buffers[t], 1, TakeCount(t))]}
    /\ UNCHANGED <<sessionVars, source, inputClosed, pending, serial, late, appended, current>>

\* complete_insert; the loop notices that a delivery of changes is through.
InsertCompletes ==
    /\ Selecting
    /\ \E a \in active :
          /\ Execute(a)
          /\ active' = active \ {a}
          /\ serial' = (serial /\ ~(active = {a} /\ \A t \in Tables : buffers[t] = <<>>))
    /\ UNCHANGED <<sessionVars, source, inputClosed, pending, buffers, late>>

\* A transient error, or no answer in time: the INSERT was executed, will be
\* executed or is lost, and start_insert repeats it up to the retry limit.
InsertUnclear ==
    /\ Runs
    /\ Fault
    /\ \E a \in active :
          /\ \/ Execute(a) /\ UNCHANGED late
             \/ NotExecuted /\ late' = late \cup {a}
          /\ IF a.attempt < MaxAttempts
             THEN active' = (active \ {a}) \cup {[a EXCEPT !.attempt = @ + 1]} /\ UNCHANGED session
             ELSE session' = "stopped" /\ UNCHANGED active
    /\ UNCHANGED <<committed, base, handed, input, source, inputClosed, pending, serial, buffers>>

LateInsert ==
    /\ \E a \in late :
          /\ Execute(a)
          /\ late' = late \ {a}
    /\ UNCHANGED <<sessionVars, source, inputClosed, pending, serial, buffers, active>>

Receive ==
    /\ Selecting
    /\ ~inputClosed /\ pending = 0 /\ ~serial
    /\ \E m \in Message :
          /\ Hand(m)
          /\ IF IsChangelog(m)
             THEN pending' = m /\ UNCHANGED buffers
             ELSE Buffer(m) /\ UNCHANGED pending
    /\ UNCHANGED <<source, inputClosed, serial, active, late, appended, current>>

SeesEndOfInput ==
    /\ Selecting
    /\ ~inputClosed /\ pending = 0 /\ ~serial
    /\ input # "open"
    /\ inputClosed' = TRUE
    /\ UNCHANGED <<sessionVars, source, pending, serial, buffers, active, late, appended, current>>

Ends ==
    /\ Selecting
    /\ inputClosed /\ pending = 0 /\ ~serial /\ Drained
    /\ Through(Durable) = committed
    /\ Returns
    /\ UNCHANGED <<source, inputClosed, pending, serial, buffers, active, late, appended, current>>

InputEnds ==
    /\ SourceFinishes \/ SourceFails
    /\ UNCHANGED <<source, inputClosed, pending, serial, buffers, active, late, appended, current>>

\* Active INSERTs are dropped; what was sent may be executed.
Stop ==
    /\ Stops
    /\ late' = late \cup active
    /\ UNCHANGED <<source, inputClosed, pending, serial, buffers, active, appended, current>>

Restart ==
    /\ Restarts
    /\ inputClosed' = FALSE /\ pending' = 0 /\ serial' = FALSE
    /\ buffers' = [t \in Tables |-> <<>>] /\ active' = {}
    /\ UNCHANGED <<source, late, appended, current>>

ChInit ==
    /\ SessionInit
    /\ log \in Logs
    /\ runs = [m \in Message |-> CollapsedRuns(log[m].events)]
    /\ expected = [n \in 0..NumMessages |->
                     ApplyAll([k \in Key |-> NoRow], FlattenSeq([m \in 1..n |-> log[m].events]))]
    /\ inputClosed = FALSE /\ pending = 0 /\ serial = FALSE
    /\ buffers = [t \in Tables |-> <<>>] /\ active = {} /\ late = {}
    /\ appended = {} /\ current = [k \in Key |-> NeverWritten]

Loop ==
    \/ EmitCommitted \/ AcceptChangelog \/ StartInsert \/ InsertCompletes
    \/ Receive \/ SeesEndOfInput \/ Ends \/ InputEnds \/ Restart

ChNext == Loop \/ InsertUnclear \/ LateInsert \/ Stop

ChSpec == ChInit /\ [][ChNext]_chVars /\ WF_chVars(Loop)

-----------------------------------------------------------------------------

ChTypeOK ==
    /\ SessionTypeOK
    /\ pending \in 0..NumMessages /\ serial \in BOOLEAN /\ inputClosed \in BOOLEAN
    /\ Cardinality(active) <= Concurrency
    /\ appended \subseteq Message \X Table
    /\ \A k \in Key : current[k].version \in 0..(NumMessages + 1)

Visible(k) == IF current[k].deleted THEN NoRow ELSE current[k].row

\* Every appended row of a committed message is there, and every key shows the
\* state after some transaction that is not older than the committed one, over
\* retries, replays and INSERTs that are executed late (accept, run_actor,
\* collapsed_runs, restore_clickhouse_update).
ChangesAreCurrent ==
    /\ \A m \in 1..committed : \A t \in log[m].tables : <<m, t>> \in appended
    /\ \A k \in Key : \E n \in committed..NumMessages : Visible(k) = expected[n][k]

\* What is reached in the end, whatever fails.
AllCommitted == committed = NumMessages
=============================================================================
