------------------------- MODULE SnapshotExecution --------------------------
(***************************************************************************)
(* A finite delivery run by one worker process into an append-only Iceberg *)
(* table: the runner captures the row count of the table, runs a task for  *)
(* each partition that restarts its pipeline after retryable failures, and *)
(* compares the row counts when every partition has drained its source,    *)
(* before it completes the phase.                                          *)
(*                                                                         *)
(* A "replaying" source yields the same batches in each attempt.  Lanes of *)
(* a "claiming" source take tasks from one queue (SnapshotQueue); a task   *)
(* is a batch and a marker of its end, a batch without rows.               *)
(***************************************************************************)
EXTENDS IcebergCommit, DurableStorage, SequencesExt, FiniteSetsExt

CONSTANTS
    Setups,         \* [kind, plan, workers, faults]: the deliveries considered
    Preexisting,    \* rows in the table before the delivery
    Target          \* commit_target_size, in rows

VARIABLES
    setup,
    process,        \* "down", "probed", "running", "complete" or "refused"
    cancelled,      \* the cancellation token of the execution
    failing,        \* a task has failed: shutdown follows
    baseline,       \* durable: the row count record
    captured,       \* the baseline in memory
    output,         \* completed_snapshot_rows and the attempts merged into it
    queue,          \* the tasks no lane of a claiming source has claimed
    task,           \* [partition -> its task]
    faults

runVars == <<setup, process, cancelled, failing, baseline, captured, output, queue, task, faults>>
executionVars == <<runVars, commitVars>>

Table == CHOOSE d \in Datasets : TRUE
Claiming == setup.kind = "claiming"
Planned == Range(FlattenSeq(IF Claiming THEN <<setup.plan>> ELSE SetToSeq(Range(setup.plan))))
SourceRows == UNION Planned

CountOf(batches) == FoldSeq(LAMBDA b, n : n + Cardinality(b.rows), 0, batches)
TableRows == Preexisting + CountOf(tables[Table])

Task(stage, todo) ==
    [stage |-> stage, todo |-> todo, next |-> 1, inbox |-> <<>>, ledger |-> <<>>,
     group |-> 0, event |-> 0]
Waiting == Task("waiting", <<>>)

Fault == faults < setup.faults /\ faults' = faults + 1

-----------------------------------------------------------------------------
(* The runner.                                                             *)

\* start_pipeline and SnapshotReconciliation::prepare: only the worker of a
\* delivery that has no others verifies counts.
Start ==
    /\ process = "down"
    /\ process' = IF setup.workers = 1 /\ ~Written(baseline) THEN "probed" ELSE "running"
    /\ captured' = IF Written(baseline) THEN baseline.value ELSE TableRows
    /\ queue' = IF Claiming THEN setup.plan ELSE <<>>
    /\ task' = [p \in Writers |-> Waiting]
    /\ output' = 0 /\ cancelled' = FALSE /\ failing' = FALSE
    /\ UNCHANGED <<setup, baseline, faults, commitVars>>

\* Slip: the count is remembered, but not persisted before the tasks start.
CaptureInMemory ==
    /\ process = "probed"
    /\ process' = "running"
    /\ UNCHANGED <<setup, cancelled, failing, baseline, captured, output, queue, task, faults,
                   commitVars>>

\* load_or_capture_snapshot_baseline
CaptureBaseline ==
    /\ process = "probed"
    /\ \E o \in CompareExchange(baseline, NoRevision, captured) :
          /\ baseline' = o.record
          /\ IF o.result = "error"
             THEN Fault /\ process' = "down" /\ UNCHANGED captured
             ELSE process' = "running" /\ captured' = o.record.value /\ UNCHANGED faults
    /\ UNCHANGED <<setup, cancelled, failing, output, queue, task, commitVars>>

\* The control plane stops the worker.
Cancel ==
    /\ process = "running" /\ ~cancelled
    /\ Fault
    /\ cancelled' = TRUE
    /\ UNCHANGED <<setup, process, failing, baseline, captured, output, queue, task, commitVars>>

\* Slip: the phase is completed whatever the counts say.
CountsAgreeAlways == TRUE
\* reconcile_snapshot_row_counts
CountsAgree == setup.workers = 1 => TableRows = captured + output

\* wait: once every partition has reported a drained ledger, verification and
\* completion of the phase are not cancelled.
CompletePhase ==
    /\ process = "running" /\ ~failing
    /\ \A p \in Writers : task[p].stage = "drained"
    /\ process' = IF CountsAgree THEN "complete" ELSE "refused"
    /\ UNCHANGED <<setup, cancelled, failing, baseline, captured, output, queue, task, faults,
                   commitVars>>

\* stop_partition_tasks has waited for every task.
Stopped ==
    /\ process = "running" /\ cancelled
    /\ \A p \in Writers : task[p].stage \in {"drained", "cancelled"}
    /\ failing \/ \E p \in Writers : task[p].stage = "cancelled"
    /\ process' = "down"
    /\ UNCHANGED <<setup, cancelled, failing, baseline, captured, output, queue, task, faults,
                   commitVars>>

Crash ==
    /\ process \in {"probed", "running"}
    /\ Fault
    /\ process' = "down"
    /\ Abandon(Writers)
    /\ UNCHANGED <<setup, cancelled, failing, baseline, captured, output, queue, task>>

\* The operator starts a delivery again whose counts did not agree.
StartAgain ==
    /\ process = "refused"
    /\ Fault
    /\ process' = "down"
    /\ UNCHANGED <<setup, cancelled, failing, baseline, captured, output, queue, task, commitVars>>

-----------------------------------------------------------------------------
(* The task of a partition: its source, pipeline and sink.                 *)

In(p, stages) == process = "running" /\ task[p].stage \in stages

\* run_partition_attempt: the source and the sink are built.
Build(p) ==
    /\ In(p, {"waiting"}) /\ ~cancelled
    /\ task' = [task EXCEPT ![p] = Task("reading", IF Claiming THEN <<>> ELSE setup.plan[p])]
    /\ UNCHANGED <<setup, process, cancelled, failing, baseline, captured, output, queue, faults,
                   commitVars>>

\* read_batch, until the sink has the delivery.  A claimed task counts once
\* its rows are published; before that it goes back to the queue.
Deliver(p, rows, todo) ==
    LET delivery == [id |-> task[p].next, rows |-> rows]
    IN  task' = [task EXCEPT ![p].todo = todo, ![p].next = @ + 1,
                             ![p].inbox = Append(@, delivery), ![p].ledger = Append(@, delivery)]
ReadBatch(p) ==
    /\ In(p, {"reading"})
    /\ IF task[p].todo # <<>>
       THEN Deliver(p, Head(task[p].todo), Tail(task[p].todo)) /\ UNCHANGED queue
       ELSE /\ queue # <<>>
            /\ Deliver(p, Head(queue), <<{}>>)
            /\ queue' = Tail(queue)
    /\ UNCHANGED <<setup, process, cancelled, failing, baseline, captured, output, faults,
                   commitVars>>

Finished(p) ==
    /\ In(p, {"reading"})
    /\ task[p].todo = <<>> /\ queue = <<>>
    /\ task' = [task EXCEPT ![p].stage = "eof"]
    /\ UNCHANGED <<setup, process, cancelled, failing, baseline, captured, output, queue, faults,
                   commitVars>>

\* The reader fails and drops its channels: the sink sees the end of its input.
ReadFails(p) ==
    /\ In(p, {"reading"})
    /\ Fault
    /\ task' = [task EXCEPT ![p].stage = "broken"]
    /\ UNCHANGED <<setup, process, cancelled, failing, baseline, captured, output, queue, commitVars>>

\* delivery_group_ready: the deliveries are taken one by one until the target
\* is reached; the end of the input closes the last group.
GroupEnds(p) ==
    LET inbox == task[p].inbox
        full == {n \in DOMAIN inbox : CountOf(SubSeq(inbox, 1, n)) >= Target}
    IN  IF full # {} THEN {Min(full)}
        ELSE IF task[p].stage \in {"eof", "broken"} /\ inbox # <<>> THEN {Len(inbox)} ELSE {}

\* write_deliveries: the identity names the deliveries that have rows.
GroupJobs(p, n) ==
    LET group == SelectSeq(SubSeq(task[p].inbox, 1, n), LAMBDA b : b.rows # {})
        ids == [i \in DOMAIN group |-> group[i].id]
    IN  IF group = <<>> THEN <<>>
        ELSE <<[dataset |-> Table, identity |-> <<p, ids>>, delta |-> FALSE,
                rows |-> UNION {group[i].rows : i \in DOMAIN group}]>>

WriteGroup(p) ==
    /\ In(p, {"reading", "eof", "broken"})
    /\ At(p, "idle") /\ task[p].group = 0
    /\ \E n \in GroupEnds(p) :
          /\ task' = [task EXCEPT ![p].group = n]
          /\ IF GroupJobs(p, n) = <<>>
             THEN Goto(p, "done") /\ UNCHANGED <<tables, marked, flight>>
             ELSE Begin(p, GroupJobs(p, n))
    /\ UNCHANGED <<setup, process, cancelled, failing, baseline, captured, output, queue, faults>>

\* The task ends with an error that is not retried: shutdown of the execution.
Fail(p) == task' = [task EXCEPT ![p].stage = "cancelled"] /\ failing' = TRUE /\ cancelled' = TRUE

\* CommittedThrough; without a receiver this is fatal.
Report(p) ==
    /\ In(p, {"reading", "eof", "broken"})
    /\ At(p, "done")
    /\ Abandon({p})
    /\ IF task[p].stage = "broken"
       THEN Fail(p)
       ELSE /\ task' = [task EXCEPT ![p].event = @ + task[p].group, ![p].group = 0,
                                    ![p].inbox = SubSeq(@, task[p].group + 1, Len(@))]
            /\ UNCHANGED <<failing, cancelled>>
    /\ UNCHANGED <<setup, process, baseline, captured, output, queue, faults>>

\* commit_through: the markers go to the source and the rows are counted.
CommitThrough(p) ==
    /\ In(p, {"reading", "eof"})
    /\ task[p].event > 0
    /\ output' = output + CountOf(SubSeq(task[p].ledger, 1, task[p].event))
    /\ task' = [task EXCEPT ![p].event = 0,
                            ![p].ledger = SubSeq(@, task[p].event + 1, Len(@))]
    /\ UNCHANGED <<setup, process, cancelled, failing, baseline, captured, queue, faults, commitVars>>

Drains(p) ==
    /\ In(p, {"eof"})
    /\ task[p].ledger = <<>>
    /\ task' = [task EXCEPT ![p].stage = "drained"]
    /\ UNCHANGED <<setup, process, cancelled, failing, baseline, captured, output, queue, faults,
                   commitVars>>

\* run_partition_task: a retryable failure of the reader or the sink starts a
\* new attempt, unless published work of a claiming source was not committed.
AttemptFails(p) ==
    /\ In(p, {"reading", "eof", "broken"})
    /\ \/ At(p, "failed") \/ At(p, "fatal")
       \/ task[p].stage = "broken" /\ At(p, "idle")
    /\ Abandon({p})
    /\ IF At(p, "fatal") \/ (Claiming /\ task[p].ledger # <<>>)
       THEN Fail(p)
       ELSE task' = [task EXCEPT ![p] = Waiting] /\ UNCHANGED <<failing, cancelled>>
    /\ UNCHANGED <<setup, process, baseline, captured, output, queue, faults>>

\* The sink notices the cancellation between two groups.
TaskCancelled(p) ==
    /\ In(p, {"waiting", "reading", "eof", "broken"}) /\ cancelled
    /\ writer[p].stage \in {"idle", "done", "failed", "fatal"}
    /\ task' = [task EXCEPT ![p].stage = "cancelled"]
    /\ Abandon({p})
    /\ UNCHANGED <<setup, process, cancelled, failing, baseline, captured, output, queue, faults>>

Writes(p) ==
    /\ process = "running"
    /\ WriterStep(p)
    /\ UNCHANGED runVars

WriteFails(p) ==
    /\ process = "running"
    /\ Fault
    /\ WriterFault(p)
    /\ UNCHANGED <<setup, process, cancelled, failing, baseline, captured, output, queue, task>>

Late == LateUpdate /\ UNCHANGED runVars

-----------------------------------------------------------------------------

ExecutionInit ==
    /\ CommitInit
    /\ setup \in Setups
    /\ process = "down"
    /\ cancelled = FALSE /\ failing = FALSE
    /\ baseline = Unwritten(0) /\ captured = 0 /\ output = 0
    /\ queue = <<>> /\ task = [p \in Writers |-> Waiting]
    /\ faults = 0

TaskStep(p) ==
    \/ Build(p) \/ ReadBatch(p) \/ Finished(p) \/ WriteGroup(p) \/ Writes(p) \/ Report(p)
    \/ CommitThrough(p) \/ Drains(p) \/ AttemptFails(p) \/ TaskCancelled(p)

Progress ==
    \/ Start \/ CaptureBaseline \/ CompletePhase \/ Stopped
    \/ \E p \in Writers : TaskStep(p)

ExecutionNext ==
    \/ Progress \/ Cancel \/ Crash \/ StartAgain \/ Late
    \/ \E p \in Writers : ReadFails(p) \/ WriteFails(p)

ExecutionSpec == ExecutionInit /\ [][ExecutionNext]_executionVars /\ WF_executionVars(Progress)

-----------------------------------------------------------------------------

ExecutionTypeOK ==
    /\ process \in {"down", "probed", "running", "complete", "refused"}
    /\ cancelled \in BOOLEAN /\ failing \in BOOLEAN
    /\ captured \in Nat /\ output \in Nat /\ faults \in 0..setup.faults
    /\ \A p \in Writers :
          /\ writer[p].stage \in Stage
          /\ task[p].stage \in {"waiting", "reading", "eof", "broken", "drained", "cancelled"}
          /\ Len(task[p].inbox) <= Len(task[p].ledger)

\* The count against which the result is verified is the one from before the
\* delivery, over any restarts (load_or_capture_snapshot_baseline).
BaselineHeld ==
    /\ Written(baseline) => baseline.value = Preexisting
    /\ process = "running" /\ setup.workers = 1 => captured = Preexisting

\* A delivery that was completed has put every row of its source into the
\* table (run_partition_task, append, wait).
CompletedHasAll == process = "complete" => SourceRows \subseteq UNION {s.rows : s \in Range(tables[Table])}

\* What every execution comes to: a verdict of the verification.
HasVerdict == process \in {"complete", "refused"}
=============================================================================
