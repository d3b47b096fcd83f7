------------------------------ MODULE Pipeline ------------------------------
(***************************************************************************)
(* One partition of a delivery: the reader, parser and sink actors of      *)
(* transferia-pipeline (lib.rs, row_count.rs), joined by three bounded     *)
(* channels, and the task that restarts them (run_partition_task,          *)
(* runner.rs).                                                             *)
(*                                                                         *)
(* The source is an ordered log of NumBatches batches, named by their      *)
(* positions.  Outputs[p] is the set of sink batches that the parser and   *)
(* the middlewares make of batch p; it may be empty.  Within one attempt   *)
(* delivery ids start at 1 and every batch read gets the next id, so       *)
(* delivery id carries batch base + id: a channel of envelopes is a        *)
(* sequence of ids.  The exact row totals of a finite phase are kept as    *)
(* the bag of batches they contain.                                        *)
(***************************************************************************)
EXTENDS Naturals, Sequences, FiniteSets, DeliveryTracker

CONSTANTS
    NumBatches,  \* length of the source log
    Outputs,     \* [Positions -> finite set of sink batches]
    Marked,      \* positions whose batch carries a commit marker
    Capacity,    \* CHANNEL_CAPACITY of the three channels
    Finite,      \* phase_finite: the source ends with SourceBatch::Finished
    Resumable,   \* a rebuilt source resumes after the last committed marker
    FlushSize,   \* outputs the sink buffers before it writes on its own
    MaxFaults    \* bound on injected faults

Positions == 1..NumBatches

ASSUME NumBatchesAssumption == NumBatches \in Nat
ASSUME OutputsAssumption ==
    /\ DOMAIN Outputs = Positions
    /\ \A p \in Positions : IsFiniteSet(Outputs[p])
ASSUME MarkedAssumption == Marked \subseteq Positions
ASSUME CapacityAssumption == Capacity \in Nat \ {0}
ASSUME FlagsAssumption == Finite \in BOOLEAN /\ Resumable \in BOOLEAN
ASSUME BoundsAssumption == FlushSize \in Nat \ {0} /\ MaxFaults \in Nat

VARIABLES
    srcCommitted, \* source: the last batch whose marker was committed; a
                  \*   stream keeps it, a finite source only in its process
    durable,      \* destination: the <<position, output>> pairs it holds
    completed,    \* task: completed_snapshot_rows, [Positions -> Nat]
    drained,      \* task: PipelineProgress.finite_source_drained
    task,         \* task: where run_partition_task is
    cancelled,    \* task: dependencies.cancellation
    faults,       \* faults injected so far
    base,         \* attempt: the position its source started after
    reader,       \* reader: program counter or outcome
    batch,        \* reader: what the last read_batch returned
    ledger,       \* reader: outstanding CommitEntry records
    nextId,       \* reader: next delivery id
    readCh,       \* reader -> parser
    parser,       \* parser: program counter or outcome
    held,         \* parser: the delivery it is working on, 0 if none
    observed,     \* attempt row counts: the keys of `pending`
    counted,      \* attempt row counts: the batches in `committed`
    deliveryCh,   \* parser -> sink
    sink,         \* sink: "run" or outcome
    tracker,      \* sink: its DeliveryTracker
    buffer,       \* sink: <<id, output>> accepted, not durable
    written,      \* sink: <<id, output>> durable, completion not handled
    sinkEvent,    \* sink: the CommittedThrough it is sending, 0 if none
    eventCh,      \* sink -> reader
    first         \* supervisor: the first component that ended the attempt

worldVars   == <<srcCommitted, durable>>
taskVars    == <<completed, drained, task, cancelled, faults>>
readerVars  == <<reader, batch, ledger, nextId>>
parserVars  == <<parser, held>>
rowVars     == <<observed, counted>>
sinkVars    == <<sink, tracker, buffer, written, sinkEvent>>
channelVars == <<readCh, deliveryCh, eventCh>>
vars == <<worldVars, taskVars, base, readerVars, parserVars, rowVars,
          sinkVars, channelVars, first>>

-----------------------------------------------------------------------------
\* ComponentOutcome: a panic (or a ParserInfrastructureFailure) is retryable
\* and flagged as an infrastructure failure.
Failures == {"retryable", "panic", "fatal"}
Outcomes == {"ok"} \cup Failures
Ended(pc) == pc \in Outcomes

\* The states in which run_partition_task has returned.
Terminal == {"drained", "cancelled", "failed", "undrained"}

\* The local token: a child of the task's token, cancelled as well when the
\* supervisor saw the first component end.
Stopping == cancelled \/ first # "none"

\* Every component action needs a running attempt.
Running == task = "run"

NoFault == faults' = faults
Fault == faults < MaxFaults /\ faults' = faults + 1

-----------------------------------------------------------------------------
(* reader_loop *)

\* The entries commit_through acknowledges for CommittedThrough(c).
AckedEntries(c) == {e \in ledger : e.id <= c}
AckedMarkers(c) == {e.marker : e \in {f \in AckedEntries(c) : f.marker # 0}}

\* commit_through: the outstanding range check.
LedgerCovers(c) == (\E e \in ledger : e.id <= c) /\ (\E e \in ledger : c <= e.id)

\* validate_commit_through: the row counter knows delivery c.
RowsObserved(c) == Finite => c \in observed

\* Source::commit_offsets: all markers of the group in one operation.
CommitOffsets(c) ==
    IF AckedMarkers(c) = {} THEN srcCommitted' = srcCommitted
    ELSE \E m \in AckedMarkers(c) :
            /\ \A n \in AckedMarkers(c) : n <= m
            /\ srcCommitted' = m

\* Slip: the commit counts every parsed delivery, also those beyond c.
CommitRowsAll(c) ==
    IF Finite
    THEN counted' = counted \cup {base + i : i \in observed} /\ observed' = {}
    ELSE UNCHANGED rowVars

\* OutputRowCounts::commit_through, only while rows are counted.
CommitRows(c) ==
    IF Finite
    THEN /\ counted' = counted \cup {base + i : i \in {j \in observed : j <= c}}
         /\ observed' = {j \in observed : j > c}
    ELSE UNCHANGED rowVars

\* The reader takes one event.  `next` is where it continues after a
\* successful commit.
ReaderCommits(next) ==
    /\ eventCh # <<>>
    /\ eventCh' = Tail(eventCh)
    /\ LET c == Head(eventCh) IN
       \/ /\ ~LedgerCovers(c)
          /\ reader' = "fatal"
          /\ UNCHANGED <<srcCommitted, rowVars, ledger, faults>>
       \/ /\ LedgerCovers(c) /\ ~RowsObserved(c)
          /\ reader' = "retryable"
          /\ UNCHANGED <<srcCommitted, rowVars, ledger, faults>>
       \/ /\ LedgerCovers(c) /\ RowsObserved(c)
          /\ CommitOffsets(c)
          /\ CommitRows(c)
          /\ ledger' = ledger \ AckedEntries(c)
          /\ reader' = next
          /\ NoFault
       \* commit_offsets failed.  At a remote stream it may still have taken
       \* effect; the finite sources acknowledge in memory or not at all.
       \/ /\ LedgerCovers(c) /\ RowsObserved(c)
          /\ AckedMarkers(c) # {}
          /\ Fault
          /\ srcCommitted' = srcCommitted \/ (~Finite /\ CommitOffsets(c))
          /\ reader' \in {"retryable", "fatal"}
          /\ UNCHANGED <<rowVars, ledger>>
    /\ UNCHANGED <<durable, completed, drained, task, cancelled, base, batch,
                   nextId, readCh, parserVars, deliveryCh, sinkVars, first>>

\* The sink dropped its event sender and nothing is left to receive.
EventsClosed == Ended(sink) /\ eventCh = <<>>

ReaderMoves(to) ==
    /\ reader' = to
    /\ UNCHANGED <<worldVars, completed, task, cancelled, base, ledger, nextId,
                   parserVars, rowVars, sinkVars, deliveryCh, eventCh, first>>

\* read_batch returned a batch: empty and without a marker (an idle poll),
\* the next one of the log, or Finished.
ReadIdle ==
    /\ Running /\ reader = "read"
    /\ batch' = "idle"
    /\ ReaderMoves("drain")
    /\ UNCHANGED <<drained, faults, readCh>>

\* Slip: the source never reports its end.
ReadNextForever ==
    /\ Running /\ reader = "read"
    /\ batch' = "data"
    /\ ReaderMoves("drain")
    /\ UNCHANGED <<drained, faults, readCh>>

ReadNext ==
    /\ Running /\ reader = "read"
    /\ IF base + nextId \in Positions THEN batch' = "data"
       ELSE Finite /\ batch' = "finished"
    /\ ReaderMoves("drain")
    /\ UNCHANGED <<drained, faults, readCh>>

ReadFails ==
    /\ Running /\ reader = "read"
    /\ Fault
    /\ \E out \in Failures : ReaderMoves(out)
    /\ UNCHANGED <<drained, batch, readCh>>

\* Slip: an idle reader does not look at the token.
ReaderCancelsWhenBusy ==
    /\ Running /\ Stopping
    /\ reader \in {"reserve", "send", "finish"}
    /\ ~(reader = "finish" /\ ledger = {})
    /\ ReaderMoves("ok")
    /\ UNCHANGED <<drained, faults, batch, readCh>>

\* The select! arms on cancellation.  In "drain" the reader does not look.
ReaderCancels ==
    /\ Running /\ Stopping
    /\ reader \in {"read", "idle", "reserve", "send", "finish"}
    /\ ~(reader = "finish" /\ ledger = {})
    /\ ReaderMoves("ok")
    /\ UNCHANGED <<drained, faults, batch, readCh>>

\* The try_recv loop after a read.
DrainEvent == Running /\ reader = "drain" /\ ReaderCommits("drain")

\* ... and what the batch leads to once the event channel is empty.
DrainEnds ==
    /\ Running /\ reader = "drain" /\ eventCh = <<>>
    /\ ReaderMoves(CASE batch = "idle" -> "idle"
                     [] batch = "data" -> "reserve"
                     [] batch = "finished" -> "finish")
    /\ UNCHANGED <<drained, faults, batch, readCh>>

\* Idle poll: wait for an event (a closed channel is ignored) or the backoff.
IdleEvent == Running /\ reader = "idle" /\ ReaderCommits("read")

IdleEnds ==
    /\ Running /\ reader = "idle"
    /\ ReaderMoves("read")
    /\ UNCHANGED <<drained, faults, batch, readCh>>

\* reserve_source_memory_with_events, and the ledger entry of the delivery.
\* Some sources reserve inside read_batch, so the reservation may come at once.
ReserveEvent == Running /\ reader = "reserve" /\ ReaderCommits("reserve")

Reserved ==
    /\ Running /\ reader = "reserve"
    /\ ledger' = ledger \cup
         {[id |-> nextId,
           marker |-> IF base + nextId \in Marked THEN base + nextId ELSE 0]}
    /\ nextId' = nextId + 1
    /\ reader' = "send"
    /\ UNCHANGED <<worldVars, taskVars, base, batch, parserVars, rowVars,
                   sinkVars, channelVars, first>>

\* The pending envelope: send it, or serve events while the channel is full.
SendEvent == Running /\ reader = "send" /\ ReaderCommits("send")

SendRead ==
    /\ Running /\ reader = "send"
    /\ ~Ended(parser) /\ Len(readCh) < Capacity
    /\ readCh' = Append(readCh, nextId - 1)
    /\ ReaderMoves("read")
    /\ UNCHANGED <<drained, faults, batch>>

\* Finished: parser input is closed, the ledger drains.
FinishEvent ==
    /\ Running /\ reader = "finish" /\ ledger # {} /\ ReaderCommits("finish")

\* Slip: EOF is reported without waiting for the ledger.
FinishAtOnce ==
    /\ Running /\ reader = "finish"
    /\ drained' = TRUE
    /\ ReaderMoves("ok")
    /\ UNCHANGED <<faults, batch, readCh>>

FinishDrained ==
    /\ Running /\ reader = "finish" /\ ledger = {}
    /\ drained' = TRUE
    /\ ReaderMoves("ok")
    /\ UNCHANGED <<faults, batch, readCh>>

\* A closed channel where the reader needs it open.
ReaderChannelClosed ==
    /\ Running
    /\ \/ reader = "reserve" /\ EventsClosed
       \/ reader = "send" /\ (EventsClosed \/ Ended(parser))
       \/ reader = "finish" /\ ledger # {} /\ EventsClosed
    /\ ReaderMoves("retryable")
    /\ UNCHANGED <<drained, faults, batch, readCh>>

ReaderStep ==
    \/ DrainEvent \/ DrainEnds \/ IdleEvent \/ IdleEnds \/ ReserveEvent
    \/ Reserved \/ SendEvent \/ SendRead \/ FinishEvent \/ FinishDrained
    \/ ReaderChannelClosed

-----------------------------------------------------------------------------
(* parser_loop *)

\* Slip: the parser input stays open while the ledger drains.
ReadClosedLate == Ended(reader)

\* The sender of readCh is dropped at EOF and when the reader ends.
ReadClosed == reader = "finish" \/ Ended(reader)

ParserUnchanged ==
    UNCHANGED <<worldVars, completed, drained, task, cancelled, base,
                readerVars, counted, sinkVars, eventCh, first>>

ParserRecv ==
    /\ Running /\ parser = "recv" /\ readCh # <<>> /\ ~Stopping
    /\ held' = Head(readCh)
    /\ readCh' = Tail(readCh)
    /\ parser' = "parse"
    /\ UNCHANGED <<faults, observed, deliveryCh>>
    /\ ParserUnchanged

\* Slip: a delivery without outputs is not observed.
ParserParsesIfOutput ==
    /\ Running /\ parser = "parse"
    /\ parser' = "send"
    /\ observed' = IF Finite /\ Outputs[base + held] # {} THEN observed \cup {held}
                                                           ELSE observed
    /\ UNCHANGED <<faults, held, readCh, deliveryCh>>
    /\ ParserUnchanged

\* Parse, run the middlewares, and observe the outputs before sending them.
\* observe_delivery rejects an id it already holds.
ParserParses ==
    /\ Running /\ parser = "parse"
    /\ IF Finite /\ held \in observed
       THEN parser' = "fatal" /\ observed' = observed
       ELSE parser' = "send" /\ observed' = IF Finite THEN observed \cup {held}
                                                      ELSE observed
    /\ UNCHANGED <<faults, held, readCh, deliveryCh>>
    /\ ParserUnchanged

\* A parse or middleware error is fatal; a lost blocking task is not.
ParserFails ==
    /\ Running /\ parser = "parse"
    /\ Fault
    /\ parser' \in {"fatal", "panic"}
    /\ UNCHANGED <<held, observed, readCh, deliveryCh>>
    /\ ParserUnchanged

\* DeliveryOutput::send is not raced against cancellation.
ParserSend ==
    /\ Running /\ parser = "send"
    /\ ~Ended(sink) /\ Len(deliveryCh) < Capacity
    /\ deliveryCh' = Append(deliveryCh, held)
    /\ held' = 0
    /\ parser' = "recv"
    /\ UNCHANGED <<faults, observed, readCh>>
    /\ ParserUnchanged

\* Every other way the parser returns: Ok(()).
ParserReturns ==
    /\ Running
    /\ \/ parser = "recv" /\ readCh = <<>> /\ ReadClosed
       \/ parser \in {"recv", "parse"} /\ Stopping
       \/ parser = "send" /\ Ended(sink)
    /\ parser' = "ok"
    /\ UNCHANGED <<faults, held, observed, readCh, deliveryCh>>
    /\ ParserUnchanged

ParserStep == ParserRecv \/ ParserParses \/ ParserSend \/ ParserReturns

-----------------------------------------------------------------------------
(* The sink: a tracking actor that writes outputs concurrently. *)

SinkUnchanged ==
    UNCHANGED <<srcCommitted, completed, drained, task, cancelled, base,
                readerVars, parserVars, rowVars, readCh, first>>

\* Every turn of the actor ends with emit_committed.
EmitCommitted(t) ==
    IF CommittedIds(t) = {} THEN tracker' = t /\ sinkEvent' = 0
    ELSE \E c \in CommittedIds(t) :
            /\ IsThrough(t, c)
            /\ tracker' = TakeCommitted(t, c)
            /\ sinkEvent' = c

SinkAccepts ==
    /\ Running /\ sink = "run" /\ sinkEvent = 0 /\ deliveryCh # <<>>
    /\ deliveryCh' = Tail(deliveryCh)
    /\ LET id == Head(deliveryCh) IN
       IF InOrder(tracker, id)
       THEN /\ EmitCommitted(Accept(tracker, id, Cardinality(Outputs[base + id])))
            /\ buffer' = buffer \cup ({id} \X Outputs[base + id])
            /\ sink' = sink
       ELSE /\ sink' = "retryable"
            /\ UNCHANGED <<tracker, buffer, sinkEvent>>
    /\ UNCHANGED <<durable, faults, written, eventCh>>
    /\ SinkUnchanged

\* The destination makes one output durable; the actor has not seen it yet.
\* Buffers are flushed when they are full and when the input is closed.
SinkWrites ==
    /\ Running /\ sink = "run"
    /\ Cardinality(buffer) >= FlushSize \/ (deliveryCh = <<>> /\ Ended(parser))
    /\ \E w \in buffer :
          /\ durable' = durable \cup {<<base + w[1], w[2]>>}
          /\ buffer' = buffer \ {w}
          /\ written' = written \cup {w}
    /\ UNCHANGED <<faults, sink, tracker, sinkEvent, deliveryCh, eventCh>>
    /\ SinkUnchanged

SinkCompletes ==
    /\ Running /\ sink = "run" /\ sinkEvent = 0
    /\ \E w \in written :
          /\ written' = written \ {w}
          /\ IF Completable(tracker, w[1], 1)
             THEN EmitCommitted(Complete(tracker, w[1], 1)) /\ sink' = sink
             ELSE sink' = "retryable" /\ UNCHANGED <<tracker, sinkEvent>>
    /\ UNCHANGED <<durable, faults, buffer, deliveryCh, eventCh>>
    /\ SinkUnchanged

\* Slip: an event is dropped when the channel is full.
SinkTriesEvent ==
    /\ Running /\ sink = "run" /\ sinkEvent # 0
    /\ eventCh' = IF Len(eventCh) < Capacity THEN Append(eventCh, sinkEvent) ELSE eventCh
    /\ sinkEvent' = 0
    /\ UNCHANGED <<durable, faults, sink, tracker, buffer, written, deliveryCh>>
    /\ SinkUnchanged

\* events.send is not raced against cancellation either.
SinkSendsEvent ==
    /\ Running /\ sink = "run" /\ sinkEvent # 0
    /\ IF Ended(reader)
       THEN sink' = "retryable" /\ UNCHANGED <<eventCh, sinkEvent>>
       ELSE /\ Len(eventCh) < Capacity
            /\ eventCh' = Append(eventCh, sinkEvent)
            /\ sinkEvent' = 0
            /\ sink' = sink
    /\ UNCHANGED <<durable, faults, tracker, buffer, written, deliveryCh>>
    /\ SinkUnchanged

SinkFails ==
    /\ Running /\ sink = "run" /\ sinkEvent = 0
    /\ Fault
    /\ sink' \in Failures
    /\ UNCHANGED <<durable, tracker, buffer, written, sinkEvent, deliveryCh, eventCh>>
    /\ SinkUnchanged

\* Cancellation, or input closed and everything written.
SinkReturns ==
    /\ Running /\ sink = "run" /\ sinkEvent = 0
    /\ \/ Stopping /\ sink' = "ok"
       \/ /\ deliveryCh = <<>> /\ Ended(parser)
          /\ buffer = {} /\ written = {}
          /\ sink' = IF IsEmpty(tracker) THEN "ok" ELSE "retryable"
    /\ UNCHANGED <<durable, faults, tracker, buffer, written, sinkEvent, deliveryCh, eventCh>>
    /\ SinkUnchanged

SinkStep == SinkAccepts \/ SinkCompletes \/ SinkSendsEvent \/ SinkReturns

-----------------------------------------------------------------------------
(* run_partition_pipeline: the supervisor, and run_partition_task *)

\* The biased select! that waits for the first component.
Supervise ==
    /\ Running /\ first = "none"
    /\ \/ cancelled /\ first' = "external"
       \/ ~cancelled /\ Ended(reader) /\ first' = "reader"
       \/ ~cancelled /\ ~Ended(reader) /\ sink \in Failures /\ first' = "sink"
       \/ /\ ~cancelled /\ ~Ended(reader) /\ sink \notin Failures
          /\ parser \in Failures /\ first' = "parser"
    /\ UNCHANGED <<worldVars, taskVars, base, readerVars, parserVars, rowVars,
                   sinkVars, channelVars>>

\* What run_partition_pipeline returns: under external cancellation only an
\* infrastructure failure, otherwise prefer_component_failure.
AttemptResult ==
    LET outs == {reader, sink, parser} IN
    CASE first = "external" -> IF "panic" \in outs THEN "retryable" ELSE "ok"
      [] first # "external" /\ "fatal" \in outs -> "fatal"
      [] first # "external" /\ "fatal" \notin outs ->
            IF outs \cap Failures # {} THEN "retryable" ELSE "ok"

\* classify_partition_completion and the returns that follow it.
Classify(result) ==
    CASE result = "ok" /\ (cancelled \/ Finite) ->
            IF drained THEN (IF Finite THEN "drained" ELSE "failed")
            ELSE IF cancelled THEN "cancelled" ELSE "undrained"
      [] result = "ok" /\ ~(cancelled \/ Finite) -> "backoff"
      [] result = "fatal" -> "failed"
      [] result = "retryable" -> "backoff"

\* A fresh attempt: new channels, new actors, new row counts.
FreshAttempt ==
    /\ reader' = "read" /\ batch' = "idle" /\ ledger' = {} /\ nextId' = 1
    /\ readCh' = <<>> /\ deliveryCh' = <<>> /\ eventCh' = <<>>
    /\ parser' = "recv" /\ held' = 0
    /\ observed' = {} /\ counted' = {}
    /\ sink' = "run" /\ tracker' = NewTracker
    /\ buffer' = {} /\ written' = {} /\ sinkEvent' = 0
    /\ first' = "none"

\* OutputRowCounts::merge of the attempt's committed totals.
MergedRows == [p \in Positions |-> IF p \in counted THEN completed[p] + 1
                                                    ELSE completed[p]]

\* All three tasks joined: merge the row counts, decide what follows.
AttemptEnds ==
    /\ Running /\ first # "none"
    /\ Ended(reader) /\ Ended(sink) /\ Ended(parser)
    /\ completed' = MergedRows
    /\ task' = Classify(AttemptResult)
    /\ FreshAttempt
    /\ UNCHANGED <<worldVars, drained, cancelled, faults, base>>

\* Slip: a restarted stream forgets its committed position.
AttemptStartsOver ==
    /\ task = "start" /\ ~cancelled
    /\ task' = "run"
    /\ base' = 0
    /\ UNCHANGED <<worldVars, completed, drained, cancelled, faults, readerVars,
                   parserVars, rowVars, sinkVars, channelVars, first>>

\* The head of the loop: build the source and the sink, or give up.
AttemptStarts ==
    /\ task = "start" /\ ~cancelled
    /\ task' = "run"
    /\ base' = IF Resumable THEN srcCommitted ELSE 0
    /\ UNCHANGED <<worldVars, completed, drained, cancelled, faults, readerVars,
                   parserVars, rowVars, sinkVars, channelVars, first>>

BuildFails ==
    /\ task = "start" /\ ~cancelled
    /\ Fault
    /\ task' \in {"backoff", "failed"}
    /\ UNCHANGED <<worldVars, completed, drained, cancelled, base, readerVars,
                   parserVars, rowVars, sinkVars, channelVars, first>>

\* The restart delay ends, or cancellation ends the task.
BackoffEnds ==
    /\ task \in {"backoff", "start"}
    /\ IF cancelled THEN task' = "cancelled"
                    ELSE task = "backoff" /\ task' = "start"
    /\ UNCHANGED <<worldVars, completed, drained, cancelled, faults, base, readerVars,
                   parserVars, rowVars, sinkVars, channelVars, first>>

TaskStep == Supervise \/ AttemptEnds \/ AttemptStarts \/ BackoffEnds

Cancel ==
    /\ task \notin Terminal /\ ~cancelled
    /\ cancelled' = TRUE
    /\ UNCHANGED <<worldVars, completed, drained, task, faults, base, readerVars,
                   parserVars, rowVars, sinkVars, channelVars, first>>

\* The worker process dies and a new one runs the partition again.
Crash ==
    /\ task \notin Terminal
    /\ Fault
    /\ task' = "start" /\ cancelled' = FALSE /\ drained' = FALSE
    /\ completed' = [p \in Positions |-> 0]
    /\ srcCommitted' = IF Finite THEN 0 ELSE srcCommitted
    /\ FreshAttempt
    /\ UNCHANGED <<durable, base>>

\* The task has returned.
Returned == task \in Terminal /\ UNCHANGED vars

-----------------------------------------------------------------------------
Init ==
    /\ srcCommitted = 0 /\ durable = {}
    /\ completed = [p \in Positions |-> 0] /\ drained = FALSE
    /\ task = "start" /\ cancelled = FALSE /\ faults = 0
    /\ base = 0
    /\ reader = "read" /\ batch = "idle" /\ ledger = {} /\ nextId = 1
    /\ readCh = <<>> /\ deliveryCh = <<>> /\ eventCh = <<>>
    /\ parser = "recv" /\ held = 0
    /\ observed = {} /\ counted = {}
    /\ sink = "run" /\ tracker = NewTracker
    /\ buffer = {} /\ written = {} /\ sinkEvent = 0
    /\ first = "none"

Next ==
    \/ ReadIdle \/ ReadNext \/ ReadFails \/ ReaderCancels \/ ReaderStep
    \/ ParserStep \/ ParserFails
    \/ SinkStep \/ SinkWrites \/ SinkFails
    \/ TaskStep \/ BuildFails \/ Cancel \/ Crash \/ Returned

\* The actors are Tokio tasks, so each one that can take a step takes it.
\* read_batch always returns, be it with an idle poll, and it returns the data
\* there is eventually; select! eventually picks a ready cancellation.
Fairness ==
    /\ WF_vars(ReaderStep) /\ WF_vars(ParserStep) /\ WF_vars(SinkStep)
    /\ WF_vars(SinkWrites) /\ WF_vars(TaskStep)
    /\ WF_vars(ReadIdle \/ ReadNext)
    /\ SF_vars(ReadNext) /\ SF_vars(ReaderCancels)

Spec == Init /\ [][Next]_vars
FairSpec == Spec /\ Fairness

-----------------------------------------------------------------------------
ReaderPcs == {"read", "drain", "idle", "reserve", "send", "finish"}

\* The ids an attempt can use, and every output there is.
Ids == 1..NumBatches
AllOutputs == UNION {Outputs[p] : p \in Positions}

TaskTypes ==
    /\ srcCommitted \in 0..NumBatches /\ base \in 0..NumBatches
    /\ durable \subseteq Positions \X AllOutputs
    /\ completed \in [Positions -> Nat] /\ drained \in BOOLEAN
    /\ task \in {"start", "run", "backoff"} \cup Terminal
    /\ cancelled \in BOOLEAN /\ faults \in 0..MaxFaults
    /\ first \in {"none", "external", "reader", "sink", "parser"}
ReaderTypes ==
    /\ reader \in ReaderPcs \cup Outcomes
    /\ batch \in {"idle", "data", "finished"}
    /\ ledger \subseteq [id : Ids, marker : 0..NumBatches]
    /\ nextId \in 1..(NumBatches + 1)
    /\ observed \subseteq Ids /\ counted \subseteq Positions
ParserTypes ==
    /\ parser \in {"recv", "parse", "send"} \cup Outcomes
    /\ held \in 0..NumBatches
    /\ readCh \in Seq(Ids) /\ deliveryCh \in Seq(Ids) /\ eventCh \in Seq(Ids)
SinkTypes ==
    /\ sink \in {"run"} \cup Outcomes
    /\ TrackerOK(tracker) /\ tracker.next_received <= NumBatches + 1
    /\ buffer \subseteq Ids \X AllOutputs /\ written \subseteq Ids \X AllOutputs
    /\ sinkEvent \in 0..NumBatches

\* Types of the state; ids and positions stay inside the log.
TypeOK == TaskTypes /\ ReaderTypes /\ ParserTypes /\ SinkTypes

Durable(p) == \A u \in Outputs[p] : <<p, u>> \in durable

\* At-least-once delivery: commit_through acknowledges a source position only
\* when every output of that batch and of all earlier batches is durable at
\* the destination, across failures, restarts and crashes.
CommittedIsDurable == \A p \in 1..srcCommitted : Durable(p)

\* A task that reports FiniteSourceDrained has lost nothing: every output of
\* every batch is durable and every marker was committed.
DrainedIsComplete ==
    task = "drained" => /\ \A p \in Positions : Durable(p)
                        /\ \A p \in Marked : p <= srcCommitted

\* The comment of OutputRowCounts: "retries neither lose nor double-count
\* rows".  At every moment the totals (merged and of the running attempt)
\* contain exactly the batches the source considers committed, once each.
\* (For a source that resumes and puts a marker on every batch: a batch without
\* one is counted when its delivery is acknowledged, and read again.)
RowCountsExact ==
    \A p \in Positions : MergedRows[p] = IF p <= srcCommitted THEN 1 ELSE 0

\* The same comment for a source that cannot resume: one whose commit_offsets
\* stores nothing, like the S3 object reader, and so starts over in every
\* attempt.  No batch is counted twice.
NoDoubleCount == \A p \in Positions : MergedRows[p] <= 1

\* The integrity checks between the actors never fire: a commit event is
\* known to the ledger and to the row counter, deliveries reach the tracker in
\* order, completions do not underflow it, a closed input leaves it empty.
NoIntegrityFailure ==
    /\ eventCh # <<>> /\ ~Ended(reader) =>
          LedgerCovers(Head(eventCh)) /\ RowsObserved(Head(eventCh))
    /\ deliveryCh # <<>> => InOrder(tracker, Head(deliveryCh))
    /\ \A w \in written : Completable(tracker, w[1], 1)
    /\ (/\ deliveryCh = <<>> /\ Ended(parser)
        /\ buffer = {} /\ written = {} /\ sinkEvent = 0) => IsEmpty(tracker)
    /\ task # "undrained"

\* The committed position of a stream never moves backwards, although every
\* restart replays what was read beyond it.
CommitsAdvance == [][srcCommitted <= srcCommitted']_srcCommitted

\* The partition implements its promise: read as steps on the source position,
\* the destination and the reported end alone, every step is one of
\* AtLeastOnce or changes nothing.
Abstract == INSTANCE AtLeastOnce WITH finished <- (task = "drained")
ImplementsAtLeastOnce == Abstract!Promise

\* A finite task always returns: nothing waits for ever, whatever fails.
Termination == <>(task \in Terminal)

\* Cancelling the task always ends it (unless the process crashes first).
CancelStops == cancelled ~> (~cancelled \/ task \in Terminal)

\* A stream that is neither cancelled nor failed commits every batch.
StreamCommits ==
    <>(task \in Terminal \/ \A p \in Marked : p <= srcCommitted)
=============================================================================
