----------------------------- MODULE SnapshotQueue -----------------------------
(* The snapshot of one Postgres table by several lanes                           *)
(* (connector-postgres/src_batch/queue.rs and reader.rs).                        *)
(*                                                                               *)
(* Every lane is a partition of the delivery: a source that claims tasks from    *)
(* the shared queue, runs one COPY per task, hands the rows to its own pipeline  *)
(* and receives the markers back, in order, once the destination holds them.  A  *)
(* lane that fails is restarted by the partition supervisor as a new attempt.    *)
(* COPY has no order, so a task whose rows were published cannot be read again:  *)
(* closing an attempt with such work interrupts the whole epoch.                 *)
(*                                                                               *)
(* queue  = the mutex-protected QueueState, or its value before the plan is made *)
(* reader = the sources, one per lane: their stage, and the rows of the task in  *)
(*          hand that this attempt has read                                      *)
(* copies = how many times each row has reached the destination                  *)
EXTENDS SnapshotPlan, TLC

CONSTANTS
  Rows,        \* row |-> [page, rank, hash]
  FactSets,    \* the catalog facts a table may have
  MaxParts,    \* the configured ceiling on leaf tasks
  UsefulLanes, \* the lanes whose setup costs as much as one scan
  MaxFailures  \* bound on failing lane attempts

VARIABLES plan, queue, reader, emitted, copies, failures, outcome
queueVars == <<plan, queue, reader, emitted, copies, failures, outcome>>

NoTask == 0
Lanes == DOMAIN queue.lanes

Task(chunk) == [chunk |-> chunk, state |-> "pending", owner |-> NoTask, published |-> FALSE]

NewLane == [active |-> FALSE, outstanding |-> <<>>, task |-> NoTask, unfinished |-> {}]

Reader(stage) == [stage |-> stage, read |-> {}]

NoQueue == [tasks |-> <<>>, pending |-> <<>>, lanes |-> <<>>, leaves |-> 0, interrupted |-> FALSE]

QueueInit ==
  /\ plan \in [stage : {"facts"}, facts : FactSets]
  /\ queue = NoQueue
  /\ reader = <<>>
  /\ emitted = [r \in DOMAIN Rows |-> 0]
  /\ copies = [r \in DOMAIN Rows |-> 0]
  /\ failures = 0
  /\ outcome = "running"

---------------------------------------------------------------------------------
(* prepare: decide once; if the index won with several lanes, collect its typed  *)
(* cuts (there may turn out to be fewer, or none) and decide again.              *)
Prepared(facts) ==
  UNION {IF d.strategy = "indexed" /\ d.lanes > 1
           THEN UNION {{<<[facts EXCEPT !.cuts = cuts], e>> :
                          e \in Decisions([facts EXCEPT !.cuts = cuts], MaxParts, UsefulLanes)} :
                         cuts \in {0} \cup 2 .. facts.cuts}
           ELSE {<<facts, d>>} :
         d \in Decisions(facts, MaxParts, UsefulLanes)}

(* SnapshotQueue::new over the planned chunks; a cover it refuses ends the epoch.*)
NewQueue ==
  /\ plan.stage = "facts"
  /\ \E p \in Prepared(plan.facts) : \E chunks \in {Chunks(p[1], p[2])} :
       /\ plan' = [stage |-> "queued"]
       /\ IF ValidInitialCover(chunks)
            THEN /\ queue' = [tasks |-> [i \in 1 .. Len(chunks) |-> Task(chunks[i])],
                              pending |-> [i \in 1 .. Len(chunks) |-> i],
                              lanes |-> [l \in 1 .. p[2].lanes |-> NewLane],
                              leaves |-> Len(chunks), interrupted |-> FALSE]
                 /\ reader' = [l \in 1 .. p[2].lanes |-> Reader("closed")]
                 /\ UNCHANGED outcome
            ELSE outcome' = "refused" /\ UNCHANGED <<queue, reader>>
  /\ UNCHANGED <<emitted, copies, failures>>

Running == plan.stage = "queued" /\ outcome = "running" /\ ~queue.interrupted

(* open_lane, at the start of every attempt.                                     *)
OpenLane(l) ==
  /\ Running /\ reader[l].stage = "closed" /\ ~queue.lanes[l].active
  /\ queue' = [queue EXCEPT !.lanes[l].active = TRUE]
  /\ reader' = [reader EXCEPT ![l] = Reader("open")]
  /\ UNCHANGED <<plan, emitted, copies, failures, outcome>>

(* claim: the front of the pending tasks; with none left the lane is at its end. *)
Claim(l) ==
  /\ Running /\ reader[l].stage = "open"
  /\ IF queue.pending = <<>>
       THEN reader' = [reader EXCEPT ![l] = Reader("eof")] /\ UNCHANGED queue
       ELSE LET id == Head(queue.pending)
            IN /\ reader' = [reader EXCEPT ![l] = Reader("reading")]
               /\ queue' = [queue EXCEPT !.pending = Tail(@),
                              !.tasks[id].state = "owned", !.tasks[id].owner = l,
                              !.lanes[l].task = id,
                              !.lanes[l].unfinished = @ \cup {id}]
  /\ UNCHANGED <<plan, emitted, copies, failures, outcome>>

(* The rows that the COPY of the lane's task has still to yield.                 *)
Unread(l) ==
  {r \in DOMAIN Rows : Selects(queue.tasks[queue.lanes[l].task].chunk, Rows[r])} \ reader[l].read

(* read_next with rows in hand: emit_rows publishes them under a new marker.     *)
EmitRows(l) ==
  /\ Running /\ reader[l].stage = "reading"
  /\ \E r \in Unread(l) :
       /\ queue' = [queue EXCEPT !.tasks[queue.lanes[l].task].published = TRUE,
                      !.lanes[l].outstanding =
                         Append(@, [task |-> queue.lanes[l].task, row |-> r, written |-> FALSE])]
       /\ emitted' = [emitted EXCEPT ![r] = @ + 1]
       /\ reader' = [reader EXCEPT ![l].read = @ \cup {r}]
  /\ UNCHANGED <<plan, copies, failures, outcome>>

(* adapt_pending: while fewer tasks wait than there are lanes and the ceiling    *)
(* allows another leaf, the largest waiting range is split.                      *)
Splittable(q) ==
  {i \in 1 .. Len(q.pending) :
     /\ \A j \in 1 .. Len(q.pending) :
          LET span(k) == PageSpan(q.tasks[q.pending[k]].chunk)
          IN span(j) < span(i) \/ (span(j) = span(i) /\ j <= i)
     /\ PageSpan(q.tasks[q.pending[i]].chunk) >= 2
     /\ Len(q.pending) < Len(q.lanes)
     /\ q.leaves < MaxParts}

(* A slip: the parent of a split stays in the queue beside its halves.           *)
AdaptedKeepingParent(q, i) ==
  LET n == Len(q.tasks)
  IN [q EXCEPT !.tasks = @ \o [h \in 1 .. 2 |-> Task(SplitPending(q.tasks[q.pending[i]].chunk)[h])],
               !.pending = @ \o <<n + 1, n + 2>>,
               !.leaves = @ + 1]

Adapted(q, i) ==
  LET id == q.pending[i]
      n  == Len(q.tasks)
  IN [q EXCEPT !.tasks = [@ EXCEPT ![id].state = "retired"]
                           \o [h \in 1 .. 2 |-> Task(SplitPending(q.tasks[id].chunk)[h])],
               !.pending = RemoveAt(@, i) \o <<n + 1, n + 2>>,
               !.leaves = @ + 1]

(* finish_task at the end of the COPY: finish_read publishes the end marker, and *)
(* the measured duration may make a split worth its query.                       *)
FinishRead(l) ==
  /\ Running /\ reader[l].stage = "reading" /\ Unread(l) = {}
  /\ LET id   == queue.lanes[l].task
         done == [queue EXCEPT !.tasks[id].state = "read", !.tasks[id].published = TRUE,
                    !.lanes[l].task = NoTask,
                    !.lanes[l].outstanding = Append(@, [task |-> id, row |-> 0, written |-> FALSE])]
     IN \/ queue' = done
        \/ /\ PageSpan(queue.tasks[id].chunk) > 0
           /\ \E i \in Splittable(done) : queue' = Adapted(done, i)
  /\ reader' = [reader EXCEPT ![l] = Reader("open")]
  /\ UNCHANGED <<plan, emitted, copies, failures, outcome>>

(* The lane's pipeline writes its oldest unwritten batch; an end marker carries  *)
(* no rows.                                                                      *)
PipelineWrites(l) ==
  /\ Running
  /\ \E i \in DOMAIN queue.lanes[l].outstanding :
       LET record == queue.lanes[l].outstanding[i]
       IN /\ ~record.written
          /\ \A j \in 1 .. (i - 1) : queue.lanes[l].outstanding[j].written
          /\ queue' = [queue EXCEPT !.lanes[l].outstanding[i].written = TRUE]
          /\ copies' = IF record.row = 0 THEN copies ELSE [copies EXCEPT ![record.row] = @ + 1]
  /\ UNCHANGED <<plan, reader, emitted, failures, outcome>>

(* commit_offsets: acknowledge the written prefix of the outstanding markers;    *)
(* end markers complete their tasks.                                             *)
Acknowledge(l) ==
  /\ Running /\ queue.lanes[l].active
  /\ LET written == SelectSeq(queue.lanes[l].outstanding, LAMBDA record : record.written)
         ended   == {record.task : record \in {m \in ToSet(written) : m.row = 0}}
     IN /\ written /= <<>>
        /\ queue' = [queue EXCEPT
              !.lanes[l].outstanding = SelectSeq(@, LAMBDA record : ~record.written),
              !.lanes[l].unfinished = @ \ ended,
              !.tasks = [id \in DOMAIN @ |-> IF id \in ended
                                               THEN [@[id] EXCEPT !.state = "durable"]
                                               ELSE @[id]]]
  /\ UNCHANGED <<plan, reader, emitted, copies, failures, outcome>>

(* A slip: a task that was read to its end counts as done when its lane closes.  *)
ClosedTrustingReads(l) ==
  LET unfinished == queue.lanes[l].unfinished
      returned   == {id \in unfinished : ~queue.tasks[id].published}
  IN [queue EXCEPT !.pending = @ \o SetToSortSeq(returned, <),
        !.tasks = [id \in DOMAIN @ |-> IF id \in returned
                                         THEN [@[id] EXCEPT !.state = "pending", !.owner = NoTask]
                                         ELSE @[id]],
        !.lanes[l] = NewLane,
        !.interrupted = \E id \in unfinished \ returned : queue.tasks[id].state = "owned"]

(* close: unpublished work goes back to the queue, published work interrupts.    *)
(* The markers still outstanding are not cleared.                                *)
Closed(l) ==
  LET unfinished == queue.lanes[l].unfinished
      returned   == {id \in unfinished : ~queue.tasks[id].published}
  IN [queue EXCEPT !.pending = @ \o SetToSortSeq(returned, <),
        !.tasks = [id \in DOMAIN @ |-> IF id \in returned
                                         THEN [@[id] EXCEPT !.state = "pending", !.owner = NoTask]
                                         ELSE @[id]],
        !.lanes[l] = [active |-> FALSE, task |-> NoTask, outstanding |-> @.outstanding,
                      unfinished |-> IF returned = unfinished THEN {} ELSE @.unfinished],
        !.interrupted = (returned /= unfinished)]

(* A request or the lane's pipeline fails and the attempt is shut down.  Unless  *)
(* the failure is fatal, which ends the delivery, the lane will be reopened.     *)
LaneFails(l) ==
  /\ Running /\ queue.lanes[l].active /\ failures < MaxFailures
  /\ failures' = failures + 1
  /\ queue' = Closed(l)
  /\ reader' = [reader EXCEPT ![l] = Reader("closed")]
  /\ outcome' \in {"running", "aborted"}
  /\ UNCHANGED <<plan, emitted, copies>>

(* The end of the lane's input: the pipeline drains, then shuts the source down. *)
LaneFinishes(l) ==
  /\ Running /\ reader[l].stage = "eof" /\ queue.lanes[l].outstanding = <<>>
  /\ queue' = Closed(l)
  /\ reader' = [reader EXCEPT ![l] = Reader("finished")]
  /\ UNCHANGED <<plan, emitted, copies, failures, outcome>>

(* ensure_complete, when every partition of the phase has drained.               *)
EnsureComplete ==
  /\ Running /\ \A l \in Lanes : reader[l].stage = "finished"
  /\ outcome' = IF /\ \A id \in DOMAIN queue.tasks : queue.tasks[id].state \in {"durable", "retired"}
                   /\ \A l \in Lanes : queue.lanes[l].outstanding = <<>>
                  THEN "complete" ELSE "failed"
  /\ UNCHANGED <<plan, queue, reader, emitted, copies, failures>>

(* Every later use of the queue fails once the epoch is interrupted.             *)
Interrupted ==
  /\ outcome = "running" /\ queue.interrupted
  /\ outcome' = "interrupted"
  /\ UNCHANGED <<plan, queue, reader, emitted, copies, failures>>

LaneStep(l) ==
  \/ OpenLane(l) \/ Claim(l) \/ EmitRows(l) \/ FinishRead(l)
  \/ PipelineWrites(l) \/ Acknowledge(l) \/ LaneFinishes(l)

Progress == NewQueue \/ EnsureComplete \/ Interrupted \/ \E l \in Lanes : LaneStep(l)

QueueNext == Progress \/ \E l \in Lanes : LaneFails(l)

---------------------------------------------------------------------------------
(* The plan the cost model settles on never leaves a row out or reads it twice:  *)
(* the queue accepts every cover the planner writes, and, for every histogram,   *)
(* the weighted cuts are those of moving each cut past its predecessor while     *)
(* keeping a page for each remaining range.                                      *)
PlanExact ==
  /\ outcome /= "refused"
  /\ plan.stage = "facts" /\ Eligible(plan.facts, "weighted") =>
       \A parts \in 1 .. Min({MaxParts, Physical(plan.facts)}) :
         \A part \in 0 .. (parts - 1) :
           Boundary(plan.facts, parts, part) = ReferenceCuts(plan.facts, parts)[part + 1]

(* A snapshot reads and delivers every row exactly once, whatever the plan, the  *)
(* splits and the failing lanes: no row is ever published twice, and when the    *)
(* queue says it is complete the destination holds every row once.               *)
SnapshotExact ==
  /\ \A r \in DOMAIN Rows : emitted[r] <= 1
  /\ outcome = "complete" => \A r \in DOMAIN Rows : copies[r] = 1

(* A restarted lane starts clean: an attempt that closes without interrupting    *)
(* the epoch leaves no marker behind for the next attempt to be confused by, and *)
(* the leaves never outnumber the configured ceiling.                            *)
AttemptsStartClean ==
  /\ \A l \in Lanes :
       ~queue.lanes[l].active /\ ~queue.interrupted =>
         queue.lanes[l].outstanding = <<>> /\ queue.lanes[l].unfinished = {}
  /\ queue.leaves <= MaxParts
  /\ outcome /= "failed"
================================================================================
