------------------------------ MODULE Admission ------------------------------
(***************************************************************************)
(* Dataset admission in front of a sink (transferia-pipeline admission.rs, *)
(* and AdmissionCoordinator of execution/admission.rs).  The driver feeds  *)
(* one sink object through successive sessions.  A delivery whose dataset  *)
(* is new, or a dataset that the source announces, is a barrier: the       *)
(* session is closed and drained, the destination is prepared, the catalog *)
(* of the sink is replaced, and a new session goes on.                     *)
(*                                                                         *)
(* The driver polls the session inside its own select!, so a session only  *)
(* moves while the driver waits in "recv", "forward" or "drain".  Item i   *)
(* of the input has delivery id i.                                         *)
(***************************************************************************)
EXTENDS Naturals, Sequences, FiniteSets, DeliveryTracker

CONSTANTS
    Setups,       \* the inputs and sinks: a set of [items, tracked] records
    Known,        \* the datasets of the startup discovery
    Capacity,     \* CHANNEL_CAPACITY
    MaxFaults     \* bound on injected faults

\* An item is [kind : {"data", "dataset"}, needs : datasets]; a dataset is
\* [table |-> _, schema |-> _], with one schema per table in an item.
ASSUME SetupsAssumption ==
    \A s \in Setups :
        /\ s.tracked \in BOOLEAN
        /\ \A i \in DOMAIN s.items :
              LET item == s.items[i] IN
              /\ item.kind \in {"data", "dataset"}
              /\ \A d, e \in item.needs : d.table = e.table => d = e
              /\ item.kind = "dataset" => Cardinality(item.needs) = 1
ASSUME LimitsAssumption == Capacity \in Nat \ {0} /\ MaxFaults \in Nat

VARIABLES
    setup,      \* the input and the kind of sink, chosen once
    pc,         \* driver: where `run` is, or its result
    next,       \* driver: the next item to receive
    taken,      \* driver: the item it holds, 0 if none
    todo,       \* driver: datasets of the barrier still to prepare
    catalog,    \* coordinator: context.discovery
    installed,  \* sink: its discovery
    sessCh,     \* driver -> session
    inflight,   \* sink: deliveries accepted and not durable
    tracker,    \* sink: its DeliveryTracker, kept across sessions
    sinkEvent,  \* sink: the CommittedThrough it is sending, 0 if none
    eventCh,    \* sink and driver -> reader
    committed,  \* reader: the last delivery it committed
    readerGone, \* reader: it returned and dropped the receiver
    durable,    \* destination: the deliveries it holds
    prepared,   \* destination: every dataset prepared so far
    cancelled,  \* the cancellation token
    faults      \* faults injected so far

driverVars == <<pc, next, taken, todo>>
sinkVars   == <<installed, inflight, tracker, sinkEvent>>
destVars   == <<durable, prepared>>
readerVars == <<committed, readerGone>>
vars == <<setup, driverVars, catalog, sinkVars, sessCh, eventCh, readerVars,
          destVars, cancelled, faults>>

\* The input, and whether the sink keeps a DeliveryTracker and writes
\* concurrently.
Items == setup.items
Tracked == setup.tracked

Ids == DOMAIN Items
Failures == {"retryable", "fatal"}
Results == {"ok"} \cup Failures
Finished == pc \in Results
InSession == pc \in {"recv", "forward", "drain"}

Fault == faults < MaxFaults /\ faults' = faults + 1
NoFault == faults' = faults

\* pending_datasets: what the delivery needs and the catalog does not have.
PendingDatasets(i) == Items[i].needs \ catalog

\* The catalog with d in the place of an older schema of its table.
WithDataset(c, d) == {e \in c : e.table # d.table} \cup {d}

-----------------------------------------------------------------------------
(* The driver *)

\* The reader reads on after an announced dataset only when it is committed.
Available(i) ==
    /\ i \in Ids
    /\ \A j \in 1..(i - 1) : Items[j].kind = "dataset" => j <= committed

\* Slip: a barrier does not wait for the deliveries before it.
ReceiveEagerly ==
    /\ pc = "recv" /\ ~cancelled /\ Available(next)
    /\ taken' = next /\ next' = next + 1
    /\ todo' = IF Items[next].kind = "dataset" THEN Items[next].needs
                                               ELSE PendingDatasets(next)
    /\ pc' = IF todo' = {} THEN "forward" ELSE "prepare"
    /\ NoFault
    /\ UNCHANGED <<catalog, sinkVars, sessCh, eventCh, readerVars, destVars, cancelled>>

Receive ==
    /\ pc = "recv" /\ ~cancelled /\ Available(next)
    /\ taken' = next /\ next' = next + 1
    /\ \/ /\ Items[next].kind = "data" /\ PendingDatasets(next) = {}
          /\ pc' = "forward" /\ todo' = {} /\ NoFault
       \/ /\ Items[next].kind = "data" /\ PendingDatasets(next) # {}
          /\ pc' = "drain" /\ todo' = PendingDatasets(next) /\ NoFault
       \/ /\ Items[next].kind = "dataset"
          /\ pc' = "drain" /\ todo' = Items[next].needs /\ NoFault
       \* Barrier::Rejected: the batch describes no valid dataset.
       \/ /\ Items[next].kind = "data" /\ PendingDatasets(next) # {}
          /\ pc' = "drain" /\ todo' = {} /\ Fault
    /\ UNCHANGED <<catalog, sinkVars, sessCh, eventCh, readerVars, destVars, cancelled>>

\* The session ends without a barrier: cancellation, or the input is closed
\* (by the end of the input, or because the parser failed).
CloseSession ==
    /\ pc \in {"recv", "forward"}
    /\ \/ cancelled /\ NoFault
       \/ pc = "recv" /\ next \notin Ids /\ NoFault
       \/ pc = "recv" /\ Fault
    /\ pc' = "drain" /\ taken' = 0 /\ todo' = {}
    /\ UNCHANGED <<next, catalog, sinkVars, sessCh, eventCh, readerVars, destVars,
                   cancelled>>

\* Slip: the channel to the session has no bound.
ForwardUnbounded ==
    /\ pc = "forward"
    /\ sessCh' = Append(sessCh, taken)
    /\ pc' = "recv" /\ taken' = 0
    /\ UNCHANGED <<next, todo, catalog, sinkVars, eventCh, readerVars, destVars,
                   cancelled, faults>>

Forward ==
    /\ pc = "forward" /\ Len(sessCh) < Capacity
    /\ sessCh' = Append(sessCh, taken)
    /\ pc' = "recv" /\ taken' = 0
    /\ UNCHANGED <<next, todo, catalog, sinkVars, eventCh, readerVars, destVars,
                   cancelled, faults>>

\* What `run` does when the session has returned `result`.
AfterSession(result) ==
    CASE pc # "drain" -> IF result = "ok" THEN "retryable" ELSE result
      [] pc = "drain" /\ result # "ok" -> result
      [] pc = "drain" /\ result = "ok" ->
            IF cancelled \/ taken = 0 THEN "ok"
            ELSE IF todo = {} THEN "fatal" ELSE "prepare"

\* Slip: the prepared catalog does not reach the sink.
PrepareUninstalled ==
    /\ pc = "prepare"
    /\ \E d \in todo :
          /\ catalog' = IF d \in catalog THEN catalog ELSE WithDataset(catalog, d)
          /\ prepared' = IF d \in catalog THEN prepared ELSE prepared \cup {d}
          /\ todo' = todo \ {d}
    /\ pc' = IF cancelled THEN "ok" ELSE IF todo' # {} THEN "prepare"
             ELSE IF Items[taken].kind = "dataset" THEN "ack" ELSE "recv"
    /\ sessCh' = IF pc' = "recv" THEN <<taken>> ELSE <<>>
    /\ taken' = IF pc' = "recv" THEN 0 ELSE taken
    /\ UNCHANGED <<next, sinkVars, eventCh, readerVars, durable, cancelled, faults>>

\* Slip: the new session starts without the delivery that was the barrier.
PrepareDropsDelivery ==
    /\ pc = "prepare"
    /\ \E d \in todo :
          /\ catalog' = IF d \in catalog THEN catalog ELSE WithDataset(catalog, d)
          /\ prepared' = IF d \in catalog THEN prepared ELSE prepared \cup {d}
          /\ todo' = todo \ {d}
    /\ installed' = IF cancelled /\ Items[taken].kind = "data" THEN installed
                                                               ELSE catalog'
    /\ pc' = IF cancelled THEN "ok" ELSE IF todo' # {} THEN "prepare"
             ELSE IF Items[taken].kind = "dataset" THEN "ack" ELSE "recv"
    /\ sessCh' = <<>>
    /\ taken' = IF pc' = "recv" THEN 0 ELSE taken
    /\ UNCHANGED <<next, inflight, tracker, sinkEvent, eventCh, readerVars, durable,
                   cancelled, faults>>

\* prepare, then update_discovery: prepare_runtime runs only for a dataset
\* that the catalog does not have.  After the last one an announced dataset
\* is acknowledged, and a delivery is the first of the new session.
Prepare ==
    /\ pc = "prepare"
    /\ \E d \in todo :
          /\ catalog' = IF d \in catalog THEN catalog ELSE WithDataset(catalog, d)
          /\ prepared' = IF d \in catalog THEN prepared ELSE prepared \cup {d}
          /\ todo' = todo \ {d}
    /\ installed' = IF cancelled /\ Items[taken].kind = "data" THEN installed
                                                               ELSE catalog'
    /\ pc' = IF cancelled THEN "ok" ELSE IF todo' # {} THEN "prepare"
             ELSE IF Items[taken].kind = "dataset" THEN "ack" ELSE "recv"
    /\ sessCh' = IF pc' = "recv" THEN <<taken>> ELSE <<>>
    /\ taken' = IF pc' = "recv" THEN 0 ELSE taken
    /\ UNCHANGED <<next, inflight, tracker, sinkEvent, eventCh, readerVars, durable,
                   cancelled, faults>>

\* A validation error, or prepare_runtime failed, perhaps after taking effect.
PrepareFails ==
    /\ pc = "prepare" /\ Fault
    /\ pc' \in Failures
    /\ prepared' \in {prepared} \cup {prepared \cup {d} : d \in todo \ catalog}
    /\ UNCHANGED <<setup, next, taken, todo, catalog, sinkVars, sessCh, eventCh,
                   readerVars, durable, cancelled>>

\* events.send(CommittedThrough(id)) of an announced dataset.
Acknowledge ==
    /\ pc = "ack"
    /\ IF readerGone THEN pc' = "retryable" /\ UNCHANGED <<eventCh, taken>>
       ELSE /\ Len(eventCh) < Capacity
            /\ eventCh' = Append(eventCh, taken)
            /\ pc' = "recv" /\ taken' = 0
    /\ UNCHANGED <<next, todo, catalog, sinkVars, sessCh, readerVars, destVars,
                   cancelled, faults>>

DriverStep ==
    UNCHANGED setup /\ (Receive \/ CloseSession \/ Forward \/ Prepare \/ Acknowledge)

-----------------------------------------------------------------------------
(* One session of the sink *)

SessionUnchanged ==
    UNCHANGED <<setup, next, taken, todo, catalog, installed, readerVars, prepared, cancelled>>

\* validate_batch: the delivery fits the catalog of the sink.
FitsCatalog(i) == Items[i].needs \subseteq installed

\* A serial sink takes a delivery when the one before it is acknowledged; a
\* tracking sink accepts it if it is the next id.
SessionAccepts ==
    /\ InSession /\ sinkEvent = 0 /\ sessCh # <<>>
    /\ Tracked \/ inflight = {}
    /\ sessCh' = Tail(sessCh)
    /\ LET i == Head(sessCh) IN
       \/ /\ ~FitsCatalog(i)
          /\ pc' = "fatal" /\ UNCHANGED <<inflight, tracker>>
       \/ /\ FitsCatalog(i) /\ Tracked /\ ~InOrder(tracker, i)
          /\ pc' = "retryable" /\ UNCHANGED <<inflight, tracker>>
       \/ /\ FitsCatalog(i) /\ (Tracked => InOrder(tracker, i))
          /\ inflight' = inflight \cup {i}
          /\ tracker' = IF Tracked THEN Accept(tracker, i, 1) ELSE tracker
          /\ pc' = pc
    /\ UNCHANGED <<sinkEvent, eventCh, durable, faults>>
    /\ SessionUnchanged

\* A write finishes; the sink reports what is durable without a gap.
SessionWrites ==
    /\ InSession /\ sinkEvent = 0
    /\ \E i \in inflight :
          /\ inflight' = inflight \ {i}
          /\ durable' = durable \cup {i}
          /\ IF ~Tracked THEN sinkEvent' = i /\ tracker' = tracker
             ELSE LET t == Complete(tracker, i, 1) IN
                  IF CommittedIds(t) = {} THEN tracker' = t /\ sinkEvent' = 0
                  ELSE \E c \in CommittedIds(t) :
                          /\ IsThrough(t, c)
                          /\ tracker' = TakeCommitted(t, c)
                          /\ sinkEvent' = c
    /\ UNCHANGED <<pc, sessCh, eventCh, faults>>
    /\ SessionUnchanged

\* Slip: the sink waits for room although the reader is gone.
SessionSendsPatiently ==
    /\ InSession /\ sinkEvent # 0
    /\ Len(eventCh) < Capacity
    /\ eventCh' = Append(eventCh, sinkEvent)
    /\ sinkEvent' = 0 /\ pc' = pc
    /\ UNCHANGED <<sessCh, inflight, tracker, durable, faults>>
    /\ SessionUnchanged

SessionSends ==
    /\ InSession /\ sinkEvent # 0
    /\ IF readerGone THEN pc' = "retryable" /\ UNCHANGED <<eventCh, sinkEvent>>
       ELSE /\ Len(eventCh) < Capacity
            /\ eventCh' = Append(eventCh, sinkEvent)
            /\ sinkEvent' = 0 /\ pc' = pc
    /\ UNCHANGED <<sessCh, inflight, tracker, durable, faults>>
    /\ SessionUnchanged

\* The session returns: cancelled (a serial sink finishes its delivery), or
\* its input is closed and everything is written.  Its channel is dropped.
SessionReturns ==
    /\ InSession /\ sinkEvent = 0
    /\ \/ cancelled /\ (Tracked \/ inflight = {})
       \/ pc = "drain" /\ sessCh = <<>> /\ inflight = {}
    /\ pc' = AfterSession("ok")
    /\ sessCh' = <<>> /\ inflight' = {}
    /\ UNCHANGED <<tracker, sinkEvent, eventCh, durable, faults>>
    /\ SessionUnchanged

SessionFails ==
    /\ InSession /\ sinkEvent = 0 /\ Fault
    /\ \E result \in Failures : pc' = AfterSession(result)
    /\ UNCHANGED <<sessCh, inflight, tracker, sinkEvent, eventCh, durable>>
    /\ SessionUnchanged

SessionStep == SessionAccepts \/ SessionWrites \/ SessionSends \/ SessionReturns

-----------------------------------------------------------------------------
(* The reader's end of the event channel, and the token *)

ReaderCommits ==
    /\ eventCh # <<>> /\ ~readerGone
    /\ committed' = Head(eventCh)
    /\ eventCh' = Tail(eventCh)
    /\ UNCHANGED <<setup, driverVars, catalog, sinkVars, sessCh, readerGone, destVars,
                   cancelled, faults>>

\* The reader returns because of the token, or it fails.
ReaderReturns ==
    /\ ~readerGone /\ ~Finished
    /\ \/ cancelled /\ NoFault
       \/ Fault
    /\ readerGone' = TRUE
    /\ UNCHANGED <<setup, driverVars, catalog, sinkVars, sessCh, eventCh, committed, destVars,
                   cancelled>>

Cancel ==
    /\ ~cancelled /\ ~Finished
    /\ cancelled' = TRUE
    /\ UNCHANGED <<setup, driverVars, catalog, sinkVars, sessCh, eventCh, readerVars, destVars,
                   faults>>

Init ==
    /\ setup \in Setups
    /\ pc = "recv" /\ next = 1 /\ taken = 0 /\ todo = {}
    /\ catalog = Known /\ installed = Known /\ prepared = Known
    /\ sessCh = <<>> /\ inflight = {} /\ tracker = NewTracker /\ sinkEvent = 0
    /\ eventCh = <<>> /\ committed = 0 /\ readerGone = FALSE
    /\ durable = {} /\ cancelled = FALSE /\ faults = 0

Next ==
    \/ DriverStep \/ PrepareFails \/ SessionStep \/ SessionFails
    \/ ReaderCommits \/ ReaderReturns \/ Cancel

\* The driver and the reader are Tokio tasks; a session and the writes it
\* waits for make progress while the driver polls it.
Fairness ==
    /\ WF_vars(DriverStep) /\ WF_vars(SessionStep)
    /\ WF_vars(ReaderCommits) /\ WF_vars(ReaderReturns)

Spec == Init /\ [][Next]_vars /\ Fairness

-----------------------------------------------------------------------------
\* Types of the state.
TypeOK ==
    /\ setup \in Setups
    /\ pc \in {"recv", "forward", "drain", "prepare", "ack"} \cup Results
    /\ next \in 1..(Len(Items) + 1) /\ taken \in Ids \cup {0}
    /\ TrackerOK(tracker) /\ sinkEvent \in Ids \cup {0}
    /\ sessCh \in Seq(Ids) /\ Len(sessCh) <= Capacity
    /\ eventCh \in Seq(Ids) /\ Len(eventCh) <= Capacity
    /\ inflight \subseteq Ids /\ durable \subseteq Ids
    /\ committed \in Ids \cup {0} /\ readerGone \in BOOLEAN
    /\ cancelled \in BOOLEAN /\ faults \in 0..MaxFaults

\* "Source-authored dataset barriers are committed only after preparation; a
\* schema discovered from row data ... is acknowledged only after the data
\* itself is durable" (docs/architecture.md): what the reader commits is
\* durable data or a prepared dataset, also under cancellation, rejection and
\* failures between the steps of a barrier.
CommittedIsSettled ==
    \A i \in 1..committed :
        IF Items[i].kind = "data" THEN i \in durable ELSE Items[i].needs \subseteq prepared

\* The contract of Sink::update_discovery, "between fully drained sessions":
\* the destination and the sink's catalog change only while nothing is queued
\* for, or in flight in, a session.
ChangedWhenDrained ==
    [][prepared' # prepared \/ installed' # installed => inflight = {} /\ sessCh = <<>>]_vars

\* A delivery reaches the sink only when the sink's catalog has the schema it
\* was written with, so the check at the sink boundary never rejects one.
SchemaInstalled ==
    \A i \in inflight \cup {sessCh[k] : k \in DOMAIN sessCh} : FitsCatalog(i)

\* commit_through of the reader fails on an event it has seen: the events of
\* the sessions and of the driver leave in the order of the deliveries.
EventsInOrder ==
    LET pending == Append(eventCh, sinkEvent) IN
    /\ \A k \in DOMAIN eventCh : committed < eventCh[k]
    /\ \A j, k \in DOMAIN pending : j < k /\ pending[k] # 0 => pending[j] < pending[k]

\* "Existing connection, producer, retry and delivery-tracker state stays with
\* its owner" (docs/architecture.md) and a new session goes on with it: the
\* tracker of the sink accepts the deliveries of every session.
SessionResumes == Tracked /\ sessCh # <<>> /\ InSession => InOrder(tracker, Head(sessCh))

\* Without a failure or cancellation every item is committed in the end: no
\* barrier waits for a session that waits for the barrier.
AllCommitted == <>(cancelled \/ faults > 0 \/ committed = Len(Items))

\* Cancellation ends the driver, wherever its session and its events are.
CancelEnds == cancelled ~> Finished
=============================================================================
