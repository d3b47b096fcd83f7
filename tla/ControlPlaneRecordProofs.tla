---------------------- MODULE ControlPlaneRecordProofs ----------------------
(***************************************************************************)
(* The steps that read and write the record keep ControlInv: the requests  *)
(* of the clients, the monitor, and the normalization of a shutdown.       *)
(***************************************************************************)
EXTENDS ControlPlaneLemmas

-----------------------------------------------------------------------------
\* activate, second locked section: the record becomes Starting under a run that
\* no request and no worker has had.
LEMMA PlannedStep ==
    ASSUME ControlInv, NEW c \in Requests, Planned(c)
    PROVE  ControlInv'
  <1>0. /\ pc[c] = "plan" /\ lastRun < MaxRuns /\ lastRun' = lastRun + 1
        /\ UNCHANGED <<supervisor, process>>
    BY DEF Planned
  <1>1. PICK r \in Runs : r = lastRun + 1
    BY <1>0, FreshRun
  <1>2. /\ worker[r].stage = "none" /\ r # 0 /\ r \in 0..MaxRuns /\ lastRun' = r
        /\ lastRun' \in lastRun..MaxRuns /\ \A d \in Requests : req[d].run # r
    <2>1. r \in 0..MaxRuns /\ r # 0 /\ lastRun' \in lastRun..MaxRuns
      BY <1>0, <1>1, Types DEF Runs
    <2>2. \A d \in Requests : req[d].run # r
      BY <1>1, Types, RequestRuns DEF Held
    <2> QED BY <1>0, <1>1, <2>1, <2>2, FreshRun
  <1>3. CASE record' = record /\ (NoFault \/ Fault(r)) /\ Goto(c, "idle")
    BY <1>0, <1>2, <1>3, Stranded, RequestEnds
  <1>4. CASE Unchanged(c) /\ Replaced(WithRuntime("starting", r)) /\ Launches(c)
    <2>0. PICK h \in Held : h = [run |-> r, revision |-> req[c].revision, version |-> 0]
      BY Zenon, <1>2, Types, RequestTypes DEF Held
    <2>1. Enter(c, "start", h) /\ h.run = r /\ h.revision = req[c].revision
      BY Zenon, <1>1, <1>4, <2>0 DEF Launches
    <2>2. "start" \in Labels /\ "start" \in Holding /\ "start" \in Launching
      BY DEF Labels, Holding, Launching
    <2>3. record.live /\ record.revision = req[c].revision /\ record.version = req[c].version
      BY <1>4 DEF Unchanged
    <2>4. record.runtime \notin Transient
      BY <1>0, <2>3, PlanKnows
    <2>5. /\ record' \in Records /\ record'.version = record.version + 1
          /\ record'.live /\ record'.revision = h.revision
          /\ record'.validation = record.validation /\ record'.validated = record.validated
          /\ record'.runtime = "starting" /\ record'.run = r
          /\ stranded' = stranded /\ faults' = faults
      BY Zenon, <1>2, <1>4, <2>1, <2>3, Advanced DEF Transient
    <2>6. /\ record'.version > record.version /\ record'.version # 0
          /\ record'.run = 0 <=> record'.runtime \in {"created", "stopped"}
      BY <1>2, <2>5, Types DEF Records
    <2> HIDE <1>4
    <2>7. RequestOK("start", h)'
      BY <1>0, <1>2, <2>1, <2>2, <2>5 DEF RequestOK, supervisor
    <2>8. /\ \A d \in Requests : pc[d] \in Launching => server \notin Open
          /\ \A q \in Runs : worker[q].stage \in Alive => worker[q].cancel
      BY <2>4, NotActive
    <2>9. RecordOK' /\ WorkerRecorded' /\ RunsCurrentRevision'
      <3>1. RecordOK'
        BY <1>2, <2>5, <2>6 DEF RecordOK
      <3>2. WorkerRecorded'
        BY <1>0, <2>8 DEF WorkerRecorded, supervisor
      <3>3. RunsCurrentRevision'
        BY <1>0, <2>1, <2>3, <2>5, <2>8, Parts DEF RunsCurrentRevision, supervisor
      <3> QED BY <3>1, <3>2, <3>3
    <2>10. EndReported'
      BY <1>0, <1>2, <2>5 DEF EndReported, supervisor
    <2>11. TakenBack'
      <3>1. pc'[c] = "start" /\ req'[c].run = r
        BY <2>1, <2>2, Entered, Parts
      <3> QED BY <1>0, <1>2, <2>5, <3>1 DEF TakenBack, supervisor
    <2> QED BY <1>0, <1>2, <2>1, <2>2, <2>5, <2>6, <2>7, <2>8, <2>9, <2>10, <2>11, Types, Busy, ServiceMoves
  <1> QED BY <1>1, <1>3, <1>4 DEF Planned, NotReplaced

\* confirm_start.
LEMMA ConfirmsStep ==
    ASSUME ControlInv, NEW c \in Requests, Confirms(c)
    PROVE  ControlInv'
  <1>0. /\ pc[c] = "confirm" /\ pc[c] \in Holding \ Launching /\ req[c].run \in Runs
        /\ UNCHANGED <<supervisor, process, lastRun>>
    BY HeldRun DEF Confirms, Holding, Launching, Labels
  <1>1. /\ worker[req[c].run].startup = "ready" /\ req[c] \in Held
        /\ req[c].run \in 0..MaxRuns /\ req[c].run # 0 /\ req[c].run <= lastRun
    BY <1>0, RequestRuns, JudgeKnows DEF Held, Runs
  <1>a. worker[req[c].run].stage # "none"
    BY Zenon, <1>0, <1>1, ReadyWorker
  <1>2. CASE record' = record /\ NoFault /\ Goto(c, "idle")
    BY <1>0, <1>2, Types, Stranded, RequestEnds
  <1>3. CASE record' = record /\ (NoFault \/ Fault(req[c].run)) /\ Goto(c, "cleanup")
    <2>1. RequestOK("cleanup", req[c]) /\ "cleanup" \in Labels \ Launching /\ "cleanup" \in Holding
      BY <1>1, Quiet
    <2> QED BY <1>0, <1>1, <1>3, <2>1, Stranded, RequestGoes
  <1>4. CASE /\ record.live /\ record.revision = req[c].revision /\ IsStarting(c)
             /\ Replaced(WithRuntime("running", req[c].run)) /\ Goto(c, "idle")
    <2>1. /\ record' \in Records /\ record'.version = record.version + 1
          /\ record'.live = record.live /\ record'.revision = record.revision
          /\ record'.validation = record.validation /\ record'.validated = record.validated
          /\ record'.runtime = "running" /\ record'.run = record.run
          /\ stranded' = stranded /\ faults' = faults
      BY Zenon, <1>1, <1>4, Advanced DEF Transient, IsStarting
    <2>2. /\ record.runtime = "starting" /\ record.run = req[c].run /\ record.live
          /\ record.runtime \in Transient /\ record'.runtime \in Transient
      BY <1>4, <2>1 DEF IsStarting, Transient
    <2>3. record'.validation # "draft" => record'.validated = record.revision
      BY <2>1, <2>2, Parts DEF RunsCurrentRevision
    <2>4. ASSUME server = "closed", Tracked' PROVE Failed'
      <3>1. Tracked /\ ~TakenBack
        BY <1>a, <2>1, <2>2, <2>4 DEF Tracked, TakenBack
      <3>2. Failed
        BY <2>4, <3>1, Parts DEF Closing
      <3> QED BY <1>0, <3>2 DEF Failed, supervisor, process
    <2>5. \A d \in Requests \ {c} : pc[d] \in Launching => server \notin Open
      BY <1>0, <2>2, NobodyLaunches
    <2>6. Enter(c, "idle", NoRequest) /\ NoRequest \in Held /\ NoRequest.run <= lastRun /\ server # "down"
      BY <1>0, <1>4, Leaves, Busy
    <2> QED BY <1>0, <1>1, <2>1, <2>2, <2>3, <2>4, <2>5, <2>6, Continues
  <1> QED BY <1>2, <1>3, <1>4 DEF Confirms, NotReplaced

\* mark_failed and mark_stopped: the request judges a worker that is gone or
\* told to stop, and only while the record still holds its run.
LEMMA MarksStep ==
    ASSUME ControlInv, NEW c \in Requests, NEW from \in {"fail", "cancelled", "finish"},
           NEW state \in {"failed", "stopped"}, Marks(c, from, state)
    PROVE  ControlInv'
  <1>0. /\ pc[c] = from /\ pc[c] \in Holding \ Launching /\ req[c].run \in Runs
        /\ UNCHANGED <<supervisor, process, lastRun>> /\ Goto(c, "idle")
    BY HeldRun DEF Marks, Holding, Launching, Labels
  <1>1. /\ worker[req[c].run].stage \in Alive => worker[req[c].run].cancel
        /\ req[c] \in Held /\ req[c].run \in 0..MaxRuns /\ req[c].run # 0 /\ req[c].run <= lastRun
    BY <1>0, RequestRuns, JudgeKnows DEF Held, Runs
  <1>2. CASE /\ record' = record /\ (Fault(req[c].run) \/ NoFault)
             /\ Fault(req[c].run) \/ ~(record.live /\ record.run = req[c].run)
    BY <1>0, <1>1, <1>2, Types, Stranded, RequestEnds
  <1>3. CASE /\ record.live /\ record.run = req[c].run
             /\ Replaced(WithRuntime(state, IF state = "stopped" THEN 0 ELSE req[c].run))
    <2>0. PICK r \in 0..MaxRuns : r = IF state = "stopped" THEN 0 ELSE req[c].run
      BY <1>1, Types
    <2>1. /\ record' \in Records /\ record'.version = record.version + 1
          /\ record'.live = record.live /\ record'.revision = record.revision
          /\ record'.validation = record.validation /\ record'.validated = record.validated
          /\ record'.runtime = state /\ record'.run = r
          /\ stranded' = stranded /\ faults' = faults
      BY Zenon, <1>3, <2>0, Advanced DEF Transient
    <2>2. Enter(c, "idle", NoRequest) /\ NoRequest \in Held /\ NoRequest.run <= lastRun
      BY <1>0, Leaves
    <2>3. /\ record'.version > record.version /\ record'.runtime \notin Transient
          /\ record'.run = 0 <=> record'.runtime \in {"created", "stopped"}
      BY <1>1, <2>0, <2>1, Types DEF Records, Transient
    <2>4. record'.live /\ record'.validation # "draft" => record'.validated = record'.revision
      BY <2>1, Parts DEF RunsCurrentRevision
    <2>6. record'.run <= lastRun /\ server # "down" /\ stranded' = stranded /\ faults' = faults
      BY <1>0, <1>1, <2>0, <2>1, Types, Busy
    <2>5. \A r1 \in Runs : worker[r1].stage \in Alive => worker[r1].cancel
      BY <1>1, <1>3, Parts DEF WorkerRecorded
    <2> QED BY <1>0, <1>3, <2>1, <2>2, <2>3, <2>4, <2>5, <2>6, NobodyLaunches, Deactivates
  <1> QED BY <1>2, <1>3 DEF Marks, NotReplaced

\* The events that remain when one is taken.
LEMMA EventsTail ==
    ASSUME ControlInv, events # <<>>, events' = Tail(events)
    PROVE  /\ events' \in Seq(Events)
           /\ Head(events).run \in Runs /\ 1 \in DOMAIN events /\ Head(events) = events[1]
           /\ \A i \in DOMAIN events' : i + 1 \in DOMAIN events /\ events'[i] = events[i + 1]
           /\ \A r \in Runs : Pending(r) => Pending(r)' \/ r = Head(events).run
  <1>1. events \in Seq(Events)
    BY Parts DEF TypeOK, Events
  <1>2. /\ events' \in Seq(Events)
        /\ Len(events) \in Nat \ {0} /\ Len(events') = Len(events) - 1
        /\ DOMAIN events = 1..Len(events) /\ DOMAIN events' = 1..Len(events')
        /\ Head(events) = events[1] /\ events[1] \in Events
        /\ \A i \in 1..Len(events') : events'[i] = events[i + 1]
    BY <1>1, HeadAndTail
  <1>3. \A i \in DOMAIN events : i # 1 => i - 1 \in DOMAIN events' /\ events'[i - 1] = events[i]
    BY <1>2
  <1>4. \A r \in Runs : Pending(r) => Pending(r)' \/ r = Head(events).run
    BY <1>2, <1>3 DEF Pending
  <1>5. \A i \in DOMAIN events' : i + 1 \in DOMAIN events /\ events'[i] = events[i + 1]
    BY <1>2
  <1>6. Head(events).run \in Runs /\ 1 \in DOMAIN events
    BY <1>2 DEF Events
  <1> QED BY <1>2, <1>4, <1>5, <1>6

\* apply_worker_event: the worker that the event is about has ended, and so has
\* whatever the record could be showing of it.
LEMMA AppliesEventStep ==
    ASSUME ControlInv, AppliesEvent
    PROVE  ControlInv'
  <1> DEFINE e == Head(events)
             current == record.live /\ record.run = e.run /\ record.runtime # "failed"
  <1>0. /\ events # <<>> /\ events' = Tail(events)
        /\ UNCHANGED <<pc, req, worker, handle, lastRun, server, draining>>
        /\ server # "down"
    BY Parts DEF AppliesEvent, process, Closing
  <1>1. /\ e.run \in Runs /\ worker[e.run].stage \in {"reported", "done"} /\ EventsPast'
        /\ events' \in Seq(Events)
    BY <1>0, EventsTail, Parts DEF EventsPast
  <1>2. CASE current /\ Replaced(IF e.outcome = "failed" THEN WithRuntime("failed", e.run)
                                                         ELSE WithRuntime("stopped", 0))
    <2>0. PICK state \in {"failed", "stopped"}, r \in 0..MaxRuns :
              Replaced(WithRuntime(state, r)) /\ r = IF state = "stopped" THEN 0 ELSE e.run
      BY <1>1, <1>2, ControlPlaneAssumption DEF Runs
    <2>1. /\ record' \in Records /\ record'.version = record.version + 1
          /\ record'.live = record.live /\ record'.revision = record.revision
          /\ record'.validation = record.validation /\ record'.validated = record.validated
          /\ record'.runtime = state /\ record'.run = r
          /\ stranded' = stranded /\ faults' = faults
      BY <2>0, Advanced DEF Transient
    <2>2. /\ record'.version > record.version /\ record'.runtime \notin Transient
          /\ record'.run = 0 <=> record'.runtime \in {"created", "stopped"}
      BY <1>1, <2>0, <2>1, Types DEF Records, Transient, Runs
    <2>3. /\ record'.run <= lastRun
          /\ record'.live /\ record'.validation # "draft" => record'.validated = record'.revision
      BY <1>2, <2>0, <2>1, Types, Parts DEF RecordOK, RunsCurrentRevision
    <2>4. \A r1 \in Runs : worker[r1].stage \in Alive => worker[r1].cancel
      BY <1>1, <1>2, Parts DEF WorkerRecorded, Alive
    <2>5. \A d \in Requests : pc[d] \in Launching => server \notin Open
      BY <1>1, <1>2, LaunchKnows
    <2> QED BY <1>0, <1>1, <2>1, <2>2, <2>3, <2>4, <2>5, RecordSettles
  <1>3. CASE record' = record /\ (NoFault \/ Fault(e.run)) /\ (Fault(e.run) \/ ~current)
    <2>1. /\ stranded \subseteq stranded' /\ stranded' \in SUBSET (0..MaxRuns)
          /\ faults' \in 0..MaxFaults /\ (Fault(e.run) => e.run \in stranded')
      BY <1>1, <1>3, Stranded, ControlPlaneAssumption DEF Runs
    <2>2. TypeOK'
      BY Zenon, <1>0, <1>1, <1>3, <2>1, Parts DEF TypeOK, Events
    <2>3. /\ RecordOK' /\ RequestsOK' /\ Unshared' /\ WorkersOK' /\ OneWorker' /\ WorkerRecorded'
          /\ RunsCurrentRevision'
      BY <1>0, <1>3, RequestsKeep, RestKeeps, Parts
    <2>4. EndReported'
      <3> SUFFICES ASSUME Tracked' PROVE Tracked /\ record.run \in Runs /\ record.run # e.run
        BY <1>0, <1>3, EventsTail, Parts DEF EndReported
      <3>1. Tracked
        BY Zenon, <1>3, <2>1 DEF Tracked
      <3> QED BY <1>3, <2>1, <3>1, Types DEF Tracked, Runs, Records, Transient
    <2>5. Closing' /\ ShutdownStopsAll'
      BY Zenon, <1>0, <1>3, <2>1, Parts DEF Closing, Tracked, Failed, TakenBack, ShutdownStopsAll
    <2> QED BY <1>1, <2>2, <2>3, <2>4, <2>5, Whole
  <1> QED BY <1>2, <1>3 DEF AppliesEvent, NotReplaced

\* A shutdown stops what is still recorded as active.
LEMMA NormalizesRecordsStep ==
    ASSUME ControlInv, NormalizesRecords
    PROVE  ControlInv'
  <1>0. /\ server = "normalizing" /\ server' = "closed"
        /\ UNCHANGED <<pc, req, worker, handle, events, lastRun, draining>>
        /\ \A r \in Runs : worker[r].stage \notin Alive
    BY Parts DEF NormalizesRecords, supervisor, ShutdownStopsAll
  <1>1. CASE Replaced(WithRuntime("stopped", 0))
    <2>1. /\ record' \in Records /\ record'.version = record.version + 1
          /\ record'.live = record.live /\ record'.revision = record.revision
          /\ record'.validation = record.validation /\ record'.validated = record.validated
          /\ record'.runtime = "stopped" /\ record'.run = 0
          /\ stranded' = stranded /\ faults' = faults
      BY <1>1, Advanced, ControlPlaneAssumption
    <2>2. /\ record'.version > record.version /\ record'.runtime \notin Transient
          /\ record'.run <= lastRun
          /\ record'.live /\ record'.validation # "draft" => record'.validated = record'.revision
      BY <2>1, Types, Parts DEF Records, Transient, RunsCurrentRevision
    <2>3. EventsPast' /\ events' \in Seq(Events)
      BY <1>0, Parts DEF EventsPast, TypeOK, Events
    <2> QED BY <1>0, <2>1, <2>2, <2>3, RecordSettles DEF Open
  <1>2. CASE /\ record' = record /\ (NoFault \/ Fault(record.run))
             /\ Fault(record.run) \/ ~(record.live /\ record.runtime \in Transient)
    <2>1. /\ stranded \subseteq stranded' /\ stranded' \in SUBSET (0..MaxRuns)
          /\ faults' \in 0..MaxFaults /\ (Fault(record.run) => record.run \in stranded')
      BY <1>2, Stranded, Types DEF Records
    <2>2. TypeOK'
      BY <1>0, <1>2, <2>1, Parts DEF TypeOK
    <2>3. /\ RecordOK' /\ RequestsOK' /\ Unshared' /\ WorkersOK' /\ OneWorker' /\ WorkerRecorded'
          /\ RunsCurrentRevision'
      BY <1>0, <1>2, RequestsKeep, RestKeeps, Parts DEF Open
    <2>4. EventsPast'
      BY <1>0, Parts DEF EventsPast
    <2>5. ~Tracked'
      BY Zenon, <1>2, <2>1 DEF Tracked
    <2>6. EndReported' /\ Closing' /\ ShutdownStopsAll'
      BY <1>0, <2>5, Parts DEF EndReported, Closing, ShutdownStopsAll, Open
    <2> QED BY <2>2, <2>3, <2>4, <2>6, Whole
  <1> QED BY <1>1, <1>2 DEF NormalizesRecords, NotReplaced

\* The verdict of a validation is stored for the revision it is about, and
\* whatever is active stays so.
LEMMA ValidateEndsStep ==
    ASSUME ControlInv, NEW c \in Requests, ValidateEnds(c)
    PROVE  ControlInv'
  <1>0. pc[c] = "validate" /\ Goto(c, "idle") /\ UNCHANGED <<supervisor, process, lastRun>>
    BY DEF ValidateEnds
  <1>1. CASE record' = record /\ (NoFault \/ Fault(0))
    <2>1. stranded \subseteq stranded' /\ stranded' \in SUBSET (0..MaxRuns) /\ faults' \in 0..MaxFaults
      BY <1>1, Types DEF NoFault, Fault
    <2> QED BY <1>0, <1>1, <2>1, Types, RequestEnds
  <1>2. CASE Unchanged(c) /\ server = "up" /\ Verdict(c)
    <2>1. PICK v \in {"ready", "invalid"} :
              Replaced([record EXCEPT !.validation = v, !.validated = req[c].revision])
      BY Zenon, <1>2 DEF Verdict
    <2>2. /\ record' = [live |-> record.live, revision |-> record.revision,
                        version |-> record.version + 1, validation |-> v,
                        validated |-> req[c].revision, runtime |-> record.runtime, run |-> record.run]
          /\ stranded' = stranded /\ faults' = faults
      BY Zenon, <2>1, Types, RequestTypes DEF Replaced, NoFault, Records
    <2>3. record' \in Records /\ SameActivation /\ record'.version = record.version + 1
      BY <2>2, Types, RequestTypes DEF Records, Held, SameActivation
    <2>4. record'.live /\ record'.validation # "draft" => record'.validated = record.revision
      BY <1>2, <2>2 DEF Unchanged
    <2>5. /\ Enter(c, "idle", NoRequest) /\ NoRequest \in Held /\ NoRequest.run <= lastRun
          /\ server # "down" /\ server # "closed"
      BY <1>0, <1>2, Leaves
    <2> QED BY <1>0, <2>2, <2>3, <2>4, <2>5, Continues DEF SameActivation
  <1> QED BY <1>1, <1>2 DEF ValidateEnds, NotReplaced

\* stop, first locked section.
LEMMA StopBeginsStep ==
    ASSUME ControlInv, NEW c \in Requests, StopBegins(c)
    PROVE  ControlInv'
  <1>0. /\ record.live /\ record.runtime = "running" /\ server = "up" /\ pc[c] = "idle"
        /\ UNCHANGED <<supervisor, process, lastRun>> /\ record.run \in 0..MaxRuns /\ record.run # 0
    BY Types DEF StopBegins, Accepting, Records
  <1>1. CASE record' = record /\ Fault(record.run) /\ Goto(c, "idle")
    BY <1>0, <1>1, Types, Stranded, RequestEnds
  <1>2. CASE /\ Replaced(WithRuntime("stopping", record.run))
             /\ Enter(c, "stop", [run |-> record.run, revision |-> record.revision, version |-> 0])
    <2>0. PICK h \in Held : h = [run |-> record.run, revision |-> record.revision, version |-> 0]
      BY Zenon, <1>0, Types DEF Held, Records
    <2>1. /\ record' \in Records /\ record'.version = record.version + 1
          /\ record'.live = record.live /\ record'.revision = record.revision
          /\ record'.validation = record.validation /\ record'.validated = record.validated
          /\ record'.runtime = "stopping" /\ record'.run = record.run
          /\ stranded' = stranded /\ faults' = faults
      BY Zenon, <1>0, <1>2, Advanced DEF Transient
    <2>2. Enter(c, "stop", h) /\ h.run <= lastRun /\ h.run # 0
      BY <1>0, <1>2, <2>0, Parts DEF RecordOK
    <2>3. /\ record.runtime \in Transient /\ record'.runtime \in Transient
          /\ record'.validation # "draft" => record'.validated = record.revision
      BY <1>0, <2>1, Parts DEF RunsCurrentRevision, Transient
    <2>4. \A d \in Requests : pc[d] \notin Launching
      BY <1>0, LaunchKnows DEF Open
    <2> QED BY <1>0, <2>1, <2>2, <2>3, <2>4, Continues
  <1> QED BY <1>1, <1>2 DEF StopBegins, NotReplaced

\* update_draft and delete.
LEMMA EditStep ==
    ASSUME ControlInv, NEW c \in Requests, UpdateDraft(c) \/ Delete(c)
    PROVE  ControlInv'
  <1>1. Accepting(c) /\ record.runtime \notin Transient
    BY DEF UpdateDraft, Delete
  <1>2. Enter(c, "idle", req[c])
    BY <1>1, Parts DEF UpdateDraft, Delete, Enter, Accepting, TypeOK
  <1>3. /\ record' \in Records /\ record'.runtime \in {"created", "stopped"} /\ record'.run = 0
        /\ record'.version > record.version \/ (record'.version = record.version /\ ~record'.live)
        /\ record'.live => record'.validation = "draft"
    <2>1. CASE UpdateDraft(c)
      <3> DEFINE to == IF record.runtime = "created" THEN "created" ELSE "stopped"
      <3>1. record' = [live |-> record.live, revision |-> record.revision + 1,
                       version |-> record.version + 1, validation |-> "draft",
                       validated |-> record.validated, runtime |-> to, run |-> 0]
        BY Zenon, <2>1, Types DEF UpdateDraft, Replaced, Records
      <3> QED BY <3>1, Types DEF Records
    <2>2. CASE Delete(c)
      <3>1. record' = [live |-> FALSE, revision |-> record.revision, version |-> record.version,
                       validation |-> record.validation, validated |-> record.validated,
                       runtime |-> "created", run |-> 0]
        BY Zenon, <2>2, Types DEF Delete, Records
      <3> QED BY <3>1, Types DEF Records
    <2> QED BY <2>1, <2>2
  <1>5. UNCHANGED <<supervisor, process, lastRun, stranded, faults>>
    BY DEF UpdateDraft, Delete, Replaced, NoFault
  <1>6. req[c] \in Held /\ req[c].run <= lastRun /\ record'.run <= lastRun
    BY <1>3, Types, RequestRuns
  <1>7. server # "down" /\ record'.runtime \notin Transient
    BY <1>1, <1>3 DEF Accepting, Transient
  <1> QED BY <1>1, <1>2, <1>3, <1>5, <1>6, <1>7, NotActive, Deactivates

\* start, which is refused or may go on.
LEMMA StartsStep ==
    ASSUME ControlInv, NEW c \in Requests, Starts(c)
    PROVE  ControlInv'
  <1>0. /\ pc[c] = "start" /\ pc[c] \in Holding /\ pc[c] \in Launching
        /\ UNCHANGED <<record, supervisor, process, lastRun, stranded, faults>>
    BY DEF Starts, Holding, Launching, Labels
  <1>1. /\ req[c].run \in Runs /\ req[c].run # 0 /\ req[c].run <= lastRun /\ req[c] \in Held
        /\ RequestOK("start", req[c]) /\ worker[req[c].run].stage = "none"
    BY <1>0, HeldRun, RequestTypes, RequestRuns, LaunchKnows DEF Runs
  <1>2. CASE Goto(c, "fail")
    <2>1. RequestOK("fail", req[c]) /\ "fail" \in Labels \ Launching /\ "fail" \in Holding
      BY <1>1, Judging DEF Alive
    <2> QED BY <1>0, <1>2, <2>1, Types, RequestGoes
  <1>3. CASE Goto(c, "spawn") /\ ~ShuttingDown /\ handle = 0
    <2>1. server \in Open /\ server # "closed"
      BY <1>3, Parts DEF ShuttingDown, Open, TypeOK
    <2>2. RequestOK("spawn", req[c])
      BY <1>1, <1>3, <2>1 DEF RequestOK, Holding, Launching, Labels
    <2>3. Enter(c, "spawn", req[c]) /\ "spawn" \in Labels
      BY <1>3 DEF Goto, Labels
    <2>4. lastRun' \in lastRun..MaxRuns
      BY <1>0, Types
    <2>5. pc[c] # "idle"
      BY <1>0
    <2> QED BY <1>0, <1>1, <2>1, <2>2, <2>3, <2>4, <2>5, OpenMoves
  <1> QED BY <1>2, <1>3 DEF Starts

\* What StartupWait::wait returned is judged: Ready and Failed as they are, and
\* Cancelled when the worker was told to stop.
LEMMA StartupWaitedStep ==
    ASSUME ControlInv, NEW c \in Requests, StartupWaited(c)
    PROVE  ControlInv'
  <1>0. PICK w : w = worker[req[c].run]
    OBVIOUS
  <1>1. /\ pc[c] = "wait" /\ pc[c] \in Holding /\ w.startup # "none"
        /\ UNCHANGED <<record, supervisor, process, lastRun, stranded, faults>>
    BY <1>0 DEF StartupWaited, Holding, Labels
  <1>2. req[c].run \in Runs /\ req[c].run # 0 /\ req[c].run <= lastRun
    BY <1>1, HeldRun, RequestRuns DEF Runs
  <1>3. w \in WorkerStates /\ WorkerOK(req[c].run, w)
    BY <1>0, <1>2, WorkerTypes, Parts DEF WorkersOK
  <1>4. CASE w.startup = "ready"
    <2>1. Goto(c, "confirm") /\ "confirm" \in Labels /\ "confirm" \in Holding /\ "confirm" \notin Launching
      BY <1>0, <1>4 DEF StartupWaited, Holding, Launching, Labels
    <2>2. RequestOK("confirm", req[c])
      BY <1>0, <1>2, <1>4, Ready
    <2> QED BY <1>1, <2>1, <2>2, Types, RequestGoes
  <1>5. CASE w.startup \in {"failed", "cancelled"}
    <2>1. PICK l \in {"fail", "cancelled"} : Goto(c, l)
      BY <1>0, <1>5 DEF StartupWaited
    <2>2. w.stage \in Alive => w.cancel
      BY <1>3, <1>5 DEF WorkerOK
    <2>3. RequestOK(l, req[c]) /\ l \in Labels \ Launching /\ l \in Holding
      BY <1>0, <1>2, <2>2, Judging
    <2> QED BY <1>1, <2>1, <2>3, Types, RequestGoes
  <1> QED BY <1>1, <1>3, <1>4, <1>5 DEF WorkerStates

\* stop_handle returned: the worker is gone.
LEMMA StopWaitedStep ==
    ASSUME ControlInv, NEW c \in Requests, StopWaited(c)
    PROVE  ControlInv'
  <1>1. /\ pc[c] \in {"await", "await_cleanup"} /\ pc[c] \in Holding
        /\ worker[req[c].run].stage = "done"
        /\ UNCHANGED <<record, supervisor, process, lastRun, stranded, faults>>
    BY DEF StopWaited, Holding, Labels
  <1>2. CASE Goto(c, "idle")
    BY <1>1, <1>2, Types, RequestEnds
  <1>3. ASSUME NEW l \in {"fail", "finish"}, Goto(c, l)
        PROVE  ControlInv'
    <2>1. req[c].run # 0 /\ req[c].run <= lastRun
      BY <1>1, HeldRun, RequestRuns DEF Runs
    <2>2. RequestOK(l, req[c]) /\ l \in Labels \ Launching /\ l \in Holding
      BY <1>1, <2>1, Judging DEF Alive
    <2> QED BY <1>1, <1>3, <2>2, Types, RequestGoes
  <1> QED BY <1>2, <1>3 DEF StopWaited

\* The steps of activate and validate that only read the record.
LEMMA ValidateBeginsStep ==
    ASSUME ControlInv, NEW c \in Requests, ValidateBegins(c) \/ ActivateBegins(c)
    PROVE  ControlInv'
  <1> DEFINE l == IF ValidateBegins(c) THEN "validate" ELSE "plan"
  <1>0. /\ record \in Records /\ lastRun \in 0..MaxRuns /\ stranded \in SUBSET (0..MaxRuns)
        /\ faults \in 0..MaxFaults
    BY Parts DEF TypeOK, Records
  <1>1. Snapshot \in Held
    BY <1>0, ControlPlaneAssumption DEF Snapshot, Held, Records
  <1>2. /\ l \in {"validate", "plan"} /\ Enter(c, l, Snapshot) /\ Accepting(c)
        /\ l = "plan" => record.runtime \notin Transient
    BY DEF ValidateBegins, ActivateBegins
  <1>3. l \in Labels /\ l \notin Holding \cup Launching
    BY <1>2 DEF Labels, Holding, Launching
  <1>4. record.version >= 1
    BY <1>0, <1>2, Parts DEF RecordOK, Accepting, Records
  <1>5. RequestOK(l, Snapshot)
    BY <1>0, <1>2, <1>3, <1>4 DEF RequestOK, Snapshot, Records, Holding, Launching
  <1>6. UNCHANGED <<record, supervisor, process, stranded, faults>> /\ lastRun' \in lastRun..MaxRuns
    BY <1>0 DEF ValidateBegins, ActivateBegins
  <1> HIDE DEF l
  <1>7. server = "up"
    BY <1>2 DEF Accepting
  <1> QED BY <1>1, <1>2, <1>3, <1>5, <1>6, <1>7, OpenMoves

\* PlanFails, and the start that is refused or may go on.
LEMMA PlanFailsStep ==
    ASSUME ControlInv, NEW c \in Requests, PlanFails(c)
    PROVE  ControlInv'
  BY Types, RequestEnds DEF PlanFails

\* create_draft.
LEMMA CreateDraftStep ==
    ASSUME ControlInv, CreateDraft
    PROVE  ControlInv'
  <1>1. /\ ~record.live /\ record.version = 0 /\ server = "up"
        /\ record' = [live |-> TRUE, revision |-> 1, version |-> 1, validation |-> "draft",
                      validated |-> 0, runtime |-> "created", run |-> 0]
        /\ UNCHANGED <<pc, req, worker, handle, events, lastRun, server, draining, stranded, faults>>
    BY DEF CreateDraft, supervisor, process
  <1>2. /\ record' \in Records /\ record'.runtime = "created" /\ record'.run = 0
        /\ record'.version > record.version /\ record'.validation = "draft"
    BY <1>1, ControlPlaneAssumption DEF Records
  <1>3. EventsPast' /\ events' \in Seq(Events)
    BY <1>1, Parts DEF TypeOK, EventsPast, Events
  <1>4. record'.run <= lastRun /\ record'.runtime \notin Transient
    BY <1>2, Types DEF Transient
  <1> QED BY <1>1, <1>2, <1>3, <1>4, NotActive, RecordSettles
=============================================================================
