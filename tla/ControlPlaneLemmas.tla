------------------------- MODULE ControlPlaneLemmas -------------------------
(***************************************************************************)
(* What ControlInv says of the types, of a request and of a worker, and a  *)
(* lemma for each kind of step (a request moves, the record advances, a    *)
(* worker advances, the server changes) with what is left to show of a step *)
(* of that kind.                                                           *)
(***************************************************************************)
EXTENDS ControlPlaneInvariant, TLAPS

-----------------------------------------------------------------------------
\* What Head, Tail and Append do to a sequence.
LEMMA HeadAndTail ==
    ASSUME NEW S, NEW s \in Seq(S), s # <<>>
    PROVE  /\ Tail(s) \in Seq(S) /\ Len(s) \in Nat \ {0} /\ Len(Tail(s)) = Len(s) - 1
           /\ Head(s) = s[1] /\ s[1] \in S
           /\ \A i \in 1..Len(Tail(s)) : Tail(s)[i] = s[i + 1]
  OBVIOUS

\* A sequence with one more element.
LEMMA Appended ==
    ASSUME NEW S, NEW s \in Seq(S), NEW e \in S
    PROVE  /\ Append(s, e) \in Seq(S) /\ Len(s) \in Nat /\ Len(Append(s, e)) = Len(s) + 1
           /\ \A i \in 1..Len(s) : Append(s, e)[i] = s[i]
           /\ Append(s, e)[Len(s) + 1] = e
  OBVIOUS

\* The invariant, taken apart and put together.
LEMMA Parts ==
    ASSUME ControlInv
    PROVE  /\ TypeOK /\ RecordOK /\ RequestsOK /\ Unshared /\ WorkersOK /\ EventsPast /\ EndReported
           /\ Closing /\ OneWorker /\ WorkerRecorded /\ RunsCurrentRevision /\ ShutdownStopsAll
  BY DEF ControlInv

\* The same of the next state.
LEMMA Whole ==
    ASSUME TypeOK', RecordOK', RequestsOK', Unshared', WorkersOK', EventsPast', EndReported',
           Closing', OneWorker', WorkerRecorded', RunsCurrentRevision', ShutdownStopsAll'
    PROVE  ControlInv'
  BY DEF ControlInv

\* The types, in the form in which the steps below use them.
LEMMA Types ==
    ASSUME ControlInv
    PROVE  /\ record \in Records /\ lastRun \in 0..MaxRuns /\ stranded \in SUBSET (0..MaxRuns)
           /\ record.run = 0 <=> record.runtime \in {"created", "stopped"}
           /\ faults \in 0..MaxFaults /\ MaxRuns \in Nat /\ MaxFaults \in Nat
  BY ControlPlaneAssumption, Parts DEF TypeOK, Records

\* What the requests know of the runs they hold.
LEMMA RequestTypes ==
    ASSUME ControlInv
    PROVE  \A c \in Requests : req[c] \in Held /\ pc[c] \in Labels /\ RequestOK(pc[c], req[c])
  BY Parts DEF TypeOK, Held, RequestsOK

\* Every run has a worker state.
LEMMA WorkerTypes ==
    ASSUME ControlInv
    PROVE  \A r \in Runs : worker[r] \in WorkerStates
  BY Parts DEF TypeOK, WorkerStates

\* The run that a request holds is the index of a worker.
LEMMA HeldRun ==
    ASSUME ControlInv, NEW c \in Requests, pc[c] \in Holding
    PROVE  req[c].run \in Runs
  BY RequestTypes, ControlPlaneAssumption DEF RequestOK, Held, Runs

\* The run that a request holds was handed out.
LEMMA RequestRuns ==
    ASSUME ControlInv
    PROVE  \A c \in Requests : req[c] \in Held /\ pc[c] \in Labels /\ req[c].run <= lastRun
  BY RequestTypes DEF RequestOK

\* A request that is to start or to spawn a run.
LEMMA LaunchKnows ==
    ASSUME ControlInv
    PROVE  \A c \in Requests : pc[c] \in Launching =>
              /\ worker[req[c].run].stage = "none"
              /\ pc[c] = "spawn" => handle = 0 /\ server \in Open
              /\ server \in Open => /\ record.live /\ record.runtime = "starting"
                                    /\ record.run = req[c].run /\ record.revision = req[c].revision
  BY RequestTypes DEF RequestOK

\* A request that plans an activation.
LEMMA PlanKnows ==
    ASSUME ControlInv
    PROVE  \A c \in Requests : pc[c] = "plan" =>
              /\ req[c].version \in 1..record.version
              /\ record.live /\ record.version = req[c].version => record.runtime \notin Transient
  BY RequestTypes DEF RequestOK

\* A request that waits for a worker or judges one.
LEMMA JudgeKnows ==
    ASSUME ControlInv
    PROVE  \A c \in Requests :
              /\ pc[c] = "wait" => worker[req[c].run].stage # "none"
              /\ pc[c] = "confirm" => worker[req[c].run].startup = "ready"
              /\ pc[c] \in {"fail", "cancelled", "finish"} =>
                    (worker[req[c].run].stage \in Alive => worker[req[c].run].cancel)
  BY RequestTypes DEF RequestOK

\* The labels at which a request claims nothing but its run, and those at which
\* it judges a worker.
LEMMA Quiet ==
    ASSUME NEW l \in {"idle", "stop", "await", "cleanup", "await_cleanup"}, NEW h, h.run <= lastRun,
           l # "idle" => h.run # 0
    PROVE  RequestOK(l, h) /\ l \in Labels \ Launching /\ (l \in Holding <=> l # "idle")
  BY DEF RequestOK, Holding, Launching, Labels

\* The same of the next state.
LEMMA QuietThen ==
    ASSUME NEW l \in {"idle", "stop"}, NEW h, h.run <= lastRun', l # "idle" => h.run # 0
    PROVE  RequestOK(l, h)'
  BY DEF RequestOK, Holding, Launching, Labels

\* A request that is about to mark a run knows that its worker is gone or cancelled.
LEMMA Judging ==
    ASSUME NEW l \in {"fail", "cancelled", "finish"}, NEW h, h.run <= lastRun, h.run # 0,
           worker[h.run].stage \in Alive => worker[h.run].cancel
    PROVE  RequestOK(l, h) /\ l \in Labels \ Launching /\ l \in Holding
  BY DEF RequestOK, Holding, Launching, Labels

\* A request that is about to confirm a run knows that its worker was ready.
LEMMA Ready ==
    ASSUME NEW h, h.run <= lastRun, h.run # 0, worker[h.run].startup = "ready"
    PROVE  RequestOK("confirm", h)
  BY DEF RequestOK, Launching

\* A request that is under way keeps the server from being down.
LEMMA Busy ==
    ASSUME ControlInv, NEW c \in Requests, pc[c] # "idle"
    PROVE  server # "down"
  BY Parts DEF Closing

\* A request that ends holds nothing.
LEMMA Leaves ==
    ASSUME ControlInv, NEW c \in Requests, Goto(c, "idle")
    PROVE  /\ Enter(c, "idle", NoRequest) /\ NoRequest \in Held /\ NoRequest.run <= lastRun
           /\ RequestOK("idle", NoRequest) /\ "idle" \in Labels
           /\ "idle" \notin Holding /\ "idle" \notin Launching
  <1>1. NoRequest \in Held /\ NoRequest.run <= lastRun
    BY Types DEF NoRequest, Held
  <1>2. RequestOK("idle", NoRequest) /\ "idle" \in Labels /\ "idle" \notin Holding /\ "idle" \notin Launching
    BY <1>1, Quiet
  <1> QED BY <1>1, <1>2 DEF Goto

-----------------------------------------------------------------------------
\* What holds of the variables that a step does not touch.
LEMMA RequestsKeep ==
    ASSUME RequestsOK, UNCHANGED <<record, pc, req, worker, handle, lastRun>>,
           server' \in Open <=> server \in Open
    PROVE  RequestsOK'
  BY DEF RequestsOK, RequestOK

\* Nothing that these clauses mention changes.
LEMMA RestKeeps ==
    ASSUME ControlInv, UNCHANGED <<record, pc, req, worker, handle, lastRun>>
    PROVE  RecordOK' /\ Unshared' /\ WorkersOK' /\ OneWorker' /\ WorkerRecorded' /\ RunsCurrentRevision'
  <1>1. RecordOK' /\ Unshared' /\ OneWorker'
    BY Parts DEF RecordOK, Unshared, OneWorker
  <1>2. WorkersOK'
    BY Parts DEF WorkersOK, WorkerOK
  <1>3. WorkerRecorded' /\ RunsCurrentRevision'
    BY Parts DEF WorkerRecorded, RunsCurrentRevision
  <1> QED BY <1>1, <1>2, <1>3

\* A worker that has been ready has been spawned.
LEMMA ReadyWorker ==
    ASSUME ControlInv, NEW r \in Runs, worker[r].startup = "ready"
    PROVE  worker[r].stage # "none"
  BY Parts DEF WorkersOK, WorkerOK

\* The run that is handed out next has had no worker.
LEMMA FreshRun ==
    ASSUME ControlInv, lastRun < MaxRuns
    PROVE  lastRun + 1 \in Runs /\ worker[lastRun + 1].stage = "none"
  <1>1. lastRun + 1 \in Runs /\ ~(lastRun + 1 <= lastRun)
    BY Types DEF Runs
  <1> QED BY <1>1, Parts DEF WorkersOK, WorkerOK

\* The record is written and is not active afterwards: no request that is to
\* spawn a run counted on it.
LEMMA RequestsSettle ==
    ASSUME ControlInv, UNCHANGED <<pc, req, worker, handle, lastRun>>,
           server' \in Open <=> server \in Open, record' \in Records, record'.version > record.version,
           \A d \in Requests : pc[d] \in Launching => server \notin Open
    PROVE  RequestsOK'
  <1> SUFFICES ASSUME NEW d \in Requests PROVE RequestOK(pc[d], req[d])'
    BY DEF RequestsOK
  <1>1. RequestOK(pc[d], req[d])
    BY RequestTypes
  <1>2. pc[d] \in {"validate", "plan"} => req[d].version \in 1..record'.version /\ record'.version # req[d].version
    <2>1. record.version \in Nat /\ record'.version \in Nat /\ req[d].version \in Nat
      BY Types, RequestTypes DEF Records, Held
    <2> QED BY <1>1, <2>1 DEF RequestOK
  <1> QED BY <1>1, <1>2 DEF RequestOK

\* What Enter does to the requests, one by one.
LEMMA Entered ==
    ASSUME TypeOK, NEW c \in Requests, NEW l \in Labels, NEW h \in Held, Enter(c, l, h)
    PROVE  /\ pc' \in [Requests -> Labels] /\ req' \in [Requests -> Held]
           /\ pc'[c] = l /\ req'[c] = h
           /\ \A d \in Requests \ {c} : pc'[d] = pc[d] /\ req'[d] = req[d]
  BY DEF TypeOK, Enter, Held

\* A request moves on and the record may advance, while no worker and no part
\* of the server does: the other requests still know what they knew.
LEMMA OthersKnow ==
    ASSUME ControlInv, NEW c \in Requests, UNCHANGED <<supervisor, process>>,
           \A d \in Requests \ {c} : pc'[d] = pc[d] /\ req'[d] = req[d],
           lastRun' \in lastRun..MaxRuns, record' \in Records,
           \/ record' = record
           \/ /\ record'.version > record.version \/ (record'.version = record.version /\ ~record'.live)
              /\ SameActivation \/ \A d \in Requests \ {c} : pc[d] \in Launching => server \notin Open
    PROVE  \A d \in Requests \ {c} : RequestOK(pc[d], req[d])'
  <1> SUFFICES ASSUME NEW d \in Requests \ {c}
               PROVE  RequestOK(pc[d], req[d])'
    OBVIOUS
  <1>0. /\ lastRun \in Nat /\ lastRun' \in Nat /\ lastRun <= lastRun'
        /\ record \in Records /\ req[d] \in Held /\ RequestOK(pc[d], req[d])
    BY Types, RequestTypes
  <1>1. CASE record' = record
    BY <1>0, <1>1 DEF RequestOK, supervisor, process, Held
  <1>2. CASE record' # record
    BY <1>0, <1>2 DEF RequestOK, SameActivation, supervisor, process, Held, Records
  <1> QED BY <1>1, <1>2

\* What is left to show of a step of request c that may advance the record.
LEMMA ServiceMoves ==
    ASSUME ControlInv, NEW c \in Requests, NEW l \in Labels, NEW h \in Held, Enter(c, l, h),
           UNCHANGED <<supervisor, process>>, lastRun' \in lastRun..MaxRuns,
           stranded' \in SUBSET (0..MaxRuns), faults' \in 0..MaxFaults,
           record' \in Records, record'.run = 0 <=> record'.runtime \in {"created", "stopped"},
           \/ record' = record
           \/ /\ record'.version > record.version \/ (record'.version = record.version /\ ~record'.live)
              /\ SameActivation \/ \A d \in Requests \ {c} : pc[d] \in Launching => server \notin Open,
           server # "down",
           RequestOK(l, h)',
           l \in Launching => \A d \in Requests \ {c} : pc[d] \in Holding => req[d].run # h.run,
           l \in Holding => \A d \in Requests \ {c} : pc[d] \in Launching => req[d].run # h.run,
           RecordOK', EndReported', WorkerRecorded', RunsCurrentRevision',
           server = "closed" /\ Tracked' => (Failed \/ TakenBack)'
    PROVE  ControlInv'
  <1> DEFINE Moved == /\ pc' \in [Requests -> Labels] /\ req' \in [Requests -> Held]
                      /\ pc'[c] = l /\ req'[c] = h
                      /\ \A d \in Requests \ {c} : pc'[d] = pc[d] /\ req'[d] = req[d]
  <1>0. Moved
    BY Entered, Parts
  <1> HIDE DEF Moved
  <1>1. TypeOK'
    <2>1. lastRun' \in 0..MaxRuns
      BY ControlPlaneAssumption, Parts DEF TypeOK
    <2> QED BY Zenon, <1>0, <2>1, Parts DEF TypeOK, Moved, Held, Records, supervisor, process
  <1>2. RequestsOK'
    <2>1. \A d \in Requests \ {c} : RequestOK(pc[d], req[d])'
      BY <1>0, OthersKnow DEF Moved
    <2>2. RequestOK(pc[c], req[c])'
      BY <1>0 DEF Moved, RequestOK
    <2> QED BY <2>1, <2>2 DEF RequestsOK
  <1>3. Unshared'
    BY <1>0, Parts DEF Unshared, Moved
  <1>4. WorkersOK' /\ EventsPast' /\ OneWorker'
    <2>1. \A r \in Runs : r <= lastRun => r <= lastRun'
      BY Types DEF Runs
    <2> QED BY <2>1, Parts DEF WorkersOK, WorkerOK, EventsPast, OneWorker, supervisor
  <1>5. Closing' /\ ShutdownStopsAll'
    BY Parts DEF Closing, ShutdownStopsAll, supervisor, process
  <1> QED BY <1>1, <1>2, <1>3, <1>4, <1>5, Whole

\* A request moves on by itself.
LEMMA RequestMoves ==
    ASSUME ControlInv, NEW c \in Requests, NEW l \in Labels, NEW h \in Held, Enter(c, l, h),
           UNCHANGED <<record, supervisor, process>>, lastRun' \in lastRun..MaxRuns,
           stranded \subseteq stranded', stranded' \in SUBSET (0..MaxRuns), faults' \in 0..MaxFaults,
           pc[c] # "idle" \/ server = "up", RequestOK(l, h),
           l \in Holding => pc[c] \in Holding /\ h.run = req[c].run,
           l \in Launching => pc[c] \in Launching,
           server = "closed" /\ pc[c] \in {"start", "fail"} /\ record.live /\ req[c].run = record.run =>
              record.run \in stranded' \/ (l \in {"start", "fail"} /\ h = req[c])
    PROVE  ControlInv'
  <1>0. /\ lastRun \in Nat /\ lastRun' \in Nat /\ lastRun <= lastRun'
        /\ record \in Records /\ req[c] \in Held
        /\ record.run = 0 <=> record.runtime \in {"created", "stopped"}
    BY Types, RequestTypes
  <1>1. server # "down"
    BY Parts DEF Closing
  <1>2. RequestOK(l, h)'
    BY <1>0 DEF RequestOK, supervisor, process, Held
  <1>3. /\ l \in Launching => \A d \in Requests \ {c} : pc[d] \in Holding => req[d].run # h.run
        /\ l \in Holding => \A d \in Requests \ {c} : pc[d] \in Launching => req[d].run # h.run
    BY Parts DEF Unshared, Launching, Holding, Labels
  <1>4. RecordOK' /\ EndReported' /\ WorkerRecorded' /\ RunsCurrentRevision'
    BY <1>0, Parts DEF RecordOK, EndReported, Tracked, Pending, WorkerRecorded, RunsCurrentRevision,
       supervisor, process, Records
  <1>5. server = "closed" /\ Tracked' => (Failed \/ TakenBack)'
    <2> SUFFICES ASSUME server = "closed", Tracked', ~Failed
                 PROVE  TakenBack'
      BY DEF Failed, supervisor, process
    <2>1. TakenBack
      BY Zenon, Parts DEF Closing, Tracked
    <2>2. PICK d \in Requests : pc[d] \in {"start", "fail"} /\ req[d].run = record.run
      BY <2>1 DEF TakenBack
    <2>3. pc'[d] \in {"start", "fail"} /\ req'[d].run = record.run
      BY <2>2, Entered, Parts DEF Tracked
    <2> QED BY <2>1, <2>3 DEF TakenBack, supervisor
  <1> QED BY <1>0, <1>1, <1>2, <1>3, <1>4, <1>5, ServiceMoves

\* A request ends.
LEMMA RequestEnds ==
    ASSUME ControlInv, NEW c \in Requests, Goto(c, "idle"),
           UNCHANGED <<record, supervisor, process>>, lastRun' \in lastRun..MaxRuns,
           stranded \subseteq stranded', stranded' \in SUBSET (0..MaxRuns), faults' \in 0..MaxFaults,
           pc[c] # "idle" \/ server = "up",
           server = "closed" /\ pc[c] \in {"start", "fail"} /\ record.live /\ req[c].run = record.run =>
              record.run \in stranded'
    PROVE  ControlInv'
  BY Leaves, RequestMoves

\* A request goes on and has no run to spawn any more.
LEMMA RequestGoes ==
    ASSUME ControlInv, NEW c \in Requests, NEW l \in Labels, l \in Holding, l \notin Launching,
           pc[c] \in Holding, l # "idle", Goto(c, l), RequestOK(l, req[c]),
           UNCHANGED <<record, supervisor, process, lastRun>>,
           stranded \subseteq stranded', stranded' \in SUBSET (0..MaxRuns), faults' \in 0..MaxFaults,
           server = "closed" /\ pc[c] \in {"start", "fail"} => l = "fail"
    PROVE  ControlInv'
  <1>1. Enter(c, l, req[c]) /\ req[c] \in Held /\ lastRun' \in lastRun..MaxRuns
    BY RequestTypes, Types DEF Goto
  <1>2. pc[c] # "idle"
    BY DEF Holding
  <1> QED BY <1>1, <1>2, RequestMoves

\* A request moves on before the server has closed, and nothing else changes.
LEMMA OpenMoves ==
    ASSUME ControlInv, NEW c \in Requests, NEW l \in Labels, NEW h \in Held, Enter(c, l, h),
           UNCHANGED <<record, supervisor, process, stranded, faults>>, lastRun' \in lastRun..MaxRuns,
           pc[c] # "idle" \/ server = "up", server # "closed", RequestOK(l, h),
           l \in Holding => pc[c] \in Holding /\ h.run = req[c].run,
           l \in Launching => pc[c] \in Launching
    PROVE  ControlInv'
  <1>1. stranded \subseteq stranded' /\ stranded' \in SUBSET (0..MaxRuns) /\ faults' \in 0..MaxFaults
    BY Types
  <1> QED BY <1>1, RequestMoves

\* The record advances and shows the same run of the same revision, in the state
\* it was in or in another active one.
LEMMA Continues ==
    ASSUME ControlInv, NEW c \in Requests, NEW l \in {"idle", "stop"}, NEW h \in Held, Enter(c, l, h),
           h.run <= lastRun, l # "idle" => h.run # 0,
           UNCHANGED <<supervisor, process, lastRun, stranded, faults>>, server # "down",
           record' \in Records, record'.version = record.version + 1, record'.live = record.live,
           record'.revision = record.revision, record'.run = record.run,
           record.live /\ record'.validation # "draft" => record'.validated = record.revision,
           \/ record'.runtime = record.runtime
           \/ record.runtime \in Transient /\ record'.runtime \in Transient,
           record'.runtime = "running" =>
              record.runtime = "running" \/ worker[record.run].startup = "ready",
           SameActivation \/ \A d \in Requests \ {c} : pc[d] \in Launching => server \notin Open,
           l # "idle" => \A d \in Requests \ {c} : pc[d] \notin Launching,
           server = "closed" /\ Tracked' => (Failed \/ TakenBack)'
    PROVE  ControlInv'
  <1>1. /\ record'.version > record.version /\ lastRun' \in lastRun..MaxRuns
        /\ record'.run = 0 <=> record'.runtime \in {"created", "stopped"}
    BY Types DEF Records, Transient
  <1>2. RequestOK(l, h)' /\ l \in Labels /\ l \notin Launching /\ (l \in Holding => l # "idle")
    BY Quiet, QuietThen
  <1>3. RecordOK'
    BY <1>1, Types, Parts DEF RecordOK, Records
  <1>4. WorkerRecorded'
    BY Parts DEF WorkerRecorded, supervisor
  <1>5. RunsCurrentRevision'
    BY Parts DEF RunsCurrentRevision, supervisor
  <1>6. EndReported'
    <2>1. Tracked' => Tracked
      BY DEF Tracked
    <2>2. Pending(record.run) => Pending(record.run)'
      BY DEF Pending, supervisor
    <2> QED BY <2>1, <2>2, Parts DEF EndReported, supervisor, process
  <1> QED BY <1>1, <1>2, <1>3, <1>4, <1>5, <1>6, Types, ServiceMoves

\* The record is written outside a request (it is created, the monitor applies an
\* event, a shutdown normalizes it) and is not active afterwards.
LEMMA RecordSettles ==
    ASSUME ControlInv, UNCHANGED <<pc, req, worker, handle, lastRun, draining, stranded, faults>>,
           events' \in Seq(Events), EventsPast',
           server' = server \/ (server = "normalizing" /\ server' = "closed"), server # "down",
           record' \in Records, record'.run = 0 <=> record'.runtime \in {"created", "stopped"},
           record'.runtime \notin Transient, record'.run <= lastRun,
           record'.version > record.version,
           record'.live /\ record'.validation # "draft" => record'.validated = record'.revision,
           \A d \in Requests : pc[d] \in Launching => server \notin Open,
           \A r \in Runs : worker[r].stage \in Alive => worker[r].cancel
    PROVE  ControlInv'
  <1>1. TypeOK'
    BY Zenon, Parts DEF TypeOK, Records, Events
  <1>2. RequestsOK'
    BY RequestsSettle DEF Open
  <1>3. Unshared' /\ WorkersOK' /\ OneWorker'
    BY Parts DEF Unshared, WorkersOK, WorkerOK, OneWorker
  <1>4. RecordOK' /\ EndReported' /\ WorkerRecorded' /\ RunsCurrentRevision'
    <2>1. RecordOK' /\ EndReported'
      BY Types DEF RecordOK, EndReported, Tracked, Records
    <2> QED BY <2>1 DEF WorkerRecorded, RunsCurrentRevision
  <1>5. Closing' /\ ShutdownStopsAll'
    BY Parts DEF Closing, Tracked, ShutdownStopsAll, Open
  <1> QED BY <1>1, <1>2, <1>3, <1>4, <1>5, Whole

\* What replacing the record by one in another runtime state does.
LEMMA Advanced ==
    ASSUME ControlInv, NEW s \in Transient \cup {"created", "stopped", "failed"}, NEW r \in 0..MaxRuns,
           Replaced(WithRuntime(s, r))
    PROVE  /\ record' \in Records /\ record'.version = record.version + 1
           /\ record'.live = record.live /\ record'.revision = record.revision
           /\ record'.validation = record.validation /\ record'.validated = record.validated
           /\ record'.runtime = s /\ record'.run = r
           /\ stranded' = stranded /\ faults' = faults
  <1>1. /\ record' = [live |-> record.live, revision |-> record.revision,
                      version |-> record.version + 1, validation |-> record.validation,
                      validated |-> record.validated, runtime |-> s, run |-> r]
        /\ stranded' = stranded /\ faults' = faults
    BY Zenon, Types DEF Replaced, WithRuntime, NoFault, Records
  <1> QED BY <1>1, Types DEF Records

\* A failed persist leaves the record as it is and strands the run.
LEMMA Stranded ==
    ASSUME ControlInv, NEW r \in 0..MaxRuns, NoFault \/ Fault(r)
    PROVE  /\ stranded \subseteq stranded' /\ stranded' \in SUBSET (0..MaxRuns)
           /\ faults' \in 0..MaxFaults
           /\ Fault(r) => r \in stranded'
  BY Types DEF NoFault, Fault

\* UpdateDraft, Delete and a verdict are about a delivery that is not active,
\* whose record no request is launching.
LEMMA NotActive ==
    ASSUME ControlInv, ~record.live \/ record.runtime \notin Transient
    PROVE  /\ \A d \in Requests : pc[d] \in Launching => server \notin Open
           /\ \A r \in Runs : worker[r].stage \in Alive => worker[r].cancel
  <1>1. \A d \in Requests : pc[d] \in Launching => server \notin Open
    BY LaunchKnows DEF Transient
  <1>2. \A r \in Runs : worker[r].cancel \in BOOLEAN
    BY WorkerTypes DEF WorkerStates
  <1> QED BY <1>1, <1>2, Parts DEF WorkerRecorded

\* Who still launches a run shares it with nobody, so the record that another
\* request is about to judge is not the launched one.
LEMMA NobodyLaunches ==
    ASSUME ControlInv, NEW c \in Requests, pc[c] \in Holding \ Launching, record.run = req[c].run
    PROVE  \A d \in Requests \ {c} : pc[d] \in Launching => server \notin Open
  BY LaunchKnows, Parts DEF Unshared

\* The record of a delivery that is not, or no longer, active advances: no worker
\* may be running unless it was told to stop.
LEMMA Deactivates ==
    ASSUME ControlInv, NEW c \in Requests, NEW h \in Held, Enter(c, "idle", h), h.run <= lastRun,
           UNCHANGED <<supervisor, process, lastRun, stranded, faults>>, server # "down",
           record' \in Records, record'.run = 0 <=> record'.runtime \in {"created", "stopped"},
           record'.runtime \notin Transient, record'.run <= lastRun,
           record'.version > record.version \/ (record'.version = record.version /\ ~record'.live),
           record'.live /\ record'.validation # "draft" => record'.validated = record'.revision,
           \A d \in Requests \ {c} : pc[d] \in Launching => server \notin Open,
           \A r \in Runs : worker[r].stage \in Alive => worker[r].cancel
    PROVE  ControlInv'
  <1>1. "idle" \in Labels /\ "idle" \notin Holding /\ "idle" \notin Launching
    BY Quiet
  <1>2. RequestOK("idle", h)'
    BY QuietThen
  <1>3. RecordOK' /\ EndReported' /\ ~Tracked'
    BY Types DEF RecordOK, EndReported, Tracked, Records
  <1>4. WorkerRecorded' /\ RunsCurrentRevision'
    BY DEF WorkerRecorded, RunsCurrentRevision, supervisor
  <1> QED BY <1>1, <1>2, <1>3, <1>4, Types, ServiceMoves

-----------------------------------------------------------------------------
\* The type invariant of the parts of the server, taken apart and put together.
LEMMA ServerTypes ==
    ASSUME ControlInv
    PROVE  /\ worker \in [Runs -> WorkerStates] /\ pc \in [Requests -> Labels]
           /\ req \in [Requests -> Held] /\ events \in Seq(Events)
           /\ handle \in 0..MaxRuns /\ draining \in 0..MaxRuns
           /\ server \in {"up", "stopping", "draining", "normalizing", "closed", "down"}
           /\ handle # 0 => handle \in Runs
           /\ draining # 0 => draining \in Runs
  <1>1. /\ worker \in [Runs -> WorkerStates] /\ pc \in [Requests -> Labels]
        /\ req \in [Requests -> Held] /\ events \in Seq(Events)
    BY Parts DEF TypeOK, WorkerStates, Held, Events
  <1>2. /\ handle \in 0..MaxRuns /\ draining \in 0..MaxRuns
        /\ server \in {"up", "stopping", "draining", "normalizing", "closed", "down"}
    BY Parts DEF TypeOK
  <1> QED BY <1>1, <1>2, ControlPlaneAssumption DEF Runs

\* The same of the next state.
LEMMA TypesHold ==
    ASSUME record' \in Records, record'.run = 0 <=> record'.runtime \in {"created", "stopped"},
           pc' \in [Requests -> Labels], req' \in [Requests -> Held],
           worker' \in [Runs -> WorkerStates], handle' \in 0..MaxRuns, draining' \in 0..MaxRuns,
           lastRun' \in 0..MaxRuns, events' \in Seq(Events), stranded' \in SUBSET (0..MaxRuns),
           faults' \in 0..MaxFaults,
           server' \in {"up", "stopping", "draining", "normalizing", "closed", "down"}
    PROVE  TypeOK'
  BY Zenon DEF TypeOK, Records, Held, WorkerStates, Events

\* A request that waits knows that the worker exists.
LEMMA WaitsThen ==
    ASSUME NEW h, h.run <= lastRun', h.run # 0, worker'[h.run].stage # "none"
    PROVE  RequestOK("wait", h)'
  BY DEF RequestOK, Holding, Launching, Labels

\* A worker advances: a request that knew something of it still does.
LEMMA RequestAdvances ==
    ASSUME NEW l \in Labels, NEW h \in Held, RequestOK(l, h), UNCHANGED <<record, lastRun, process>>,
           handle' = handle \/ handle' = 0, \A q \in Runs : Advances(worker[q], worker'[q])
    PROVE  RequestOK(l, h)'
  <1>1. l \in Holding => h.run \in Runs
    BY ControlPlaneAssumption DEF RequestOK, Held, Runs
  <1>2. l \in Holding => Advances(worker[h.run], worker'[h.run])
    BY <1>1
  <1> QED BY <1>2 DEF RequestOK, Advances, Launching, Holding, Labels, process

\* A worker advances: its owner is the same.
LEMMA OwnersAdvance ==
    ASSUME ControlInv, UNCHANGED <<record, lastRun, process, stranded>>,
           \A q \in Runs : Advances(worker[q], worker'[q]),
           handle' = handle \/ (handle' = 0 /\ worker'[handle].stage \notin Alive)
    PROVE  /\ RecordOK' /\ WorkerRecorded' /\ RunsCurrentRevision' /\ OneWorker'
           /\ (Failed => Failed' \/ (draining # 0 /\ worker[draining].stage \in Alive))
  <1>1. RecordOK' /\ OneWorker'
    BY Parts DEF RecordOK, OneWorker, Advances
  <1>2. WorkerRecorded' /\ RunsCurrentRevision'
    BY Parts DEF WorkerRecorded, RunsCurrentRevision, Advances
  <1>3. draining' = draining /\ (draining # 0 => draining \in Runs)
    BY ServerTypes DEF process
  <1> QED BY <1>1, <1>2, <1>3 DEF Failed, Advances

\* A worker advances: its end is still reported.
LEMMA EndAdvances ==
    ASSUME ControlInv, NEW r \in Runs, UNCHANGED <<record, process, stranded>>,
           \A q \in Runs : Advances(worker[q], worker'[q]), \A q \in Runs \ {r} : worker'[q] = worker[q],
           \A q \in Runs : Pending(q) => Pending(q)',
           worker'[r].stage \in {"reported", "done"} =>
              worker[r].stage \in {"reported", "done", "orphan"} \/ Pending(r)'
    PROVE  EndReported'
  <1> SUFFICES ASSUME server # "down", Tracked PROVE
                 /\ worker'[record.run].stage # "orphan"
                 /\ worker'[record.run].stage \in {"reported", "done"} => Pending(record.run)'
                 /\ record.runtime = "running" => worker'[record.run].startup = "ready"
    BY DEF EndReported, Tracked, Pending, process
  <1>1. record.run \in Runs
    BY Types DEF Tracked, Runs, Records, Transient
  <1>2. /\ worker[record.run].stage # "orphan"
        /\ worker[record.run].stage \in {"reported", "done"} => Pending(record.run)
        /\ record.runtime = "running" => worker[record.run].startup = "ready"
    BY Parts DEF EndReported
  <1> QED BY <1>1, <1>2 DEF Advances

\* A worker advances while the server is closing or down.
LEMMA ClosingAdvances ==
    ASSUME ControlInv, UNCHANGED <<record, process, stranded>>,
           \A q \in Runs : Advances(worker[q], worker'[q]),
           handle' = handle \/ handle' = 0, server = "down" => events' = <<>> /\ pc' = pc,
           \A c \in Requests : pc[c] \in {"start", "fail"} => pc'[c] = pc[c] /\ req'[c] = req[c],
           Failed => Failed' \/ (draining # 0 /\ worker[draining].stage \in Alive)
    PROVE  Closing' /\ ShutdownStopsAll'
  <1>0. server' = server /\ draining' = draining
    BY DEF process
  <1>1. server = "down" => \A q \in Runs : worker'[q].stage \in {"none", "orphan", "done"}
    BY Parts DEF Closing, Advances
  <1>2. \A q \in Runs : worker[q].stage \notin Alive => worker'[q].stage \notin Alive
    BY DEF Advances
  <1>3. server \in {"closed", "down"} => (Failed => Failed')
    BY ServerTypes, Parts DEF ShutdownStopsAll
  <1>4. ASSUME server = "closed", Tracked, ~Failed'
        PROVE  TakenBack'
    <2>1. TakenBack
      BY <1>3, <1>4, Parts DEF Closing
    <2>2. record.run \in Runs
      BY <1>4, Types DEF Tracked, Runs, Records, Transient
    <2>3. worker'[record.run].stage = "none"
      BY <2>1, <2>2 DEF TakenBack, Advances
    <2>4. PICK c \in Requests : pc[c] \in {"start", "fail"} /\ req[c].run = record.run
      BY <2>1 DEF TakenBack
    <2>5. pc'[c] = pc[c] /\ req'[c] = req[c]
      BY <2>4
    <2> QED BY <2>1, <2>3, <2>4, <2>5 DEF TakenBack
  <1>5. Closing'
    BY <1>0, <1>1, <1>4, Parts DEF Closing, Tracked
  <1>6. ShutdownStopsAll'
    BY <1>0, <1>2, <1>3, Parts DEF ShutdownStopsAll, Failed
  <1> QED BY <1>5, <1>6

\* Whoever is to spawn a run, or holds one, held it before.
LEMMA UnsharedStays ==
    ASSUME ControlInv,
           \A c, d \in Requests : c # d /\ pc'[c] \in Launching /\ pc'[d] \in Holding =>
              pc[c] = pc'[c] /\ req[c] = req'[c] /\ pc[d] \in Holding /\ req'[d].run = req[d].run
    PROVE  Unshared'
  BY Parts DEF Unshared

\* What is left to show of a step of a worker.
LEMMA WorkerAdvances ==
    ASSUME ControlInv, NEW r \in Runs, NEW v \in WorkerStates, worker' = [worker EXCEPT ![r] = v],
           WorkerOK(r, v), Advances(worker[r], v),
           UNCHANGED <<record, lastRun, process, stranded>>, faults' \in 0..MaxFaults,
           pc' \in [Requests -> Labels], req' \in [Requests -> Held],
           \A d \in Requests : \E l \in Labels, h \in Held : pc'[d] = l /\ req'[d] = h /\ Follows(d, l, h),
           handle' = handle \/ (handle = r /\ handle' = 0 /\ v.stage \notin Alive),
           events' \in Seq(Events), EventsPast', server = "down" => events' = <<>> /\ pc' = pc,
           \A q \in Runs : Pending(q) => Pending(q)',
           v.stage \in {"reported", "done"} =>
              worker[r].stage \in {"reported", "done", "orphan"} \/ Pending(r)'
    PROVE  ControlInv'
  <1>1. /\ worker' \in [Runs -> WorkerStates] /\ worker'[r] = v
        /\ \A q \in Runs \ {r} : worker'[q] = worker[q]
    BY Zenon, ServerTypes
  <1>2. \A q \in Runs : Advances(worker[q], worker'[q])
    BY <1>1 DEF Advances
  <1>3. TypeOK'
    <2>1. /\ handle' \in 0..MaxRuns /\ draining' \in 0..MaxRuns
          /\ server' \in {"up", "stopping", "draining", "normalizing", "closed", "down"}
      BY ServerTypes, Types DEF process
    <2> QED BY <1>1, <2>1, Types, TypesHold
  <1>4. RequestsOK'
    <2> SUFFICES ASSUME NEW d \in Requests PROVE RequestOK(pc[d], req[d])'
      BY Zenon DEF RequestsOK
    <2>1. PICK l \in Labels, h \in Held : pc'[d] = l /\ req'[d] = h /\ Follows(d, l, h)
      BY Zenon
    <2>2. RequestOK(l, h)
      BY Zenon, <2>1 DEF Follows
    <2>3. RequestOK(l, h)'
      BY Zenon, <1>2, <2>2, RequestAdvances
    <2> QED BY Zenon, <2>1, <2>3 DEF RequestOK
  <1>5. \A c, d \in Requests : c # d /\ pc'[c] \in Launching /\ pc'[d] \in Holding =>
            pc[c] = pc'[c] /\ req[c] = req'[c] /\ pc[d] \in Holding /\ req'[d].run = req[d].run
    BY Zenon DEF Follows
  <1>6. Unshared'
    BY Zenon, <1>5, UnsharedStays
  <1>7. WorkersOK'
    BY <1>1, Parts DEF WorkersOK, WorkerOK
  <1>8. \A c \in Requests : pc[c] \in {"start", "fail"} => pc'[c] = pc[c] /\ req'[c] = req[c]
    BY Zenon DEF Follows
  <1>9. /\ RecordOK' /\ WorkerRecorded' /\ RunsCurrentRevision' /\ OneWorker'
        /\ (Failed => Failed' \/ (draining # 0 /\ worker[draining].stage \in Alive))
    BY Zenon, <1>1, <1>2, OwnersAdvance
  <1>10. EndReported'
    BY Zenon, <1>1, <1>2, EndAdvances
  <1>11. Closing' /\ ShutdownStopsAll'
    BY Zenon, <1>2, <1>8, <1>9, ClosingAdvances
  <1> QED BY Zenon, <1>3, <1>4, <1>6, <1>7, <1>9, <1>10, <1>11, Whole

\* Requests that stay where they are follow.
LEMMA AllFollow ==
    ASSUME ControlInv, UNCHANGED <<pc, req>>
    PROVE  /\ pc' \in [Requests -> Labels] /\ req' \in [Requests -> Held]
           /\ \A d \in Requests : \E l \in Labels, h \in Held :
                  pc'[d] = l /\ req'[d] = h /\ Follows(d, l, h)
  BY RequestTypes, Parts DEF TypeOK, Held, Follows

\* Every event is about a run.
LEMMA EventRuns ==
    ASSUME ControlInv
    PROVE  events \in Seq(Events) /\ \A i \in DOMAIN events : events[i].run \in Runs
  <1>1. events \in Seq(Events)
    BY Parts DEF TypeOK, Events
  <1>2. \A i \in DOMAIN events : events[i] \in Events
    BY <1>1
  <1> QED BY <1>1, <1>2 DEF Events

\* An actor goes on, alone.
LEMMA ActorMoves ==
    ASSUME ControlInv, NEW r \in Runs, NEW v \in WorkerStates, worker' = [worker EXCEPT ![r] = v],
           UNCHANGED <<service, handle, events, lastRun, process, stranded, faults>>,
           WorkerOK(r, v), Advances(worker[r], v),
           v.stage \in {"reported", "done"} => worker[r].stage \in {"reported", "done", "orphan"}
    PROVE  ControlInv'
  <1>1. UNCHANGED <<record, pc, req>>
    BY DEF service
  <1>2. EventsPast' /\ events' \in Seq(Events) /\ (server = "down" => events' = <<>>)
    <2>1. \A i \in DOMAIN events : events[i].run \in Runs
      BY EventRuns
    <2>2. events' \in Seq(Events) /\ (server = "down" => events' = <<>>)
      BY EventRuns, Parts DEF Closing
    <2>3. \A q \in Runs : worker[q].stage \in {"reported", "done"} => worker'[q].stage \in {"reported", "done"}
      BY ServerTypes DEF Advances
    <2> QED BY <2>1, <2>2, <2>3, Parts DEF EventsPast
  <1>3. \A q \in Runs : Pending(q) => Pending(q)'
    BY DEF Pending
  <1> QED BY Zenon, <1>1, <1>2, <1>3, AllFollow, Types, WorkerAdvances

\* What is left to show of a step that changes the server alone.
LEMMA ServerMoves ==
    ASSUME ControlInv, UNCHANGED <<record, pc, req, worker, handle, events, lastRun, stranded, faults>>,
           server' \in {"up", "stopping", "draining", "normalizing", "closed", "down"},
           draining' = draining, server' \in Open <=> server \in Open,
           EndReported', Closing', ShutdownStopsAll'
    PROVE  ControlInv'
  <1>1. TypeOK'
    BY Types, ServerTypes, TypesHold
  <1>2. RequestsOK'
    BY RequestsKeep, Parts
  <1>3. EventsPast'
    BY Parts DEF EventsPast
  <1> QED BY <1>1, <1>2, <1>3, RestKeeps, Whole
=============================================================================
