----------------------------- MODULE ControlPlane -----------------------------
(***************************************************************************)
(* The life of one delivery in the control plane (transferia-control-plane *)
(* service.rs) and the local worker supervisor that runs its processes     *)
(* (transferia-runtime-local supervisor.rs).  Requests, one actor per      *)
(* spawned worker, the event monitor and the server's shutdown interleave; *)
(* a section that holds the mutation lock is one step.  A request names    *)
(* the revision and record version that its client read: one that does not *)
(* match the record is refused and changes nothing.                        *)
(***************************************************************************)
EXTENDS Naturals, Sequences, FiniteSets

CONSTANTS
    Requests,     \* concurrent HTTP requests
    MaxRuns,      \* bound on activations
    MaxRevision,  \* bound on edits
    MaxVersion,   \* no request starts once the record has this version
    MaxFaults,    \* bound on failed persists, dropped requests and crashes
    PersistFails, \* a persist may fail
    Disconnects,  \* a client may disconnect, which drops its request
    Crashes       \* the server may die and be started again

ASSUME ControlPlaneAssumption ==
    /\ MaxRuns \in Nat /\ MaxRevision \in Nat /\ MaxVersion \in Nat /\ MaxFaults \in Nat
    /\ {PersistFails, Disconnects, Crashes} \subseteq BOOLEAN

VARIABLES
    record,    \* the DeliveryRecord
    pc, req,   \* where each request is; the run, revision and version it holds
    worker,    \* [run -> the state of its worker and of the worker's actor]
    handle,    \* the run in the supervisor's `workers` map; 0 when there is none
    events,    \* the supervisor's event channel
    lastRun,   \* run ids handed out
    server,    \* "up", "stopping", "draining", "normalizing", "closed", "down"
    draining,  \* the run that shutdown_all waits for; 0 when there is none
    stranded,  \* a persist failed or a request was dropped, for this run
    faults

service == <<record, pc, req>>
supervisor == <<worker, handle, events>>
process == <<server, draining>>
vars == <<record, pc, req, worker, handle, events, lastRun, server, draining, stranded, faults>>

Runs == 1..MaxRuns
Transient == {"starting", "running", "stopping"}
Alive == {"starting", "announcing", "ready", "stopping", "killing"}
NoRequest == [run |-> 0, revision |-> 0, version |-> 0]
NoWorker == [stage |-> "none", cancel |-> FALSE, startup |-> "none", outcome |-> "none", revision |-> 0]

Enter(c, label, held) == pc' = [pc EXCEPT ![c] = label] /\ req' = [req EXCEPT ![c] = held]
Goto(c, label) == Enter(c, label, IF label = "idle" THEN NoRequest ELSE req[c])
Accepting(c) == server = "up" /\ pc[c] = "idle" /\ record.live /\ record.version < MaxVersion
NoFault == UNCHANGED <<stranded, faults>>
Fault(r) == faults < MaxFaults /\ faults' = faults + 1 /\ stranded' = stranded \cup {r}

\* DeliveryStore::replace: the record advances by one version, or the persist
\* fails and nothing changes.
Replaced(new) == record' = [new EXCEPT !.version = record.version + 1] /\ NoFault
NotReplaced(r) == PersistFails /\ record' = record /\ Fault(r)
WithRuntime(state, r) == [record EXCEPT !.runtime = state, !.run = r]

-----------------------------------------------------------------------------
\* create_draft, update_draft and delete are one locked section each.
CreateDraft ==
    /\ server = "up" /\ ~record.live /\ record.version = 0
    /\ record' = [live |-> TRUE, revision |-> 1, version |-> 1, validation |-> "draft",
                  validated |-> 0, runtime |-> "created", run |-> 0]
    /\ UNCHANGED <<pc, req, supervisor, lastRun, process, stranded, faults>>

UpdateDraft(c) ==
    /\ Accepting(c) /\ record.runtime \notin Transient /\ record.revision < MaxRevision
    /\ Replaced([record EXCEPT !.revision = @ + 1, !.validation = "draft", !.run = 0,
                   !.runtime = IF @ = "created" THEN "created" ELSE "stopped"])
    /\ UNCHANGED <<pc, req, supervisor, lastRun, process>>

Delete(c) ==
    /\ Accepting(c) /\ record.runtime \notin Transient
    /\ record' = [record EXCEPT !.live = FALSE, !.runtime = "created", !.run = 0]
    /\ NoFault /\ UNCHANGED <<pc, req, supervisor, lastRun, process>>

Snapshot == [run |-> 0, revision |-> record.revision, version |-> record.version]

\* validate_saved reads the record, previews it without the lock and then
\* stores the verdict if the record is still the one it read.
ValidateBegins(c) ==
    /\ Accepting(c) /\ Enter(c, "validate", Snapshot)
    /\ UNCHANGED <<record, supervisor, lastRun, process, stranded, faults>>

Unchanged(c) ==
    record.live /\ record.revision = req[c].revision /\ record.version = req[c].version

Verdict(c) ==
    \E v \in {"ready", "invalid"} :
        Replaced([record EXCEPT !.validation = v, !.validated = req[c].revision])

\* Slip: the verdict is stored without reading the record again.
ValidateEndsBlindly(c) ==
    /\ pc[c] = "validate" /\ Goto(c, "idle")
    /\ IF record.live THEN Verdict(c) ELSE record' = record /\ NoFault
    /\ UNCHANGED <<supervisor, lastRun, process>>

ValidateEnds(c) ==
    /\ pc[c] = "validate" /\ Goto(c, "idle")
    /\ \/ Unchanged(c) /\ server = "up" /\ (Verdict(c) \/ NotReplaced(0))
       \/ ~(Unchanged(c) /\ server = "up") /\ record' = record /\ NoFault
    /\ UNCHANGED <<supervisor, lastRun, process>>

-----------------------------------------------------------------------------
\* activate, first locked section: the checks.
ActivateBegins(c) ==
    /\ Accepting(c) /\ record.runtime \notin Transient
    /\ record.validation = "ready" /\ record.validated = record.revision
    /\ Enter(c, "plan", Snapshot)
    /\ UNCHANGED <<record, supervisor, lastRun, process, stranded, faults>>

\* The plan cannot be built, or the server shuts down meanwhile.
PlanFails(c) ==
    /\ pc[c] = "plan" /\ Goto(c, "idle")
    /\ UNCHANGED <<record, supervisor, lastRun, process, stranded, faults>>

Launches(c) ==
    Enter(c, "start", [run |-> lastRun + 1, revision |-> req[c].revision, version |-> 0])

\* activate, second locked section: the record must not have changed; it
\* becomes Starting under a fresh run id.
Planned(c) ==
    /\ pc[c] = "plan" /\ lastRun < MaxRuns
    /\ \/ /\ Unchanged(c) /\ Replaced(WithRuntime("starting", lastRun + 1)) /\ Launches(c)
       \/ Unchanged(c) /\ NotReplaced(lastRun + 1) /\ Goto(c, "idle")
       \/ ~Unchanged(c) /\ record' = record /\ NoFault /\ Goto(c, "idle")
    /\ lastRun' = lastRun + 1 /\ UNCHANGED <<supervisor, process>>

\* WorkerSupervisor::start takes start_lock, refuses when it shuts down or a
\* worker of the delivery is still in the map, and spawns under the lock.
StartLocked == \E c \in Requests : pc[c] = "spawn"
ShuttingDown == server \in {"draining", "normalizing", "closed", "down"}

Starts(c) ==
    /\ pc[c] = "start" /\ ~StartLocked
    /\ Goto(c, IF ShuttingDown \/ handle # 0 THEN "fail" ELSE "spawn")
    /\ UNCHANGED <<record, supervisor, lastRun, process, stranded, faults>>

\* spawn_worker: the child is spawned and its handle inserted, or an error.
Spawns(c) ==
    /\ pc[c] = "spawn"
    /\ \/ /\ worker' = [worker EXCEPT ![req[c].run] =
                          [NoWorker EXCEPT !.stage = "starting", !.revision = req[c].revision]]
          /\ handle' = req[c].run /\ Goto(c, "wait")
       \/ UNCHANGED <<worker, handle>> /\ Goto(c, "fail")
    /\ UNCHANGED <<record, events, lastRun, process, stranded, faults>>

\* StartupWait::wait returns what the actor sent.
StartupWaited(c) ==
    /\ pc[c] = "wait" /\ worker[req[c].run].startup # "none"
    /\ Goto(c, CASE worker[req[c].run].startup = "ready" -> "confirm"
                 [] worker[req[c].run].startup = "failed" -> "fail"
                 [] worker[req[c].run].startup = "cancelled" -> "cancelled")
    /\ UNCHANGED <<record, supervisor, lastRun, process, stranded, faults>>

IsStarting(c) == record.runtime = "starting" /\ record.run = req[c].run

\* Slip: Running is stored whatever the record says by now.
ConfirmsBlindly(c) ==
    /\ pc[c] = "confirm" /\ record.live
    /\ Replaced(WithRuntime("running", req[c].run)) /\ Goto(c, "idle")
    /\ UNCHANGED <<supervisor, lastRun, process>>

\* activate, last locked section.
Confirms(c) ==
    /\ pc[c] = "confirm"
    /\ \/ /\ record.live /\ record.revision # req[c].revision
          /\ record' = record /\ NoFault /\ Goto(c, "cleanup")
       \/ /\ ~record.live \/ (record.revision = req[c].revision /\ ~IsStarting(c))
          /\ record' = record /\ NoFault /\ Goto(c, "idle")
       \/ /\ record.live /\ record.revision = req[c].revision /\ IsStarting(c)
          /\ \/ Replaced(WithRuntime("running", req[c].run)) /\ Goto(c, "idle")
             \/ NotReplaced(req[c].run) /\ Goto(c, "cleanup")
    /\ UNCHANGED <<supervisor, lastRun, process>>

-----------------------------------------------------------------------------
\* mark_failed and mark_stopped: only when the record still holds the run.
Marks(c, from, state) ==
    /\ pc[c] = from /\ Goto(c, "idle")
    /\ \/ /\ record.live /\ record.run = req[c].run
          /\ \/ Replaced(WithRuntime(state, IF state = "stopped" THEN 0 ELSE req[c].run))
             \/ NotReplaced(req[c].run)
       \/ ~(record.live /\ record.run = req[c].run) /\ record' = record /\ NoFault
    /\ UNCHANGED <<supervisor, lastRun, process>>

MarksFailed(c) == Marks(c, "fail", "failed")
MarksStopped(c) == Marks(c, "cancelled", "stopped")

\* stop, first locked section: Running becomes Stopping.
StopBegins(c) ==
    /\ Accepting(c) /\ record.runtime = "running"
    /\ \/ /\ Replaced(WithRuntime("stopping", record.run))
          /\ Enter(c, "stop", [run |-> record.run, revision |-> record.revision, version |-> 0])
       \/ NotReplaced(record.run) /\ Goto(c, "idle")
    /\ UNCHANGED <<supervisor, lastRun, process>>

Cancelled(r) == [worker EXCEPT ![r].cancel = TRUE]

\* Slip: stop takes the handle out of the map.
StopTakesHandle(c) ==
    /\ pc[c] \in {"stop", "cleanup"}
    /\ \/ /\ handle = req[c].run /\ worker' = Cancelled(handle) /\ handle' = 0
          /\ Goto(c, IF pc[c] = "stop" THEN "await" ELSE "await_cleanup")
       \/ /\ handle # req[c].run /\ UNCHANGED <<worker, handle>>
          /\ Goto(c, IF pc[c] = "stop" THEN "fail" ELSE "idle")
    /\ UNCHANGED <<record, events, lastRun, process, stranded, faults>>

\* WorkerSupervisor::stop cancels the worker in the map, if it is this run;
\* called by `stop` and by an activation that cannot complete.
StopCalls(c) ==
    /\ pc[c] \in {"stop", "cleanup"}
    /\ \/ /\ handle = req[c].run /\ worker' = Cancelled(handle)
          /\ Goto(c, IF pc[c] = "stop" THEN "await" ELSE "await_cleanup")
       \/ /\ handle # req[c].run /\ worker' = worker
          /\ Goto(c, IF pc[c] = "stop" THEN "fail" ELSE "idle")
    /\ UNCHANGED <<record, handle, events, lastRun, process, stranded, faults>>

\* stop_handle waits for the actor's completion and returns its result.
StopWaited(c) ==
    /\ pc[c] \in {"await", "await_cleanup"} /\ worker[req[c].run].stage = "done"
    /\ Goto(c, CASE pc[c] = "await_cleanup" -> "idle"
                 [] pc[c] = "await" /\ worker[req[c].run].outcome = "failed" -> "fail"
                 [] OTHER -> "finish")
    /\ UNCHANGED <<record, supervisor, lastRun, process, stranded, faults>>

\* stop, last locked section.  (A Stopped record has run 0.)
StopEnds(c) == Marks(c, "finish", "stopped")

\* The client disconnects: the future is dropped at an await.  Dropping a
\* StartupWait cancels the worker; elsewhere the run is left as it is.
Drops(c) ==
    /\ Disconnects /\ pc[c] # "idle" /\ faults < MaxFaults /\ faults' = faults + 1
    /\ Goto(c, "idle")
    /\ IF pc[c] = "wait"
       THEN worker' = Cancelled(req[c].run) /\ stranded' = stranded
       ELSE worker' = worker /\ stranded' = stranded \cup {req[c].run}
    /\ UNCHANGED <<record, handle, events, lastRun, process>>

-----------------------------------------------------------------------------
\* run_worker_actor of run r, one action per await.
At(r, stage) == worker[r].stage = stage
Actor(r, to) ==
    /\ worker' = [worker EXCEPT ![r].stage = to]
    /\ UNCHANGED <<service, handle, events, lastRun, process, stranded, faults>>
ActorTells(r, to, startup, outcome) ==
    /\ worker' = [worker EXCEPT ![r].stage = to, ![r].startup = startup, ![r].outcome = outcome]
    /\ UNCHANGED <<service, handle, events, lastRun, process, stranded, faults>>

\* The child authenticates and reports READY before it is cancelled.
ChildReady(r) == At(r, "starting") /\ ~worker[r].cancel /\ Actor(r, "announcing")

\* Ready is sent; a dropped receiver means that the child is stopped.
Announces(r) ==
    /\ At(r, "announcing")
    /\ IF \E c \in Requests : pc[c] = "wait" /\ req[c].run = r
       THEN ActorTells(r, "ready", "ready", "none")
       ELSE Actor(r, "stopping")

\* The child fails to start or a startup timeout elapses: it is killed.
StartupFails(r) ==
    At(r, "starting") /\ ~worker[r].cancel /\ ActorTells(r, "ended", "failed", "failed")

\* Cancelled while it starts: the waiter is told, then the child is killed.
StartupCancelled(r) ==
    At(r, "starting") /\ worker[r].cancel /\ ActorTells(r, "killing", "cancelled", "none")

\* The select of a worker that is up: cancellation first, or the exit.
ActorCancelled(r) == At(r, "ready") /\ worker[r].cancel /\ Actor(r, "stopping")
ChildExits(r) ==
    /\ At(r, "ready") /\ ~worker[r].cancel
    /\ \E o \in {"exited", "failed"} : ActorTells(r, "ended", "ready", o)

\* Slip: a child that outlives the grace period goes back to the select.
StopsWithoutKill(r) ==
    /\ worker[r].stage \in {"stopping", "killing"}
    /\ Actor(r, "ready") \/ ActorTells(r, "ended", worker[r].startup, "stopped")

\* stop_child (STOP, grace period, kill) and the kill of a starting child; an
\* error of either is reported as a failed exit.
ChildStopped(r) ==
    /\ worker[r].stage \in {"stopping", "killing"}
    /\ \E o \in {"stopped", "failed"} : ActorTells(r, "ended", worker[r].startup, o)

\* The end of the actor: out of the map, the event, the completion.
Removes(r) ==
    /\ At(r, "ended") /\ worker' = [worker EXCEPT ![r].stage = "removed"]
    /\ handle' = IF handle = r THEN 0 ELSE handle
    /\ UNCHANGED <<service, events, lastRun, process, stranded, faults>>
Reports(r) ==
    /\ At(r, "removed") /\ worker' = [worker EXCEPT ![r].stage = "reported"]
    /\ events' = Append(events, [run |-> r, outcome |-> worker[r].outcome])
    /\ UNCHANGED <<service, handle, lastRun, process, stranded, faults>>
Completes(r) == At(r, "reported") /\ Actor(r, "done")

\* A worker whose server died loses its control channel and stops.
OrphanExits(r) == At(r, "orphan") /\ Actor(r, "done")

-----------------------------------------------------------------------------
\* Slip: an event is applied to a running worker only.
AppliesIfRunning ==
    /\ events # <<>> /\ events' = Tail(events)
    /\ IF record.live /\ record.run = Head(events).run /\ record.runtime = "running"
       THEN Replaced(WithRuntime("stopped", 0))
       ELSE record' = record /\ NoFault
    /\ UNCHANGED <<pc, req, worker, handle, lastRun, process>>

\* Slip: a worker event is applied to whatever run the record holds.
AppliesAnyEvent ==
    /\ events # <<>> /\ events' = Tail(events)
    /\ IF record.live /\ record.run # 0 /\ record.runtime # "failed"
       THEN Replaced(WithRuntime("stopped", 0))
       ELSE record' = record /\ NoFault
    /\ UNCHANGED <<pc, req, worker, handle, lastRun, process>>

\* apply_worker_event by the monitor: a stale event, and one after a failure
\* was recorded, change nothing; a failed persist is only logged.
AppliesEvent ==
    /\ events # <<>> /\ events' = Tail(events)
    /\ LET e == Head(events)
           current == record.live /\ record.run = e.run /\ record.runtime # "failed"
       IN \/ current /\ Replaced(IF e.outcome = "failed" THEN WithRuntime("failed", e.run)
                                                          ELSE WithRuntime("stopped", 0))
          \/ current /\ NotReplaced(e.run)
          \/ ~current /\ record' = record /\ NoFault
    /\ UNCHANGED <<pc, req, worker, handle, lastRun, process>>

\* shutdown: no new requests; shutdown_all under start_lock closes the
\* supervisor and cancels its workers; transient records become Stopped.
ShutdownBegins ==
    /\ server = "up" /\ server' = "stopping"
    /\ UNCHANGED <<service, supervisor, lastRun, draining, stranded, faults>>

\* Slip: the handles are collected while a start is spawning.
DrainsUnlocked ==
    /\ server = "stopping" /\ server' = "draining" /\ draining' = handle
    /\ worker' = IF handle = 0 THEN worker ELSE Cancelled(handle)
    /\ UNCHANGED <<service, handle, events, lastRun, stranded, faults>>

Drains ==
    /\ server = "stopping" /\ ~StartLocked /\ server' = "draining" /\ draining' = handle
    /\ worker' = IF handle = 0 THEN worker ELSE Cancelled(handle)
    /\ UNCHANGED <<service, handle, events, lastRun, stranded, faults>>

\* stop_handle of the collected worker returns; an error ends the shutdown.
Drained ==
    /\ server = "draining" /\ (draining # 0 => worker[draining].stage = "done")
    /\ server' = IF draining # 0 /\ worker[draining].outcome = "failed"
                 THEN "closed" ELSE "normalizing"
    /\ UNCHANGED <<service, supervisor, lastRun, draining, stranded, faults>>

NormalizesRecords ==
    /\ server = "normalizing" /\ server' = "closed"
    /\ IF record.live /\ record.runtime \in Transient
       THEN Replaced(WithRuntime("stopped", 0)) \/ NotReplaced(record.run)
       ELSE record' = record /\ NoFault
    /\ UNCHANGED <<pc, req, supervisor, lastRun, draining>>

\* The process ends, and with it every actor; a worker that it did not stop
\* goes on alone.
Abandoned ==
    [r \in Runs |->
        [worker[r] EXCEPT !.stage = CASE @ \in Alive \cup {"orphan"} -> "orphan"
                                      [] @ = "none" -> "none"
                                      [] OTHER -> "done"]]

\* run_with joins the HTTP server, which waits for its requests.
ServerExits ==
    /\ server = "closed" /\ \A c \in Requests : pc[c] = "idle"
    /\ server' = "down" /\ worker' = Abandoned /\ handle' = 0 /\ events' = <<>>
    /\ UNCHANGED <<service, lastRun, draining, stranded, faults>>

\* A crash, or the start after a shutdown: the state file is loaded and
\* normalize_after_server_restart stops a transient record.
Restarts ==
    /\ server' = "up" /\ draining' = 0 /\ stranded' = stranded
    /\ \/ server = "down" /\ faults' = faults
       \/ Crashes /\ server # "down" /\ faults < MaxFaults /\ faults' = faults + 1
    /\ record' = IF record.live /\ record.runtime \in Transient
                 THEN [WithRuntime("stopped", 0) EXCEPT !.version = @ + 1] ELSE record
    /\ pc' = [c \in Requests |-> "idle"] /\ req' = [c \in Requests |-> NoRequest]
    /\ worker' = Abandoned /\ handle' = 0 /\ events' = <<>> /\ UNCHANGED lastRun

-----------------------------------------------------------------------------
Init ==
    /\ record = [live |-> FALSE, revision |-> 0, version |-> 0, validation |-> "draft",
                 validated |-> 0, runtime |-> "created", run |-> 0]
    /\ pc = [c \in Requests |-> "idle"] /\ req = [c \in Requests |-> NoRequest]
    /\ worker = [r \in Runs |-> NoWorker] /\ handle = 0 /\ events = <<>>
    /\ lastRun = 0 /\ server = "up" /\ draining = 0 /\ stranded = {} /\ faults = 0

Proceeds(c) ==
    \/ ValidateEnds(c) \/ PlanFails(c) \/ Planned(c) \/ Starts(c) \/ Spawns(c)
    \/ StartupWaited(c) \/ Confirms(c) \/ MarksFailed(c) \/ MarksStopped(c)
    \/ StopCalls(c) \/ StopWaited(c) \/ StopEnds(c)

ActorProceeds(r) ==
    \/ ChildReady(r) \/ Announces(r) \/ StartupFails(r) \/ StartupCancelled(r)
    \/ ActorCancelled(r) \/ ChildStopped(r) \/ Removes(r) \/ Reports(r) \/ Completes(r)
    \/ OrphanExits(r)

ShutdownProceeds == Drains \/ Drained \/ NormalizesRecords \/ ServerExits

\* A request, an actor, the receiver of events and a shutdown that can go on.
Progress ==
    \/ \E c \in Requests : Proceeds(c)
    \/ \E r \in Runs : ActorProceeds(r)
    \/ AppliesEvent \/ ShutdownProceeds

Next ==
    \/ CreateDraft
    \/ \E c \in Requests :
          \/ UpdateDraft(c) \/ Delete(c) \/ ValidateBegins(c) \/ ActivateBegins(c)
          \/ StopBegins(c) \/ Drops(c) \/ Proceeds(c)
    \/ \E r \in Runs : ActorProceeds(r) \/ ChildExits(r)
    \/ AppliesEvent \/ ShutdownBegins \/ ShutdownProceeds \/ Restarts

\* Every task is polled until it ends: a request's next step, a worker's actor
\* (its startup is bounded by AUTH_TIMEOUT and READY_TIMEOUT, its stop by
\* STOP_GRACE), the monitor and a shutdown that has begun.  Nothing is assumed
\* of clients, of workers exiting by themselves, or of shutdowns beginning.
Fairness ==
    /\ \A c \in Requests : WF_vars(Proceeds(c))
    /\ \A r \in Runs : WF_vars(ActorProceeds(r))
    /\ WF_vars(AppliesEvent) /\ WF_vars(ShutdownProceeds)

Spec == Init /\ [][Next]_vars
FairSpec == Spec /\ Fairness

-----------------------------------------------------------------------------
Labels == {"idle", "validate", "plan", "start", "spawn", "wait", "confirm", "fail", "cancelled",
           "cleanup", "await_cleanup", "stop", "await", "finish"}

\* Types; in particular a record holds a run id exactly in the states that
\* RuntimeState::run_id gives one for.
TypeOK ==
    /\ record \in [live : BOOLEAN, revision : Nat, version : Nat,
                   validation : {"draft", "ready", "invalid"}, validated : Nat,
                   runtime : Transient \cup {"created", "stopped", "failed"}, run : 0..MaxRuns]
    /\ record.run = 0 <=> record.runtime \in {"created", "stopped"}
    /\ pc \in [Requests -> Labels]
    /\ req \in [Requests -> [run : 0..MaxRuns, revision : Nat, version : Nat]]
    /\ worker \in [Runs -> [stage : Alive \cup {"none", "ended", "removed", "reported", "done", "orphan"},
                            cancel : BOOLEAN, startup : {"none", "ready", "failed", "cancelled"},
                            outcome : {"none", "stopped", "exited", "failed"}, revision : Nat]]
    /\ {handle, draining} \subseteq 0..MaxRuns /\ lastRun \in 0..MaxRuns
    /\ events \in Seq([run : Runs, outcome : {"stopped", "exited", "failed"}])
    /\ stranded \subseteq 0..MaxRuns /\ faults \in 0..MaxFaults
    /\ server \in {"up", "stopping", "draining", "normalizing", "closed", "down"}

\* docs/server.md: "The server owns every worker from the moment it is
\* spawned": a worker process is alive only as the one in the supervisor's map,
\* whatever activations, stops, failed starts and restarts of the run overlap.
\* So a delivery has at most one, and stop and shutdown_all reach it.
OneWorker == \A r \in Runs : worker[r].stage \in Alive => handle = r

\* docs/server.md: "A delayed exit from an old process can therefore never
\* overwrite a newer activation".  A worker that runs and was not told to stop
\* is the current run of its record, and the record is transient: the client can
\* see it, and nothing edits, deletes or reactivates the delivery under it.
WorkerRecorded ==
    \A r \in Runs :
        worker[r].stage \in Alive /\ ~worker[r].cancel =>
            record.live /\ record.run = r /\ record.runtime \in Transient

\* docs/server.md: "Activation accepts only the current persisted and validated
\* revision".  A worker that runs was launched with the configuration that the
\* record still shows, and a "ready" or "invalid" verdict is never about an
\* older revision than the record's.
RunsCurrentRevision ==
    /\ \A r \in Runs : worker[r].stage \in Alive /\ ~worker[r].cancel =>
            worker[r].revision = record.revision
    /\ record.live /\ record.validation # "draft" => record.validated = record.revision

\* A record that says Running is about a worker that has been seen ready and
\* whose end is not yet reported, or about one whose event the monitor has
\* still to apply: no exit is forgotten while the server runs, unless its
\* persist failed.
RunningHasWorker ==
    server # "down" /\ record.live /\ record.runtime = "running" /\ record.run \notin stranded =>
        \/ worker[record.run].stage \in {"ready", "stopping", "ended", "removed"}
        \/ \E i \in DOMAIN events : events[i].run = record.run

\* docs/server.md: "Normal server termination stops starting and running
\* workers": when the server has exited no worker runs, none can be started by
\* a request that was in flight, and no record is left transient (unless a
\* persist failed, a request was dropped or shutdown_all reported an error).
ShutdownStopsAll ==
    /\ server \in {"normalizing", "closed", "down"} =>
          \A r \in Runs : worker[r].stage \notin Alive
    /\ server = "down" /\ record.live /\ record.runtime \in Transient =>
          \/ record.run \in stranded
          \/ draining # 0 /\ worker[draining].outcome = "failed"

\* Starting and Stopping are left again, also when the client disconnects while
\* the worker starts: StartupWait's drop cancels it and the event stops the
\* record.  Excepted are runs whose request was dropped or whose persist failed
\* elsewhere, and a server that exits first (the next start stops the record).
TransientSettles ==
    \A r \in Runs :
        (record.run = r /\ record.runtime \in {"starting", "stopping"})
            ~> (r \in stranded \/ server = "down" \/ ~(record.run = r /\ record.runtime \in {"starting", "stopping"}))

\* A shutdown that has begun ends, whatever is in flight.
ShutdownEnds == server = "stopping" ~> server \in {"down", "up"}
=============================================================================
