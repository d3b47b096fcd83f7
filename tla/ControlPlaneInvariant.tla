------------------------ MODULE ControlPlaneInvariant ------------------------
(***************************************************************************)
(* The safety of a delivery's life, for any number of requests, runs,      *)
(* edits and faults.  A worker that is alive is protected by facts that    *)
(* none of the invariants states: who may still spawn it, who may still    *)
(* judge it (RequestOK), and who has yet to report its end (EndReported).  *)
(* Every step is one of four kinds (a request moves, the record advances,  *)
(* a worker advances, the server changes), and a lemma for each kind says  *)
(* what is left to show of a step of that kind.                            *)
(***************************************************************************)
EXTENDS ControlPlane


\* The labels at which a request holds a run, and those at which it is yet to
\* spawn the run's worker.
Holding == Labels \ {"idle", "validate", "plan"}
Launching == {"start", "spawn"}
Open == {"up", "stopping"}

Held == [run : 0..MaxRuns, revision : Nat, version : Nat]
WorkerStates ==
    [stage : Alive \cup {"none", "ended", "removed", "reported", "done", "orphan"},
     cancel : BOOLEAN, startup : {"none", "ready", "failed", "cancelled"},
     outcome : {"none", "stopped", "exited", "failed"}, revision : Nat]
Records ==
    [live : BOOLEAN, revision : Nat, version : Nat, validation : {"draft", "ready", "invalid"},
     validated : Nat, runtime : Transient \cup {"created", "stopped", "failed"}, run : 0..MaxRuns]
Events == [run : Runs, outcome : {"stopped", "exited", "failed"}]

\* What a request at label l that holds h knows: the run it holds was handed
\* out; a version it read is one that the record had, and as long as the record
\* has it the delivery is not active; a run that it is to spawn is the record's,
\* unless a shutdown has taken it away before start was called; a worker that
\* it waits for or is about to judge exists, was ready, or is told to stop.
RequestOK(l, h) ==
    /\ h.run <= lastRun
    /\ l \in Holding => h.run # 0
    /\ l \in {"validate", "plan"} => h.version \in 1..record.version
    /\ l = "plan" /\ record.live /\ record.version = h.version => record.runtime \notin Transient
    /\ l \in Launching => worker[h.run].stage = "none"
    /\ l = "spawn" => handle = 0 /\ server \in Open
    /\ l \in Launching /\ server \in Open =>
          /\ record.live /\ record.runtime = "starting"
          /\ record.run = h.run /\ record.revision = h.revision
    /\ l = "wait" => worker[h.run].stage # "none"
    /\ l = "confirm" => worker[h.run].startup = "ready"
    /\ l \in {"fail", "cancelled", "finish"} =>
          worker[h.run].stage \notin Alive \/ worker[h.run].cancel

\* The record of a delivery that exists has been written.
RecordOK == record.run <= lastRun /\ (record.live => record.version # 0)

RequestsOK == \A c \in Requests : RequestOK(pc[c], req[c])

\* Nobody else holds a run that is still to be spawned.
Unshared ==
    \A c, d \in Requests :
        c # d /\ pc[c] \in Launching /\ pc[d] \in Holding => req[c].run # req[d].run

\* Runs are numbered in the order in which they are planned; what an actor has
\* told its request, and with which end.
WorkerOK(r, w) ==
    /\ w.stage # "none" => r <= lastRun
    /\ w.stage \in {"none", "starting", "announcing"} => w.startup = "none"
    /\ w.stage = "killing" => w.startup = "cancelled"
    /\ w.startup = "failed" => w.stage \notin Alive
    /\ w.startup = "cancelled" => w.cancel
    /\ w.stage \in {"ended", "removed"} => w.outcome # "none"

WorkersOK == \A r \in Runs : WorkerOK(r, worker[r])

\* Events are about workers that have ended.
EventsPast == \A i \in DOMAIN events : worker[events[i].run].stage \in {"reported", "done"}

\* The end of the worker of an active delivery reaches the monitor.
Pending(r) == \E i \in DOMAIN events : events[i].run = r
Tracked == record.live /\ record.runtime \in Transient /\ record.run \notin stranded
EndReported ==
    server # "down" /\ Tracked =>
        /\ worker[record.run].stage # "orphan"
        /\ worker[record.run].stage \in {"reported", "done"} => Pending(record.run)
        /\ record.runtime = "running" => worker[record.run].startup = "ready"

\* A shutdown knows the worker it waits for, and what becomes active after it
\* is taken back by the request that made it so.
Failed == draining # 0 /\ worker[draining].outcome = "failed"
TakenBack ==
    /\ record.runtime = "starting" /\ worker[record.run].stage = "none"
    /\ \E c \in Requests : pc[c] \in {"start", "fail"} /\ req[c].run = record.run
Closing ==
    /\ server \notin Open => handle \in {0, draining}
    /\ server = "closed" /\ Tracked => Failed \/ TakenBack
    /\ server = "down" =>
          /\ events = <<>> /\ \A c \in Requests : pc[c] = "idle"
          /\ \A r \in Runs : worker[r].stage \in {"none", "orphan", "done"}

ControlInv ==
    /\ TypeOK /\ RecordOK /\ RequestsOK /\ Unshared /\ WorkersOK /\ EventsPast /\ EndReported
    /\ Closing /\ OneWorker /\ WorkerRecorded /\ RunsCurrentRevision /\ ShutdownStopsAll

\* The record advances and shows the same activation of the same revision.
SameActivation ==
    /\ record'.live = record.live /\ record'.runtime = record.runtime
    /\ record'.run = record.run /\ record'.revision = record.revision

\* What its actor, or a cancellation, may do to a worker.
Advances(w, v) ==
    /\ v.revision = w.revision /\ (w.cancel => v.cancel)
    /\ v.stage = "none" <=> w.stage = "none"
    /\ v.stage \in Alive => w.stage \in Alive
    /\ v.stage = "orphan" => w.stage = "orphan"
    /\ w.stage \in {"reported", "done"} => v.stage \in {"reported", "done"}
    /\ w.stage \in {"none", "orphan", "done"} => v.stage \in {"none", "orphan", "done"}
    /\ w.startup = "ready" => v.startup = "ready"
    /\ w.outcome = "failed" => v.outcome = "failed" \/ w.stage \in Alive

\* What a request may do in the step that cancels a worker: nothing, or end a
\* wait that is not one for the spawn of a run.
Follows(d, l, h) ==
    /\ RequestOK(l, h)
    /\ l \in Launching => l = pc[d] /\ h = req[d]
    /\ l \in Holding => pc[d] \in Holding /\ h.run = req[d].run
    /\ pc[d] \in {"start", "fail"} => l = pc[d] /\ h = req[d]
=============================================================================
