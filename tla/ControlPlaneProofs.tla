------------------------- MODULE ControlPlaneProofs -------------------------
(***************************************************************************)
(* The steps of the workers, of the supervisor and of the server's life    *)
(* keep ControlInv, and with it every invariant of the control plane.      *)
(***************************************************************************)
EXTENDS ControlPlaneRecordProofs

-----------------------------------------------------------------------------
\* The steps of an actor that concern its worker alone.
LEMMA ActorStep ==
    ASSUME ControlInv, NEW r \in Runs,
           \/ ChildReady(r) \/ Announces(r) \/ StartupFails(r) \/ StartupCancelled(r)
           \/ ActorCancelled(r) \/ ChildExits(r) \/ ChildStopped(r) \/ Completes(r) \/ OrphanExits(r)
    PROVE  ControlInv'
  <1>0. worker[r] \in WorkerStates /\ WorkerOK(r, worker[r])
    BY WorkerTypes, Parts DEF WorkersOK
  <1>1. ASSUME NEW to, Actor(r, to),
               \/ At(r, "starting") /\ to = "announcing"
               \/ worker[r].stage \in {"announcing", "ready"} /\ to = "stopping"
               \/ worker[r].stage \in {"reported", "orphan"} /\ to = "done"
        PROVE  ControlInv'
    <2>1. PICK v : v = [worker[r] EXCEPT !.stage = to]
      BY Zenon
    <2>2. v \in WorkerStates /\ v = [stage |-> to, cancel |-> worker[r].cancel, startup |-> worker[r].startup,
                              outcome |-> worker[r].outcome, revision |-> worker[r].revision]
      BY <1>0, <1>1, <2>1 DEF WorkerStates, Alive
    <2>3. worker' = [worker EXCEPT ![r] = v]
      BY <1>1, <2>1 DEF Actor
    <2>4. WorkerOK(r, v) /\ Advances(worker[r], v)
      BY <1>0, <1>1, <2>2 DEF WorkerOK, Advances, Alive, At, WorkerStates
    <2> QED BY Zenon, <1>1, <2>2, <2>3, <2>4, ActorMoves DEF Actor, At
  <1>2. ASSUME NEW to, NEW s, NEW o, ActorTells(r, to, s, o),
               \/ At(r, "announcing") /\ to = "ready" /\ s = "ready" /\ o = "none"
               \/ At(r, "starting") /\ to = "ended" /\ s = "failed" /\ o = "failed"
               \/ At(r, "starting") /\ worker[r].cancel /\ to = "killing" /\ s = "cancelled" /\ o = "none"
               \/ At(r, "ready") /\ to = "ended" /\ s = "ready" /\ o \in {"exited", "failed"}
               \/ worker[r].stage \in {"stopping", "killing"} /\ to = "ended" /\ s = worker[r].startup /\ o \in {"stopped", "failed"}
        PROVE  ControlInv'
    <2>1. PICK v : v = [worker[r] EXCEPT !.stage = to, !.startup = s, !.outcome = o]
      OBVIOUS
    <2>2. v \in WorkerStates /\ v = [stage |-> to, cancel |-> worker[r].cancel, startup |-> s,
                              outcome |-> o, revision |-> worker[r].revision]
      BY Zenon, <1>0, <1>2, <2>1 DEF WorkerStates, Alive
    <2>3. worker' = [worker EXCEPT ![r] = v]
      BY Zenon, <1>2, <2>1 DEF ActorTells
    <2>4. WorkerOK(r, v) /\ Advances(worker[r], v)
      BY <1>0, <1>2, <2>2 DEF WorkerOK, Advances, Alive, At, WorkerStates
    <2> QED BY Zenon, <1>2, <2>2, <2>3, <2>4, ActorMoves DEF ActorTells, At
  <1>3. CASE ChildReady(r) \/ ActorCancelled(r) \/ Completes(r) \/ OrphanExits(r)
    BY <1>1, <1>3 DEF ChildReady, ActorCancelled, Completes, OrphanExits, At
  <1>4. CASE Announces(r)
    BY <1>1, <1>2, <1>4 DEF Announces, At
  <1>5. CASE StartupFails(r) \/ StartupCancelled(r)
    BY <1>2, <1>5 DEF StartupFails, StartupCancelled
  <1>6. CASE ChildExits(r) \/ ChildStopped(r)
    BY <1>2, <1>6 DEF ChildExits, ChildStopped
  <1> QED BY <1>3, <1>4, <1>5, <1>6

\* The end of an actor: its handle leaves the map, and then its event is sent.
LEMMA RemovesStep ==
    ASSUME ControlInv, NEW r \in Runs, Removes(r)
    PROVE  ControlInv'
  <1>0. worker[r] \in WorkerStates /\ WorkerOK(r, worker[r]) /\ worker[r].stage = "ended"
    BY WorkerTypes, Parts DEF WorkersOK, Removes, At
  <1>1. PICK v : v = [worker[r] EXCEPT !.stage = "removed"]
    BY Zenon
  <1>2. v \in WorkerStates /\ v = [stage |-> "removed", cancel |-> worker[r].cancel, startup |-> worker[r].startup,
                            outcome |-> worker[r].outcome, revision |-> worker[r].revision]
    BY <1>0, <1>1 DEF WorkerStates
  <1>3. WorkerOK(r, v) /\ Advances(worker[r], v) /\ v.stage = "removed" /\ v.stage \notin Alive
    BY <1>0, <1>2 DEF WorkerOK, Advances, Alive
  <1>4. /\ worker' = [worker EXCEPT ![r] = v] /\ UNCHANGED <<record, pc, req, events, lastRun, process, stranded, faults>>
        /\ handle' = handle \/ (handle = r /\ handle' = 0)
    BY <1>1 DEF Removes, service
  <1>5. EventsPast' /\ events' \in Seq(Events) /\ (server = "down" => events' = <<>>)
    BY <1>0, <1>4, EventRuns, Types, Parts DEF Closing, EventsPast
  <1>6. \A q \in Runs : Pending(q) => Pending(q)'
    BY <1>4 DEF Pending
  <1> QED BY Zenon, <1>2, <1>3, <1>4, <1>5, <1>6, AllFollow, Types, WorkerAdvances

\* The end of a worker is sent to the monitor.
LEMMA ReportsStep ==
    ASSUME ControlInv, NEW r \in Runs, Reports(r)
    PROVE  ControlInv'
  <1> DEFINE e == [run |-> r, outcome |-> worker[r].outcome]
  <1>0. worker[r] \in WorkerStates /\ WorkerOK(r, worker[r]) /\ worker[r].stage = "removed"
    BY WorkerTypes, Parts DEF WorkersOK, Reports, At
  <1>1. PICK v : v = [worker[r] EXCEPT !.stage = "reported"]
    BY Zenon
  <1>2. v \in WorkerStates /\ v = [stage |-> "reported", cancel |-> worker[r].cancel, startup |-> worker[r].startup,
                            outcome |-> worker[r].outcome, revision |-> worker[r].revision]
    BY <1>0, <1>1 DEF WorkerStates
  <1>3. WorkerOK(r, v) /\ Advances(worker[r], v) /\ v.stage = "reported" /\ v.stage \notin Alive
    BY <1>0, <1>2 DEF WorkerOK, Advances, Alive
  <1>4. /\ worker' = [worker EXCEPT ![r] = v] /\ events' = Append(events, e)
        /\ UNCHANGED <<record, pc, req, handle, lastRun, process, stranded, faults>>
    BY <1>1 DEF Reports, service
  <1>5. server # "down"
    BY <1>0, Parts DEF Closing
  <1>6. e \in Events /\ events \in Seq(Events)
    BY <1>0, EventRuns DEF Events, WorkerStates, WorkerOK
  <1> HIDE DEF e
  <1>7. /\ events' \in Seq(Events) /\ DOMAIN events' = 1..(Len(events) + 1) /\ DOMAIN events = 1..Len(events)
        /\ Len(events) \in Nat /\ events'[Len(events) + 1] = e
        /\ \A i \in 1..Len(events) : events'[i] = events[i]
    BY <1>4, <1>6, Appended
  <1>8. (\A q \in Runs : Pending(q) => Pending(q)') /\ Pending(r)'
    BY <1>7 DEF Pending, e
  <1>9. EventsPast'
    <2>1. \A i \in DOMAIN events' : (i \in DOMAIN events /\ events'[i] = events[i]) \/ i = Len(events) + 1
      BY <1>7
    <2>2. worker'[r].stage = "reported" /\ \A q \in Runs \ {r} : worker'[q] = worker[q]
      BY <1>3, <1>4, Parts DEF TypeOK
    <2>3. \A i \in DOMAIN events : worker'[events[i].run].stage \in {"reported", "done"}
      BY <1>0, <2>2, EventRuns, Parts DEF EventsPast
    <2> QED BY <1>7, <2>1, <2>2, <2>3 DEF EventsPast, e
  <1> QED BY Zenon, <1>2, <1>3, <1>4, <1>5, <1>7, <1>8, <1>9, AllFollow, Types, WorkerAdvances
\* A worker is told to stop.
LEMMA CancelledWorker ==
    ASSUME ControlInv, NEW r \in Runs
    PROVE  \E v \in WorkerStates :
              /\ Cancelled(r) = [worker EXCEPT ![r] = v] /\ v.stage = worker[r].stage
              /\ WorkerOK(r, v) /\ Advances(worker[r], v) /\ v.cancel
  <1>0. worker[r] \in WorkerStates /\ WorkerOK(r, worker[r])
    BY WorkerTypes, Parts DEF WorkersOK
  <1>1. PICK v : v = [worker[r] EXCEPT !.cancel = TRUE]
    BY Zenon
  <1>2. v \in WorkerStates /\ v = [stage |-> worker[r].stage, cancel |-> TRUE, startup |-> worker[r].startup,
                            outcome |-> worker[r].outcome, revision |-> worker[r].revision]
    BY Zenon, <1>0, <1>1 DEF WorkerStates
  <1>3. Cancelled(r) = [worker EXCEPT ![r] = v]
    BY <1>1 DEF Cancelled
  <1>4. WorkerOK(r, v) /\ Advances(worker[r], v)
    BY <1>0, <1>2 DEF WorkerOK, Advances
  <1> QED BY Zenon, <1>2, <1>3, <1>4

\* A request cancels the worker of run r and goes on.
LEMMA RequestCancels ==
    ASSUME ControlInv, NEW c \in Requests, NEW l \in Labels, NEW h \in Held, Enter(c, l, h),
           NEW r \in Runs, worker' = Cancelled(r), Follows(c, l, h), pc[c] # "idle",
           UNCHANGED <<record, handle, events, lastRun, process, stranded>>, faults' \in 0..MaxFaults
    PROVE  ControlInv'
  <1>1. PICK v \in WorkerStates :
              /\ worker' = [worker EXCEPT ![r] = v] /\ v.stage = worker[r].stage
              /\ WorkerOK(r, v) /\ Advances(worker[r], v)
    BY CancelledWorker
  <1>2. /\ pc' \in [Requests -> Labels] /\ req' \in [Requests -> Held]
        /\ pc'[c] = l /\ req'[c] = h
        /\ \A d \in Requests \ {c} : pc'[d] = pc[d] /\ req'[d] = req[d]
    BY Entered, Parts
  <1>3. \A d \in Requests : \E k \in Labels, g \in Held : pc'[d] = k /\ req'[d] = g /\ Follows(d, k, g)
    BY <1>2, RequestTypes DEF Follows
  <1>4. EventsPast' /\ events' \in Seq(Events) /\ server # "down"
    BY Zenon, <1>1, EventRuns, Types, Parts DEF TypeOK, Closing, EventsPast
  <1>5. \A q \in Runs : Pending(q) => Pending(q)'
    BY DEF Pending
  <1> QED BY Zenon, <1>1, <1>2, <1>3, <1>4, <1>5, WorkerAdvances

\* Supervisor::stop, which finds a worker or none.
LEMMA StopCallsStep ==
    ASSUME ControlInv, NEW c \in Requests, StopCalls(c)
    PROVE  ControlInv'
  <1>0. /\ pc[c] \in {"stop", "cleanup"} /\ pc[c] \in Holding /\ req[c].run \in Runs
        /\ UNCHANGED <<record, handle, events, lastRun, process, stranded, faults>>
        /\ req[c] \in Held /\ RequestOK(pc[c], req[c])
    BY HeldRun, Types, RequestTypes DEF StopCalls, Holding, Labels
  <1>1. CASE handle = req[c].run /\ worker' = Cancelled(handle)
    <2> DEFINE l == IF pc[c] = "stop" THEN "await" ELSE "await_cleanup"
    <2>1. Enter(c, l, req[c]) /\ l \in Labels /\ l \in {"await", "await_cleanup"}
      BY <1>0, <1>1 DEF StopCalls, Goto, Labels
    <2>2. Follows(c, l, req[c])
      BY <1>0, <2>1 DEF Follows, RequestOK, Holding, Launching, Labels
    <2> HIDE DEF l
    <2> QED BY <1>0, <1>1, <2>1, <2>2, Types, RequestCancels
  <1>2. CASE handle # req[c].run /\ worker' = worker /\ pc[c] = "stop"
    <2>1. Enter(c, "fail", req[c]) /\ "fail" \in Labels
      BY <1>2 DEF StopCalls, Goto, Labels
    <2>2. worker[req[c].run].stage \notin Alive
      BY <1>0, <1>2, Parts DEF OneWorker
    <2>3. RequestOK("fail", req[c])
      BY <1>0, <2>2 DEF RequestOK, Holding, Launching, Labels
    <2> QED BY <1>0, <1>2, <2>1, <2>3, Types, RequestMoves
            DEF supervisor, Launching
  <1>3. CASE handle # req[c].run /\ worker' = worker /\ pc[c] = "cleanup"
    BY <1>0, <1>3, Types, RequestEnds DEF StopCalls, supervisor
  <1> QED BY <1>0, <1>1, <1>2, <1>3 DEF StopCalls

\* A dropped request cancels the worker it waits for and strands any other run.
LEMMA DropsStep ==
    ASSUME ControlInv, NEW c \in Requests, Drops(c)
    PROVE  ControlInv'
  <1>0. /\ pc[c] # "idle" /\ Goto(c, "idle") /\ faults' \in 0..MaxFaults /\ req[c] \in Held
        /\ UNCHANGED <<record, handle, events, lastRun, process>>
    BY Types, RequestTypes DEF Drops
  <1>1. CASE pc[c] = "wait"
    <2>1. req[c].run \in Runs /\ worker' = Cancelled(req[c].run) /\ stranded' = stranded
      BY <1>1, HeldRun DEF Drops, Holding, Labels
    <2>2. Enter(c, "idle", NoRequest) /\ "idle" \in Labels /\ NoRequest \in Held
      BY <1>0, ControlPlaneAssumption DEF Goto, Labels, NoRequest, Held
    <2>3. Follows(c, "idle", NoRequest)
      BY <1>1, Types, RequestTypes DEF Follows, RequestOK, Launching, Holding, NoRequest
    <2> QED BY <1>0, <2>1, <2>2, <2>3, RequestCancels
  <1>2. CASE pc[c] # "wait"
    <2>1. worker' = worker /\ stranded' = stranded \cup {req[c].run}
      BY <1>2 DEF Drops
    <2>2. stranded \subseteq stranded' /\ stranded' \in SUBSET (0..MaxRuns) /\ req[c].run \in stranded'
      BY <1>0, <2>1, Types, RequestTypes DEF Held
    <2> QED BY <1>0, <2>1, <2>2, Types, RequestEnds DEF supervisor
  <1> QED BY <1>1, <1>2

\* spawn_worker: the run of a new worker is the record's, and no other is alive.
LEMMA SpawnsStep ==
    ASSUME ControlInv, NEW c \in Requests, Spawns(c)
    PROVE  ControlInv'
  <1>a. PICK h \in Held : h = req[c]
    BY RequestTypes
  <1>0. /\ pc[c] = "spawn" /\ pc[c] \in Holding /\ h.run \in Runs /\ h = req[c] /\ RequestOK(pc[c], h)
        /\ UNCHANGED <<record, events, lastRun, process, stranded, faults>>
    BY <1>a, HeldRun, Types, RequestTypes DEF Spawns, Holding, Labels
  <1>1. /\ worker[h.run].stage = "none" /\ handle = 0 /\ server \in Open /\ record.live
        /\ record.runtime = "starting" /\ record.run = h.run /\ record.revision = h.revision
        /\ h.run <= lastRun /\ h.run # 0
    BY <1>0 DEF RequestOK, Launching
  <1>2. CASE UNCHANGED <<worker, handle>> /\ Goto(c, "fail")
    <2>1. Enter(c, "fail", req[c]) /\ "fail" \in Labels /\ RequestOK("fail", req[c])
      BY <1>0, <1>1, <1>2 DEF Goto, Labels, RequestOK, Launching, Holding, Alive
    <2> QED BY <1>0, <1>1, <1>2, <2>1, Types, RequestMoves
            DEF supervisor, Launching, Open
  <1>3. CASE /\ worker' = [worker EXCEPT ![h.run] =
                             [NoWorker EXCEPT !.stage = "starting", !.revision = h.revision]]
             /\ handle' = h.run /\ Goto(c, "wait")
    <2>0. PICK v : v = [NoWorker EXCEPT !.stage = "starting", !.revision = h.revision]
      OBVIOUS
    <2>1. /\ v \in WorkerStates /\ v.stage = "starting" /\ v.revision = h.revision
          /\ ~v.cancel /\ v.startup = "none" /\ v.outcome = "none"
      <3>1. h.revision \in Nat
        BY DEF Held
      <3> QED BY Zenon, <2>0, <3>1 DEF NoWorker, WorkerStates, Alive
    <2>2. /\ worker' = [worker EXCEPT ![h.run] = v] /\ worker' \in [Runs -> WorkerStates]
          /\ worker'[h.run] = v /\ \A q \in Runs \ {h.run} : worker'[q] = worker[q]
      BY <1>0, <1>3, <2>0, <2>1, ServerTypes
    <2>3. /\ pc' \in [Requests -> Labels] /\ req' \in [Requests -> Held]
          /\ pc'[c] = "wait" /\ req'[c] = h
          /\ \A d \in Requests \ {c} : pc'[d] = pc[d] /\ req'[d] = req[d]
      BY <1>0, <1>3, Entered, Parts DEF Goto, Labels
    <2>4. TypeOK'
      <3>1. /\ handle' \in 0..MaxRuns /\ draining' \in 0..MaxRuns /\ events' \in Seq(Events)
            /\ server' \in {"up", "stopping", "draining", "normalizing", "closed", "down"}
        BY <1>0, <1>3, ServerTypes DEF process, Runs
      <3> QED BY <1>0, <2>2, <2>3, <3>1, Types, TypesHold
    <2>5. \A d \in Requests \ {c} : pc[d] \in Holding => req[d].run \in Runs \ {h.run}
      BY <1>0, HeldRun, Parts DEF Unshared, Launching
    <2>6. RequestsOK'
      <3>1. ASSUME NEW d \in Requests \ {c}
            PROVE  RequestOK(pc[d], req[d])'
        <4>1. RequestOK(pc[d], req[d]) /\ pc[d] # "spawn"
          <5>1. "spawn" \in Launching /\ "spawn" \in Holding
            BY DEF Launching, Holding, Labels
          <5> QED BY <1>1, <2>5, <5>1, RequestTypes, LaunchKnows
        <4>2. pc[d] \in Holding => worker'[req[d].run] = worker[req[d].run]
          BY <2>2, <2>5
        <4> QED BY <1>0, <2>3, <4>1, <4>2 DEF RequestOK, Launching, Holding, Labels, process
      <3>2. RequestOK(pc[c], req[c])'
        <4>1. RequestOK("wait", h)'
          <5>1. h.run <= lastRun' /\ h.run # 0 /\ worker'[h.run].stage # "none"
            BY <1>0, <1>1, <2>1, <2>2
          <5> QED BY <5>1, WaitsThen
        <4> QED BY <2>3, <4>1 DEF RequestOK
      <3> QED BY <3>1, <3>2 DEF RequestsOK
    <2>7. Unshared'
      BY <1>0, <2>3, <2>5, Parts DEF Unshared, Launching, Holding, Labels
    <2>8. WorkersOK' /\ RecordOK'
      BY <1>0, <1>1, <2>1, <2>2, Parts DEF WorkersOK, RecordOK, WorkerOK, Alive
    <2>9. EventsPast'
      BY <1>0, <1>1, <2>2, EventRuns, Parts DEF EventsPast
    <2>10. OneWorker' /\ WorkerRecorded' /\ RunsCurrentRevision'
      <3>1. OneWorker'
        BY <1>1, <1>3, <2>2, Parts DEF OneWorker, Runs
      <3>2. \A q \in Runs \ {h.run} : worker[q].stage \notin Alive
        BY <1>1, Parts DEF OneWorker, Runs
      <3>3. QED BY <1>0, <1>1, <2>1, <2>2, <3>2, <3>1, Parts DEF WorkerRecorded, RunsCurrentRevision, Transient
    <2>11. EndReported' /\ Closing' /\ ShutdownStopsAll'
      BY <1>0, <1>1, <2>1, <2>2 DEF EndReported, Closing, ShutdownStopsAll, process, Open
    <2> QED BY <2>4, <2>6, <2>7, <2>8, <2>9, <2>10, <2>11, Whole
  <1> QED BY <1>0, <1>2, <1>3 DEF Spawns

-----------------------------------------------------------------------------
\* No request is accepted any more.
LEMMA ShutdownBeginsStep ==
    ASSUME ControlInv, ShutdownBegins
    PROVE  ControlInv'
  <1>0. /\ server = "up" /\ server' = "stopping"
        /\ UNCHANGED <<record, pc, req, worker, handle, events, lastRun, draining, stranded, faults>>
    BY DEF ShutdownBegins, service, supervisor
  <1>1. EndReported' /\ Closing' /\ ShutdownStopsAll'
    BY <1>0, Parts DEF EndReported, Tracked, Pending, Closing, ShutdownStopsAll, Open
  <1> QED BY <1>0, <1>1, ServerMoves DEF Open

\* shutdown_all has waited for the worker it collected.
LEMMA DrainedStep ==
    ASSUME ControlInv, Drained
    PROVE  ControlInv'
  <1>0. /\ server = "draining" /\ server' = IF Failed THEN "closed" ELSE "normalizing"
        /\ draining # 0 => worker[draining].stage = "done"
        /\ UNCHANGED <<record, pc, req, worker, handle, events, lastRun, draining, stranded, faults>>
    BY DEF Drained, service, supervisor, Failed
  <1>1. \A r \in Runs : worker[r].stage \notin Alive
    BY <1>0, Parts DEF Closing, OneWorker, Open, Alive, Runs
  <1>2. EndReported' /\ Closing' /\ ShutdownStopsAll'
    BY <1>0, <1>1, Parts DEF EndReported, Tracked, Pending, Closing, Failed, ShutdownStopsAll, Open
  <1> QED BY <1>0, <1>2, ServerMoves DEF Open

\* shutdown_all takes start_lock, so no spawn is under way when it collects the
\* handles: whatever is alive is in the map, and is cancelled.
LEMMA DrainsStep ==
    ASSUME ControlInv, Drains
    PROVE  ControlInv'
  <1>0. /\ server = "stopping" /\ server' = "draining" /\ draining' = handle
        /\ \A c \in Requests : pc[c] # "spawn"
        /\ worker' = IF handle = 0 THEN worker ELSE Cancelled(handle)
        /\ UNCHANGED <<record, pc, req, handle, events, lastRun, stranded, faults>>
    BY DEF Drains, service, StartLocked
  <1>1. /\ worker' \in [Runs -> WorkerStates]
        /\ \A r \in Runs : WorkerOK(r, worker'[r]) /\ Advances(worker[r], worker'[r])
        /\ \A r \in Runs : worker'[r].stage = worker[r].stage
    <2>1. \A r \in Runs : worker[r] \in WorkerStates /\ WorkerOK(r, worker[r]) /\ Advances(worker[r], worker[r])
      BY WorkerTypes, Parts DEF WorkersOK, Advances
    <2>2. worker \in [Runs -> WorkerStates] /\ (handle # 0 => handle \in Runs)
      BY ServerTypes
    <2>3. CASE handle = 0
      BY <1>0, <2>1, <2>2, <2>3
    <2>4. CASE handle # 0
      <3>1. handle \in Runs
        BY <2>2, <2>4
      <3>2. PICK v \in WorkerStates :
              /\ worker' = [worker EXCEPT ![handle] = v] /\ v.stage = worker[handle].stage
              /\ WorkerOK(handle, v) /\ Advances(worker[handle], v)
        BY <1>0, <2>4, <3>1, CancelledWorker
      <3> QED BY <2>1, <2>2, <3>1, <3>2
    <2> QED BY <2>3, <2>4
  <1>2. TypeOK' /\ RecordOK'
    <2>1. TypeOK'
      BY <1>0, <1>1, Types, ServerTypes, TypesHold
    <2> QED BY <1>0, <2>1, Parts DEF RecordOK
  <1>3. RequestsOK'
    <2> SUFFICES ASSUME NEW d \in Requests PROVE RequestOK(pc[d], req[d])'
      BY DEF RequestsOK
    <2>1. RequestOK(pc[d], req[d]) /\ (pc[d] \in Holding => req[d].run \in Runs)
      BY RequestTypes, HeldRun
    <2>2. pc[d] \in Holding => Advances(worker[req[d].run], worker'[req[d].run])
      BY <1>1, <2>1
    <2> QED BY Zenon, <1>0, <2>1, <2>2 DEF RequestOK, Advances, Launching, Holding, Labels, Open
  <1>4. Unshared' /\ WorkersOK' /\ OneWorker' /\ WorkerRecorded' /\ RunsCurrentRevision'
    BY <1>0, <1>1, Parts DEF Unshared, WorkersOK, WorkerOK, OneWorker, WorkerRecorded,
       RunsCurrentRevision, Advances
  <1>5. EventsPast'
    BY <1>0, <1>1, EventRuns, Parts DEF EventsPast
  <1>6. EndReported'
    <2>1. Tracked => record.run \in Runs
      BY Types DEF Tracked, Runs, Records, Transient
    <2> QED BY <1>0, <1>1, <2>1, Parts DEF EndReported, Tracked, Pending, Advances
  <1>7. Closing' /\ ShutdownStopsAll'
    BY <1>0 DEF Closing, ShutdownStopsAll, Open
  <1> QED BY <1>2, <1>3, <1>4, <1>5, <1>6, <1>7, Whole

\* A worker whose stage changes.
LEMMA Restaged ==
    ASSUME NEW w \in WorkerStates, NEW s \in {"none", "orphan", "done"}, NEW x, x = [w EXCEPT !.stage = s]
    PROVE  /\ x \in WorkerStates /\ x.stage = s /\ x.startup = w.startup /\ x.cancel = w.cancel
           /\ x.outcome = w.outcome
  BY Zenon DEF WorkerStates

\* The end of the process: what its workers become.
LEMMA AbandonedWorkers ==
    ASSUME ControlInv, worker' = Abandoned, lastRun' = lastRun
    PROVE  /\ worker' \in [Runs -> WorkerStates] /\ WorkersOK'
           /\ \A r \in Runs : /\ worker'[r].stage \in {"none", "orphan", "done"} /\ worker'[r].stage \notin Alive
                              /\ worker'[r].stage = "none" <=> worker[r].stage = "none"
                              /\ worker'[r].outcome = worker[r].outcome
  <1> DEFINE to(r) == CASE worker[r].stage \in Alive \cup {"orphan"} -> "orphan"
                        [] worker[r].stage = "none" -> "none"
                        [] OTHER -> "done"
  <1>1. ASSUME NEW r \in Runs
        PROVE  /\ worker'[r] = [worker[r] EXCEPT !.stage = to(r)]
               /\ to(r) \in {"none", "orphan", "done"} /\ (to(r) = "none" <=> worker[r].stage = "none")
               /\ worker[r] \in WorkerStates /\ WorkerOK(r, worker[r])
    BY WorkerTypes, Parts DEF Abandoned, WorkersOK, Alive
  <1> HIDE DEF to
  <1>2. ASSUME NEW r \in Runs
        PROVE  /\ worker'[r] \in WorkerStates /\ worker'[r].stage = to(r)
               /\ worker'[r].startup = worker[r].startup /\ worker'[r].cancel = worker[r].cancel
               /\ worker'[r].outcome = worker[r].outcome
    <2>1. PICK x, w, s : x = worker'[r] /\ w = worker[r] /\ s = to(r)
      OBVIOUS
    <2>2. x = [w EXCEPT !.stage = s] /\ w \in WorkerStates /\ s \in {"none", "orphan", "done"}
      BY Zenon, <1>1, <2>1
    <2>3. /\ x \in WorkerStates /\ x.stage = s /\ x.startup = w.startup /\ x.cancel = w.cancel
          /\ x.outcome = w.outcome
      BY <2>2, Restaged
    <2> QED BY <2>1, <2>3
  <1>3. worker' \in [Runs -> WorkerStates]
    BY Zenon, <1>2 DEF Abandoned
  <1>4. ASSUME NEW r \in Runs
        PROVE  WorkerOK(r, worker[r])'
    BY Zenon, <1>1, <1>2 DEF WorkerOK, Alive
  <1> QED BY <1>1, <1>2, <1>3, <1>4 DEF WorkersOK, Alive

\* Requests that are all idle know nothing.
LEMMA AllIdle ==
    ASSUME ControlInv, pc' \in [Requests -> Labels], \A c \in Requests : pc'[c] = "idle" /\ req'[c].run <= lastRun'
    PROVE  RequestsOK' /\ Unshared'
  BY DEF RequestsOK, RequestOK, Unshared, Holding, Launching

\* The server exits once its requests have ended.
LEMMA ServerExitsStep ==
    ASSUME ControlInv, ServerExits
    PROVE  ControlInv'
  <1>0. /\ server = "closed" /\ (\A c \in Requests : pc[c] = "idle") /\ server' = "down"
        /\ worker' = Abandoned /\ handle' = 0 /\ events' = <<>>
        /\ UNCHANGED <<record, pc, req, lastRun, draining, stranded, faults>>
    BY DEF ServerExits, service
  <1>1. /\ worker' \in [Runs -> WorkerStates] /\ WorkersOK'
        /\ \A r \in Runs : /\ worker'[r].stage \in {"none", "orphan", "done"} /\ worker'[r].stage \notin Alive
                           /\ worker'[r].outcome = worker[r].outcome
    BY <1>0, AbandonedWorkers
  <1>2. TypeOK'
    <2>1. handle' \in 0..MaxRuns /\ events' \in Seq(Events)
      BY <1>0, Types
    <2> QED BY <1>0, <1>1, <2>1, Types, ServerTypes, TypesHold
  <1>3. RequestsOK' /\ Unshared'
    <2>1. \A c \in Requests : pc'[c] = "idle" /\ req'[c].run <= lastRun'
      BY <1>0, Types, RequestTypes DEF RequestOK
    <2> QED BY <1>2, <2>1, AllIdle DEF TypeOK
  <1>4. RecordOK' /\ EventsPast' /\ EndReported' /\ OneWorker' /\ WorkerRecorded' /\ RunsCurrentRevision'
    BY <1>0, <1>1, Parts DEF RecordOK, EventsPast, EndReported, OneWorker, WorkerRecorded,
       RunsCurrentRevision
  <1>5. Closing'
    BY <1>0, <1>1 DEF Closing, Open
  <1>6. ShutdownStopsAll'
    <2>1. Tracked => Failed
      BY <1>0, Parts DEF Closing, TakenBack
    <2>2. Failed => Failed'
      <3>1. draining # 0 => draining \in Runs
        BY ServerTypes
      <3> QED BY <1>0, <1>1, <3>1 DEF Failed
    <2> QED BY <1>0, <1>1, <2>1, <2>2 DEF ShutdownStopsAll, Tracked, Failed
  <1> QED BY <1>1, <1>2, <1>3, <1>4, <1>5, <1>6, Whole

\* A crash, or the next start: every request and every actor is gone, and the
\* record that was loaded is not active.
LEMMA RestartsStep ==
    ASSUME ControlInv, Restarts
    PROVE  ControlInv'
  <1>0. /\ server' = "up" /\ draining' = 0 /\ stranded' = stranded /\ faults' \in 0..MaxFaults
        /\ pc' = [c \in Requests |-> "idle"] /\ req' = [c \in Requests |-> NoRequest]
        /\ worker' = Abandoned /\ handle' = 0 /\ events' = <<>> /\ lastRun' = lastRun
    BY Types DEF Restarts
  <1>1. /\ worker' \in [Runs -> WorkerStates] /\ WorkersOK'
        /\ \A r \in Runs : worker'[r].stage \notin Alive
    BY <1>0, AbandonedWorkers
  <1>2. /\ record' \in Records /\ (record'.live => record'.runtime \notin Transient)
        /\ record'.run = 0 <=> record'.runtime \in {"created", "stopped"}
        /\ record'.run <= lastRun /\ (record'.live => record'.version # 0)
        /\ record'.live /\ record'.validation # "draft" => record'.validated = record'.revision
    <2>1. CASE record.live /\ record.runtime \in Transient
      <3>1. record' = [live |-> record.live, revision |-> record.revision,
                       version |-> record.version + 1, validation |-> record.validation,
                       validated |-> record.validated, runtime |-> "stopped", run |-> 0]
        BY Zenon, <2>1, Types DEF Restarts, WithRuntime, Records
      <3> QED BY <3>1, Types, Parts DEF Records, Transient, RunsCurrentRevision
    <2>2. CASE ~(record.live /\ record.runtime \in Transient)
      BY <2>2, Types, Parts DEF Restarts, RunsCurrentRevision, RecordOK
    <2> QED BY <2>1, <2>2
  <1>3. TypeOK'
    <2>1. pc' \in [Requests -> Labels] /\ req' \in [Requests -> Held]
      BY <1>0, ControlPlaneAssumption DEF Labels, NoRequest, Held
    <2>2. /\ handle' \in 0..MaxRuns /\ draining' \in 0..MaxRuns /\ events' \in Seq(Events)
          /\ server' \in {"up", "stopping", "draining", "normalizing", "closed", "down"}
      BY <1>0, Types
    <2> QED BY <1>0, <1>1, <1>2, <2>1, <2>2, Types, TypesHold
  <1>4. RequestsOK' /\ Unshared'
    <2>1. \A c \in Requests : pc'[c] = "idle" /\ req'[c].run <= lastRun'
      BY <1>0, Types DEF NoRequest
    <2> QED BY <1>3, <2>1, AllIdle DEF TypeOK
  <1>5. RecordOK' /\ EventsPast' /\ EndReported' /\ OneWorker' /\ WorkerRecorded' /\ RunsCurrentRevision'
    BY <1>0, <1>1, <1>2 DEF RecordOK, EventsPast, EndReported, Tracked, OneWorker, WorkerRecorded, RunsCurrentRevision
  <1>6. Closing' /\ ShutdownStopsAll'
    BY <1>0 DEF Closing, ShutdownStopsAll, Open
  <1> QED BY <1>1, <1>3, <1>4, <1>5, <1>6, Whole

-----------------------------------------------------------------------------
\* The invariant holds when the server starts with an empty store.
LEMMA InitInv == Init => ControlInv
  <1> SUFFICES ASSUME Init PROVE ControlInv
    OBVIOUS
  <1>1. /\ record \in Records /\ pc \in [Requests -> Labels] /\ req \in [Requests -> Held]
        /\ worker \in [Runs -> WorkerStates] /\ \A r \in Runs : worker[r].stage = "none" /\ worker[r].startup = "none"
    BY ControlPlaneAssumption DEF Init, Records, Labels, Held, NoRequest, NoWorker, WorkerStates
  <1>2. TypeOK
    BY <1>1, ControlPlaneAssumption DEF Init, TypeOK, Records, Held, WorkerStates
  <1>3. RecordOK /\ RequestsOK /\ Unshared
    BY <1>1, ControlPlaneAssumption DEF Init, RecordOK, RequestsOK, RequestOK, Unshared, Holding, Launching, NoRequest
  <1>4. WorkersOK /\ EventsPast /\ EndReported /\ Closing
    BY <1>1 DEF Init, WorkersOK, WorkerOK, EventsPast, EndReported, Tracked, Closing, Open, Transient, Alive
  <1>5. OneWorker /\ WorkerRecorded /\ RunsCurrentRevision /\ ShutdownStopsAll
    BY <1>1 DEF Init, OneWorker, WorkerRecorded, RunsCurrentRevision, ShutdownStopsAll, Alive
  <1> QED BY <1>2, <1>3, <1>4, <1>5 DEF ControlInv

\* Every step of a request, an actor, the monitor or the server keeps it.
LEMMA NextInv == ControlInv /\ [Next]_vars => ControlInv'
  <1> SUFFICES ASSUME ControlInv, [Next]_vars PROVE ControlInv'
    OBVIOUS
  <1>1. CASE CreateDraft
    BY <1>1, CreateDraftStep
  <1>2. ASSUME NEW c \in Requests, Proceeds(c)
        PROVE  ControlInv'
    <2>1. CASE ValidateEnds(c) \/ PlanFails(c) \/ Planned(c) \/ Starts(c) \/ Spawns(c)
      BY <2>1, ValidateEndsStep, PlanFailsStep, PlannedStep, StartsStep, SpawnsStep
    <2>2. CASE StartupWaited(c) \/ Confirms(c) \/ StopCalls(c) \/ StopWaited(c)
      BY <2>2, StartupWaitedStep, ConfirmsStep, StopCallsStep, StopWaitedStep
    <2>3. CASE MarksFailed(c) \/ MarksStopped(c) \/ StopEnds(c)
      BY <2>3, MarksStep DEF MarksFailed, MarksStopped, StopEnds
    <2> QED BY <1>2, <2>1, <2>2, <2>3 DEF Proceeds
  <1>3. ASSUME NEW c \in Requests, \/ UpdateDraft(c) \/ Delete(c) \/ ValidateBegins(c) \/ ActivateBegins(c)
                                   \/ StopBegins(c) \/ Drops(c)
        PROVE  ControlInv'
    BY <1>3, EditStep, ValidateBeginsStep, StopBeginsStep, DropsStep
  <1>4. ASSUME NEW r \in Runs, ActorProceeds(r) \/ ChildExits(r)
        PROVE  ControlInv'
    BY <1>4, ActorStep, RemovesStep, ReportsStep DEF ActorProceeds
  <1>5. CASE AppliesEvent \/ ShutdownBegins \/ ShutdownProceeds \/ Restarts
    BY <1>5, AppliesEventStep, ShutdownBeginsStep, DrainsStep, DrainedStep, NormalizesRecordsStep,
       ServerExitsStep, RestartsStep DEF ShutdownProceeds
  <1>6. CASE UNCHANGED vars
    <2>1. /\ UNCHANGED <<record, pc, req, worker, handle, events, lastRun, stranded, faults>>
          /\ server' = server /\ draining' = draining
      BY <1>6 DEF vars
    <2>2. EndReported' /\ Closing' /\ ShutdownStopsAll'
      BY <2>1, Parts DEF EndReported, Tracked, Pending, Closing, Failed, TakenBack, ShutdownStopsAll
    <2> QED BY <2>1, <2>2, ServerTypes, ServerMoves
  <1> QED BY <1>1, <1>2, <1>3, <1>4, <1>5, <1>6 DEF Next

\* It holds in every state.
LEMMA Inductive == Spec => []ControlInv
  BY InitInv, NextInv, PTL DEF Spec

\* docs/server.md, "The server owns every worker from the moment it is spawned":
\* whatever activations, stops, dropped requests, failed persists, crashes and
\* restarts overlap, a worker that is alive is the one in the supervisor's map,
\* and it is the current run of an active record unless it was told to stop.
THEOREM WorkersAreOwned == Spec => [](OneWorker /\ WorkerRecorded)
  <1>1. ControlInv => OneWorker /\ WorkerRecorded
    BY Parts
  <1> QED BY <1>1, Inductive, PTL

\* A worker runs the revision that the record shows, and a verdict is about it.
THEOREM RevisionIsCurrent == Spec => []RunsCurrentRevision
  <1>1. ControlInv => RunsCurrentRevision
    BY Parts
  <1> QED BY <1>1, Inductive, PTL

\* A delivery that is shown as Running has a worker that was seen ready, or an
\* event of its end that the monitor has still to apply.
THEOREM RunningIsTrue == Spec => []RunningHasWorker
  <1>1. ControlInv => RunningHasWorker
    <2> SUFFICES ASSUME ControlInv, server # "down", record.live, record.runtime = "running",
                        record.run \notin stranded
                 PROVE  \/ worker[record.run].stage \in {"ready", "stopping", "ended", "removed"}
                        \/ Pending(record.run)
      BY DEF RunningHasWorker, Pending
    <2>1. record.run \in Runs /\ Tracked
      BY Types DEF Runs, Records, Transient, Tracked
    <2>2. worker[record.run] \in WorkerStates /\ WorkerOK(record.run, worker[record.run])
      BY <2>1, Types, WorkerTypes, Parts DEF WorkersOK
    <2> QED BY <2>1, <2>2, Parts DEF EndReported, WorkerOK, WorkerStates, Alive
  <1> QED BY <1>1, Inductive, PTL

\* A server that has shut down leaves no worker alive and no delivery active,
\* unless a persist failed, a request was dropped or a worker failed to stop.
THEOREM ShutdownIsClean == Spec => []ShutdownStopsAll
  <1>1. ControlInv => ShutdownStopsAll
    BY Parts
  <1> QED BY <1>1, Inductive, PTL
=============================================================================
