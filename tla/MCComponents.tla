---------------------------- MODULE MCComponents ----------------------------
(***************************************************************************)
(* Components that do not share state, one of them in each behaviour:      *)
(* `kind` says which one takes steps, the others stay where they start.    *)
(***************************************************************************)
EXTENDS MCAdmission

CONSTANTS
    Kinds,       \* the components considered
    c1, c2,      \* requests
    d1, d2       \* deliveries

VARIABLES
    kind,
    sides, used, source_used, transform_used, progress_source_active, active_transform,
    registered, rpc, seen, rnext, readCh, ppc, cur, deliveryCh, spc, flushing, retained,
    mem, disk, synced, clients, tasks, storeFaults,
    record, steps, req, worker, handle, events, lastRun, server, draining, stranded, planeFaults

memoryVars == <<sides, used, source_used, transform_used, progress_source_active, active_transform,
                registered, rpc, seen, rnext, readCh, ppc, cur, deliveryCh, spc, flushing, retained>>
storeVars == <<mem, disk, synced, clients, tasks, storeFaults>>
planeVars == <<record, steps, req, worker, handle, events, lastRun, server, draining, stranded,
               planeFaults>>
allVars == <<kind, vars, memoryVars, storeVars, planeVars>>

-----------------------------------------------------------------------------
(* Memory: four batches against a limit of 3.  The outputs of two are      *)
(* larger than estimated and as large as the limit, one batch is           *)
(* oversized, one has no output.  Ordinary reservations stand in front of  *)
(* a sink with a timer, progress-critical ones in front of a sink that     *)
(* flushes under pressure only.                                            *)

MCSides == {[progress |-> FALSE, timer |-> TRUE], [progress |-> TRUE, timer |-> FALSE]}

Me == INSTANCE PipelineMemory WITH
    Limit <- 3, Source <- <<2, 1, 4, 1>>, Wire <- <<1, 1, 2, 2>>, Bound <- <<2, 2, 4, 2>>, Output <- <<3, 3, 2, 0>>,
    Capacity <- 2, Setups <- MCSides, setup <- sides

-----------------------------------------------------------------------------
(* The state file, with and without requests that are dropped, and the     *)
(* life of a delivery.                                                     *)

Kept == INSTANCE JsonStore WITH
    Deliveries <- {d1, d2}, Clients <- {c1, c2}, MaxVersion <- 2, MaxFaults <- 2,
    Disconnects <- FALSE, pc <- clients, faults <- storeFaults
Dropped == INSTANCE JsonStore WITH
    Deliveries <- {d1, d2}, Clients <- {c1, c2}, MaxVersion <- 2, MaxFaults <- 1,
    Disconnects <- TRUE, pc <- clients, faults <- storeFaults

Plane == INSTANCE ControlPlane WITH
    Requests <- {c1, c2}, MaxRuns <- 1, MaxRevision <- 1, MaxVersion <- 4, MaxFaults <- 1,
    PersistFails <- TRUE, Disconnects <- TRUE, Crashes <- TRUE,
    pc <- steps, faults <- planeFaults

-----------------------------------------------------------------------------

AllInit ==
    /\ kind \in Kinds
    /\ Init /\ (kind = "admission" \/ setup = CHOOSE s \in Setups : TRUE)
    /\ Me!Init /\ (kind = "memory" \/ sides = CHOOSE s \in MCSides : TRUE)
    /\ Kept!Init
    /\ Plane!Init

AdmissionRest == UNCHANGED <<kind, memoryVars, storeVars, planeVars>>
MemoryRest == UNCHANGED <<kind, vars, storeVars, planeVars>>
StoreRest == UNCHANGED <<kind, vars, memoryVars, planeVars>>
PlaneRest == UNCHANGED <<kind, vars, memoryVars, storeVars>>

AllNext ==
    \/ kind = "admission" /\ Next /\ AdmissionRest
    \/ kind = "memory" /\ Me!Next /\ MemoryRest
    \/ kind = "store" /\ Kept!Next /\ StoreRest
    \/ kind = "dropping store" /\ Dropped!Next /\ StoreRest
    \/ kind = "plane" /\ Plane!Next /\ PlaneRest

\* The tasks, requests and actors of a component go on.
Works ==
    \/ kind = "admission" /\ (DriverStep \/ SessionStep \/ ReaderCommits \/ ReaderReturns)
       /\ AdmissionRest
    \/ kind = "memory" /\ (Me!Reader \/ Me!Parser \/ Me!Sink) /\ MemoryRest
    \/ kind = "plane" /\ Plane!Progress /\ PlaneRest
Exchanged == kind = "memory" /\ Me!Exchanged /\ MemoryRest

AllSpec == AllInit /\ [][AllNext]_allVars /\ WF_allVars(Works) /\ SF_allVars(Exchanged)

-----------------------------------------------------------------------------

AllTypeOK == TypeOK /\ Me!TypeOK /\ Kept!TypeOK /\ Plane!TypeOK

\* Admission: deliveries fit the catalog of the sink that receives them, and
\* events leave in the order of the deliveries (validate_batch, commit_through).
AdmittedInOrder == SchemaInstalled /\ EventsInOrder

\* Memory: every byte is accounted for, and neither the source nor the output
\* crosses its limit more than once (reserve, reserve_progress_source,
\* reserve_transform).
MemoryBounded ==
    Me!Accounted /\ Me!SourceBounded /\ Me!ProgressSerialized /\ Me!OverageOnce

\* Store: of two requests with the same expected version one is refused
\* (replace).  While no request is dropped, one task at a time writes the
\* state file, memory follows it, and a version is never given to other
\* contents (persist).
StoreSerializes ==
    /\ Kept!OneAtATime
    /\ [](kind # "dropping store" => Kept!PersistenceSerialized /\ Kept!MemoryIsDisk)
    /\ [][kind # "dropping store" => Kept!VersionsGrow]_storeVars

\* Admission commits everything, memory is released for every batch, and a
\* delivery does not stay Starting or Stopping.
ComponentsProgress ==
    /\ <>(/\ kind = "admission" => cancelled \/ faults > 0 \/ committed = Len(Items)
          /\ kind = "memory" => Me!AllReleased)
    /\ Plane!TransientSettles

\* Cancellation of the driver and shutdown of the server come to an end.
ComponentsStop ==
    (cancelled \/ server = "stopping") ~> (cancelled => Finished) /\ server \in {"down", "up"}
=============================================================================
