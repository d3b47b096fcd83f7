SPECIFICATION Spec
CONSTANTS
    c1 = c1
    c2 = c2
    Requests <- MCRequests
    MaxRuns = 2
    MaxRevision = 2
    MaxVersion = 6
    MaxFaults = 1
    PersistFails = TRUE
    Disconnects = TRUE
    Crashes = TRUE
SYMMETRY Symmetry
INVARIANTS OneWorker WorkerRecorded RunsCurrentRevision RunningHasWorker ShutdownStopsAll
