CONSTANTS
    Kinds = {"postgres", "mysql", "pqv1", "ydb", "fence", "queue", "gtids", "changelog"}
    Modes = {"stream", "batch_and_stream"}
    MaxLsn = 4
    Empty = {2}
    MaxFaults = 2
    w1 = w1
    w2 = w2
    Executions = {w1, w2}
    Timeout = 6
    Lateness = 1
SPECIFICATION Spec
INVARIANTS
    TypeOK
    SnapshotHandoff
    ReadsExact
    FenceExclusive
    AlgorithmsExact
PROPERTIES
    KeepsPromise
    
CHECK_DEADLOCK FALSE
