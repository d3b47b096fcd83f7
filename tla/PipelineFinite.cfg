CONSTANTS
    NumBatches = 3
    Outputs <- MCOutputs
    Marked <- MCAllMarked
    Capacity = 1
    Finite = TRUE
    Resumable = TRUE
    FlushSize = 2
    MaxFaults = 1
SPECIFICATION FairSpec
INVARIANTS
    TypeOK
    CommittedIsDurable
    DrainedIsComplete
    RowCountsExact
    NoIntegrityFailure
PROPERTIES
    ImplementsAtLeastOnce
    Termination
