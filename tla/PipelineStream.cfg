CONSTANTS
    NumBatches = 3
    Outputs <- MCOutputs
    Marked <- MCLastMarked
    Capacity = 1
    Finite = FALSE
    Resumable = TRUE
    FlushSize = 1
    MaxFaults = 1
SPECIFICATION FairSpec
PROPERTIES
    CommitsAdvance
    StreamCommits
    CancelStops
