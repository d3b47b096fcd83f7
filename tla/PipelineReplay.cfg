CONSTANTS
    NumBatches = 3
    Outputs <- MCOutputs
    Marked <- MCAllMarked
    Capacity = 1
    Finite = TRUE
    Resumable = FALSE
    FlushSize = 1
    MaxFaults = 1
SPECIFICATION Spec
INVARIANTS
    NoDoubleCount
