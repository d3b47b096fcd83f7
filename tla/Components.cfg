CONSTANTS
    Kinds = {"admission", "memory", "store", "dropping store", "plane"}
    Setups <- MCSetups
    Known <- MCKnown
    Capacity = 1
    MaxFaults = 1
    c1 = c1
    c2 = c2
    d1 = d1
    d2 = d2
SPECIFICATION AllSpec
INVARIANTS
    AllTypeOK
    CommittedIsSettled
    
    SessionResumes
    MemoryBounded
PROPERTIES
    ChangedWhenDrained
    StoreSerializes
    ComponentsProgress
    ComponentsStop
CHECK_DEADLOCK FALSE
