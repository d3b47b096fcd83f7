CONSTANTS
    Setups <- MCAnnouncedTracked
    Known <- MCKnown
    Capacity = 1
    MaxFaults = 0
SPECIFICATION Spec
INVARIANT
    SessionResumes
CHECK_DEADLOCK FALSE
