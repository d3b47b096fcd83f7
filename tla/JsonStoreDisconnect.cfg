CONSTANTS
    c1 = c1
    c2 = c2
    d1 = d1
    d2 = d2
    Deliveries <- MCDeliveries
    Clients <- MCClients
    MaxVersion = 3
    MaxFaults = 2
    Disconnects = TRUE
SYMMETRY Symmetry
SPECIFICATION Spec
INVARIANTS
    MemoryIsDisk
CHECK_DEADLOCK FALSE
