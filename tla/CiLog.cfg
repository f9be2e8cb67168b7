SPECIFICATION FairSpec
CONSTANTS
    Chunks = 3
    Room = 2
    MaxTries = 2
    DriverSuspends = FALSE
    MaxCrashes = 1
    MaxFaults = 1
INVARIANTS
    InOrder
    AckedIsStored
PROPERTIES
    ShippingEnds
CHECK_DEADLOCK FALSE
