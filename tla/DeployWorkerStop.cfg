SPECIFICATION Spec
CONSTANTS
    shop = shop
    blog = blog
    wiki = wiki
    panel = panel
    node = node
    Rows <- ThreeRows
    ServiceOf <- Apart
    PartitionOf <- OnPanel
    Local = panel
    Concurrency = 2
    Gated <- NoRows
    Aging <- NoRows
    Journaled <- NoRows
    DriverSuspends = TRUE
    MaxCancels = 0
    MaxCrashes = 0
    MaxStops = 1
    MaxFreezes = 0
    MaxFaults = 0
INVARIANTS
    SeatsRespected
    StopIsClean
