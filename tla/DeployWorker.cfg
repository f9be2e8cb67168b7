SPECIFICATION Spec
CONSTANTS
    shop = shop
    blog = blog
    wiki = wiki
    panel = panel
    node = node
    Rows <- TwoRows
    ServiceOf <- TwoOfOne
    PartitionOf <- OnNode
    Local = panel
    Concurrency = 1
    Gated <- FirstRow
    Aging <- TwoRows
    Journaled <- SecondRow
    DriverSuspends = FALSE
    MaxCancels = 1
    MaxCrashes = 1
    MaxStops = 0
    MaxFreezes = 1
    MaxFaults = 1
INVARIANTS
    OnePipelinePerService
    OneRowOfAKind
PROPERTIES
    NothingRevived
    EveryDeployEnds
