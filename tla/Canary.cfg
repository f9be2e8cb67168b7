SPECIFICATION FairSpec
CONSTANTS
    N = 2
    Steps = 2
    MaxFaults = 2
    MaxSick = 1
    MaxLapses = 1
    MaxCancels = 1
    MaxCrashes = 1
INVARIANTS
    RoutedIsUp
    SwitchIsEarned
PROPERTIES
    CanarySettles
    CancelReturns
CHECK_DEADLOCK FALSE
