SPECIFICATION Spec
CONSTANTS
    r1 = r1
    Jobs = {1}
    Runners <- OneRunner
    MaxAttempts = 2
    Capacity = 2
    MaxHead = 2
    RequireApproval = TRUE
    Drivers = {TRUE, FALSE}
    MaxRunnerCrashes = 1
    MaxPanelCrashes = 1
    MaxRevokes = 1
    MaxCancels = 1
INVARIANTS
    OneResult
    RunningIsTended
PROPERTIES
    ImplementsJobLife
CHECK_DEADLOCK FALSE
