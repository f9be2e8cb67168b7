SPECIFICATION Spec
CONSTANTS
    Deployments <- TwoDeployments
    PortModes = {FALSE}
    DriverSuspends = FALSE
    MaxCancels = 0
    MaxRequests = 1
    MaxCrashes = 0
    MaxFaults = 0
    MaxWriteFailures = 0
INVARIANTS
    StoppedStaysDown
CHECK_DEADLOCK FALSE
