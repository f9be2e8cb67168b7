SPECIFICATION Spec
CONSTANTS
    Deployments <- TwoDeployments
    PortModes = {TRUE, FALSE}
    DriverSuspends = TRUE
    MaxCancels = 1
    MaxRequests = 1
    MaxCrashes = 1
    MaxFaults = 1
    MaxWriteFailures = 2
INVARIANTS
    ServingExists
    RestIsClean
PROPERTIES
    RoutedIsKept
    SuccessIsReal
    CommitIsFinal
    TransitionsSettle
CHECK_DEADLOCK FALSE
