SPECIFICATION FairSpec
CONSTANTS
    r1 = r1
    Request <- OneRequest
    Kinds = {"stop", "start"}
    MaxGen = 2
    MaxSleeps = 1
    MaxTrips = 1
    MaxDeaths = 1
    MaxFaults = 1
    MaxCrashes = 1
    MaxEvents = 3
INVARIANTS
    StopSticks
PROPERTIES
    ComesBack
    VisitorsGetThrough
CHECK_DEADLOCK FALSE
