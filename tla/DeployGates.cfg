SPECIFICATION FairSpec
CONSTANTS
    N = 2
    MaxHead = 2
    DriverSuspends = FALSE
    Gates = {{"runner", "lane"}, {"github", "lane"}, {"freeze", "lane"}}
    Switches = {"runner", "github"}
    MaxSwitches = 1
    MaxExpiries = 1
    MaxCrashes = 1
    MaxAgings = 1
    MaxEvents = 1
INVARIANTS
    OnlyNewestWaits
PROPERTIES
    VerdictsBind
    OrphanStopped
    CiWaitEnds
CHECK_DEADLOCK FALSE
