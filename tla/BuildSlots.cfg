SPECIFICATION Spec
CONSTANTS
    b1 = b1
    b2 = b2
    b3 = b3
    b4 = b4
    down = down
    Builds <- FourBuilds
    Capacities <- FourCapacities
    Unreadable = down
INVARIANTS
    TypeOK
    SlotsAccounted
    NeverOversubscribed
    NoLostWakeup
PROPERTIES
    WaitersAreServed
    NoOvertaking
CHECK_DEADLOCK FALSE
