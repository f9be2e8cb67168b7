SPECIFICATION FairSpec
CONSTANTS
    p1 = p1
    p2 = p2
    p3 = p3
    Proc <- ThreeProc
    MaxFaults = 2
    MaxStalls = 1
INVARIANTS
    Exclusive
PROPERTIES
    NeverWedged
