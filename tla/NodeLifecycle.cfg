SPECIFICATION FairSpec
CONSTANTS
    N = 2
    Kinds <- AllKinds
    MaxFaults = 1
    MaxOrphans = 1
INVARIANTS
    CommandHolds
    CandidateIsRecorded
PROPERTIES
    MutationsEnd
CHECK_DEADLOCK FALSE
