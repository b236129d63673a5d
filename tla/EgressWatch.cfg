CONSTANTS
    Conns <- FewConns
    Processes <- FewProcesses
    EVENT_LIMIT = 2
    MaxDisturbances = 3
    MaxSamples = 2
SPECIFICATION FairSpec
CHECK_DEADLOCK FALSE
INVARIANTS
    EvidenceNeverUnderstates
    CountIsItsList
    EvidenceIsMeasured
PROPERTIES
    StayingOutIsSeen
    EndpointsReachScope
