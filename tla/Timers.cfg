CONSTANTS
    x1 = x1
    x2 = x2
    i1 = i1
    i2 = i2
    k1 = k1
    k2 = k2
    k3 = k3
    Ids <- TwoTimers
    Events <- ThreeEvents
    KindOf <- Kinds
    CancelOn <- CancelledBy
    Deployments <- Supported
    MaxClaims = 3
    MaxCrashes = 1
SPECIFICATION FairSpec
CHECK_DEADLOCK FALSE
INVARIANTS
    FiresOnce
PROPERTIES
    CancelledStaysCancelled
    TimerIsSettled
