CONSTANTS
    u1 = u1
    u2 = u2
    a1 = a1
    a2 = a2
    b1 = b1
    b2 = b2
    f1 = f1
    f2 = f2
    Users = {u1, u2}
    Answers = {a1, a2}
    Background = {b1, b2}
    Foreground = {f1, f2}
    max_async = 1
    max_concurrent = 1
    Delegators = {u1}
    MaxFaults = 1
SPECIFICATION FairSpec
CHECK_DEADLOCK FALSE
INVARIANTS
    SlotsAreAccounted
    HandedOnce
PROPERTIES
    ResultIsHandedOver
