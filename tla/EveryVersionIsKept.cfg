CONSTANTS
    c1 = c1
    c2 = c2
    c3 = c3
    a = a
    b = b
    Calls <- ThreeCalls
    Contents <- TwoContents
    Plain = {TRUE}
    MaxCrashes = 0
SPECIFICATION Spec
SYMMETRY Alike
CHECK_DEADLOCK FALSE
INVARIANT EveryVersionIsKept
