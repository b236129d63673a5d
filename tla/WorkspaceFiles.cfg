CONSTANTS
    c1 = c1
    c2 = c2
    c3 = c3
    a = a
    b = b
    Calls <- ThreeCalls
    Contents <- TwoContents
    Plain = {TRUE, FALSE}
    MaxCrashes = 1
SPECIFICATION Spec
SYMMETRY Alike
CHECK_DEADLOCK FALSE
INVARIANTS
    OrderlyVersionsAreKept
    KeptIsWhatWasReplaced
    TrailTellsTheFile
    NothingIsInvented
