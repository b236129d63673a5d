CONSTANTS
    r1 = r1
    r2 = r2
    Runs <- TwoRuns
    MaxRecords = 2
    Edits = {"change", "remove", "swap"}
SPECIFICATION Spec
CHECK_DEADLOCK FALSE
INVARIANTS
    VerifyNamesTheFirstBreak
    ReturnedIsOnFile
    NumbersAreUnique
    SpanCoversTheRun
PROPERTIES
    AppendOnly
