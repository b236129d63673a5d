CONSTANTS
    Requests <- EveryRequest
    Settings <- EverySetting
    MaxArtifacts = 1
    Echoed = {"none", "approved"}
    Fallible = {"approval"}
SPECIFICATION FairSpec
CHECK_DEADLOCK FALSE
INVARIANTS
    NothingReleasedUnapproved
    ReleasedTextIsReviewedText
    UnrunCodeNeverPasses
    ReplanIsEarnedOnce
    RecordInOrder
    OutcomeNeverOverstates
PROPERTIES
    ImplementsGate
    TurnEnds
