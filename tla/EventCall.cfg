CONSTANTS
    s1 = s1
    s2 = s2
    s3 = s3
    Sessions = {s1, s2, s3}
    session_id = s1
    Timeouts = {TRUE, FALSE}
SPECIFICATION FairSpec
CHECK_DEADLOCK FALSE
INVARIANTS
    AskedAreTheRequesters
    NoDecisionFromSilence
PROPERTIES
    CallEnds
    ReconnectedIsAsked
