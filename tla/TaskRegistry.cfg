CONSTANTS
    t1 = t1
    t2 = t2
    s1 = s1
    s2 = s2
    i1 = i1
    i2 = i2
    Tasks <- TwoTasks
    StopsIn <- MCStopsIn
    Instances <- TwoInstances
    Home <- Homes
    Modes = {TRUE, FALSE}
    Tidy = {t1}
    MaxFaults = 1
SPECIFICATION FairSpec
CHECK_DEADLOCK FALSE
INVARIANTS
    RunningIsListed
    StopKeepsItsWord
PROPERTIES
    ToldIsEnded
    EndedIsForgotten
