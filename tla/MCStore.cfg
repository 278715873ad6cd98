\* Two processes and a crash, an edit and a failure to write at every point.
CONSTANTS
    Processes = {p1, p2}
    Jobs <- Commands
    MaxTime = 2
    MaxJobs = 4
    MaxCrashes = 1
    MaxFaults = 1
SPECIFICATION FairSpec
INVARIANTS OneUser GraphsAreWhole CleanMeansStored ProjectIsCurrent FreshAfterBuild
PROPERTIES EveryJobEnds
CHECK_DEADLOCK FALSE
