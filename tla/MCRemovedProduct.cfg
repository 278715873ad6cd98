\* One process, which sets its project up twice; products may have disappeared in between.
CONSTANTS
    Processes = {p1}
    Jobs <- Commands
    MaxTime = 2
    MaxJobs = 2
    MaxCrashes = 0
    MaxFaults = 0
SPECIFICATION Spec
INVARIANTS UnchangedMeansStored
CHECK_DEADLOCK FALSE
