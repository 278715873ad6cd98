\* Processes and scripts with and without a time limit.
CONSTANTS
    Transformers <- Mixed
    MaxRuns = 3
    MaxPauses = 2
SPECIFICATION FairSpec
INVARIANTS NothingLeftBehind
PROPERTIES ImplementsContract EveryJobReports
CHECK_DEADLOCK FALSE
