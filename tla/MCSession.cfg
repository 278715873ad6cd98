\* Any requests of a client, in any order.
CONSTANT MaxRequests = 5
SPECIFICATION FairSpec
INVARIANTS ProjectsAreExclusive NoSelfLock
PROPERTIES RepliesAreFinal EveryRequestAnswered QuitEndsSession
CHECK_DEADLOCK FALSE
