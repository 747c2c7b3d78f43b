SPECIFICATION FairSpec
CONSTANTS
    MaxTasks = 1
    Digests = {d1, d2}
    Uncached = {d2}
    Retries = 1
    MaxServantTasks = 1
    MaxRestarts = 1
INVARIANTS TableConsistent ResultSound GrantsReturned
PROPERTIES TaskEnds
CHECK_DEADLOCK FALSE
