SPECIFICATION FairSpec
CONSTANTS
    Clients = {c1, c2}
    Grants = {g1}
    Pids = {p1, p2}
    LocalIds = {1}
    Limit = 2
    MaxTaskId = 2
    MaxReferences = 2
PROPERTIES StopTerminates PollEnds
