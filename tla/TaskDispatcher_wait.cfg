SPECIFICATION FairSpec
CONSTANTS
    Locations <- MCLocations
    HostOf <- MCHostOf
    HeartbeatReqs <- WaitBeats
    Applications <- WaitApps
    Requests = {r1, r2}
    Renewals = {0}
    MinDaemonVersion = 1
    MaxHeartbeatTtl = 1
    MaxTaskId = 2
    MaxDesc = 1
    MaxInflight = 1
PROPERTIES WaiterWoken GrantReclaimed
