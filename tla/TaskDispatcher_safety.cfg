SPECIFICATION SafetySpec
CONSTANTS
    Locations <- PickLocations
    HostOf <- PickHostOf
    HeartbeatReqs <- SafetyBeats
    Applications <- SafetyApps
    Requests = {r1}
    Renewals = {1}
    MinDaemonVersion = 1
    MaxHeartbeatTtl = 1
    MaxTaskId = 8
    MaxDesc = 3
    MaxInflight = 1
INVARIANTS RegistryConsistent RunningTasksExact
PROPERTIES LeaseRespected PickSound
CHECK_DEADLOCK FALSE
