SPECIFICATION Spec
CONSTANTS
    Clients = {c1, c2}
    Grants = {g1}
    Pids = {p1, p2}
    LocalIds = {1}
    Limit = 1
    MaxTaskId = 3
    MaxReferences = 2
INVARIANTS EngineConsistent ReferencesHonoured RunningHasProcess
SYMMETRY Symmetry
