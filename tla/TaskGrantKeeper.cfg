SPECIFICATION FairSpec
CONSTANTS
    Envs = {e1}
    Tasks = {t1, t2}
    ExpiresIn = 1
    Tolerance = 1
    MaxGrants = 4
INVARIANTS QueueConsistent HandedOnce
PROPERTIES HandedAlive KeeperLive
