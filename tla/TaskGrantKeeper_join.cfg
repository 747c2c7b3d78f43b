SPECIFICATION FairSpec
CONSTANTS
    Envs = {e1}
    Tasks = {t1}
    ExpiresIn = 2
    Tolerance = 1
    MaxGrants = 2
PROPERTIES JoinReturns
