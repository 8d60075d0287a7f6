SPECIFICATION Spec
CONSTANTS
    r1 = r1
    r2 = r2
    Replicas <- MCReplicas
    Nobody = Nobody
    Controllers = {"cluster"}
    LeaseDuration = 3
    RenewInterval = 2
    RetryInterval = 1
    Skew = 0
    Offset <- MCOffset
    MaxFaults = 1
    MaxLate = 1
INVARIANTS
    OneInstanceRunsControllers
