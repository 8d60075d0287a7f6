SPECIFICATION FairSpec
CONSTANTS
    r1 = r1
    r2 = r2
    Replicas <- MCReplicas
    Nobody = Nobody
    Controllers = {"cluster"}
    LeaseDuration = 1
    RenewInterval = 1
    RetryInterval = 1
    Skew = 0
    Offset <- MCOffset
    MaxFaults = 1
    MaxLate = 0
PROPERTIES
    LeadershipRecovers
    ImpairedLeaderStops
