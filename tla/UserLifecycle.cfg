SPECIFICATION FairSpec
CONSTANTS
    w1 = w1
    w2 = w2
    Workers <- TwoWorkers
    MaxGeneration = 2
    MaxFaults = 1
PROPERTIES
    Converges
    ForeignLostUnseenOnly
CHECK_DEADLOCK FALSE
