SPECIFICATION FairSpec
CONSTANTS
    w1 = w1
    w2 = w2
    Workers <- OneWorker
    Specs <- OneSpec
    LegacySpec <- ThreeOld
    MaxGeneration = 1
    MaxReady = 2
    MaxFaults = 0
PROPERTIES
    PatchedClusterScalesDown
CHECK_DEADLOCK FALSE
