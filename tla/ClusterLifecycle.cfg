SPECIFICATION FairSpec
CONSTANTS
    w1 = w1
    w2 = w2
    Workers <- OneWorker
    Specs <- FourSpecs
    LegacySpec <- Base
    MaxGeneration = 2
    MaxReady = 1
    MaxFaults = 2
INVARIANTS
    StatusFitsItsGeneration
    DataUnderFinalizer
PROPERTIES
    RunningMeansApplied
    RunningMeansOneBroker
    NoRegression
    ForeignFinalizerKept
    DataDeletedOnRequestOnly
    Converges
    DeletionCompletes
CHECK_DEADLOCK FALSE
