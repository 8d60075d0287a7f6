SPECIFICATION FairSpec
CONSTANTS
    w1 = w1
    c1 = c1
    c2 = c2
    Workers <- OneWorker
    Clusters <- OneCluster
    Specs <- LocalSpecs
    MaxGeneration = 2
    MaxFaults = 2
INVARIANTS
    SyncedMeansVerified
    UnsupportedNeverCreated
    TopicUnderFinalizer
PROPERTIES
    NoRegression
    TopicDroppedOnRequestOnly
    Converges
    DeletionCompletes
CHECK_DEADLOCK FALSE
