SPECIFICATION Spec
CONSTANTS
    w1 = w1
    c1 = c1
    c2 = c2
    Workers <- OneWorker
    Clusters <- TwoClusters
    Specs <- MovingSpecs
    MaxGeneration = 2
    MaxFaults = 0
PROPERTIES
    TopicGoneBeforeFinalizer
CHECK_DEADLOCK FALSE
