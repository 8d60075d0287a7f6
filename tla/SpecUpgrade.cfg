SPECIFICATION FairSpec
CONSTANTS
    Absent = Absent
    ClusterEdits <- SomeClusterEdits
    TopicEdits <- SomeTopicEdits
    MaxEdits <- EditBounds
    MaxRollbacks = 1
INVARIANTS
    InjectedIsExplained
    BrokersAreWired
    FilesAreMounted
PROPERTIES
    AdviceConverges
    PatchSticks
    AdviceKeepsSiblings
    EditsTakeEffect
