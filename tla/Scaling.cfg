SPECIFICATION FairSpec
CONSTANTS
    Absent = Absent
    I32 = 8
    Templates <- SomeTemplates
    Configs <- SomeConfigs
    Loads <- SomeLoads
    Measured <- SomeMeasured
    OthersChoice = {0, 2}
    MaxReplicas = 6
    MaxAge = 1
    MaxEdits = 1
    MaxFaults = 1
INVARIANTS
    RecommendationIsSteady
PROPERTIES
    AppliesKeepPostedFields
    SleepsOnlyWhenQuiet
    FollowsActivity
