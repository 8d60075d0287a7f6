SPECIFICATION Spec
CONSTANTS
    Specs <- MCSpecs
    MaxGeneration = 3
    MaxReady = 2
    MaxTime = 4
INVARIANTS
    ConditionsAgree
PROPERTIES
    NoTimestampOnlyWrite
    TransitionTimesTellTheTruth
