SPECIFICATION Spec
CONSTANTS
    Ranks = {r1, r2}
    NumParams = 4
    TrainableSets <- NoneOrOneFrozen
    InitialBuckets <- MCInitialBuckets
    Rebuilt <- MCRebuilt
    EngineOrders <- MCEngineOrders
    AccumSteps = 2
    Steps = 2
    ForwardsPerBackward = 2
INVARIANTS
    TypeOK
    StepGradsAveragedUnlessFrozen
    CountInv
    CollectivesMatch
    NoCheckFailure
PROPERTIES
    StableWhileInFlight
    TrainingFinishes
