SPECIFICATION Spec
CONSTANTS
    Ranks = {r1, r2}
    NumParams = 4
    TrainableSets <- OneFrozen
    InitialBuckets <- MCInitialBuckets
    Rebuilt <- MCRebuilt
    EngineOrders <- MCEngineOrders
    AccumSteps = 1
    Steps = 1
    ForwardsPerBackward = 1
INVARIANT StepGradsAveraged
