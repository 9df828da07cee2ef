SPECIFICATION Spec
CONSTANTS
    World = 2
    NumIteration = 3
    SaveInterval = 1
    MaxKeep = 2
    TotalBatch = 4
    DatasetSize = 17
    MaxLaunches = 2
    Options <- MCOptions
    FreshRoots = TRUE
INVARIANTS
    TypeOK
    ResumesExactly
PROPERTIES
    CheckpointSurvives
    TrainingCompletes
