SPECIFICATION Spec
CONSTANTS
    NumLeaves = 2
    MaxFunctions = 3
    Kinds <- AllKinds
    ResidualOnly = TRUE
INVARIANTS
    TypeOK
    FullGradientsOnly
    LeafGradients
    EngineDrains
    LeafGradientsFirst
CHECK_DEADLOCK FALSE
