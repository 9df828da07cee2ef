SPECIFICATION Spec
CONSTANTS
    Confs <- PassingConfs
    Iterations = 2
INVARIANTS
    TypeOK
    InputsMatch
    NothingLeftOver
PROPERTIES
    ImplementsDataflow
    StepsFinish
