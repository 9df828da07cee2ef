SPECIFICATION Spec
CONSTANTS
    r1 = r1
    r2 = r2
    Ranks = {r1, r2}
    Groups <- MCGroups
    Owner <- MCOwner
    EngineOrders <- MCEngineOrders
    Configs <- AccumulatingConfigs
    MaxAccum = 2
    Steps = 2
INVARIANT StepGradsSynced
