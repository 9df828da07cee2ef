SPECIFICATION Spec
CONSTANTS
    ParamAlign = 2
    BucketAlign = 4
    MaxTensors = 0
    Keys = {"fp32", "bf16"}
    TensorSizes = {1, 2, 3}
    BucketCaps = {2, 3}
    MaxParams = 0
    LayoutNumels = {}
    Worlds = {2, 3}
    BucketSizes = {1, 6, 100}
    MaxMicroBatches = 0
    MaxStages = 3
    MaxVpp = 3
    RateConfigs = {}
    RateSteps = 0
    ReduceThreads = 2
    BlockSize = 4
    WarpSize = 2
    VecSize = 2
    TileHeight = 2
    SmCount = 1
    MaxHistogram = 3
    Results <- ResultsOfCalls
    FunctionNames = {"LinearBias"}
    Networks <- NetworksOfNames
    Drawn <- DrawnBySeed
    NetworkNames = {}
CHECK_DEADLOCK FALSE
INVARIANTS
    BiasGradientSums
