SPECIFICATION LocalSpec
CONSTANTS
    ParamAlign = 2
    BucketAlign = 4
    MaxTensors = 0
    Keys = {"fp32", "bf16"}
    TensorSizes = {1, 2, 3}
    BucketCaps = {2, 3}
    MaxParams = 3
    LayoutNumels = {1, 2, 3, 4}
    Worlds = {2, 3}
    BucketSizes = {1, 6, 100}
    MaxMicroBatches = 0
    MaxStages = 3
    MaxVpp = 3
    RateConfigs = {}
    RateSteps = 0
CHECK_DEADLOCK FALSE
INVARIANTS
    ElementsOwnedOnce
