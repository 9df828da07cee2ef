SPECIFICATION Spec
CONSTANTS
    ParamAlign = 2
    BucketAlign = 4
    MaxTensors = 3
    Keys = {"fp32", "bf16"}
    TensorSizes = {1, 2, 3}
    BucketCaps = {2, 3}
    MaxParams = 3
    LayoutNumels = {2, 4, 6, 10}
    Worlds = {2, 3}
    BucketSizes = {1, 6, 100}
    MaxMicroBatches = 4
    MaxStages = 3
    MaxVpp = 3
    RateConfigs <- TrainerConfigs
    RateSteps = 8
    ReduceThreads = 2
    BlockSize = 4
    WarpSize = 2
    VecSize = 2
    TileHeight = 2
    SmCount = 1
    MaxHistogram = 3
    Results <- ResultsOfCalls
    FunctionNames = {
        "Neg", "Reciprocal", "Sin", "Cos", "Rsqrt", "Log", "Tanh", "Sigmoid", "AddScalar",
        "MulScalar", "Pow", "PowOfBase", "EqualsScalar", "LtScalar", "LeScalar", "GtScalar",
        "GeScalar", "Equals", "Lt", "Le", "Gt", "Ge", "Or", "And", "Add", "Sub", "Mul", "Div",
        "Mean", "Sum", "Max", "Min", "Tril", "Triu", "Transpose", "Mask", "RepeatInterleave",
        "Split", "Stack", "Concat", "Slice", "Gather", "ScatterAdd", "Scatter", "NoOp", "Matmul",
        "Linear", "LinearBias", "Outer", "LayerNorm", "Exp",
        "Accumulate", "Adam", "Softmax", "CrossEntropy", "TopK", "Embedding"}
    Networks <- NetworksOfNames
    Drawn <- DrawnBySeed
    NetworkNames = {
        "gpt2", "gpt2_tied_sp", "llama3_sp", "linear_skip", "lora_gathered", "lora_sp",
        "lora_merged", "moe", "moe_pre_softmax", "moe_sigmoid"}
CHECK_DEADLOCK FALSE
INVARIANTS
    BucketsSound
    ElementsOwnedOnce
    SchedulesSound
    WeightsPlaced
    RatesResume
    KernelsAgree
    GradientsPredictChanges
    LayersPlaced
    RanksComputeOneModel
    AdaptersTravel
