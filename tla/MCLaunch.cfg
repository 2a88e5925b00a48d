SPECIFICATION LaunchSpec
CONSTANTS
    Half = 18
    Shapes <- MCShapes
    MaxSize = 7
    TileSizes = {2, 3, 4}
    Grids = {1, 2, 3}
    MaxMixedSize = 4
    BLOCK_CUBE = 2
    Problems <- MCProblems
    Plans <- MCPlans
    L1_SIZE = 524288
    L0A_SIZE = 65536
    L0B_SIZE = 65536
    L0C_SIZE = 131072
    MATMUL_MNK_ALIGN = 16
    MaxM = 128
    MaxN = 256
INVARIANTS
    CoresAgree
    BuffersDisjoint
    BlocksInsideResult
    ResultIsCovered
    NothingComputedTwice
    GroupOnOneBlock
    AcceptedFits
CHECK_DEADLOCK FALSE
