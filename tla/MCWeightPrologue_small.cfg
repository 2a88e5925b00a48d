SPECIFICATION FairSpec
CONSTANTS
    NumBlocks = 3
    KSize = 5
    KL1Size = 2
    KL0Size = 1
    ScaleFactor = 2
    BufNums = {1, 2}
    UbRounds = 2
    WholeTiles = {}
    HasBias = TRUE
    BiasAivs = {0}
    Empty = Empty
INVARIANTS FlagsConsumed
PROPERTIES ComputesBlocksInOrder Completes
CHECK_DEADLOCK FALSE
