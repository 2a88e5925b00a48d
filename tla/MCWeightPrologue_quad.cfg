SPECIFICATION FairSpec
CONSTANTS
    NumBlocks = 2
    KSize = 5
    KL1Size = 2
    KL0Size = 2
    ScaleFactor = 2
    BufNums = {4}
    UbRounds = 1
    WholeTiles = {2}
    HasBias = TRUE
    BiasAivs = {0, 1}
    Empty = Empty
INVARIANTS CreditsConserved
PROPERTIES NothingLost ComputesBlocksInOrder Completes
CHECK_DEADLOCK FALSE
