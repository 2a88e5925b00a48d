CONSTANTS
    Cube = 2
    Block = 4
    StrideLimit = 6
    StrideLimitH = 6
    ByteBits = 2
    RepeatMaxTimes = 2
    UInt16Max = 31
    PerBlock = 4
    MxfpDivisor = 4
    MxfpMulti = 2
    Jobs <- MCJobs
SPECIFICATION Spec
INVARIANTS
    EachCellInPlace
    NothingElseWritten
CHECK_DEADLOCK FALSE
