SPECIFICATION Spec
CONSTANTS
  SubBlocks = {0, 1}
  AlignIn = 2
  AlignOut = 4
  MxGroup = 4
  InitZeroLen = 4
  DoubleBufferLen = 4
  CoreAlign = 4
  CoreAlignSmall = 1
  UInt32Max = 15
  MaxOutputM = 2
  BlockElements = 2
  Jobs <- MCJobs
INVARIANTS
  OutputsRight
  EventsInPairs
PROPERTIES
  Completes
