SPECIFICATION FairSpec
CONSTANTS
  a = a
  b = b
  c = c
  k1 = k1
  k2 = k2
  i1 = i1
  i2 = i2
  i3 = i3
  v1 = v1
  Readers <- MCReaders
  Writers <- MCWriters
  Keys <- MCKeys
  Inputs <- MCInputs
  Vals <- MCVals
  HashOf <- MCHashOf
  MaxEntries = 2

PROPERTIES
  ImplementsAtomicCache
  FullCacheIsFrozen
  CallsReturn
  WriterNotStarvedByReaders
  ReaderServedWhenWritersPause
INVARIANTS
  MutualExclusion
  NoLostWakeup
  IteratorStaysValid
  HitIsForTheInput
