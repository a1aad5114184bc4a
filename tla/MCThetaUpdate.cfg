SPECIFICATION Spec
CONSTANTS
  MaxTheta = 5
  K = 2
  Budget = 2
  ChunkTargetMultiple = 1
  MinChunkKeys = 3
  MaxChunkGrowth = 2
  Batches <- MCBatches
INVARIANTS
  ChunkFits
  Parity
  FirstChunkAtomic
  EmptyIffNothingSeen
PROPERTIES
  Discards
  UpdateReturns
  AbsorbsAtomically
