SPECIFICATION Spec
CONSTANTS
  a = a
  b = b
  c = c
  seed1 = seed1
  seed2 = seed2
  MaxTheta = 5
  Sketch = {a, b}
  K <- PairK
  Seed <- OneSeed
  SeedHash <- DistinctSeedHash
  SampledTheta <- PairSampled
  Chunks <- UpToTwoKeys
INVARIANTS
  TypeOK
  Represents
  ExactUnlessEstimating
  UnionIsParity
