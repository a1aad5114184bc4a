SPECIFICATION Spec
CONSTANTS
  a = a
  b = b
  seed = seed
  MaxTheta = 7
  Sketch = {a, b}
  K <- PairK
  Seed <- OneSeed
  SeedHash <- OneSeedHash
  SampledTheta <- PairSampled
  Chunks <- Batches
  Surplus = 1
INVARIANT Ordered
PROPERTY Implements
VIEW Values
