SPECIFICATION Spec
CONSTANTS
  a = a
  b = b
  c = c
  seed1 = seed1
  seed2 = seed2
  MaxTheta = 5
  Sketch = {a, b, c}
  K <- TrioK
  Seed <- TwoSeeds
  SeedHash <- EqualSeedHash
  SampledTheta <- TrioSampled
  Chunks <- OneKeyAtATime
INVARIANT SeedsDoNotMix
VIEW Values
