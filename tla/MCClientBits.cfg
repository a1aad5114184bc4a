SPECIFICATION MCSpec
CONSTANTS
  MaxTheta = 4
  MaxWord = 5
  CountRange = 4
  K = 2
  SeedHash = 1
  Foreign <- MCForeign
  Wide = 6
  Narrow = {2, 3}
  Float <- MCFloat
  Double <- MCDouble
  MaxKeys = 2
  Width = 7
  Given <- MCGiven
  Exact <- MCExact
INVARIANTS
  ImportsAreLegal RoundTrip
  WordParity CountedOnce
  AcceptsDocumentedRange ReportsProbability
CHECK_DEADLOCK FALSE
