SPECIFICATION MCSpec
CONSTANTS
  LastXOffset <- RowLast
  XValues <- RowXValues
  YStride <- RowStride
  Unit <- Hundred
  RawEstimates <- Around
  LgK = 4
  MaxValue = 5
  LowerRelErr = 260
  UpperRelErr = 260
INVARIANTS
  ZeroMeansEmpty BoundsDoNotCross WindowCentred BetweenNodes
PROPERTIES RisesInOrder Returns
CHECK_DEADLOCK FALSE
