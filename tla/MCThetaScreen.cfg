SPECIFICATION Spec
CONSTANTS
  MaxTheta = 5
  Theta = 4
  Blocks = 2
  Warps = 2
  WarpWidth = 2
  Items = 2
  Slots = 2
  Launches <- MCLaunches
INVARIANTS
  ScreenResult
PROPERTIES
  WrittenOnce
  Terminates
