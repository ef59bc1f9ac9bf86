SPECIFICATION Spec
CONSTANTS
  r1 = r1
  r2 = r2
  i1 = i1
  i2 = i2
  Null = null
  Runs = {r1}
  Ids = {i1}
  Shapes <- MCShapes
  ClassicShapes <- MCClassic
  PageSize = 1
  MaxRuns = 1
  MaxEdits = 0
CHECK_DEADLOCK FALSE
INVARIANT ExitReflectsGovernance
