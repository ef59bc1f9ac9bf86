SPECIFICATION Spec
CONSTANTS
  r1 = r1
  r2 = r2
  i1 = i1
  i2 = i2
  Null = null
  Runs = {r1, r2}
  Ids = {i1, i2}
  Shapes <- MCShapes
  ClassicShapes <- MCClassic
  PageSize = 1
  MaxRuns = 2
  MaxEdits = 1
SYMMETRY Symmetric
CHECK_DEADLOCK FALSE
INVARIANTS
  TypeOK
  ConformantIsWitnessed
  MissingIsWitnessed
  ApplyWorks
PROPERTY WritesAreAllowed
