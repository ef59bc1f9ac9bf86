SPECIFICATION Spec
CONSTANTS
  here = here
  there = there
  node = node
  city = city
  Manifests = {m1, m2, broken}
  Broken = broken
  Configs = {c1}
  NodeOf <- MCNodeOf
  LayerOf <- MCLayerOf
  Node = here
  NodeLayer = node
  MaxPushes = 2
  MaxRuns = 2
INVARIANTS
  TypeOK
  SyncedIsCurrent
PROPERTIES
  SyncIsAtomic
CHECK_DEADLOCK FALSE
