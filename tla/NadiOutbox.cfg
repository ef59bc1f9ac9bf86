SPECIFICATION Spec
CONSTANTS
  Procs = {p1, p2, p3}
  Envelopes = {e1, e2, e3}
  Null = null
SYMMETRY Interchangeable
INVARIANTS
  TypeOK
  Kept
  InOrder
