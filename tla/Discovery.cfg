SPECIFICATION Spec
CONSTANTS
  self = self
  p1 = p1
  p2 = p2
  Peers = {self, p1, p2}
  Self = self
  Seeds = {self, p1}
  PageSize = 1
  Versions = {v1, v2}
INVARIANTS
  TypeOK
  FindsEachOnce
PROPERTIES
  PushedIsVerified
