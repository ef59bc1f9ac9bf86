SPECIFICATION FairSpec
CONSTANTS
  Envelopes = {e1, e2}
  Versions = {v1, v2}
  MaxRetries = 2
  NoClone = none
INVARIANTS
  TypeOK
  RelayedWasCarried
PROPERTIES
  PushLosesNothing
  EveryRunEnds
