SPECIFICATION Spec
CONSTANTS
  r1 = r1
  NumFeeds = 2
  Repos = {r1}
  RepoOf <- MCRepoOf
  Versions = {v1, v2}
  NumPaths = 2
  Null = null
SYMMETRY Interchangeable
INVARIANTS
  TypeOK
  OkIsWhole
PROPERTIES
  FetchWorks
