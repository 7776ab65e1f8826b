SPECIFICATION FairSpec
CONSTANTS
  d1 = d1
  d2 = d2
  t1 = t1
  h1 = h1
  h2 = h2
  u1 = u1
  u2 = u2
  empty = empty
  shared = shared
  None = None
INVARIANTS
  DisksAreTold
  DisksAreKept
PROPERTIES
  CreationResolves
\* The model stops when the bound on operations is used up.
CHECK_DEADLOCK FALSE
