SPECIFICATION RunSpec
CONSTANTS
  d1 = d1
  d2 = d2
  m1 = m1
  m2 = m2
  n1 = n1
  n2 = n2
  c1 = c1
  c2 = c2
  u1 = u1
  u2 = u2
  u3 = u3
  i1 = i1
  i2 = i2
  p1 = p1
  s1 = s1
  s2 = s2
  Default = Default
  None = None
  Users = {u1, u2}
  Names = {n1, n2}
  Ids = {i1, i2}
  Deployments = {p1}
  IdOf <- OwnIds
  Owner <- OwnedByFirst
  Quota <- OneAndTwo
  Clients = {c1, c2}
  Apart = TRUE
  Slow = TRUE
  Ops = {}
  MaxOps = 0
INVARIANTS
  HardwareIsThere
  TaggedHasDeployment
  DeployedWithinQuota
  PagesAreRight
PROPERTIES
  OffersKeep
\* The model stops when the bounds on requests and writes are used up.
CHECK_DEADLOCK FALSE
