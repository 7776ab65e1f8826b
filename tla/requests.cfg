SPECIFICATION FairSpec
CONSTANTS
  k1 = k1
  g1 = g1
  g2 = g2
  u1 = u1
  u2 = u2
  u3 = u3
  d1 = d1
  d2 = d2
  d3 = d3
  c1 = c1
  c2 = c2
  MaxLimit = 199
  None = None
  Categories <- OneCategory
  Groups <- TwoGroups
  Users <- ThreeUsers
  Domains <- ThreeDomains
  GroupCategory <- CategoryOfGroup
  UserGroup <- Three
  Managers <- MainGroups
  Clients <- OneClientOnly
  Ops <- OpsOfOne
  Waits <- UserOps
  Slow = FALSE
  Settled = TRUE
  Limits <- OneTwo
  MaxOps = 5
INVARIANTS
  WithinQuota
  DesktopsHaveRows
  AccountsAgree
  UsersAgree
PROPERTIES
  UsersWithinLimits
  RepliesCome
\* The model stops when the bounds on requests are used up.
CHECK_DEADLOCK FALSE
