SPECIFICATION Spec
CONSTANTS
  h1 = h1
  h2 = h2
  u1 = u1
  u2 = u2
  d1 = d1
  d2 = d2
  Hyps = {h1, h2}
  NoHyp = "none"
  Users = {u1}
  Desktops = {d1}
  Servers = {}
  Ops = {"delete"}
  Faults = {}
  Patient = FALSE
  MaxOps = 2
  MaxFaults = 0
INVARIANTS ChangesThreadRuns
\* The users do a bounded number of operations, and then all is at rest.
CHECK_DEADLOCK FALSE
