SPECIFICATION Spec
CONSTANTS
  h1 = h1
  h2 = h2
  Hyps = {h1}
  Slots = {1, 2}
  Caps <- CapsBoth
  AdminOps = {"enable", "disable", "remove"}
  Faults = {"ssh", "lost", "crash"}
  MaxAdmin = 2
  MaxFaults = 1
INVARIANTS
  StartedIsAThread
  RegisteredDeathIsReported
\* The model stops when the bounds on administrators and faults are used up.
CHECK_DEADLOCK FALSE
