SPECIFICATION Spec
CONSTANTS
  h1 = h1
  h2 = h2
  Hyps = {h1}
  Slots = {1, 2}
  Caps <- CapsBoth
  AdminOps = {"disable", "remove", "insert", "register", "api_enable", "restart"}
  Faults = {"connect", "ssh", "kvm", "lost", "reconnect", "crash"}
  MaxAdmin = 2
  MaxFaults = 2
INVARIANTS
  TypeOK
  SingleThread
  OnlineHasWorkerQueue
PROPERTIES
  RemovalsAreDue
  Supervises
\* The model stops when the bounds on administrators and faults are used up.
CHECK_DEADLOCK FALSE
