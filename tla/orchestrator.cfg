SPECIFICATION FairSpec
CONSTANTS
  h1 = h1
  h2 = h2
  Hyps = {h1}
  Slots = {1}
  Caps <- CapsBoth
  AdminOps = {"disable", "remove", "restart"}
  Faults = {"ssh", "lost"}
  MaxAdmin = 1
  MaxFaults = 2
INVARIANTS
  OrchestratorSurvives
PROPERTIES
  EnabledComesOnline
  ActionsLeaveTheQueue
  StopsEnd
\* The model stops when the bounds on administrators and faults are used up.
CHECK_DEADLOCK FALSE
