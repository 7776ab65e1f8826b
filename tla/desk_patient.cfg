SPECIFICATION OneSpec
CONSTANTS
  h1 = h1
  h2 = h2
  u1 = u1
  u2 = u2
  d1 = d1
  d2 = d2
  Chosen = {"patient"}
  Hyps = {h1, h2}
  NoHyp = "none"
  Users = {u1}
  Desktops = {d1, d2}
  Servers = {}
  Ops = {"start", "stop", "shutdown", "stopping", "delete"}
  Faults = {"power_off", "bad_xml", "start", "net", "host"}
  Patient = TRUE
  MaxOps = 3
  MaxFaults = 2
INVARIANTS
  TypeOK
  TruthAtRest
PROPERTIES
  KeepsPlaces
\* The users do a bounded number of operations, and then all is at rest.
CHECK_DEADLOCK FALSE
