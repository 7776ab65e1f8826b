SPECIFICATION FairSpec
CONSTANTS
  h1 = h1
  h2 = h2
  u1 = u1
  u2 = u2
  d1 = d1
  d2 = d2
  Chosen = {"types", "faulty", "lost", "resolves", "stopping", "servers"}
  Hyps = {h1, h2}
  NoHyp = "none"
  Users = {u1}
  Desktops = {d1}
  Servers = {}
  Ops = {"start", "stop", "stopping", "delete"}
  Faults = {"power_off", "net", "host", "bad_xml", "start"}
  Patient = TRUE
  MaxOps = 4
  MaxFaults = 2
PROPERTIES
  RowsDoNotReturn
  ComesToRest
  RequestsResolve
  ServersRun
\* The users do a bounded number of operations, and then all is at rest.
CHECK_DEADLOCK FALSE
