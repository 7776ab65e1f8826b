SPECIFICATION FairSpec
CONSTANTS
  ann = ann
  ann2 = ann2
  bob = bob
  None = None
  Desktops = {ann, ann2, bob}
  Hyps = {"h1"}
  Cards = {"c1"}
  HypOf <- CardOfOne
  PerCard = 2
  Gpu = {ann, ann2, bob}
  NamedModel = {}
  Personal = {ann, ann2, bob}
  User <- UserOf
  Vlans = {1, 2}
  Forced <- Unforced
  OnlyForced = {}
  Inside = {}
  Hurried = FALSE
  Ops = {"start", "stop", "guest_ends"}
  Faults = {}
  MaxOps = 8
  MaxFaults = 0
INVARIANTS
  UidsAreHeld
  VlansGoByUser
PROPERTIES
  NoTakeover
  ResourcesAreTold
  RequestsResolve
\* The model stops when the bound on operations is used up.
CHECK_DEADLOCK FALSE
