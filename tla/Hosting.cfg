SPECIFICATION Spec
CONSTANTS
  Servers = {s1, s2}
  Zones = {z1, z2}
  Clients = {c1, c2}
  SeenCharacterSelect = {c1}
  None = None
  Gone = Gone
  KillProcessOnDynamicShutdown = TRUE
  MaxRequests = 2
  MaxIncidents = 1
CHECK_DEADLOCK FALSE
SYMMETRY Symmetry
INVARIANTS
  ViewSettles
  WaitIsFounded
  SentWhereExpected
