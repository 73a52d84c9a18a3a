SPECIFICATION Spec
CONSTANTS
  Zones = {a, b}
  Characters = {x, y}
  NoDz = NoDz
  MaxChanges = 3
  MaxIncidents = 1
SYMMETRY Symmetry
INVARIANTS
  CopiesAgree
  LeaderAgrees
  LeaderIsMember
CHECK_DEADLOCK FALSE
