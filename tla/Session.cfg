SPECIFICATION SessionFairSpec
CONSTANTS
  Endpoints = {e1, e2}
  Codes = {c1, c2}
  MaxSessions = 2
  StaleTicks = 3
  ResendTicks = 2
  CloseTicks = 1
INVARIANTS
  SessionTypeOK
  ManagedHasStream
PROPERTIES
  ClosingIsFinal
  SilentPeerLeaves
  CloseCompletes
  UnackedCloses
