SPECIFICATION FairSpec
CONSTANTS
  ZoneServers = {z1, z2}
  Clients = {c1, c2}
  IPs = {i1}
  None = None
  StaleLimit = 1
  MaxClientsPerIP = 1
  DisconnectAll = TRUE
  MaxEntries = 2
INVARIANTS
  PlayersCounted
  ZonePlayersCounted
  InZoneMeansPlaying
  NothingDangles
PROPERTY
  AgingEnds
