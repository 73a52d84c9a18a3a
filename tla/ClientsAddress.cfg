SPECIFICATION Spec
CONSTANTS
  ZoneServers = {z1}
  Clients = {c1}
  IPs = {i1}
  None = None
  StaleLimit = 1
  MaxClientsPerIP = 1
  DisconnectAll = TRUE
  MaxEntries = 3
PROPERTY LimitEmptiesAddress
