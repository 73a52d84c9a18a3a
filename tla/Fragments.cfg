SPECIFICATION Spec
CONSTANTS
  MaxPacketSize = 16
  CrcBytes = 2
  MaxLength = 33
  MaxMessages = 3
INVARIANTS
  Reassembled
  PacketFits
CHECK_DEADLOCK FALSE
