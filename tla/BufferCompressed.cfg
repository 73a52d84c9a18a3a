SPECIFICATION BufferSpec
CONSTANTS
  MaxPacketSize = 512
  SmallLimit = 255
  CrcBytes = 2
  HoldSize = 512
  Compressing = TRUE
  Rate = 0
  RatePerTick = 0
  Lengths = {4, 252, 253, 254, 255, 256, 509}
  MaxPackets = 3
INVARIANT
  DatagramFits
CHECK_DEADLOCK FALSE
