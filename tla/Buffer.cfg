SPECIFICATION BufferSpec
CONSTANTS
  MaxPacketSize = 512
  SmallLimit = 255
  CrcBytes = 2
  HoldSize = 512
  Compressing = FALSE
  Rate = 1200
  RatePerTick = 300
  Lengths = {4, 252, 253, 254, 255, 256, 510}
  MaxPackets = 4
INVARIANTS
  OrderKept
  DatagramFits
