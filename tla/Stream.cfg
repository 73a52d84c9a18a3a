SPECIFICATION FairSpec
CONSTANTS
  SequenceSpace = 5
  CompareLimit = 2
  MaxPackets = 6
  MaxFragments = 2
  ResendLimit = 1
INVARIANTS
  TypeOK
  InOrder
  NoLoss
  NothingStaleQueued
PROPERTIES
  FifoSafety
  FifoDelivery
  EventuallyAcknowledged
CHECK_DEADLOCK FALSE
