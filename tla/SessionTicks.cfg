SPECIFICATION Spec
CONSTANTS
  Levels = {0}
  AckBits = 1
  LongAckBits = 16
  QueueSize = 1
  ProbesNeeded = 1
  BlocksPerMessage = 1
  MayReorder = FALSE
  MayStall = TRUE
  ClientCapacity = 2
  FECapacity = 2
  MaxImpulses = 0
  MaxActions = 0
  MaxPackets = 5
  MaxMessages = 4
  MaxUpsets = 1
CHECK_DEADLOCK FALSE
INVARIANTS
  TicksAgree
