SPECIFICATION Spec
CONSTANTS
  Levels = {0, 1}
  AckBits = 1
  LongAckBits = 3
  QueueSize = 1
  ProbesNeeded = 1
  BlocksPerMessage = 1
  MayReorder = TRUE
  MayStall = TRUE
  ClientCapacity = 1
  FECapacity = 2
  MaxImpulses = 2
  MaxActions = 2
  MaxPackets = 5
  MaxMessages = 3
  MaxUpsets = 1
CHECK_DEADLOCK FALSE
INVARIANTS
  TypeOK
  ImpulsesArriveOnce
  AckedWereRead
  AckedWereDelivered
  ActionsArriveInOrder
