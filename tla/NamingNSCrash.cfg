SPECIFICATION FairSpec
CONSTANTS
  w1 = w1
  w2 = w2
  b = b
  c = c
  none = none
  Services <- MCServices3
  NoService = none
  NameOf <- MCName
  NetsOf <- MCOneNet
  MachineOf <- MCMachine
  ReqSId <- MCDynamic
  BaseSId = 2
  MaxSId = 4
  ShardUnique = {"WS"}
  MachineUnique = {}
  MaxKills = 0
  MaxCrashes = 1
  MaxFaults = 1
  MaxNSCrashes = 1
  Timeouts = FALSE
CHECK_DEADLOCK FALSE
INVARIANTS
  LiveEntriesAreConnected
PROPERTIES
  RunningAreRegistered
  OnlyLostNSBlocksStart
