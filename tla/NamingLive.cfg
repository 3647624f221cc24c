SPECIFICATION FairSpec
CONSTANTS
  w1 = w1
  w2 = w2
  b = b
  c = c
  none = none
  Services <- MCServices3
  NoService = none
  NameOf <- MCName
  NetsOf <- MCBridge
  MachineOf <- MCMachine
  ReqSId <- MCDynamic
  BaseSId = 2
  MaxSId = 4
  ShardUnique = {}
  MachineUnique = {}
  MaxKills = 1
  MaxCrashes = 1
  MaxFaults = 1
  MaxNSCrashes = 0
  Timeouts = TRUE
CHECK_DEADLOCK FALSE
INVARIANTS
  BroadcastsMatchList
PROPERTIES
  RemovalsEnd
  DeadAreForgotten
