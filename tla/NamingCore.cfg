SPECIFICATION Spec
CONSTANTS
  w1 = w1
  w2 = w2
  b = b
  c = c
  none = none
  Services <- MCServices3
  NoService = none
  NameOf <- MCName
  NetsOf <- MCOneNet
  MachineOf <- MCMachine
  ReqSId <- MCDynamic
  BaseSId = 2
  MaxSId = 4
  ShardUnique = {"WS"}
  MachineUnique = {}
  MaxKills = 2
  MaxCrashes = 2
  MaxFaults = 4
  MaxNSCrashes = 0
  Timeouts = FALSE
CHECK_DEADLOCK FALSE
INVARIANTS
  TypeOK
  EntriesHaveDistinctSIds
  RestrictedNamesAreUnique
  OneOfTwoDials
  QuietListsAgree
PROPERTIES
  EverySIdIsLeased
