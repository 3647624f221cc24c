SPECIFICATION FairSpec
CONSTANTS
  bs1 = bs1
  bs2 = bs2
  file1 = file1
  BSs <- MCMaster
  Slaves = {}
  Files <- MCFile
  MaxRequests = 3
  MaxUpsets = 1
  Kinds = {"save", "append", "delete", "load"}
  MayHappen = {"disk", "operator", "crash", "break"}
  MayTear = FALSE
CHECK_DEADLOCK FALSE
INVARIANTS
  TypeOK
  LoadsReadOwnWrites
  ReplicasAgree
PROPERTIES
  ImplementsFileStore
  StallsHaltTicks
