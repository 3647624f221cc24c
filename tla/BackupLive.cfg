SPECIFICATION FairSpec
CONSTANTS
  bs1 = bs1
  bs2 = bs2
  file1 = file1
  BSs <- MCBoth
  Slaves <- MCSlave
  Files <- MCFile
  MaxRequests = 2
  MaxUpsets = 1
  Kinds = {"delete"}
  MayHappen = {"crash", "break"}
  MayTear = FALSE
CHECK_DEADLOCK FALSE
INVARIANTS
  AcksInOrder
  
PROPERTIES
  AcksArrive
