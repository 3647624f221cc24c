SPECIFICATION Spec
CONSTANTS
  bs1 = bs1
  bs2 = bs2
  file1 = file1
  BSs <- MCMaster
  Slaves = {}
  Files <- MCFile
  MaxRequests = 2
  MaxUpsets = 1
  Kinds = {"save", "append", "delete", "load"}
  MayHappen = {"disk", "operator", "crash", "break"}
  MayTear = TRUE
CHECK_DEADLOCK FALSE
INVARIANTS
  FilesAreWhole
