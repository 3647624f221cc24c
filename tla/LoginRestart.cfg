SPECIFICATION Spec
CONSTANTS
  u1 = u1
  u2 = u2
  c1 = c1
  c2 = c2
  c3 = c3
  a1 = a1
  a2 = a2
  f1 = f1
  f2 = f2
  none = none
  Users <- MCUsers
  Clients <- MCClients2
  Addrs <- MCOneAddr
  FESs <- MCTwoFES
  None = none
  MaxFaults = 1
  MayCrash = {"LS","WS","FES"}
  OpenFrontEndThreshold = 1
  PlayerLimit <- MCNoLimit
  UsePatchMode = FALSE
  OldCookies = TRUE
SYMMETRY MCSymmetry2
CHECK_DEADLOCK FALSE
INVARIANTS
  PendingAgree
  NobodyIsUncounted
  AssociatedPlay
  OnlineStillPlay
