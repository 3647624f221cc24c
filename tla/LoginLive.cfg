SPECIFICATION FairSpec
CONSTANTS
  u1 = u1
  u2 = u2
  c1 = c1
  c2 = c2
  c3 = c3
  a1 = a1
  a2 = a2
  f1 = f1
  f2 = f2
  none = none
  Users <- MCUsers
  Clients <- MCClients2
  Addrs <- MCTwoAddrs
  FESs <- MCOneFES
  None = none
  MaxFaults = 1
  MayCrash = {"FES"}
  OpenFrontEndThreshold = 1
  PlayerLimit = 1
  UsePatchMode = TRUE
  OldCookies = FALSE
CHECK_DEADLOCK FALSE
PROPERTIES
  ChoicesAreAnswered
  KickedPlayersLeave
  ArrivalsAreOnline
  LeaversAreForgotten
