SPECIFICATION Spec
CONSTANTS
  u1 = u1
  u2 = u2
  c1 = c1
  c2 = c2
  c3 = c3
  a1 = a1
  a2 = a2
  f1 = f1
  f2 = f2
  none = none
  Users <- MCUsers
  Clients <- MCClients3
  Addrs <- MCTwoAddrs
  FESs <- MCTwoFES
  None = none
  MaxFaults = 0
  MayCrash = {}
  OpenFrontEndThreshold = 1
  PlayerLimit = 1
  UsePatchMode = TRUE
  OldCookies = TRUE
SYMMETRY MCSymmetry
CHECK_DEADLOCK FALSE
INVARIANTS
  TypeOK
  OneSession
  PlayersAreCounted
  OnlineArePlaying
  CookiesAreAwaited
