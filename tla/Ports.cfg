SPECIFICATION FairSpec
CONSTANTS
  p1 = p1
  p2 = p2
  p3 = p3
  f = f
  Services <- MCThreeAndFixed
  FixedPort <- MCOutOfRange
  MinBasePort = 2
  MaxBasePort = 4
  MaxPort = 4
  MaxNSCrashes = 1
CHECK_DEADLOCK FALSE
INVARIANTS
  TypeOK
PROPERTIES
  EveryServiceListens
