CONSTANTS
  a = a
  b = b
  Callers = {c1, c2}
  CrewOrder <- TwoCrews
  Strangers = {x}
  NoCrew = NoCrew
  ReleaseIds = {}
  MaxOrders = 2
  MaxReleases = 1
SPECIFICATION Spec
INVARIANT NoCrewLost
CHECK_DEADLOCK FALSE
