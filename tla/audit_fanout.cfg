CONSTANTS
  Publishers = {p1, p2}
  SubIds = {s1, s2}
  ChanCap = 1
  MaxHistory = 3
  MaxChannels = 2
SPECIFICATION StreamSpec
INVARIANT FanOutComplete
CHECK_DEADLOCK FALSE
