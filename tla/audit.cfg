CONSTANTS
  Callers = {c1, c2}
  Subs = {s1, s2}
  Served = {s1}
  Adjusted = {s2}
  Cap = 1
  MaxEvents = 3
  SetTo = {3}
  Publishers = {p1, p2}
  SubIds = {s1, s2}
  ChanCap = 2
  MaxHistory = 3
  MaxChannels = 2
SPECIFICATION MCSpec
INVARIANTS WholeSubscription CheckpointIsSent
PROPERTIES PublishReturns NeverRegresses EverythingDelivered
\* A stream whose bounds are used up stops.
CHECK_DEADLOCK FALSE
