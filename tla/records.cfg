SPECIFICATION RecordsSpec
CONSTANTS
  a = a
  b = b
  Callers = {c1, c2}
  CrewOrder <- TwoCrews
  Strangers = {x}
  NoCrew = NoCrew
  ReleaseIds = {a, x}
  MaxOrders = 2
  MaxReleases = 1
  Users = {u1, u2}
  FleetIds = {"t1", "t2", "t3"}
  Seed <- TwoSeeds
  Sites = {"a", "b"}
  States = {"maintenance", "unheard of"}
  MaxWrites = 2
  RuleIds = {"r1", "r2"}
  CompositeIds = {"c1"}
  RuleTurbines = {"", "t1", "t2"}
  Values <- SmallValues
  RuleChoices <- SomeRules
  MaxValue = 1
  Subjects = {s1, s2}
  On = 1
  Off <- MinusOne
  MaxReadings = 3
  GridSites = {"a", "b"}
  PPAs <- TwoPPAs
  Limits = {1}
  Windows <- TwoHours
  Metered = {1, 3}
  Deltas <- SmallDeltas
  Horizon = 2
  MaxEnergy = 3
  MaxCurtailments = 2
  MaxSettlements = 2
  Turbines <- ThreeTurbines
  Models = {"m1", "m2"}
  Soon = 2
  Interval = 2
  LastDay = 4
  MaxCerts = 2
  MaxServices = 2
  Byte = 4
  ByteXor <- BitwiseXor
  Magic = 2
  LinkWriters = {w1, w2}
  Frames <- ThreeFrames
  MaxFrames = 3
  Connected = {"t1", "t2"}
  MaxSessions = 3
  Timeout = 2
  MaxDelay = 1
  LastInstant = 4
INVARIANTS CrewExclusive EveryWriteAudited EachTurbineReportedOnce OneVerdict
           LatchIsLastCrossing BooksAgree NothingDueUnannounced
           FramesIntact ConnectionsKnown
PROPERTIES ExpiryIsInvisible
\* Every part stops at its bounds.
CHECK_DEADLOCK FALSE
