CONSTANTS
  Callers = {c1}
  Turbines = {t1, t2}
  NoTurbine = NoTurbine
  Codes = {f1}
  DirectTargets = {}
  MaxFaults = 4
  k1 = k1
  k2 = k2
  Clients = {k1, k2}
  Body <- TwoBodies
  Registered <- ThreeRules
  PoolSize = 1
  MaxPosts <- PostsOfTwo
  MaxClosed = 1
  RuleTurbines = {"", "t1", "t2"}
  Values <- SmallValues
  MaxValue = 1
SPECIFICATION MCSpec
INVARIANTS AnsweredMeansRecorded AlarmHasReading
PROPERTIES LedgerSpec EveryPostAnswered
CHECK_DEADLOCK FALSE
