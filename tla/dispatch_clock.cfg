CONSTANTS
  Routers = {r1, r2}
  Ingesters = {}
  Candidates <- OneRule
  Channels = {"tier"}
  Listeners <- BothTiers
  Sinks = {}
  Cap = 1
  Turbines = {"n"}
  Rules = {"gen"}
  Sweeps = {e1}
  MaxAlarms = 2
  Window = 3
  Limit = 2
  MaxLag = 1
  MaxTime = 3
SPECIFICATION FairSpec
INVARIANTS OpenKeyUniqueHere PerShorterWindowHere
PROPERTIES PartsSpec EveryAlarmAudited
