CONSTANTS
  Routers = {r1, r2}
  Ingesters = {g1}
  Candidates <- TwoRules
  Channels = {"tier"}
  Listeners <- BothTiers
  Sinks = {}
  Cap = 2
  Turbines = {"n"}
  Rules = {"gen", "wind"}
  Sweeps = {}
  MaxAlarms = 3
  Window = 1
  Limit = 3
  MaxLag = 0
  MaxTime = 0
SYMMETRY Symmetry
SPECIFICATION Spec
INVARIANTS AuditedOnce RoutedInOrder
