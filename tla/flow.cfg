CONSTANTS
  Callers = {p1, p2, d1, d2, o1}
  Pipelines = {p1, p2}
  Dispatchers = {d1, d2}
  Operators = {o1}
  Turbines = {"t1"}
  NoTurbine = ""
  Rules <- MCRules
  CodeOf <- MCCodeOf
  Codes <- MCCodes
  DirectTargets = {}
  MaxFaults = 2
  MaxAlarms = 2
  MaxOrders = 2
SPECIFICATION FlowSpec
INVARIANTS AnnouncedIsAcknowledged FaultsMatchAlarms
PROPERTIES ServiceSpec EveryOrderAnnounced
