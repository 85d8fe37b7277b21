CONSTANTS
  Callers = {c1, c2, c3}
  Turbines = {t1}
  NoTurbine = NoTurbine
  Codes = {k1}
  DirectTargets = {"normal"}
  MaxFaults = 4
SPECIFICATION Spec
INVARIANTS DuplicatesBounded
PROPERTIES ClosedStaysClosed
