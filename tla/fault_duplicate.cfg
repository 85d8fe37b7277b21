CONSTANTS
  Callers = {c1, c2}
  Turbines = {t1}
  NoTurbine = NoTurbine
  Codes = {k1}
  DirectTargets = {}
  MaxFaults = 2
SPECIFICATION Spec
INVARIANT NoDuplicateOpen
