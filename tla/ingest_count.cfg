CONSTANTS
  t1 = t1
  none = none
  c1 = c1
  c2 = c2
  Calls = {c1, c2}
  Batch <- TwoCalls
  Workers = 2
  Cancels = {c1}
  Turbines = {t1}
  NoTurbine = none
  Capacity = 2
SPECIFICATION Spec
INVARIANT CountIsAppended
CHECK_DEADLOCK FALSE
