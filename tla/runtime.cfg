CONSTANTS
  t1 = t1
  none = none
  c1 = c1
  c2 = c2
  Calls = {c1, c2}
  Batch <- TwoCalls
  Workers = 2
  Cancels = {c1}
  Turbines = {t1}
  NoTurbine = none
  Capacity = 2
  Starters = {s1, s2}
  MaxJobs = 3
  Long = {3}
  Users = {w1, w2, w3}
  Limit = 2
  Depth = 2
  BatchLimit = 3
  MaxSamples = 5
  Savers = {a, b}
  MaxLength = 3
SPECIFICATION MCSpec
INVARIANTS AppendedOnce OneRunPerJob SlotsConserved EachSampleOnce
           LastSaveIsThere
PROPERTIES LogSpec PoolReturns CancelEndsStart WaiterServed
\* Calls return, a cancelled scheduler, a drained writer and a deadlocked gate stop.
CHECK_DEADLOCK FALSE
