CONSTANTS
  Clients = {c1}
  Workers = {w1}
  Tasks = {f1, f2, f3, f4}
  EmptyFn = EmptyFn
  Capacity = 2
  MaxRetries = 2
  Nested = TRUE
SPECIFICATION FairSpec
INVARIANTS RunsOnce DrainedOnExit
PROPERTIES WaitAllUpToGap AcceptedRuns CallsReturn
