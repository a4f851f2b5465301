CONSTANTS
  Clients = {c1, c2}
  Workers = {w1, w2}
  Tasks = {f1, f2, f3}
  NoTask = NoTask
  Nobody = Nobody
  Nested = TRUE
SPECIFICATION FairSpec
INVARIANTS TypeOK NoLostWakeup DrainedOnExit
PROPERTIES WaitAllWaits AcceptedRuns ShutdownEnds
