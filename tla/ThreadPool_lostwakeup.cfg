CONSTANTS
  Clients = {c1}
  Workers = {w1}
  Tasks = {f1}
  NoTask = NoTask
  Nobody = Nobody
  Nested = FALSE
SPECIFICATION FairSpec
PROPERTIES WaitAllEnds
