CONSTANTS
  Clients = {c1}
  Workers = {w1, w2}
  Tasks = {f1}
  EmptyFn = EmptyFn
  Capacity = 2
  MaxRetries = 1
  Nested = FALSE
  PrivateRegistry = TRUE
SPECIFICATION Spec
INVARIANTS RegistryOutlivesTasks
