CONSTANTS
  Clients = {c1, c2}
  Workers = {w1, w2}
  Tasks = {f1, f2}
  EmptyFn = EmptyFn
  Capacity = 2
  MaxRetries = 1
  Nested = FALSE
  PrivateRegistry = FALSE
SPECIFICATION Spec
PROPERTIES WaitAllWaits
