CONSTANTS
  Clients = {c1}
  Workers = {w1, w2}
  Tasks = {f1, f2, f3}
  EmptyFn = EmptyFn
  Capacity = 2
  MaxRetries = 1
  Nested = TRUE
  PrivateRegistry = FALSE
SPECIFICATION Spec
SYMMETRY Symmetry
INVARIANTS TypeOK BooksBalance GaugeDriftBounded PoolKeepsPromise
PROPERTIES WaitAllWaitsIfAlone
