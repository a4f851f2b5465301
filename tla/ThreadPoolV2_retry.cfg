CONSTANTS
  Clients = {c1}
  Workers = {w1}
  Tasks = {f1, f2, f3}
  EmptyFn = EmptyFn
  Capacity = 2
  MaxRetries = 1
  Nested = FALSE
SPECIFICATION Spec
SYMMETRY Symmetry
INVARIANTS RetryKeepsTask
