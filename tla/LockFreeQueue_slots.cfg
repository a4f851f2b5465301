CONSTANTS
  Producers = {p1, p2}
  Consumers = {c1, c2}
  Monitors = {}
  Items = {i1, i2, i3, i4, i5}
  NoItem = NoItem
  Capacity = 2
  Staleness = 2
  SpuriousCas = TRUE
SPECIFICATION Spec
SYMMETRY Symmetry
INVARIANTS SlotExclusive ItemsInPlace SlotProtocol
CHECK_DEADLOCK FALSE
