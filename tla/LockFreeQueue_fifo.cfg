CONSTANTS
  Producers = {p1, p2}
  Consumers = {c1}
  Monitors = {m1}
  Items = {i1, i2, i3}
  NoItem = NoItem
  Capacity = 2
  Staleness = 0
  SpuriousCas = FALSE
SPECIFICATION PollingSpec
PROPERTIES ImplementsFifo SizeNeverUndercounts CallsReturn AcceptedIsTaken
CHECK_DEADLOCK FALSE
