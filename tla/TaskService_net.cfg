CONSTANTS
  MaxConns = 2
  MaxStarts = 1
  Workers = {w1}
  Capacity = 1
  EmptyFn = EmptyFn
  k1 = k1
  k2 = k2
  Clients <- MCClients
  MaxCalls <- MCMaxCalls
SPECIFICATION FairSpec
INVARIANTS TypeOK OneOwner SurvivesWithinCapacity
PROPERTIES AnswersMatch CallReturns ShutdownEnds
CHECK_DEADLOCK FALSE
