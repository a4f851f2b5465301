CONSTANTS
  Observers = {o1}
  Server = Server
  printer = printer
  Scrapers <- MCScrapers
  NumBuckets = 1
  MaxPeers = 2
  Loads <- MCLoads
  MaxStarts = 1
  Nobody = Nobody
SPECIFICATION FairSpec
INVARIANTS TypeOK HistogramExact PageConsistent PageIsFresh NothingLeftBehind
CHECK_DEADLOCK FALSE
PROPERTIES StopReturns RequestAnswered
