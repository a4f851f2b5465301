CONSTANTS
  Base = 2
  Messages <- MCMessages
  MAX_PAYLOAD = 2
  MaxSends = 3
SPECIFICATION FairSpec
INVARIANTS TypeOK InStep
PROPERTIES ImplementsChannel EveryMessageArrives
CHECK_DEADLOCK FALSE
