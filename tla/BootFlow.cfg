SPECIFICATION FairSpec
CONSTANTS
  BootLimit = 3
  MaxRequests = 2
  MaxResets = 2
  MaxReadFaults = 2
  MaxMssFaults = 1
INVARIANTS TypeOK NormalTriesBounded OneUpdatePerRequest
PROPERTIES ComesUp
CHECK_DEADLOCK FALSE
