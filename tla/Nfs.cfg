SPECIFICATION FairSpec
CONSTANTS
  Dir <- MCDir
  kind <- MCKind
  linkTo <- MCLinkTo
  target <- MCTarget
  FileLen <- MCFileLen
  NfsReadSize = 2
  NfsRetryCount = 1
  NetRetry = 2
  MaxLoads = 2
  MaxAge = 5
  MaxFaults = 2
INVARIANTS TypeOK PrefixExact ImageExact
PROPERTIES Outcome
CHECK_DEADLOCK FALSE
