SPECIFICATION FairSpec
CONSTANTS
  FileLen = 5
  BlkDef = 1
  BlkOpt = 2
  SeqSize = 3
  TimeoutMax = 3
  ArpMax = 5
  NetRetry = 1
  MaxTid = 4
  ServerErrors = {}
  Dup = FALSE
  MaxLoss = 3
  Patient = TRUE
INVARIANTS ImageExact
PROPERTIES Downloads
CHECK_DEADLOCK FALSE
