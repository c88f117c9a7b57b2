SPECIFICATION Spec
CONSTANTS
  FileLen = 4
  BlkDef = 1
  BlkOpt = 2
  SeqSize = 3
  TimeoutMax = 2
  ArpMax = 3
  NetRetry = 1
  MaxTid = 1
  ServerErrors = {}
  Dup = FALSE
  MaxLoss = 0
  Patient = FALSE
PROPERTIES SameBlockIgnored
CHECK_DEADLOCK FALSE
