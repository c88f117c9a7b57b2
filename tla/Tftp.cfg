SPECIFICATION Spec
CONSTANTS
  FileLen = 4
  BlkDef = 1
  BlkOpt = 2
  SeqSize = 8
  TimeoutMax = 1
  ArpMax = 3
  NetRetry = 2
  MaxTid = 2
  ServerErrors = {"notfound", "other"}
  Dup = TRUE
  MaxLoss = 0
  Patient = FALSE
INVARIANTS TypeOK ImageExact AckMeansStored SameTransfer
CHECK_DEADLOCK FALSE
