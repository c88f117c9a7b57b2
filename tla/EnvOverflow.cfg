SPECIFICATION Spec
CONSTANTS
  PageSize = 2
  SectorSize = 4
  SmallSector = 2
  SmallEnd = 8
  FlashSize = 20
  AddrSpace = 20
  MaxXfer = 3
  Drivers = {"stmicro"}
  MaxTimeouts = 0
  Erased = Erased
  Garbage = Garbage
  EnvOffset = 4
  EnvSize = 4
  BackupOffset = 8
  BackupSize = 4
  NormalOffset = 12
  NormalSize = 8
  RamSize = 8
  FileSizes = {0, 3, 8}
  Partial = {1}
  UserValues = {2}
  MaxCommands = 2
  MaxResets = 0
PROPERTY SaveMeansSaved
CHECK_DEADLOCK FALSE
