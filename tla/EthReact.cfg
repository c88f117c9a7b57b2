SPECIFICATION Spec
CONSTANTS
  N = 3
  MaxFrames = 6
  MaxSends = 3
  Reacts = {"restart", "halt"}
INVARIANTS HandedOnce SendOkMeansSent
CHECK_DEADLOCK FALSE
