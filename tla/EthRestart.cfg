SPECIFICATION Spec
CONSTANTS
  N = 2
  MaxFrames = 5
  MaxSends = 0
  Reacts = {"restart"}
INVARIANT RingInSync
CHECK_DEADLOCK FALSE
