SPECIFICATION FairSpec
CONSTANTS
  N = 3
  MaxFrames = 7
  MaxSends = 1
  Reacts = {}
INVARIANTS TypeOK RingInSync
PROPERTIES ImplementsQueue FrameNotStuck
CHECK_DEADLOCK FALSE
