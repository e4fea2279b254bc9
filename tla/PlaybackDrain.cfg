SPECIFICATION FairSpec
CONSTANTS
  RingCapacity = 2
  Period = 2
  MaxWrite = 3
  MaxFrames = 4
  MaxStops = 0
PROPERTIES DrainPendingEnds
CHECK_DEADLOCK FALSE
