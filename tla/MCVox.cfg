SPECIFICATION MCSpec
CONSTANTS
  ReleaseSilence = 2
  MaxSegment = 4
  MinSegment = 1
  FrameCapacity = 2
  MaxSpool = 5
  SizeMax = 8
  ULongModulus = 3
  FramesPerTick = 2
  IoFaults = {"tmpfile", "spill", "write", "seek"}
  MaxInput = 9
  MaxBatch = 2
  PrebufferCapacity = 2
INVARIANTS EventsTrackOpen InputAccounted Budget
PROPERTIES SegmentsExact RefusalIsFinal HeldRuns EveryCallReturns
