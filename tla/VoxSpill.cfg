SPECIFICATION Spec
CONSTANTS
  ReleaseSilence = 2
  MaxSegment = 3
  MinSegment = 1
  FrameCapacity = 2
  MaxSpool = 4
  SizeMax = 7
  ULongModulus = 3
  FramesPerTick = 2
  IoFaults = {"spill"}
  MaxInput = 7
  MaxBatch = 2
  PrebufferCapacity = 2
INVARIANTS FrameCountIsReadable
