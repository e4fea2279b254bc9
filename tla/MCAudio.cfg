SPECIFICATION MCSpec
CONSTANTS
  RingCapacity = 2
  Period = 2
  MaxWrite = 3
  MaxFrames = 4
  MaxStops = 2
INVARIANTS PlaybackExact CaptureExact ProcessExact SourceExact
PROPERTIES DrainedIsHeard ReportsTrue CallsReturn
CHECK_DEADLOCK FALSE
