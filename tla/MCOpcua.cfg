SPECIFICATION MCSpec
CONSTANTS
  Timers = {"t1", "t2", "t3"}
  Requests = {"r1", "r2"}
  External = TRUE
  Xs = {x1, x2}
  Ys = {y1, y2}
  y = y
  None = None
SYMMETRY Interchangeable
INVARIANTS
  LoopsExact ClientRecordsExact SubscriptionsExact SourcesExact
  CallbacksExact ConfigsExact ServicesExact
PROPERTIES NoLateTimer PoliciesFinished
CHECK_DEADLOCK FALSE
