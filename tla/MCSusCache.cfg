SPECIFICATION Spec
CONSTANTS
  p1 = p1 p2 = p2 p3 = p3
  good = good other = other partial = partial any = any
  Processes = {p1, p2, p3}
  Contents = {good, other, partial}
  Loadable = {good, other}
  Partial = partial
  Absent = absent
  Any = any
  Wanted <- Agreed
  Offline = {p3}
  Sources = {{good, other, partial}, {good}}
  MaxOpens <- Opens
  MaxCrashes = 1
INVARIANTS OpensSound
PROPERTIES ReplacedBySound OpenReturns
CHECK_DEADLOCK FALSE
