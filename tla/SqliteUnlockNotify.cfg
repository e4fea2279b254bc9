SPECIFICATION Spec
CONSTANTS
  Bindings = {b1, b2, b3, b4}
  Connections = {c1, c2, c3}
  None = None
  Overlapping = TRUE
INVARIANT DeliveryKeepsBindings
CHECK_DEADLOCK FALSE
