SPECIFICATION Spec
CONSTANTS
  Items = {i1, i2, i3}
  None = None
  MaxNest = 4
  EarlyDelete = {"subscription", "monitor", "plain"}
INVARIANT FreedOnce
CHECK_DEADLOCK FALSE
