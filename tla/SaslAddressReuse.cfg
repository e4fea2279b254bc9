SPECIFICATION ConnectionSpec
CONSTANTS
  Registrations = {}
  Mechanisms = {}
  MaxPlugins = 0
  MaxReferences = 0
  Connections = {c1, c2}
  Natives = {n1, n2}
  Lists = {l1, l2}
  None = None
  AddressReuse = TRUE
INVARIANT UtilsLive
CHECK_DEADLOCK FALSE
