SPECIFICATION MCSpec
CONSTANTS
  Connections = {"c1", "c2", "c3"}
  Bindings = {"b1", "b2", "b3"}
  None = "none"
  Overlapping = FALSE
INVARIANTS
  ExtensionsExact ConnectionsExact MethodsExact NotifyExact
  OwnershipExact
PROPERTIES NotificationsKept CallsReturn
CHECK_DEADLOCK FALSE
