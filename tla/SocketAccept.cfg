CONSTANTS
  Opens = {"listener"}
  NSlots = 2
  MaxSockets = 3
  MaxSends = 1
  MaxEnables = 0
  MaxData = 0
  MaxDirty = 2
SPECIFICATION Spec
INVARIANTS ConnectionsExact
PROPERTIES ReportsInOrder
