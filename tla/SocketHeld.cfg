CONSTANTS
  Opens = {"listener"}
  NSlots = 2
  MaxSockets = 2
  MaxSends = 1
  MaxEnables = 0
  MaxData = 0
  MaxDirty = 2
SPECIFICATION Spec
INVARIANT ReportsHeld
