CONSTANTS
  Opens = {"connection"}
  NSlots = 1
  MaxSockets = 2
  MaxSends = 0
  MaxEnables = 0
  MaxData = 0
  MaxDirty = 2
SPECIFICATION Spec
INVARIANT ClosingIsKnown
