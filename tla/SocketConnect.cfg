CONSTANTS
  Opens = {"connection"}
  NSlots = 1
  MaxSockets = 2
  MaxSends = 1
  MaxEnables = 1
  MaxData = 1
  MaxDirty = 2
SPECIFICATION FairSpec
INVARIANTS SlotsExact
  
