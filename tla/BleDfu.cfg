SPECIFICATION FairSpec
CONSTANTS
  Packet = 2
  Sizes = {7, 8}
  Word = 2
  Page = 4
  SlotLen = 8
  Blank = Blank
  Mixed = Mixed
  Block = 4
  UInt32 = 16
  None = None
  Fault = {"drop", "notify", "flash", "refuse", "lose", "abort", "stale"}
  MaxFaults = 1
  MaxStarts = 2
  Untimely = FALSE
INVARIANTS
  TypeOK
  
  StoredInPlace
  
  
PROPERTIES
  BlockUndisturbed
  
  Completes
CHECK_DEADLOCK FALSE
