SPECIFICATION FairSpec
CONSTANTS
  Block = 2
  Page = 4
  FlashLen = 8
  Word = 16
  Sizes = {0, 3, 4, 7}
  None = None
  Fault = {"refuse", "abort", "lose", "flash"}
  MaxFaults = 2
  MaxStarts = 2
  Overlap = FALSE
INVARIANTS
  TypeOK
  
PROPERTIES
  
  Completes
CHECK_DEADLOCK FALSE
