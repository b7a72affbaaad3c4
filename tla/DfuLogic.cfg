SPECIFICATION FairSpec
CONSTANTS
  Sizes = {1, 3, 4}
  ServerSize = 1
  Slot52 = 4
  Slot91 = 2
  Placeholder = 2
  MaxAsks = 3
  MaxFaults = 2
  Overlap = FALSE
INVARIANTS
  TypeOK
  SendsImage52
  
  FitsTold
PROPERTIES
  EveryImageArrives
  PlaceholderReplaced
CHECK_DEADLOCK FALSE
