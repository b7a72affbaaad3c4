SPECIFICATION FairSpec
CONSTANTS
  b1 = b1
  b2 = b2
  b3 = b3
  b4 = b4
  Block <- MCBlock
  NumBuf = 4
  None = None
  RequestFirst = TRUE
  MaxStops = 2
  MaxDown = 1
INVARIANTS
  TypeOK
  Ownership
  RegistryExact
  RequestMet
  LeakBounded

  
CHECK_DEADLOCK FALSE
