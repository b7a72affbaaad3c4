SPECIFICATION Spec
CONSTANTS
  b1 = b1
  b2 = b2
  b3 = b3
  b4 = b4
  Block <- MCBlock
  NumBuf = 4
  None = None
  RequestFirst = FALSE
  MaxStops = 3
  MaxDown = 0
SYMMETRY MCSymmetry
INVARIANTS
  AllocSucceeds
CHECK_DEADLOCK FALSE
