CONSTANTS
  Word = 2
  Page = 4
  SlotLen = 8
  Blank = Blank
  Mixed = Mixed
  BankAddr = 12
  Step = 2
  HeapSize = 6
  Header = 1
  W16 = 8
  W32 = 64
  Version = {1, 2}
  Offset = {0, 1, 2, 4, 6}
  Length = {0, 1, 3, 5}
  MaxRequests = 3
  None = None
  Unknown = Unknown

SPECIFICATION Spec
CHECK_DEADLOCK FALSE
INVARIANTS TypeOK  LeakBounded
PROPERTY RefusedStaysInside
