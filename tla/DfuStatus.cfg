SPECIFICATION Spec
CONSTANTS
  Sizes = {1, 3, 4}
  ServerSize = 1
  Slot52 = 4
  Slot91 = 2
  Placeholder = 2
  MaxAsks = 1
  MaxFaults = 0
  Overlap = FALSE
PROPERTIES
  WaitsForStatus
CHECK_DEADLOCK FALSE
