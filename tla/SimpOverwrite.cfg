SPECIFICATION Spec
CONSTANTS
  bchip = bchip
  ichip = ichip
  main = main
  work = work
  Chip <- MCChip
  Peer <- MCPeer
  Host = {bchip, ichip}
  Thread = {main}
  Op = {op1}
  NoOp = noOp
  PktLen = 2
  MaxLen = 2
  MaxReq = 2
  MaxFaults = 0
  Fault = {}
  Late = FALSE
  Yields = FALSE
INVARIANTS
  CallbackGetsResponse
CHECK_DEADLOCK FALSE
