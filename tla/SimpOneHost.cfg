SPECIFICATION FairSpec
CONSTANTS
  bchip = bchip
  ichip = ichip
  main = main
  work = work
  Chip <- MCChip
  Peer <- MCPeer
  Host = {ichip}
  Thread = {main}
  Op = {op1, op2}
  NoOp = noOp
  PktLen = 3
  MaxLen = 3
  MaxReq = 3
  MaxFaults = 2
  Fault = {"abort", "lose", "corrupt"}
  Late = FALSE
  Yields = FALSE
PROPERTIES
  ImplementsRpc
  RequestAnswered
  RequestConcluded
  SlaveReturns
CHECK_DEADLOCK FALSE
