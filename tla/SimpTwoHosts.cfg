SPECIFICATION FairSpec
CONSTANTS
  bchip = bchip
  ichip = ichip
  main = main
  work = work
  Chip <- MCChip
  Peer <- MCPeer
  Host = {bchip, ichip}
  Thread = {main, work}
  Op = {op1}
  NoOp = noOp
  PktLen = 3
  MaxLen = 3
  MaxReq = 2
  MaxFaults = 1
  Fault = {"abort", "lose", "corrupt"}
  Late = TRUE
  Yields = TRUE
INVARIANTS
  TypeOK
  
  NeverStranded
  AtMostOnce
PROPERTIES
  HostReturns
  RequestStable
CHECK_DEADLOCK FALSE
