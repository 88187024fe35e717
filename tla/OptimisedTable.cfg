CONSTANTS
  Width = 2
  Values <- MCValues
  MaxDepth = 4
  Switches <- MCSwitches
  Ip <- MCIp
  Arp <- MCArp
  Tcp <- MCTcp
  Udp <- MCUdp
  Packets <- MCPackets
  Orders <- MCOrders
  DefaultOrder <- MCDefaultOrder
  Parts <- MCParts
  Policies <- MCPolicies
  MaxOps = 1
SPECIFICATION Spec
INVARIANT
  TableImplements
CHECK_DEADLOCK FALSE
