CONSTANTS
  Width = 2
  Values <- MCValuesOfRoute
  MaxDepth = 4
  Switches <- MCSwitches
  Ip <- MCIp
  Arp <- MCArp
  Tcp <- MCTcp
  Udp <- MCUdp
  Packets <- MCPackets
  Orders <- MCOrders
  DefaultOrder <- MCDefaultOrder
  Parts <- MCParts
  Policies <- MCDefaultRoute
  MaxOps = 1
SPECIFICATION Spec
INVARIANT
  DiagramMeansPolicy
CHECK_DEADLOCK FALSE
