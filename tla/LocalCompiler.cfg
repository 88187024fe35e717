CONSTANTS
  Width = 2
  Values <- MCValues
  MaxDepth = 4
  Switches <- MCSwitches
  Ip <- MCIp
  Arp <- MCArp
  Tcp <- MCTcp
  Udp <- MCUdp
  Packets <- MCPackets
  Orders <- MCOrders
  DefaultOrder <- MCDefaultOrder
  Parts <- MCParts
  Policies <- MCPolicies
  MaxOps = 3
SPECIFICATION Spec
INVARIANTS
  DiagramMeansPolicy
  DiagramIsOrdered
  NaiveTableImplements
  OptimisedTableImplements
  NoPacketTwice
  UniformRowsRun
CHECK_DEADLOCK FALSE
