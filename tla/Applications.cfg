SPECIFICATION ApplicationsSpec
CONSTANTS
  c1 = c1
  c2 = c2
  m1 = m1
  f1 = f1
  f2 = f2
  d1 = d1
  d2 = d2
  h1 = h1
  h2 = h2
  Clients = {c1, c2}
  MaxEvents = 2
  Budgets <- MCBudgets
  Switches = {1, 2}
  Ports = {1, 2}
  PortSets = {{1}, {1, 2}}
  Macs = {m1}
  MaxQueue = 2
  MaxNews = 3
  Conns = {f1, f2}
  Versions = {1, 2, 3}
  Chains = {1, 2}
  MaxLabel = 6
  MaxBytes = 1
  Dpids = {d1, d2}
  Hosts = {h1, h2}
  LinkPorts = {1, 2, 3}
  Worlds <- MCWorlds
  FloodSwitches = {1, 2}
  FloodPorts = {1, 2, 3}
  MaxReports = 2
  Width = 3
  None = None
  ClientPort = 1
  ServerPorts <- MCServerPorts
  SrcPorts = {0, 1, 2, 3}
  Ip = 2
  Arp = 3
  VlanType = 4
  Tcp = 6
  Udp = 7
  Received <- MCReceived
  FieldTests <- MCFieldTests
  AddressTests <- MCAddressTests
  Packets <- MCPackets
  MaxGrowth = 2
INVARIANTS
  OnePoll OneLostPerExit TopoIsCurrent SentMatchesTables AllowedOnce SentIsAllowed
  LabelsAreALink OneAttachment RoutesReach FloodReachesOthers Balanced OneDestination
  MatchesAgrees
PROPERTIES
  ImplementsFeed EventsAreHandled PolicyReturns
CHECK_DEADLOCK FALSE
