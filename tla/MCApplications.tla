---- MODULE MCApplications ----
(* One of the programs of lang/python/frenetic against its part of the controller.
   The programs do not share state: `application` says which of them a behaviour is
   about, and the others stay in their initial states. *)
EXTENDS FreneticClient, LearningSwitch, Firewall, Discovery, SwitchInventory,
        LoadBalancer, PacketMatches, TLC

CONSTANTS c1, c2, m1, f1, f2, d1, d2, h1, h2

VARIABLE application

Applications ==
  {"client", "learning", "firewall", "discovery", "inventory", "balancer", "matches"}

---------------------------------------------------------------------------
(* Bounds. *)

\* One client with crashes of either process, two clients with crashes of the
\* controller.
MCBudgets ==
  {[apps |-> {c1}, events |-> 2, versions |-> 2, crashes |-> 1, exits |-> 1],
   [apps |-> {c1, c2}, events |-> 1, versions |-> 1, crashes |-> 1, exits |-> 0]}

\* Two switches: parallel cables, a host beside them, a link that is weighed, and a
\* host at each of the switches.
MCLink == <<d1, 1>> :> <<d2, 2>> @@ <<d2, 2>> :> <<d1, 1>>
MCLinks == MCLink @@ <<d1, 2>> :> <<d2, 1>> @@ <<d2, 1>> :> <<d1, 2>>

MCWorlds ==
  {[cable |-> MCLinks, version |-> 1, changes |-> 2],
   [cable |-> MCLinks @@ <<d1, 3>> :> h1, version |-> 1, changes |-> 0],
   [cable |-> MCLink @@ <<d1, 2>> :> h1, version |-> 2, changes |-> 1],
   [cable |-> MCLink @@ <<d1, 2>> :> h1 @@ <<d2, 1>> :> h2, version |-> 1, changes |-> 1]}

MCServerPorts == <<2, 3, 5>>

MCPacket(s, port, headers) ==
  headers @@ NewPacket(s, port)

\* Frames of a TCP and of an ARP packet, of an unknown protocol, and of an ARP and a UDP
\* packet behind a VLAN tag.
MCEthernet(src, type) == [name |-> "ethernet", src |-> src, dst |-> 3, type |-> type]
MCVlan(type) == [name |-> "vlan", vid |-> 1, pcp |-> 0, type |-> type]
MCIp(src, proto) == [name |-> "ipv4", src |-> src, dst |-> 1, proto |-> proto]
MCArp(src) == [name |-> "arp", opcode |-> 1, src |-> src, dst |-> 1]
MCPorts(tp) == [name |-> tp, src |-> 1, dst |-> 2]

MCReceived ==
  {<<1, 1, <<MCEthernet(1, Ip), MCIp(5, Tcp), MCPorts("tcp")>>>>,
   <<2, 1, <<MCEthernet(2, Arp), MCArp(2)>>>>,
   <<1, 2, <<MCEthernet(2, 1), [name |-> "probe"]>>>>,
   <<2, 3, <<MCEthernet(1, VlanType), MCVlan(Arp), MCArp(7)>>>>,
   <<2, 2, <<MCEthernet(2, VlanType), MCVlan(Ip), MCIp(0, Udp), MCPorts("udp")>>>>}

MCRead(x) == FromPayload(x[1], x[2], x[3])
MCInspected == {MCRead(x) : x \in MCReceived}

\* What to_payload makes of a packet that was read without transport ports is read as the
\* same packet elsewhere.
ASSUME PayloadsSurviveHere ==
  \A k \in {j \in MCInspected : CanSerialise(j)} :
    FromPayload(2, 2, ToPayload(k, <<>>)) = [k EXCEPT !["switch"] = 2, !["location"] = 2]
ASSUME SomeCanSerialise == {k["ethtype"] : k \in {j \in MCInspected : CanSerialise(j)}} = {1, Arp}

\* Packets of the client and of every server, of known and unknown connections.
MCTcp(port, src, dst) ==
  MCPacket(1, port, [ethtype |-> Ip, ipproto |-> Tcp, tcpsrcport |-> src, tcpdstport |-> dst])

\* With these there is a packet at each port of the two switches that flood.
MCPackets ==
  MCInspected \cup {MCTcp(1, src, 0) : src \in SrcPorts}
    \cup {MCTcp(MCServerPorts[i], 0, dst) : i \in 1..3, dst \in SrcPorts}

\* No value, one and several; addresses without a mask and with masks up to the
\* whole width.
MCFieldTests ==
  {<<"location", {1, 2}>>, <<"ethsrc", {}>>, <<"ethsrc", {1, 3}>>, <<"ethtype", {2}>>}
MCAddressTests ==
  {<<"ip4src", 5, None>>, <<"ip4src", 6, 2>>, <<"ip4src", 3, 0>>, <<"ip4src", 4, 3>>}

---------------------------------------------------------------------------

ApplicationsInit ==
  /\ application \in Applications
  /\ Init /\ (application = "client" \/ budget = CHOOSE b \in Budgets : TRUE)
  /\ LearningInit /\ (application = "learning" \/ ports = Nothing)
  /\ FirewallInit /\ (application = "firewall" \/ fwVersion = 3)
  /\ DiscoveryInit /\ (application = "discovery" \/
                       (present = {} /\ world = CHOOSE w \in Worlds : TRUE))
  /\ InventoryInit /\ (application = "inventory" \/ (program = "repeater" /\ portsTold = <<>>))
  /\ BalancerInit
  /\ MatchInit /\ (application = "matches" \/
                     (predicate = Drop /\ inspected = CHOOSE k \in MCInspected : TRUE))

ClientStep ==
  /\ application = "client" /\ Next
  /\ UNCHANGED <<learningVars, firewallVars, discoveryVars, inventoryVars, balancerVars,
                 matchVars>>

LearningStep ==
  /\ application = "learning" /\ LearningNext
  /\ UNCHANGED <<vars, firewallVars, discoveryVars, inventoryVars, balancerVars, matchVars>>

FirewallStep ==
  /\ application = "firewall" /\ FirewallNext
  /\ UNCHANGED <<vars, learningVars, discoveryVars, inventoryVars, balancerVars, matchVars>>

DiscoveryStep ==
  /\ application = "discovery" /\ DiscoveryNext
  /\ UNCHANGED <<vars, learningVars, firewallVars, inventoryVars, balancerVars, matchVars>>

InventoryStep ==
  /\ application = "inventory" /\ InventoryNext
  /\ UNCHANGED <<vars, learningVars, firewallVars, discoveryVars, balancerVars, matchVars>>

BalancerStep ==
  /\ application = "balancer" /\ BalancerNext
  /\ UNCHANGED <<vars, learningVars, firewallVars, discoveryVars, inventoryVars, matchVars>>

MatchStep ==
  /\ application = "matches" /\ MatchNext
  /\ UNCHANGED <<vars, learningVars, firewallVars, discoveryVars, inventoryVars, balancerVars>>

ApplicationsNext ==
  /\ UNCHANGED application
  /\ \/ ClientStep \/ LearningStep \/ FirewallStep \/ DiscoveryStep \/ InventoryStep
     \/ BalancerStep \/ MatchStep

ApplicationsVars ==
  <<application, vars, learningVars, firewallVars, discoveryVars, inventoryVars,
    balancerVars, matchVars>>

ApplicationsSpec ==
  ApplicationsInit /\ [][ApplicationsNext]_ApplicationsVars /\ ClientFairness

====
