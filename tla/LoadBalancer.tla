---- MODULE LoadBalancer ----
(* The load balancer, lang/python/frenetic/examples/load_balancer.py: it gives each
   new TCP connection of the client, told apart by its source port, to the next
   server in turn, and keeps it there. *)
EXTENDS PythonPackets, FiniteSets

CONSTANTS
  ClientPort,   \* the client's switch port
  ServerPorts,  \* the servers' switch ports, in turn
  SrcPorts      \* TCP source ports; 0 stands for a packet that is not TCP

\* Each server is at a port of its own.
ASSUME ServersAreApart ==
  /\ Len(ServerPorts) \in Nat \ {0} /\ DOMAIN ServerPorts = 1..Len(ServerPorts)
  /\ \A i, j \in DOMAIN ServerPorts : ServerPorts[i] = ServerPorts[j] => i = j
  /\ \A i \in DOMAIN ServerPorts : ServerPorts[i] # ClientPort

VARIABLES
  connections,       \* source port -> server's port
  next_server_index, \* from 0
  balancing,         \* the policy of the last self.update
  released           \* the actions of the last self.pkt_out, and the source port of
                     \* its packet; no actions at first

balancerVars == <<connections, next_server_index, balancing, released>>

Route(conns, src) ==
  LET server == conns[src]
      client_to_server ==
        Seq2(Filter(And(PortEq({ClientPort}), FieldEq("tcpsrcport", {src}))),
             SetPort({server}))
      server_to_client ==
        Seq2(Filter(And(PortEq({server}), FieldEq("tcpdstport", {src}))),
             SetPort({ClientPort}))
  IN Seq2(Filter(FieldEq("ipproto", {Tcp})), Union({client_to_server, server_to_client}))

\* Mutant: the connections that are known are sent there as well.
ToControllerAll(conns) == Seq2(Filter(PortEq({ClientPort})), SendToController)

\* The packets of the client that no connection is known for.
ToController(conns) ==
  Seq2(Filter(And(PortEq({ClientPort}), Not(FieldEq("tcpsrcport", DOMAIN conns)))),
       SendToController)

BalancerPolicy(conns) ==
  Seq2(Filter(FieldEq("ethtype", {Ip})),
       Union({Union({Route(conns, src) : src \in DOMAIN conns}), ToController(conns)}))

\* Mutant: the last server is left out of the round.
TurnWithoutLast(n) == (n + 1) % (Len(ServerPorts) - 1)

\* new_connection with next_server_port.
Turn(n) == (n + 1) % Len(ServerPorts)

NewConnection(src) ==
  IF src \in DOMAIN connections THEN UNCHANGED <<connections, next_server_index>>
  ELSE /\ connections' =
            [s \in DOMAIN connections \cup {src} |->
               IF s = src THEN ServerPorts[next_server_index + 1] ELSE connections[s]]
       /\ next_server_index' = Turn(next_server_index)

BalancerInit ==
  /\ connections = <<>> /\ next_server_index = 0
  /\ balancing = drop /\ released = [src |-> 0, actions |-> {}]

BalancerConnected ==
  /\ balancing' = BalancerPolicy(connections)
  /\ UNCHANGED <<connections, next_server_index, released>>

\* A packet of a connection that is known may still come: the policy was on its way.
\* The packet itself is sent on to the server.
BalancerPacketIn(src) ==
  /\ NewConnection(src)
  /\ balancing' = BalancerPolicy(connections')
  /\ released' = [src |-> src, actions |-> PacketOut({connections'[src]})]

BalancerNext == BalancerConnected \/ \E src \in SrcPorts : BalancerPacketIn(src)

BalancerSpec == BalancerInit /\ [][BalancerNext]_balancerVars

---------------------------------------------------------------------------

\* The connections of two servers differ by one at most.
Balanced ==
  LET load(p) == Cardinality({s \in DOMAIN connections : connections[s] = p})
      servers == {ServerPorts[i] : i \in DOMAIN ServerPorts}
  IN \A p, q \in servers : load(p) <= load(q) + 1

\* The policy sends a TCP packet of the client to its own server and nowhere else, or
\* to the controller and nowhere else, and the server's answers back to the client; and
\* the packet that was sent on by hand went where those after it go.
OneDestination ==
  balancing # drop =>
    \A k \in {x \in Packets : x["ethtype"] = Ip /\ x["ipproto"] = Tcp} :
      /\ k["location"] = ClientPort =>
           LET src == k["tcpsrcport"]
           IN /\ Sent(balancing, k) =
                   {IF src \in DOMAIN connections THEN connections[src] ELSE Controller}
              /\ src = released.src /\ released.actions # {} =>
                   Sent(balancing, k) = SentOut(released.actions)
      /\ \A src \in DOMAIN connections :
           k["location"] = connections[src] /\ k["tcpdstport"] = src =>
             Sent(balancing, k) = {ClientPort}

====
