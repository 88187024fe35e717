---- MODULE Discovery ----
(* Topology discovery and routing, lang/python/frenetic/examples/discovery: the two
   applications Topology and Routing of one process and the graph they share
   (state.py).  Links are found by probes that a switch sends out of each port and
   the switch at the other end hands to the controller; hosts by the ARP packets
   they send, which Topology floods to the edge of the graph it knows.  The cables
   never change; switches come and go, packets come late or, lost, stay on their way
   for ever, and the controller may be restarted.  Port statistics only make the
   routes differ. *)
EXTENDS Naturals, Sequences, FiniteSets

CONSTANTS
  Dpids, Hosts, LinkPorts,  \* switches, hosts, and the ports of every switch
  Worlds      \* what a behaviour may be about, see World

Ends == Dpids \X LinkPorts

\* The cables: <<switch, port>> -> the <<switch, port>> or host at the other end.  The
\* version of the program: 1 counts hops, 2 weighs the links.  Bound: the number of
\* switches going, of reconnects and of rounds of weighing.
Wiring ==
  {c \in UNION {[es -> Ends \cup Hosts] : es \in SUBSET Ends} :
     \A x \in DOMAIN c : c[x] \in Hosts \/ (c[x] \in DOMAIN c /\ c[c[x]] = x)}

World == [cable : Wiring, version : {1, 2}, changes : Nat]

ASSUME DiscoveryBounds ==
  /\ IsFiniteSet(Dpids) /\ Dpids \cap Hosts = {} /\ Ends \cap Hosts = {} /\ 0 \notin LinkPorts
  /\ \A w \in Worlds : w \in World

VARIABLES
  nodes,      \* network.nodes(): switches and hosts
  refs,       \* the switches that have a switch_ref
  edges,      \* <<node, node>> -> label, the port of the first one; 0 for a host
  mode, clean,
  sniffing,   \* the mode of the policy that Topology sent last
  routes,     \* the policy that Routing sent last: <<src, dst>> -> path of switches
              \* with the port each sends to
  forgotten,  \* history: whether Routing has connected again since it sent one
  probeTimer, \* run_probe is scheduled
  hostTimer,  \* host_discovery is scheduled
  switchesAsked, \* current_switches is on its way
  weighing,   \* update_weights: the edges to be asked for, or NotWeighing
  probes,     \* probes on their way, by the end that sent them
  arps,       \* ARP packets on their way: <<host, switch, port>> they will come in
  present,    \* the switches that are connected
  world,      \* what this behaviour is about
  changes     \* the number of changes so far

discovered == <<nodes, refs, edges>>
sentPolicies == <<sniffing, routes, forgotten>>
timers == <<probeTimer, hostTimer, switchesAsked>>
traffic == <<probes, arps>>
fabric == <<present, world, changes>>
discoveryVars == <<discovered, mode, clean, sentPolicies, timers, weighing, traffic, fabric>>

Nodes == Dpids \cup Hosts
Cable == world.cable
NotWeighing == {<<>>}  \* no set of edges

---------------------------------------------------------------------------
(* state.py *)

\* add_edge keeps the label of an edge that is there.
Joined(es, u, v, label) ==
  IF <<u, v>> \in DOMAIN es THEN es
  ELSE [x \in DOMAIN es \cup {<<u, v>>} |-> IF x = <<u, v>> THEN label ELSE es[x]]

Removed(es, n) == [x \in {y \in DOMAIN es : n \notin {y[1], y[2]}} |-> es[x]]

\* network_edge: the ports of known switches that no edge to a known switch uses.
NetworkEdge ==
  {x \in refs \X LinkPorts :
     ~\E v \in refs : <<x[1], v>> \in DOMAIN edges /\ edges[<<x[1], v>>] = x[2]}

---------------------------------------------------------------------------
(* routing.py *)

\* The switches that a path between two hosts goes through.
Paths(es, src, dst) ==
  {q \in UNION {[1..n -> Dpids] : n \in 1..Cardinality(Dpids)} :
     /\ <<src, q[1]>> \in DOMAIN es /\ <<q[Len(q)], dst>> \in DOMAIN es
     /\ \A i \in 1..(Len(q) - 1) : <<q[i], q[i + 1]>> \in DOMAIN es
     /\ \A i, j \in DOMAIN q : i # j => q[i] # q[j]}

\* Version 2 takes any of them, according to the traffic of the moment.
Chosen(es, src, dst) ==
  LET all == Paths(es, src, dst)
  IN IF world.version = 2 THEN all ELSE {q \in all : \A r \in all : Len(q) <= Len(r)}

\* Mutant: the port at the far end of each edge.
BuildPathBackwards(es, q, dst) ==
  [i \in DOMAIN q |->
     <<q[i], IF i = Len(q) THEN es[<<q[i], dst>>] ELSE es[<<q[i + 1], q[i]>>]>>]

\* build_path: each switch sends to the port that leads to the next node.
BuildPath(es, q, dst) ==
  [i \in DOMAIN q |->
     <<q[i], es[<<q[i], IF i = Len(q) THEN dst ELSE q[i + 1]>>]>>]

Pairs(es) == {x \in Hosts \X Hosts : x[1] # x[2] /\ Paths(es, x[1], x[2]) # {}}

RoutingPolicies(es) ==
  {[x \in Pairs(es) |-> BuildPath(es, pick[x], x[2])] :
     pick \in {f \in [Pairs(es) -> UNION {Chosen(es, x[1], x[2]) : x \in Pairs(es)}] :
                 \A x \in Pairs(es) : f[x] \in Chosen(es, x[1], x[2])}}

\* notify, after a change or none: both applications send their policy.
Notify(changed) ==
  IF clean /\ ~changed THEN UNCHANGED <<clean, sentPolicies>>
  ELSE /\ clean' = TRUE
       /\ sniffing' = mode'
       /\ routes' \in RoutingPolicies(edges')
       /\ forgotten' = FALSE

\* A change that waits for the next notify.
Soil(changed) == clean' = (clean /\ ~changed) /\ UNCHANGED sentPolicies

---------------------------------------------------------------------------
(* topology.py *)

DiscoveryInit ==
  /\ nodes = {} /\ refs = {} /\ edges = <<>>
  /\ mode = "internal_discovery" /\ clean = TRUE
  /\ sniffing = "none" /\ routes = <<>> /\ forgotten = FALSE
  /\ probeTimer = FALSE /\ hostTimer = FALSE /\ switchesAsked = FALSE /\ weighing = NotWeighing
  /\ probes = {} /\ arps = {}
  /\ present \in SUBSET Dpids /\ world \in Worlds /\ changes = 0

Change == changes < world.changes /\ changes' = changes + 1

\* connected() of Topology, at the start and after a restart of the controller.
TopologyConnected ==
  /\ IF sniffing = "none" THEN UNCHANGED changes ELSE Change
  /\ sniffing' = mode
  /\ probeTimer' = TRUE /\ hostTimer' = TRUE /\ switchesAsked' = TRUE
  /\ UNCHANGED <<discovered, mode, clean, routes, forgotten, weighing, traffic, present, world>>

\* connected() of Routing drops everything.
RoutingConnected ==
  /\ Change
  /\ routes' = <<>> /\ forgotten' = TRUE
  /\ UNCHANGED <<discovered, mode, clean, sniffing, timers, weighing, traffic, present,
                 world>>

\* switch_up of a set of switches: one that is a node already stays as it is.
AddSwitches(ss) ==
  LET new == ss \ nodes
  IN /\ nodes' = nodes \cup new /\ refs' = refs \cup new
     /\ Soil(new # {})
     /\ UNCHANGED <<edges, mode>>

AddCurrentSwitches ==
  /\ switchesAsked /\ switchesAsked' = FALSE
  /\ AddSwitches(present)
  /\ UNCHANGED <<probeTimer, hostTimer, weighing, traffic, fabric>>

SwitchConnects(s) ==
  /\ s \notin present /\ present' = present \cup {s}
  /\ AddSwitches({s})
  /\ UNCHANGED <<timers, weighing, traffic, world, changes>>

\* switch_down
SwitchLeaves(s) ==
  /\ Change
  /\ s \in present /\ present' = present \ {s}
  /\ nodes' = nodes \ {s} /\ refs' = refs \ {s} /\ edges' = Removed(edges, s)
  /\ UNCHANGED mode
  /\ Notify(s \in nodes)
  /\ UNCHANGED <<timers, weighing, traffic, world>>

\* run_probe, two seconds after connected and never again.  Whether a probe is handed
\* to the controller is up to the policy it finds at the other end.
RunProbe ==
  /\ probeTimer /\ probeTimer' = FALSE
  /\ probes' = probes \cup {x \in DOMAIN Cable : x[1] \in refs}
  /\ UNCHANGED <<discovered, mode, clean, sentPolicies, hostTimer, switchesAsked, weighing,
                 arps, fabric>>

\* Mutant: the labels are those of the other end.
HandleProbeSwapped(dst, dst_port, src, src_port) ==
  LET there == Joined(edges, dst, src, src_port)
  IN /\ edges' = Joined(there, src, dst, dst_port)
     /\ nodes' = nodes \cup {dst, src}
     /\ Soil(edges' # edges)

\* handle_probe: an edge each way, with the labels of the two ends.  A node that
\* networkx makes for it has no switch_ref.
HandleProbe(dst, dst_port, src, src_port) ==
  LET there == Joined(edges, dst, src, dst_port)
  IN /\ edges' = Joined(there, src, dst, src_port)
     /\ nodes' = nodes \cup {dst, src}
     /\ Soil(edges' # edges)

ProbeArrives(x) ==
  /\ x \in probes /\ probes' = probes \ {x}
  /\ LET y == Cable[x]
     IN /\ y \notin Hosts
        /\ y[1] \in present
        /\ HandleProbe(y[1], y[2], x[1], x[2])
  /\ UNCHANGED <<refs, mode, timers, weighing, arps, fabric>>

\* host_discovery, thirty seconds after connected.
HostDiscovery ==
  /\ hostTimer /\ hostTimer' = FALSE
  /\ mode' = "host_discovery"
  /\ UNCHANGED discovered
  /\ Notify(FALSE)
  /\ UNCHANGED <<probeTimer, switchesAsked, weighing, traffic, fabric>>

\* Mutant: mobility, without taking the edge of before away.
HostKnownThere(h, s) == <<s, h>> \in DOMAIN edges

\* has_node: a host is a node from its first ARP packet on, edge or no edge.
HostKnown(h, s) == h \in nodes

HandleSniff(h, s, p) ==
  IF HostKnown(h, s) \/ s \notin refs THEN UNCHANGED <<nodes, edges, clean, sentPolicies>>
  ELSE IF \E v \in Nodes : <<s, v>> \in DOMAIN edges /\ edges[<<s, v>>] = p
    THEN /\ nodes' = nodes \cup {h} /\ UNCHANGED edges
         /\ Soil(TRUE)
    ELSE /\ nodes' = nodes \cup {h}
         /\ edges' = Joined(Joined(edges, s, h, p), h, s, 0)
         /\ Notify(TRUE)

\* send_arp: what comes out of a port of the edge that is a cable to a switch comes
\* in there.
Flooded(h, s, p) ==
  {<<h, Cable[x][1], Cable[x][2]>> :
     x \in {y \in (NetworkEdge \ {<<s, p>>}) \cap DOMAIN Cable : Cable[y] \notin Hosts}}

ArpArrives(a) ==
  /\ a \in arps /\ a[2] \in present
  /\ UNCHANGED <<refs, mode, timers, weighing, probes, fabric>>
  /\ HandleSniff(a[1], a[2], a[3])
  /\ arps' = (arps \ {a}) \cup
               (IF mode = "host_discovery" THEN Flooded(a[1], a[2], a[3]) ELSE {})

\* Bound: a host has one request on its way.
HostSends(h) ==
  /\ ~\E a \in arps : a[1] = h
  /\ arps' = arps \cup {<<h, x[1], x[2]>> : x \in {y \in DOMAIN Cable : Cable[y] = h}}
  /\ UNCHANGED <<discovered, mode, clean, sentPolicies, timers, weighing, probes, fabric>>

\* update_weights of version 2: one edge after the other is asked for; the run ends
\* with an exception at an edge that has gone, and notifies at the end otherwise.
UpdateWeights ==
  /\ world.version = 2 /\ mode = "host_discovery" /\ weighing = NotWeighing
  /\ Change
  /\ weighing' = {x \in DOMAIN edges : edges[x] # 0}
  /\ UNCHANGED <<discovered, mode, clean, sentPolicies, timers, traffic, present, world>>

UpdateCallback(x) ==
  /\ weighing # NotWeighing /\ x \in weighing
  /\ IF x \in DOMAIN edges THEN weighing' = weighing \ {x} /\ Soil(TRUE)
     ELSE weighing' = NotWeighing /\ UNCHANGED <<clean, sentPolicies>>
  /\ UNCHANGED <<discovered, mode, timers, traffic, fabric>>

WeightsDone ==
  /\ weighing = {}
  /\ weighing' = NotWeighing
  /\ UNCHANGED <<discovered, mode>>
  /\ Notify(FALSE)
  /\ UNCHANGED <<timers, traffic, fabric>>

DiscoveryNext ==
  \/ TopologyConnected \/ RoutingConnected \/ AddCurrentSwitches \/ RunProbe
  \/ HostDiscovery \/ UpdateWeights \/ WeightsDone
  \/ \E s \in Dpids : SwitchConnects(s) \/ SwitchLeaves(s)
  \/ \E x \in DOMAIN Cable : ProbeArrives(x)
  \/ \E a \in arps : ArpArrives(a)
  \/ \E h \in Hosts : HostSends(h)
  \/ \E x \in weighing : UpdateCallback(x)

DiscoverySpec == DiscoveryInit /\ [][DiscoveryNext]_discoveryVars

---------------------------------------------------------------------------
(* Properties. *)

\* The edges between two switches come in pairs, labelled with the two ends of one
\* cable, however probes of parallel cables, of two rounds and of switches that have
\* left in between mix.
LabelsAreALink ==
  \A u, v \in Dpids : u # v /\ <<u, v>> \in DOMAIN edges =>
    /\ <<v, u>> \in DOMAIN edges
    /\ <<u, edges[<<u, v>>]>> \in DOMAIN Cable
    /\ Cable[<<u, edges[<<u, v>>]>>] = <<v, edges[<<v, u>>]>>

\* A host is attached to one switch at most, both ways, whichever of the ports its
\* flooded packets come in at.
OneAttachment ==
  \A h \in Hosts : \A s, t \in Dpids :
    /\ (<<s, h>> \in DOMAIN edges) <=> (<<h, s>> \in DOMAIN edges)
    /\ {<<s, h>>, <<t, h>>} \subseteq DOMAIN edges => s = t

\* When nothing waits for a notify, the routes sent lead over the cables from the
\* switch of each host to the port of each other host that the graph connects it with.
RoutesReach ==
  clean /\ ~forgotten =>
    \A x \in Pairs(edges) :
      /\ x \in DOMAIN routes
      /\ LET path == routes[x]
             last == path[Len(path)]
         IN /\ <<x[1], path[1][1]>> \in DOMAIN edges
            /\ \A i \in 1..(Len(path) - 1) :
                 /\ path[i] \in DOMAIN Cable
                 /\ \E p \in LinkPorts : Cable[path[i]] = <<path[i + 1][1], p>>
            /\ <<last[1], x[2]>> \in DOMAIN edges /\ edges[<<last[1], x[2]>>] = last[2]

====
