---- MODULE SwitchInventory ----
(* The applications that keep a list of the switches and flood: the repeater
   (lang/python/frenetic/examples/repeater.py) and the port counter
   (port_count.py, with examples/flood_switch.py).  Both hear the same events; the
   port counter ignores those of ports, does not survive a SwitchDown, and tells two
   SwitchRefs of one switch apart. *)
EXTENDS PythonSyntax, FiniteSets, SequencesExt

CONSTANTS
  FloodSwitches, FloodPorts,
  MaxReports  \* bound: events

VARIABLES
  program,   \* "repeater" or "port_count"
  inventory, \* the SwitchRefs: the topo of one, the set of the other
  flooding,  \* the policy of the last self.update
  alive,     \* FALSE once an exception of a handler has ended the event loop
  portsNow,   \* the network: the ports of each connected switch
  portsTold,      \* what the controller says of them: the ports at SwitchUp
  listAsked,   \* whether current_switches is yet to be answered
  reports    \* the number of events

inventoryVars == <<program, inventory, flooding, alive, portsNow, portsTold, listAsked, reports>>

Ref(s, ps) == [id |-> s, ports |-> ps]
Known(s) == \E ref \in inventory : ref.id = s

\* Mutant: the packet goes back where it came from as well.
AllOfThem(ps, p) == Range(ps)

Others(ps, p) == Range(ps) \ {p}

FloodPort(ps, p) == Seq2(Filter(PortEq({p})), SetPort(Others(ps, p)))

\* sw_policy and flood_switch_policy.
FloodSwitch(ref) ==
  Seq2(Filter(FieldEq("switch", {ref.id})),
       Union({FloodPort(ref.ports, p) : p \in Range(ref.ports)}))

\* SetPort of no port at all raises when it is serialised.
CanFlood(refs) ==
  \A ref \in refs : \A p \in Range(ref.ports) : CanSetPort(Others(ref.ports, p))

Flood(refs) == Union({FloodSwitch(ref) : ref \in refs})

Announce(refs) ==
  /\ inventory' = refs
  /\ IF CanFlood(refs) THEN flooding' = Flood(refs) /\ UNCHANGED alive
     ELSE alive' = FALSE /\ UNCHANGED flooding

\* An exception before anything is changed.
Raise == alive' = FALSE /\ UNCHANGED <<inventory, flooding>>

OtherRefs(s) == {ref \in inventory : ref.id # s}

\* The dictionary of the repeater replaces; the set of the other adds a SwitchRef,
\* which equals no other, having no __eq__ (but nothing takes one away again, so that
\* two with the same ports are as good as one).
InventoryUp(s, ps) ==
  Announce((IF program = "repeater" THEN OtherRefs(s) ELSE inventory) \cup {Ref(s, ps)})

\* The repeater has no handler for the KeyError of an unknown switch; the other
\* refers to a name that does not exist.
InventoryDown(s) ==
  IF program = "repeater" /\ Known(s) THEN Announce(OtherRefs(s)) ELSE Raise

PortsOf(s) == (CHOOSE ref \in inventory : ref.id = s).ports

Replace(s, ps) == OtherRefs(s) \cup {Ref(s, ps)}

InventoryPortUp(s, p) ==
  IF program = "port_count" THEN UNCHANGED <<inventory, flooding, alive>>
  ELSE IF Known(s) THEN Announce(Replace(s, Append(PortsOf(s), p)))
  ELSE Raise

InventoryPortDown(s, p) ==
  IF program = "port_count" THEN UNCHANGED <<inventory, flooding, alive>>
  ELSE IF Known(s) /\ p \in Range(PortsOf(s))
    THEN Announce(Replace(s, RemoveFirst(PortsOf(s), p)))
  ELSE Raise

---------------------------------------------------------------------------
(* Events, handled as they come. *)

Told ==
  /\ alive /\ reports < MaxReports /\ reports' = reports + 1
  /\ UNCHANGED <<program, listAsked>>

Lists == {<<>>} \cup {q \in UNION {[1..n -> FloodPorts] : n \in 1..Cardinality(FloodPorts)} :
                        \A i, j \in DOMAIN q : i < j => q[i] < q[j]}

Extend(f, s, v) == [t \in DOMAIN f \cup {s} |-> IF t = s THEN v ELSE f[t]]
Cut(f, s) == [t \in DOMAIN f \ {s} |-> f[t]]

ToldUp(s, ps) ==
  /\ s \notin DOMAIN portsNow
  /\ portsNow' = Extend(portsNow, s, Range(ps)) /\ portsTold' = Extend(portsTold, s, ps)
  /\ InventoryUp(s, ps) /\ Told

ToldDown(s) ==
  /\ s \in DOMAIN portsNow
  /\ portsNow' = Cut(portsNow, s) /\ portsTold' = Cut(portsTold, s)
  /\ InventoryDown(s) /\ Told

ToldPortUp(s, p) ==
  /\ s \in DOMAIN portsNow /\ p \notin portsNow[s]
  /\ portsNow' = Extend(portsNow, s, portsNow[s] \cup {p}) /\ UNCHANGED portsTold
  /\ InventoryPortUp(s, p) /\ Told

ToldPortDown(s, p) ==
  /\ s \in DOMAIN portsNow /\ p \in portsNow[s]
  /\ portsNow' = Extend(portsNow, s, portsNow[s] \ {p}) /\ UNCHANGED portsTold
  /\ InventoryPortDown(s, p) /\ Told

\* connected(): switch_up for each switch that the controller knows, in any order,
\* until one raises; the event loop is not affected.
HandleInventory ==
  /\ listAsked /\ listAsked' = FALSE
  /\ \E order \in {q \in [1..Cardinality(DOMAIN portsTold) -> DOMAIN portsTold] : IsInjective(q)} :
       LET after(n) ==
             LET ss == {order[i] : i \in 1..n}
             IN {ref \in inventory : program = "repeater" => ref.id \notin ss}
                  \cup {Ref(s, portsTold[s]) : s \in ss}
       IN \E last \in 0..Len(order) :
            /\ \A n \in 1..last : CanFlood(after(n))
            /\ flooding' = IF last = 0 THEN flooding ELSE Flood(after(last))
            /\ IF last = Len(order) THEN inventory' = after(last)
               ELSE ~CanFlood(after(last + 1)) /\ inventory' = after(last + 1)
  /\ UNCHANGED <<program, alive, portsNow, portsTold, reports>>

InventoryInit ==
  /\ program \in {"repeater", "port_count"}
  /\ inventory = {} /\ flooding = drop
  /\ alive = TRUE /\ listAsked = TRUE /\ reports = 0
  /\ \E known \in SUBSET FloodSwitches : portsTold \in [known -> Lists]
  /\ portsNow = [s \in DOMAIN portsTold |-> Range(portsTold[s])]

InventoryNext ==
  \/ HandleInventory
  \/ \E s \in FloodSwitches :
       \/ \E ps \in Lists : ToldUp(s, ps)
       \/ ToldDown(s)
       \/ \E p \in FloodPorts : ToldPortUp(s, p) \/ ToldPortDown(s, p)

InventorySpec == InventoryInit /\ [][InventoryNext]_inventoryVars

---------------------------------------------------------------------------

\* The network floods a packet to the other ports the application knows of its switch
\* and nowhere else, and drops one from a port or a switch that it does not know;
\* whatever else happened, as long as the policy can be sent at all.
FloodReachesOthers ==
  CanFlood(inventory) =>
    \A k \in Packets :
      LET p == k["location"]
          known == {ref \in inventory : ref.id = k["switch"] /\ p \in Range(ref.ports)}
      IN Sent(flooding, k) = (UNION {Range(ref.ports) : ref \in known}) \ {p}

====
