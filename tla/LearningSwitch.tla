---- MODULE LearningSwitch ----
(* The learning switch, lang/python/frenetic/examples/learning.py: topo, table and
   all_ethernet as its handlers keep them while events come in the order of the
   client's pipe and the answer to current_switches comes whenever it comes.  A
   table is a function of the addresses learned at a switch; a policy that was sent
   is the topo and table it was computed from. *)
EXTENDS Naturals, SequencesExt

CONSTANTS
  Switches, Ports, Macs,
  PortSets,  \* bound: the sets of ports with which a switch connects
  MaxQueue,  \* bound: events that the application has not handled
  MaxNews    \* bound: events of the network

ASSUME LearningBounds == MaxQueue \in Nat /\ MaxNews \in Nat

VARIABLES
  topo,         \* switch -> sequence of ports
  table,        \* switch -> (address -> port)
  all_ethernet, \* every address ever learned
  policySent,   \* the topo and table of the last self.update
  listening,    \* FALSE once an exception of a handler has ended the event loop
  asked,        \* GET /current_switches is on its way to the controller
  answer,       \* and the answer on its way back; no switches if there is none
  queue,        \* events on their way
  unsure,       \* history: switches that an answer may have left with old ports
  ports,        \* the network: the ports of each connected switch
  portsAtUp,    \* what the controller says of them: the ports at SwitchUp
  news          \* the number of events so far

app == <<topo, table, all_ethernet, policySent, listening>>
network == <<ports, portsAtUp, news>>
learningVars == <<app, asked, answer, queue, unsure, network>>

Nothing == [s \in {} |-> 0]

With(f, s, v) == [t \in DOMAIN f \cup {s} |-> IF t = s THEN v ELSE f[t]]
Without(f, s) == [t \in DOMAIN f \ {s} |-> f[t]]

\* The ports of a set in the order in which the switch lists them.
Listed(ps) ==
  CHOOSE q \in [1..Cardinality(ps) -> ps] : \A i, j \in DOMAIN q : i < j => q[i] < q[j]

LearningInit ==
  /\ topo = Nothing /\ table = Nothing /\ all_ethernet = {}
  /\ policySent = [topo |-> Nothing, table |-> Nothing]
  /\ listening = TRUE /\ asked = TRUE /\ answer = Nothing /\ queue = <<>>
  /\ unsure = {}
  /\ \E up \in SUBSET Switches : ports \in [up -> PortSets]
  /\ portsAtUp = [s \in DOMAIN ports |-> Listed(ports[s])]
  /\ news = 0

---------------------------------------------------------------------------
(* Handlers. *)

\* flood() of a port with no other port beside it is SetPort([]), whose to_json
\* takes the first of no actions: the update raises.
Sendable(t) ==
  \A s \in DOMAIN t : \A i \in DOMAIN t[s] : \E j \in DOMAIN t[s] : t[s][j] # t[s][i]

Update(t, tab) ==
  /\ topo' = t /\ table' = tab
  /\ IF Sendable(t)
       THEN policySent' = [topo |-> t, table |-> tab] /\ UNCHANGED listening
       ELSE listening' = FALSE /\ UNCHANGED policySent

\* Mutant: a handler that does not tell the controller.
Keep(t, tab) == topo' = t /\ table' = tab /\ UNCHANGED <<policySent, listening>>

\* Mutant: only a switch that is not known yet is entered.
SwitchUpOnce(s, ps) ==
  /\ IF s \in DOMAIN topo THEN Update(topo, table)
     ELSE Update(With(topo, s, ps), With(table, s, Nothing))
  /\ UNCHANGED all_ethernet

SwitchUp(s, ps) ==
  Update(With(topo, s, ps), With(table, s, Nothing)) /\ UNCHANGED all_ethernet

\* Mutant: the switch is forgotten when something else makes the policy change.
SwitchDownQuietly(s) ==
  Keep(Without(topo, s), Without(table, s)) /\ UNCHANGED all_ethernet

SwitchDown(s) ==
  Update(Without(topo, s), Without(table, s)) /\ UNCHANGED all_ethernet

PortUp(s, p) ==
  /\ IF s \in DOMAIN topo
       THEN Update(With(topo, s, Append(topo[s], p)), table)
       ELSE Update(With(topo, s, <<p>>), With(table, s, Nothing))
  /\ UNCHANGED all_ethernet

\* list.remove raises ValueError for a port that is not there; only the KeyError of
\* an unknown switch is caught.
PortDown(s, p) ==
  /\ IF s \notin DOMAIN topo THEN Update(topo, table)
     ELSE IF \E i \in DOMAIN topo[s] : topo[s][i] = p
       THEN Update(With(topo, s, RemoveFirst(topo[s], p)), table)
       ELSE listening' = FALSE /\ UNCHANGED <<topo, table, policySent>>
  /\ UNCHANGED all_ethernet

Seen(mac, s) == mac \in all_ethernet

\* learn: a switch nobody announced gets an empty topo even when nothing is learned.
PacketIn(s, p, mac) ==
  LET t == IF s \in DOMAIN topo THEN topo ELSE With(topo, s, <<>>)
      tab == IF s \in DOMAIN topo THEN table ELSE With(table, s, Nothing)
  IN IF Seen(mac, s)
       THEN /\ topo' = t /\ table' = tab
            /\ UNCHANGED <<all_ethernet, policySent, listening>>
       ELSE /\ all_ethernet' = all_ethernet \cup {mac}
            /\ Update(t, With(tab, s, With(tab[s], mac, p)))

Handle(e) ==
  \/ e.type = "switch_up" /\ SwitchUp(e.switch, e.ports)
  \/ e.type = "switch_down" /\ SwitchDown(e.switch)
  \/ e.type = "port_up" /\ PortUp(e.switch, e.port)
  \/ e.type = "port_down" /\ PortDown(e.switch, e.port)
  \/ e.type = "packet_in" /\ PacketIn(e.switch, e.port, e.mac)

\* What an event that is handled tells, an answer still to come may undo; the next
\* switch_up or switch_down after that settles it.
Unsettled(e) ==
  IF asked \/ e.switch \in DOMAIN answer THEN unsure \cup {e.switch}
  ELSE IF e.type \in {"switch_up", "switch_down"} THEN unsure \ {e.switch}
  ELSE unsure

HandleNext ==
  /\ listening /\ queue # <<>>
  /\ Handle(Head(queue))
  /\ queue' = Tail(queue) /\ unsure' = Unsettled(Head(queue))
  /\ UNCHANGED <<asked, answer, network>>

\* connected(): current_switches is asked for; the controller answers from the
\* ports it was told at SwitchUp.
CurrentSwitches ==
  /\ asked /\ asked' = FALSE
  /\ answer' = portsAtUp
  /\ UNCHANGED <<app, queue, unsure, network>>

Announced(ss) == [s \in DOMAIN topo \cup ss |-> IF s \in ss THEN answer[s] ELSE topo[s]]
Cleared(ss) == [s \in DOMAIN table \cup ss |-> IF s \in ss THEN Nothing ELSE table[s]]

\* handle_current_switches calls switch_up for each switch of the answer, in the order
\* of the dictionary, until one raises.  It runs beside the event loop, which goes on.
HandleCurrentSwitches ==
  /\ answer # Nothing
  /\ \E order \in {q \in [1..Cardinality(DOMAIN answer) -> DOMAIN answer] : IsInjective(q)} :
       LET told(n) == {order[i] : i \in 1..n}
           sent(n) == \A k \in 1..n : Sendable(Announced(told(k)))
       IN \E last \in {n \in 0..Len(order) : sent(n) /\ (n # Len(order) => ~sent(n + 1))} :
            LET done == IF last = Len(order) THEN told(last) ELSE told(last + 1)
            IN /\ topo' = Announced(done) /\ table' = Cleared(done)
               /\ policySent' =
                    IF last = 0 THEN policySent
                    ELSE [topo |-> Announced(told(last)), table |-> Cleared(told(last))]
               /\ unsure' = unsure \cup (DOMAIN answer \ done)
  /\ answer' = Nothing
  /\ UNCHANGED <<all_ethernet, listening, asked, queue, network>>

---------------------------------------------------------------------------
(* The network, as the controller reports it. *)

Report(e) ==
  /\ Len(queue) < MaxQueue /\ news < MaxNews
  /\ queue' = Append(queue, e) /\ news' = news + 1
  /\ UNCHANGED <<app, asked, answer, unsure>>

Connect(s, ps) ==
  /\ s \notin DOMAIN ports
  /\ ports' = With(ports, s, ps) /\ portsAtUp' = With(portsAtUp, s, Listed(ps))
  /\ Report([type |-> "switch_up", switch |-> s, ports |-> Listed(ps)])

Disconnect(s) ==
  /\ s \in DOMAIN ports
  /\ ports' = Without(ports, s) /\ portsAtUp' = Without(portsAtUp, s)
  /\ Report([type |-> "switch_down", switch |-> s])

AddPort(s, p) ==
  /\ s \in DOMAIN ports /\ p \notin ports[s]
  /\ ports' = With(ports, s, ports[s] \cup {p}) /\ UNCHANGED portsAtUp
  /\ Report([type |-> "port_up", switch |-> s, port |-> p])

DeletePort(s, p) ==
  /\ s \in DOMAIN ports /\ p \in ports[s]
  /\ ports' = With(ports, s, ports[s] \ {p}) /\ UNCHANGED portsAtUp
  /\ Report([type |-> "port_down", switch |-> s, port |-> p])

\* Flooding brings an address to many ports of many switches.
SendPacket(s, p, mac) ==
  /\ s \in DOMAIN ports /\ p \in ports[s]
  /\ UNCHANGED <<ports, portsAtUp>>
  /\ Report([type |-> "packet_in", switch |-> s, port |-> p, mac |-> mac])

NetworkNext ==
  \E s \in Switches :
    \/ \E ps \in PortSets : Connect(s, ps)
    \/ Disconnect(s)
    \/ \E p \in Ports :
         AddPort(s, p) \/ DeletePort(s, p) \/ \E mac \in Macs : SendPacket(s, p, mac)

LearningNext ==
  HandleNext \/ CurrentSwitches \/ HandleCurrentSwitches \/ NetworkNext

LearningSpec == LearningInit /\ [][LearningNext]_learningVars

---------------------------------------------------------------------------
(* Properties. *)

\* Once everything is handled, topo has the connected switches with exactly their ports,
\* each once, whatever events and the answer to current_switches crossed, except for the
\* switches that the answer overtook or did not reach since they last came or went.
TopoIsCurrent ==
  (listening /\ queue = <<>> /\ ~asked /\ answer = Nothing) =>
    \A s \in Switches \ unsure :
      /\ s \in DOMAIN topo <=> s \in DOMAIN ports
      /\ s \in DOMAIN ports =>
           Len(topo[s]) = Cardinality(ports[s]) /\ Range(topo[s]) = ports[s]

\* The controller runs the policy of the topo and table of this moment, but for
\* switches that learn made up, unless the policy cannot be sent at all: no handler
\* leaves a change behind that waits for the next one.
SentMatchesTables ==
  Sendable(topo) =>
    /\ DOMAIN policySent.topo \subseteq DOMAIN topo
    /\ \A s \in DOMAIN topo :
         \/ /\ s \in DOMAIN policySent.topo
            /\ topo[s] = policySent.topo[s] /\ table[s] = policySent.table[s]
         \/ topo[s] = <<>> /\ table[s] = Nothing

====
