# TLA+ models of the Frenetic controller

Frenetic is an SDN controller.  A policy in the language NetKAT is compiled to a
decision diagram, the diagram to a flow table for each switch, and the tables
are installed over OpenFlow while switches come and go.  Applications in Python
push policies over HTTP and react to the events of the network.  This directory
keeps TLA+ models of that path, the TLC runs that check them, and proofs that
TLAPS checks.  Paths below are relative to the repository (`src/`).

## The system

| Component | Source | State it keeps | Operations |
|---|---|---|---|
| OpenFlow process | `frenetic/openflow.ml` | table of switches, pending transactions and identifier counter per connection, events pipe | one `client_handler` per TCP connection of a switch; `rpc_handler` for each socket of the controller |
| RPC client of the 1.0 plug-in | `async/Frenetic_OpenFlow0x01_Plugin.ml` | the shared socket, `read_outstanding`, `read_finished` | `start`, `send`, `send_batch`, `switch_features`, `get_switches`, `packet_out`, `flow_stats`, `port_stats`, `BestEffortUpdate0x01` |
| NetKAT controller | `async/Frenetic_NetKAT_Controller.ml` | `fdd`, `switch_hash`, compiler options | `handle_event`, `update`, `query`, `packet_out` |
| NetKAT compiler | `lib/Frenetic_NetKAT_Compiler.ml`, `lib/Frenetic_Fdd.ml`, `lib/Frenetic_Vlr.ml`, `lib/Frenetic_Hashcons.ml` | global order of fields, hash-consing tables, caches of results | `compile_local`, `union`, `seq`, `star`, `dedup`, `to_table`; `compile_global` |
| NetKAT | `lib/Frenetic_NetKAT.ml`, `lib/Frenetic_NetKAT_Semantics.ml` | none | the reference semantics `eval` |
| HTTP front end | `async/Frenetic_Http_Controller.ml`, `async/Frenetic_DynGraph.ml` | policy and event pipe of each client | policies pushed, joined and updated in one loop; events fetched |
| Python client library | `lang/python/frenetic/__init__.py` | the outstanding poll, the reconnection timer | connect, poll, handle an event, push a policy, ask for switches and counters |
| Python syntax and packets | `lang/python/frenetic/syntax.py`, `packet.py`, `net_utils.py` | none | predicates and policies to JSON; `Packet.matches`, `from_payload`, `to_payload`; `pkt_out` |
| Learning switch | `examples/learning.py` | `topo`, `table`, `all_ethernet` | an event handler per kind of event, the answer to `current_switches` |
| Stateful firewall | `examples/firewall.py` | `allowed`, `pending`, byte counts | packets from either side, the cleaning run |
| Load balancer | `examples/load_balancer.py` | `connections`, the next server | `connected`, `packet_in` |
| Topology discovery and routing | `examples/discovery/` | the graph, its mode and whether it is clean; each program's policy | probes, host discovery, weighing, routes |
| Repeater, port counter | `examples/repeater.py`, `port_count.py`, `flood_switch.py` | the switches and their ports | the events of switches and ports |
| Shell | `async/Frenetic_Shell.ml` | current policy | updates that do not wait for each other; printing tables |
| Consistent updates, group table, 1.3 plug-in, virtual compiler, topology, parsing, wire formats | see `PROJECT.json` | | |

(`examples/` is `lang/python/frenetic/examples/`.)

How they interact: the controller process launches the OpenFlow process and
talks to it over TCP, in two ways.  Flow-table messages and questions about
switches go over one shared socket, where a request is followed by its reply;
events and each statistics request have a socket of their own.  In the
controller process everything is an Async computation: code between two binds
is atomic, and every bind lets the others run.  Two loops install tables: the
event loop brings up a switch that has connected, the policy loop installs a
new policy everywhere.  Both use the current diagram, and the compiler's global
tables.

An application is a process of its own with one Tornado loop.  It keeps one
`GET /<client>/event` outstanding, which the front end answers from the pipe of
that client; it POSTs its policy to `/<client>/update_json`, where it becomes
the client's node of a dataflow graph whose union goes to the policy loop;
`current_switches`, counters and `pkt_out` are requests of their own, whose
answers come between the events at any time.

The hard behaviours, each with its line under "hazards" in `PROJECT.json`:

* calls of several computations on one socket, with a hand-made lock;
* a table computed before a bind and installed after it;
* a switch that disconnects in the middle of an installation, or reconnects
  before its old connection's end-of-file has been seen;
* events that report a table which has moved on;
* replies of a switch in any order, or that make the handler raise;
* an exception that closes one handler and stops a whole server;
* the OpenFlow process dying in the middle of a call;
* diagrams whose correctness depends on a global order, and tables whose rows
  shadow each other and depend on what a switch can match;
* the controller or an application crashing at any point of the poll, with
  readers of a pipe left behind by a process that is gone;
* an application's state changed by events, by answers that come beside the
  events, and by timers whose runs overlap;
* what an application learns from packets that were flooded, delayed or sent by
  a switch that has left.

What makes each component correct:

* RPC client: one conversation on the socket at a time, each reply read by the
  caller that asked, no wake-up lost, a failed read final.
* OpenFlow process: handlers, table and events agree; a transaction gets its own
  answer, and gets one.
* Controller: when everything has settled each connected switch runs the current
  policy; updates finish; `switch_hash` follows the table of switches.
* Compiler: diagram and table do to packets what the policy says.
* Client library and front end: the application is told of the network's events
  in their order and of none twice; one poll is out while it runs; a crash of it
  costs one event at most; an event it should get arrives; its policy is in the
  network again after a restart of the controller.
* Applications: an inventory of switches and ports is the network's once events and
  answers are in; the policy sent is the one the state calls for; a host is attached once; a connection is allowed once and stays allowed until a cleaning run
  revokes it; an edge of the graph is a cable; routes lead to their destination
  over the graph of the moment; load is balanced; `Packet.matches` says what the
  switches do.

## The modules

### Controller

`RpcProtocol` holds the requests and replies of the shared socket, with what
`rpc_handler` does to each.  `RpcService` is the abstract service: a caller
invokes a request, the request takes effect at one instant, the caller returns
with that instant's answer.

`PluginRpc` is the client as written, with the request loop at the other end.
`readOutstanding` and `waiters` are the flag and the condition, `jobs` is the
queue of the Async scheduler: a caller that arrives between `signal_read` and
the wake-up runs before the callers it wakes, and must not be overtaken by them
into the socket.  A path through more binds before `clear_to_read` costs turns
(`hops`).  `ReadReply` reads, releases and returns in one step, as the code after
the bind does; `ReadEof` raises without releasing.  `ImplementsService` is the
refinement of `RpcService`.

`OpenFlowServer` is the OpenFlow process.  `conn` is each handler's state,
`inbox` what its switch has sent, `switches` the table, `txns` and `xidCell` the
transactions.  A connection is used once; a switch may open the next one at any
time.  An exception in a handler (`add_exn` on a known identifier, `List.hd_exn`
of an empty statistics reply, an unparsable message) sets the connection to
Crashed and stops the server from listening (`on_handler_error:` `` `Raise``),
without touching the table.

`Controller` composes the two loops, `packet_out` and `query` with an instance of
`PluginRpc`.  `loc` says where in `update` or `bring_up_switch` a task is, and
with which policy: the one it read before its first bind.  `Busy` keeps a reply
from being read while a job is runnable, because the scheduler empties its queue
before it polls.  `table` is what the switch has been told, and outlives the
connection, as in a switch.  A policy is the number of its push, and its table
is a set of rows that name the policy.  The history variable `raced` remembers
the switches whose bring-up a policy update has overtaken.

### Compiler

`NetKAT` has predicates, policies and the reference semantics; `Fdd` has actions
and decision diagrams; `LocalCompiler` has the translation and `dedup`.  Its state is
the order of fields and the diagram; its actions are `compile_local` and the
exported operations on diagrams.  `FlowTables` has both ways of making a table of a
diagram (`naive_to_table`, `opt_to_table`), the conversion of actions, and what a
switch does with a table, as the repository's own test interpreter
`lib_test/lib/Flowterp.ml` has it, and as OpenFlow 1.0 has it.  `means`, what the policy does to each packet,
is computed from the reference semantics alone.  The options `dedup_flows`,
`optimize` and `remove_tail_drops` are parameters of `ToTable`; the heuristic that
orders the fields is any choice from a set of orders.

The recursive functions of the source are recursive functions here too (`restrict`,
`apply`, `follow`, `ofPol`, and local ones), over the diagrams, predicates and policies
up to a depth.  `Powers` has the powers of two.

### Front end and applications

`EventFeed` is what an application may rely on: events in their order, none
twice, any of them missing.  `FreneticClient` is the two processes in between.
Of the controller it has the table of clients (`known`), each client's pipe, its
readers and its node of the graph, and the pipe of unions to the policy loop; of
an application the place in `start_event_loop` (`loop`) and where its poll is:
`sent`, `waiting` in `Pipe.read`, `answers` or `failures` on their way back.  A
policy that is POSTed is a message of its own (`updates`), which others may
overtake.  `ControllerCrash` forgets everything, as nothing is stored; `AppCrash`
leaves a reader behind (`stale`), which `Pipe.read` serves first, also of a poll that
was on its way and arrives after the crash.  An exception of
a callback ends the poll loop (`raised`).

`LearningSwitch`, `Firewall`, `Discovery` (with the graph of `state.py` and both of
its programs), `LoadBalancer` and `SwitchInventory` (repeater and port counter)
each model one program, one action per handler, callback or timer, with the part
of the network that produces its events.  The answer of `current_switches` is
taken when the controller handles the request and arrives at any time later.  In
`LearningSwitch` the policy that was sent is the `topo` and `table` it was computed
from, and `unsure` is a history variable: the switches that the answer to
`current_switches` has overtaken or not reached since they last came or went.  In
`Firewall` the policy is the connections and query labels of the list; in
`Discovery` the paths.  In the other two it is the policy that `PythonSyntax`
builds, and the properties say where it sends each packet.

`PythonSyntax` has the constructors of `syntax.py` by their meaning.  A predicate is
three sets of packets: those of which `Packet.matches` says yes, those for which it
raises, and those that pass the test that the controller parses from the JSON; each
constructor makes its three sets from its children's, with `Packet.matches`' order
of evaluation.  A policy is a set of pairs of a packet and a location it is sent to,
which is all that the policies of these programs do.  `Packets`, the packets of the
network, is a constant, and nothing is recursive but powers of two.  `PythonPackets` has
the two conversions of `packet.py`: a payload is the list of protocols that ryu finds in
the frame, `FromPayload` the packet that `from_payload` reads out of it, header by
header, the last protocol that gives a header counting; `CanSerialise` is what
`to_payload` asserts and can build, `ToPayload` what it builds.  `PacketMatches` takes
packets that were read from frames (`Received`), grows predicates with `&`, `|` and `~`
and compares what `matches` says of these packets with what the switches do.

The programs share no state, and their policies meet only in the union, which
`FreneticClient` has.  `MCApplications` therefore puts them side by side: the
variable `application` says which one a behaviour is about, and the others stay
in one initial state.

### Proofs

`PluginRpcProofs`, `OpenFlowServerProofs`, `ControllerProofs` and `FreneticClientProofs`
have the theorems about the modules they are named after, and `ApplicationProofs` those
about the programs of the Python library, each in a part of its own.  `CompilerProofs`
has the theorems about `Fdd`, `NetKAT` and `LocalCompiler`, and `FlowTableProofs`, which
extends it, those about `FlowTables`.  `Recursion` proves that a function defined by recursion on
ranks satisfies its definition, and induction on ranks; the others take an instance of
it for each recursive function of the model: the powers of two, `diagramsUpTo`,
`Ordered`, `restrict`, `map_r`, `apply`, `map`, `follow`, the loop of `star'`, the rounds
of the semantics, predicates and policies and their translations, and `dedup`.

### Abstractions

* OpenFlow messages and features are opaque; a reply says only which switches
  the lookup found.
* One scheduler turn is one step; an Async bind on a determined value is a turn.
  `Monitor.try_with` in `bring_up_switch` costs one turn, and flushing the log
  after an error is a state of its own (`flushing`).
* The bytes of a connection are messages; an unparsable one raises when it is
  read.
* Statistics calls use sockets of their own and never meet the lock, so in
  `Controller` they are a request and its handling; what happens then is in
  `OpenFlowServer`.
* A diagram is the tree itself where the source has the number hash-consing gave
  it; equal trees have equal numbers.  The caches of results are left out: as
  long as no handle outlives a clearing they change nothing.
* Seven of twenty fields, of widths of two bits: the switch, the location, which
  forwards, a plain field, the EthType, an address with prefixes, which only packets of
  two types have, the protocol, which only those of one type have, and a port, which
  only those of two protocols have: all that `fill_in_dependencies` tells apart.  Packets
  without an address, protocol or port carry none, as on the wire; the reference
  semantics of the source gives every packet one of each.
* The order in which the compiler goes through a set of actions or of harmful
  modifications is any one (a CHOOSE), not that of the sets of the source.
* `star` stops when a round changes nothing, as in the source, and after as many rounds
  as there are packets at the latest.  Predicates and policies are nested up to
  `MaxDepth`, diagrams as deep as there are tests.
* A value is a number that an Int32 can hold, signed as that is: `Pattern.of_hv`
  extends the sign to 64 bits, the semantics shifts without it.
* One pipe stands for all.  Query locations, fast-failover ports, `let` and links
  are not modelled.
* An event of the network is a number in `FreneticClient` and a record of what its
  handler uses in the programs.  Policies are numbers in the first.
* A byte counter of the firewall's queries is any number up to `MaxBytes`, also a
  smaller one than before: the controller counts for the policy that is installed.
* Header values of the Python predicates have three bits instead of 16, 32 or 48.  A
  frame is one that ryu parses to the end; base64 and the bytes are left out.
* A route is a path of switches with the port each sends to: any shortest one, and
  in version 2, where weights decide, any at all.

## The runs

| Run | Instance | Shows |
|---|---|---|
| `PluginRpc` | 3 callers, 1 switch, process may die | mutual exclusion, matching replies, no lost wake-up, finality of a failed read, the inductive invariant, refinement of `RpcService` |
| `OpenFlowServer` | 2 switches, 3 connections, 2 transactions | handlers and table agree, events tell the table, answers go to their calls, a call ends if the switch stays and answers |
| `EmptyStatsReply` | 1 connection, 1 transaction | violation: a matching response that fulfils nothing |
| `Controller` | 1 switch, 2 policies, a sender of packet-outs, queries, a pipe of 1 event | types; updates finish if packet-outs stop |
| `ControllerTwo` | 2 switches, 1 update, a pipe of 2 events | `switch_hash` is current; settled tables are current unless the bring-up was overtaken |
| `UpdateRace` | 1 switch, 1 update | violation: an overtaken bring-up leaves old flows |
| `StatsEof` | 1 switch | violation: a query for a switch that has left fails an assertion |
| `LocalCompiler` | 14 policies, 4 parts, 4 orders, 7 fields, 60 packets, a compilation and 2 operations | diagrams and tables mean what policies mean |
| `Applications` | see below | the poll and the feed through crashes; each program's state and policy; predicates |
| `DefaultRoute` | the same with a prefix of length 0, 1 operation | violation: a default route does not cover every address |
| `OptimisedTable` | as `LocalCompiler`, 1 operation | violation: the default table drops a row it needs |
| `ActionLists` | the same, 1 operation | violation: OpenFlow 1.0 leaks modifications into later outputs |

Why these bounds are enough for the cases that matter.  With three callers one
holds the socket, one has been woken and one arrives in between, and that is the
whole of the lock's difficulty; the proofs then cover any number.  One switch and
one update suffice for every interleaving of the two loops, whose calls for
different switches only meet at the lock; a second switch is there for the list
an update works through and its failures in the middle.  `MaxWire`, `MaxInbox` and
`MaxEvents` stop the writers, not the readers; a wire of 8 is never full in
`ControllerTwo` and the violations, so that no caller is held back by it, and in
`Controller` a wire of 1 holds callers back until the switch has read.  In
`ControllerTwo` two events wait in the pipe while `handle_event` brings up the switch of
a third, of the same switch or of both, so that their order can matter: with one event
in the pipe it could not.  `Queried` are the switches that `query` asks for: none in
`ControllerTwo`, since a query changes nothing that its properties are about.

`OpenFlowServer`: three connections of two switches allow a reconnection before
the end-of-file, during it and after a crash of another handler.  `MCBound` keeps
the instance small: the third connection is opened after the first has ended, and
only as long as no call has reached a switch, and both calls reach a switch only
where the first two connections are one switch's, whose transactions then mix
old and new connections.  What is cut off is a reconnection of one switch beside
the transactions of another, which share nothing but the two servers; the
theorems about the table, the events and the calls have no such bound.

The policies of `LocalCompiler` were chosen so that each operation has a case where
doing it wrongly shows: predicates on nested prefixes, unions of differently
modified copies, sequences that test what they have just set, iteration around a
loop, pipes, two switches; a type, an address, a
protocol and a port tested without the others; in the orders each of two fields that
depend on each other comes first once, and the switch first, in the middle and last.  Two operations after a compilation reach diagrams no single
policy of the list has.

`Applications`: the client has one application with a crash of either process, two
events and two policies, or two applications with a crash of the controller
(`MCBudgets`); one crash leaves a reader behind in whatever place the poll is, and
a second adds nothing but another.  The learning switch has two switches with one
port or with two (`PortSets`), which come and go one by one, a host and three events,
of which two may wait to be handled.  With one port a policy cannot be sent, with none or
two it can.  So a switch can leave while its packet,
its `switch_up` or a change of its ports is still in the queue, and come back with other
ports before the application knows that it left; an address that is flooded reaches the
other switch; and the answer to `current_switches` comes before, between and after all of
these.  At the start any of the switches are connected, with ports that have not changed
since.  The firewall has two connections, two cleaning runs that may overlap and six query
labels, in each version.  Discovery has four worlds
(`MCWorlds`): two parallel cables, those with a host, a link that is weighed with a
host, and a host at either end; with two changes of the network, in the first, a switch
leaves and comes back while its probes are on their way; the second has no change and
the others one.  The load balancer has three
servers and four source ports, more than one round.  The inventory has two
switches of up to three ports and two events; the predicates have two operators
over fourteen tests, of packets read from five frames (`MCReceived`): TCP, ARP, an unknown
protocol, and ARP and UDP behind a VLAN tag.  TLC also evaluates `PayloadsSurviveHere` on
these, and `SomeCanSerialise`, that `to_payload` accepts some of them.

Deadlock is not checked: every one of these systems may come to rest.

### Fairness

Safety properties assume none.  `Controller` and `OpenFlowServer` assume that
both processes keep running their schedulers and the network delivers.  Strong
fairness is used where a ready input can be disabled for a while by other runnable
jobs (`Busy`) or by the bounded inbox: a poll serves all that is ready, so the
source delays such an input but cannot pass it over for ever.  In `OpenFlowServer`
it is assumed of the two connections that have calls.  Nothing is assumed to make
a client push a policy, a switch connect or stay, or the OpenFlow process die.

`Applications` assumes `ClientFairness`: both event loops run what is ready, timers
expire, and TCP delivers a request or its failure.  Weak fairness is enough, for
what is ready stays ready until its process stops.  Nobody is assumed to start a
process or to keep it alive, and nothing need happen in the network;
`EventsAreHandled` and `PolicyReturns` name the crashes that excuse them.

`UpdatesFinish` is a statement about the two loops.  The lock is not fair: a caller that
arrives between two calls of others goes first, and if packet-outs of HTTP clients
never stop an update can wait for ever; TLC finds that behaviour when the premise that
they stop is left out.

## What is proved

For any number of callers, switches, connections, calls, messages, policies, flows,
clients, addresses, ports, servers, labels and events, any packets and any width of
addresses, and any bounds.

`PluginRpcProofs`, with the process mortal or not:

* `TypeCorrect`, `SocketIsExclusive`, `AssertionsHold`, `WakeupsAreNotLost`: the
  safety invariants of the run;
* `FailureIsFinal`: after a failed read no caller is granted the socket again;
* `Refinement`: every behaviour is a behaviour of `RpcService`.

They rest on the assumptions of `RpcProtocol` and `PluginRpc` (the two null values
are not requests or replies, bounds are natural numbers, batches are lists).
The invariants are not inductive by themselves.  Mutual exclusion needs to know
that a task in the scheduler's queue is there once and is neither reading nor
granted (`QueuesAreDisjoint`); that the reply a task reads answers its own
request needs to know that the socket carries nothing but that conversation
(`SocketHasConversation`), and that it is empty when nobody reads, which is what
makes the next conversation start clean; no lost wake-up needs the lock's holder
(`LockHasHolder`, `WaitersWaitForLock`).  `IInv` is their conjunction, also
checked by TLC.  There is one lemma per action, and the refinement has one lemma
per action too: the client's steps around the lock are stutters, `HandleRequest`
is the instant at which the request takes effect.

`OpenFlowServerProofs`: `TableAndHandlersAgree` and `EventsTellTheTable`.  The first
is inductive with the types of three variables; its hard cases are a handler that
registers over a free entry and one whose end-of-file removes an entry that must
be its own.  The second needs the first, for an entry changes exactly when an
event of it is written, and two facts about the pipe: the newest event about a
switch decides what its reader will believe, and reading the oldest one changes
nothing of that.  It assumes that no switch has the identifier 0
(`Zero \notin SwitchIds`), see below.

Of the transactions it proves `CallsGetTheirOwnAnswers` and `IvarsAreFilledOnce`.
The invariant `CallsInv` follows an identifier from the counter (`XidsAreTaken`: no
transaction has one the counter has not passed, nor one of those the controller
uses itself) through the request and the reply (`TrafficNamesCalls`: whatever
message carries it names the call of its transaction, and no later transaction
will have it) to the call, which has made one transaction only
(`CallsMakeOneTransaction`).  `TypeCorrect` needs one thing more, that the counters
stay in their range: each call that has left `idle` accounts for one identifier at
most, on one connection (`XidsAreFew`), so that the calls have to be finitely many
(`CallsAreFinite`).

`ControllerProofs`: `TypeCorrect`, `HashFollowsTable` and
`TablesSettle`.  The lemma `NextIsRpc` shows that every step of the controller is a step of
`PluginRpc` or changes none of its variables, given where the tasks are (`Control`):
a task makes a request only when its last call has returned, and waits at the
plug-in only for the call it is at.  With it `PluginRpc`'s inductive invariant, which
`PluginRpcProofs` proves, holds in `Controller` and need not be proved again.
`TablesSettle` rests on it and on `TablesWillBeCurrent`, whose three parts account
for each connected switch: the wire, of which the last deletion decides what is
lost and what comes after it what is there (`NoOldFlow`, `EveryFlow`); the loops, each
of which has still to delete, or still to install, or still to reach the switch in
its list or in an answer it has not read (`WillDelete`, `WillInstall`, `WillReach`); and
the events, for a switch that has reconnected is nobody's business until its
`SwitchUp` is read.  An installation on a connection that is lost needs no case of
its own: whoever runs it promises nothing for a switch that is not connected, and
when the switch is back the event is there.  The policy a loop carries is current
unless `raced` says otherwise (`LoopsInstallCurrent`).  `HashFollowsTable` is separate:
the newest event about a switch tells the table (`NewestTellsTable`).  Assumptions:
the bounds are numbers, the null values are not requests or replies, the callers
of `packet_out` are not the two loops, and there are finitely many switches, since
`implement_policy` works through a list of all of them.

`FreneticClientProofs`: `ApplicationsPollOnce` (which says where the poll of each
state of the loop is), `CrashesLoseOneEvent` (the readers left behind and the
events lost are together no more than the crashes), and `ClientImplementsFeed`: the
events handled, lost or on their way, those in the pipe and the event the network
will have next are in that order, so that each step is one of `EventFeed` or
changes nothing there.  Assumption: `ClientBounds`.

`ApplicationProofs`, the learning switch: `SentIsCurrent`: each
handler ends in an update of the policy or changes nothing the policy depends on,
and what a switch that learns made up is empty; a run of `handle_current_switches` that
ends in the middle leaves a `topo` that cannot be sent.  The firewall:
`ConnectionsAreAllowedOnce`, where `list.remove` takes out the only entry that can
equal the object, and `SentPolicyFollowsList`, which needs that the labels of the list
are distinct and already taken, since a policy names both a connection and its
label.  Discovery: `LabelsAreOfOneLink` (edges come in pairs, from a probe that is
about an end of a cable, and the two directions are written and removed together),
`HostsAttachOnce` (an attached host is a node, and a node is never attached again),
and `RoutesLeadToHosts`.  The last rests on the first two, on `EdgesJoinNodes` (both
ends of an edge are nodes, since whoever goes takes its edges along) and on `RoutesAreCurrent`: when nothing
waits for a notify, the routes are among those the code computes from the graph as
it is, because every handler that changes the graph marks it, and the notify that
clears the mark sends the routes.  That a path of the graph ends at its host then
takes the labels of its edges one by one.  Assumptions: `LearningBounds`,
`FirewallBounds`, `DiscoveryBounds`: bounds are numbers, switches and hosts differ and
there are finitely many switches, 0 is no port.

`ApplicationProofs`, the packets: `PayloadsSurvive` says that what `to_payload` makes of
any packet it accepts is read back by `from_payload` as the same packet at any switch
and port, whatever unknown headers the caller adds: only transport ports are lost, which
it does not write for the types it can build, and the priority of a packet without a
VLAN.  `ArpsSurvive` is the case that `send_arp` of `topology.py` lives on: an ARP packet
that was read can be sent, and comes in elsewhere as the packet that it was.  Both assume
only that the types and protocols are different numbers (`NumbersDiffer`).

`ApplicationProofs`, the predicates and policies: `PythonAgrees` is an invariant of how predicates grow (`Agree`: where
`matches` does not raise, it says what the switches do), whose base is the masks: the
mask of `ip_in_network` has one bit more than the prefix, which can only be a bit
that neither address has, so that comparing under it is comparing the quotients by
a power of two.  `FloodsReachOthers` rests on `FloodInv`: the policy sent last is that
of the inventory, or the inventory's policy cannot be sent.  `ServersAreBalanced`
rests on `InTurn`: the servers before the next one have one connection more than the
others, or all have as many.  `ConnectionsStay` rests on `PolicyIsCurrent`: the policy
is that of the connections, and the packet sent by hand went to the server of its
connection.  Assumptions: headers are functions and addresses are numbers of `Width`
bits or missing (`PacketsAreTyped`), the tests of addresses are such addresses with
a prefix length up to `Width` (`TestsAreTyped`), and each server is at a port of its
own, which is not the client's (`ServersAreApart`).

`CompilerProofs`: `DiagramsAreOrdered` and `DiagramsMeanPolicies`, for
any fields' values, orders, policies, parts, packets and number of operations.  The
invariant `IndInv` says that the diagram is one of `Diagrams`, ordered and reduced
(`Good`), in an order that has a rank for each field; `Meaning` says what it makes of
each packet.  Neither property is about the operators that the steps are made of, so
most of the work is a fact about each of those: what it does to `Good`, and what it does
to `Val`, the action of the leaf that a packet's tests lead to.

* Values are intervals, nested or disjoint; `subset_eq` is inclusion and the order of
  tests is by the ends (`ValuesAreIntervals`).  So the order is total but for tests
  that mean the same, and a packet that passes a test passes those around it.
* `RestrictVal`: what `restrict` leaves is what the diagram does to a packet of which
  the given headers tell all tests.  It may forget headers of earlier fields because
  the diagram is ordered, and it returns a part of the diagram (`Reached`), so that
  what was above the diagram can be above the result.
* `ApplyCombines`, by induction on the sum of the depths, with the six cases of the two
  tests; that the result is no deeper than the tests allow comes from its being
  ordered (`OrderedIsShallow`).  `MapCondIs`: `cond` puts a test on top of diagrams that
  test earlier fields.
* `SeqCompIs`: a packet that the first diagram modifies is tested by the second on what
  was set, through `restrict`, and on what was not, through the tests.
* `StarIs`: a turn of the loop of `star'` adds a packet somewhere or is done, so that the
  bound on the turns is never what ends it (`Progresses`).  `RoundsAre` says the same of
  the rounds of the semantics, and both are the one reflexive and transitive closure.
* `OfPredIs`, `OfPolIs`: the translation, by induction on predicates and policies.
* `DedupIs`: a leaf whose packets already have a value gets an action that does not set
  it, one value after the other.

`DiagramsAreOrdered` has no assumption but those on the constants (`ValuesAreTyped`,
`ConstantsAreTyped`).  `DiagramsMeanPolicies` assumes `SomeBits`, that no prefix of length
0 is tested; the run `DefaultRoute` shows that it is false without.

`FlowTableProofs`: `NaiveTablesImplement`, `OptimisedTablesImplement`, `NoPacketsTwice` and
`UniformRowsDo`, under the same assumptions, `SomeBits` among them.  They are the end of the
compiler: with `DiagramsMeanPolicies` and `ToTableIs` the table of each switch does what the
reference semantics says of the policy, with any of the options.  The argument goes from
the outputs of one row to the table.

* Outputs.  The code turns sets into lists by sorting; the model enumerates a set of maps
  by `AlistLess`, the lexicographic order of their association lists.  That order is
  strict and total (`KnownAreOrdered`, `ListsAreOrdered`), so that the list of a set has each
  member once (`Ranked`, `ParListIs`, `ToSdnIs`).  `RunParIs`: the action of a row whose
  tests a packet has passed sends what the policy makes of it; leaving out a location that
  the tests give changes nothing, since `InPort` is that location.
* Rows.  `FillInIs`: the patterns of a leaf are the tests on the way to it with one of the
  types they need, but for types that a row above was for.  A list of rows `Misses` a
  packet or `Serves` it with an action for a value; `TablesJoin` says what concatenation
  does to both.
* `naive_to_table`: `NaivelyRight` is what the recursion keeps, for packets that pass the
  tests above and fail all the others seen so far.  It is by induction on diagrams, with
  one lemma for leaves, branches and tests of pipes each.
* `opt_to_table`: `NextRight` says of `next_table_row` that a packet is served by the rows
  or has the same value in what is left to do, and `RestIsSmaller` that what is left has
  fewer nodes, which is why the loop ends.  Here the tests above are those of rows the
  packet need not have reached, and `Confusable` is just what the induction cannot do
  without; `ConfusesLess` carries it down the diagram.
* `TrimmedIs`: the rows at the end that `remove_tail_drops` removes send nothing, and
  neither does a table in which no row matches.
* `NoPacketsTwice`: what dedup leaves is told apart by the packets it sends
  (`SentTells`, `SendsApart`): of two sets of modifications that send the same packet, a
  field that one sets and the other does not was set to the value the packet had, and
  that dedup has removed.
* `UniformRowsDo`: modifications that set the same fields undo each other
  (`ModifyOver`), so that along the list each output starts as if from the packet that
  came in (`UniformRuns`).

Only model-checked: all liveness, which with ENABLED is out of the prover's reach.  Of the
safety properties of the passing runs only `TopoIsCurrent` is not a theorem.
Induction is over natural numbers, for sets instead of predicates (`NatInduces`,
`RankInduces`): the prover cannot instantiate a theorem that has an operator for a
parameter.  A module may be instantiated instead, which is how `Recursion` is used.  A
recursive function whose value is a CASE has to end in OTHER: the prover forgets the
recursion of one that does not.

## Disagreements found

* `UpdateRace`: `bring_up_switch` installs the table of the diagram it was given,
  while an update that has replaced the diagram installs its own; the switch ends
  with flows of both.  `SettledTablesAreCurrent` shows that this is the only way
  a settled switch gets out of date.
* `StatsEof`: `query` uses `switch_hash`, which lags; the plug-in asserts it does
  not.
* `EmptyStatsReply`: a statistics reply without rows raises before the transaction
  is fulfilled.
* `DefaultRoute`: a prefix of length 0 compares the sign that `Pattern.of_hv` has
  extended to 64 bits, so that addresses whose first bit is set are not in 0.0.0.0/0,
  where `Ip.less_eq`, which the semantics uses, says they are.  A diagram that tests a
  longer prefix first then drops what the default route forwards.
* `OptimisedTable`: `opt_to_table` remembers tests of earlier rows as if the later
  rows had failed them.  A row that matches an address and needs a packet type is
  left out if any earlier row tested that type in another branch.  Example:
  `if ethSrc=1 and ethType=ip then port 1` in parallel with `if ip4Dst=2 then port 2`:
  IP packets to 2 from another source are dropped.  `OptimisedTableImplements`
  shows that this takes a packet with an address, in a diagram that tests addresses
  and, somewhere, the type of that packet (`Confusable`).  No order of the fields
  prevents it: a test of the type can vanish from what is left of the diagram after the
  first rows, when its two branches become equal, and stays among the tests.
* `ActionLists`: an action is a set of lists, each of which starts from the packet
  that came in; OpenFlow 1.0 has one list, and `from_par` concatenates.

### Seen without a run

These follow from the code while no statement of the repository contradicts them,
or lie in what the models leave out.  The models have those marked (m): their
properties say where they end.

OpenFlow process: a switch that reconnects before the old end-of-file has been
handled is never reported (`openflow.ml:144`) (m), although `Frenetic_Ox.mli:23`
promises a callback when it connects.  A message without an event counterpart is
reported as `SwitchDown 0` (`openflow.ml:161`), which takes a switch with that
identifier for gone (m).

Client and front end: a controller that crashes and is back between two polls
gives no failure, so the application does not connect again and its policy is
gone (m: `PolicyReturns` speaks of an application that has seen the failure).
An application without a `client_id` gets a fresh one at each start, and the old
node's policy stays in the union.  Two POSTs in flight may be handled in either
order, and the older policy stays (m).  An exception of a callback ends the poll
loop for good (m).

Learning switch: `flood` of a port without another beside it is `SetPort([])`, whose
`to_json` raises `IndexError` (m); `port_down` of a port it does not know raises
`ValueError` (m); the answer to `current_switches` may be older than a `switch_down` that
has been handled, and brings the switch back (m: `unsure`).  Here the code and its
comments disagree: the comment on `table` (`learning.py:12`) has the same address under
two switches, and the one in `learn` (`learning.py:36`) skips a source that was seen at
the same switch and port, but `learn` skips every address that any switch has learned
(m: `Seen`).  An address is therefore in the table of one switch at most, and in none
again after `switch_up` has cleared that one or the host has moved.  Another switch
floods what is sent to the address; and as `switch_policy` neither floods a packet whose
source it has learned nor has a port for a destination it has not, two hosts first seen
at different switches cannot reach each other.

Firewall: the assertion of `clean_callback` (`firewall.py:125`) fails when counters
restart with a new policy or two runs overlap; that run's `should_clean` is lost, and
the revoked connection stays installed until the next (m: `aborted`).  Overlapping
runs may raise `ValueError` in `list.remove`, or remove a newer object of the same
connection (m).  Version 1 appends a connection once per packet (m).

Discovery: a probe that arrives after its switch has left makes a node without a
`switch_ref` (m).  `run_probe` is started only once per `connected`, and after a
reconnection in `host_discovery` mode probes are no longer sniffed (m).  A host is a
node before it is attached, and then never is (m).  An ARP packet flooded over a
cable that is not discovered may attach a host to the wrong switch (m: it is
attached to one).  `Routing.connected` sends drop while the graph is clean, and the
routes come back with the next change only (m: `forgotten`).  `update_callback` may
raise `KeyError` at an edge that has gone (m).  Rounds of weighing that overlap, and
a cable from a switch to itself, are left out.

Compiler: `fill_in_dependencies` completes one field of a row.  A row that tests an
address and a port but neither type nor protocol is given a type and no protocol (m),
which `is_valid_pattern` (`Frenetic_NetKAT_Compiler.ml:221`) would refuse; nothing calls
that on the tables of `to_table`.  A switch that ignores a field whose prerequisite is
missing is not modelled: in `Flowterp.ml`, and here, it tests the field.

Others: `port_count.switch_down` raises `NameError` and `SwitchRef` has no `__eq__`, so
that a switch is counted twice (m); the repeater raises `KeyError` for ports of a
switch it does not know (m); `PortEq([])` raises `IndexError`; `Packet.matches` raises
for a test of an address the packet has not (m); `to_payload` uses names that are
not defined, for packets with a VLAN and for IPv4, so that it can build none of these
(m: `CanSerialise`).

## Not modelled, and what could come next

In this order:

1. The compiler's tables: numbers of diagrams, clearing, preserved handles, and
   the order of fields, shared by the front ends.  The shell compiles a second
   policy while the first is being installed, and compiles only to print; both can
   leave a diagram that is read with the wrong tables or order.
2. The group table (`Frenetic_GroupTable0x04`): identifiers and pending messages;
   then the 1.3 plug-in, which uses it.
3. Per-packet consistent updates (`Frenetic_NetKAT_Updates`), marked as unused in
   the source: no packet meets two versions, as an abstract specification.
4. The rest of the compiler: `let`, queries, specialisation, priorities in 16
   bits, the global compiler against the semantics of links.
5. The virtual compiler's fabric.

Left out of the parts that are modelled: of the front end the requests that
answer from the controller at once (`/version`, `/config`, counters), of the
client library the requests that only wrap them, of the syntax the modifications of
headers that no program makes, and of the packets the bytes between ryu and the network.

Left out for good: parsing, printing and JSON of the OCaml side (syntax), wire
formats (marshalling without state), topology files and graph containers, the
command line, the small example applications (a fixed policy each, without
state) and the scripts that set up or drive tests.
