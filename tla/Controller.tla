---- MODULE Controller ----
(* The NetKAT controller, async/Frenetic_NetKAT_Controller.ml, over the plug-in
   Frenetic_OpenFlow0x01_Plugin (its BestEffortUpdate0x01): how policies and
   connecting switches turn into flow tables.

   Two loops of the controller process install flows.  The event loop
   (Pipe.iter P.events handle_event) brings up a switch that connects with the
   current policy; the policy loop (Pipe.iter pol_reader update) makes a policy
   current and installs it on every switch that get_switches returns.  Each is
   sequential, but their calls interleave at the plug-in's lock, which PluginRpc
   models; packet_out calls compete for it too.

   The scheduler runs the jobs it has before it polls for input, so a loop that
   has read a reply goes on to its next call before another reply or event is
   read. *)
EXTENDS Naturals, Sequences, FiniteSets, SequencesExt

CONSTANTS SwitchIds,
          Senders,      \* concurrent callers of packet_out
          Queried,      \* the switches whose statistics clients ask for
          MaxPolicy,    \* bound: policies are numbered in the order of pushes
          Rows,         \* flows per table
          MaxEvents,    \* bound: the network pauses while as many are unread
          MaxWire,      \* bound: callers pause while a switch has this backlog
          NoRequest, NoReply

ASSUME ControllerBoundsAreNat ==
  MaxPolicy \in Nat /\ Rows \in Nat \ {0} /\ MaxEvents \in Nat /\ MaxWire \in Nat

VARIABLES server, linked, switches, wire, readOutstanding, waiters, jobs, hops,
          toServer, toClient, pc, req, reply,
          table,       \* the flow table of each switch; it outlives connections
          events,      \* SwitchUp and SwitchDown on their way to handle_event
          switchHash,  \* switch_hash
          fdd,         \* the policy compiled in fdd
          policies,    \* pol_reader: policies pushed and not yet updated to
          pushed,      \* number of policies pushed
          loc,         \* what each task is doing
          query,       \* a query in progress
          raced        \* history: switches whose bring-up an update overtook

Policies == 0..MaxPolicy
Flow(p, i) == [kind |-> "flow", pol |-> p, row |-> i]
DeleteAll == [kind |-> "delete_all"]
PacketOutMsg == [kind |-> "packet_out"]

(* to_table: the flows of policy p, highest priority first. *)
TableOf(p) == [i \in 1..Rows |-> Flow(p, i)]
FlowsOf(p) == {Flow(p, i) : i \in 1..Rows}
AllFlows == UNION {FlowsOf(p) : p \in Policies}

Loops == {"events", "policies"}
Tasks == Loops \cup Senders

Rpc == INSTANCE PluginRpc WITH
  Messages <- AllFlows \cup {DeleteAll, PacketOutMsg},
  Batches  <- {TableOf(p) : p \in Policies},
  MayDie   <- FALSE,
  MaxHops  <- 1

ASSUME NoRequestIsNoRequest == NoRequest \notin Rpc!Requests
ASSUME NoReplyIsNoReply == NoReply \notin Rpc!Replies
ASSUME SendersAreOtherTasks == Senders \cap Loops = {}
ASSUME SwitchIdsAreFinite == IsFiniteSet(SwitchIds)

rpcVars == <<server, linked, switches, wire, readOutstanding, waiters, jobs,
             hops, toServer, toClient, pc, req, reply>>
ctlVars == <<table, events, switchHash, fdd, policies, pushed, loc, query, raced>>
vars == <<rpcVars, ctlVars>>

Idle == [at |-> "idle"]

Init ==
  /\ Rpc!Init
  /\ table = [s \in SwitchIds |-> {}]
  /\ events = <<>>
  /\ switchHash = {}
  /\ fdd = 0
  /\ policies = <<>>
  /\ pushed = 0
  /\ loc = [t \in Tasks |-> Idle]
  /\ query = Idle
  /\ raced = {}

----
(* The OpenFlow process and the network. *)

SwitchUp(s) ==
  /\ Len(events) < MaxEvents
  /\ Rpc!SwitchConnects(s)
  /\ events' = Append(events, [kind |-> "SwitchUp", sw |-> s])
  /\ UNCHANGED <<table, switchHash, fdd, policies, pushed, loc, query, raced>>

SwitchDown(s) ==
  /\ Len(events) < MaxEvents
  /\ Rpc!SwitchDisconnects(s)
  /\ events' = Append(events, [kind |-> "SwitchDown", sw |-> s])
  /\ UNCHANGED <<table, switchHash, fdd, policies, pushed, loc, query, raced>>

(* The switch applies the next message on its connection. *)
Apply(m, flows) ==
  CASE m.kind = "delete_all" -> {}
    [] m.kind = "flow"       -> flows \cup {m}
    [] OTHER                 -> flows

SwitchReceives(s) ==
  /\ Rpc!SwitchReceives(s)
  /\ table' = [table EXCEPT ![s] = Apply(Head(wire[s]), @)]
  /\ UNCHANGED <<events, switchHash, fdd, policies, pushed, loc, query, raced>>

(* A client pushes a new global policy into the pipe of the policy loop. *)
PushPolicy ==
  /\ pushed < MaxPolicy
  /\ pushed' = pushed + 1
  /\ policies' = Append(policies, pushed + 1)
  /\ UNCHANGED <<rpcVars, table, events, switchHash, fdd, loc, query, raced>>

----
(* Calls. *)

(* Some task has read a reply and is on its way to its next call. *)
Busy == \E t \in Tasks : Rpc!Free(t) /\ loc[t].at \in {"delete", "install"}

(* Mutant: the deletion travels in the batch. *)
BatchWithDelete(l) ==
  [op |-> "SendBatch", sw |-> Head(l.todo), msgs |-> <<DeleteAll>> \o TableOf(l.pol)]

InstallRequest(l) ==
  [op |-> "SendBatch", sw |-> Head(l.todo), msgs |-> TableOf(l.pol)]

(* The call task t makes when it is at l, and the binds before it: the body of
   bring_up_switch starts one scheduler turn later, under Monitor.try_with. *)
CallAt(t, l) ==
  CASE l.at = "getSwitches" -> Rpc!Call(t, [op |-> "GetSwitches"], 0)
    [] l.at = "delete" ->
         Rpc!Call(t, [op |-> "Send", sw |-> Head(l.todo), msg |-> DeleteAll], 1)
    [] l.at = "install" -> Rpc!Call(t, InstallRequest(l), 0)
    [] l.at = "packetOut" ->
         Rpc!Call(t, [op |-> "Send", sw |-> l.sw, msg |-> PacketOutMsg], 0)

Start(t, l) == loc' = [loc EXCEPT ![t] = l] /\ CallAt(t, l)

----
(* The event loop. *)

HashAfter(e) ==
  IF e.kind = "SwitchUp" THEN switchHash \cup {e.sw} ELSE switchHash \ {e.sw}

(* handle_event: a switch that came up is brought up with the current fdd, read
   here. *)
Handle(e) ==
  /\ switchHash' = HashAfter(e)
  /\ IF e.kind = "SwitchUp"
     THEN /\ Start("events", [at |-> "delete", todo |-> <<e.sw>>, pol |-> fdd])
          /\ raced' = raced \ {e.sw}
     ELSE UNCHANGED <<rpcVars, loc, raced>>
  /\ UNCHANGED <<table, fdd, policies, pushed, query>>

(* Mutant: the newest event is handled first. *)
HandleNewest ==
  /\ loc["events"] = Idle
  /\ ~Busy
  /\ events # <<>>
  /\ events' = Front(events)
  /\ Handle(Last(events))

(* Pipe.iter: the next event is read when the last one has been handled. *)
HandleEvent ==
  /\ loc["events"] = Idle
  /\ ~Busy
  /\ events # <<>>
  /\ events' = Tail(events)
  /\ Handle(Head(events))

----
(* The policy loop. *)

BeingBroughtUp ==
  IF loc["events"] = Idle THEN {} ELSE {Head(loc["events"].todo)}

(* update: the policy becomes current, then implement_policy asks for the
   switches. *)
Update ==
  /\ loc["policies"] = Idle
  /\ ~Busy
  /\ policies # <<>>
  /\ policies' = Tail(policies)
  /\ fdd' = Head(policies)
  /\ Start("policies", [at |-> "getSwitches", pol |-> Head(policies)])
  /\ raced' = BeingBroughtUp
  /\ UNCHANGED <<table, events, switchHash, pushed, query>>

----
(* bring_up_switch, in either loop. *)

(* Mutant: a failure, or a success, ends the whole installation. *)
StopAfterSwitch(l) == Idle

(* Mutant: a switch is tried again. *)
RepeatSwitch(l) == [at |-> "delete", todo |-> l.todo, pol |-> l.pol]

(* Going on with the next switch of implement_policy, or finishing. *)
AfterSwitch(l) ==
  IF Tail(l.todo) = <<>> THEN Idle
  ELSE [at |-> "delete", todo |-> Tail(l.todo), pol |-> l.pol]

(* Where a task goes after the reply r to the call it made at l.  RpcEof raises
   UpdateError, which is logged before going on with the next switch. *)
After(l, r) ==
  CASE l.at = "getSwitches" ->
         IF r.found = {} THEN {Idle}
         ELSE {[at |-> "delete", todo |-> sws, pol |-> l.pol] :
                 sws \in SetToSeqs(r.found)}
    [] l.at \in {"delete", "install"} /\ r.found = {} ->
         {[at |-> "flushing", todo |-> l.todo, pol |-> l.pol]}
    [] l.at = "delete" /\ r.found # {} ->
         {[at |-> "install", todo |-> l.todo, pol |-> l.pol]}
    [] l.at = "install" /\ r.found # {} -> {AfterSwitch(l)}
    [] l.at = "packetOut" -> {Idle}

ReadReply(t) ==
  /\ ~Busy
  /\ Rpc!ReadReply(t)
  /\ loc' \in {[loc EXCEPT ![t] = l] : l \in After(loc[t], Head(toClient))}
  /\ UNCHANGED <<table, events, switchHash, fdd, policies, pushed, query, raced>>

(* The log has been flushed: the switch is skipped. *)
Flushed(t) ==
  /\ loc[t].at = "flushing"
  /\ ~Busy
  /\ loc' = [loc EXCEPT ![t] = AfterSwitch(loc[t])]
  /\ UNCHANGED <<rpcVars, table, events, switchHash, fdd, policies, pushed,
                 query, raced>>

(* The task's continuation makes its next call. *)
Continue(t) ==
  /\ Rpc!Free(t)
  /\ loc[t].at \in {"delete", "install"}
  /\ CallAt(t, loc[t])
  /\ UNCHANGED ctlVars

----
(* Other calls of the controller. *)

PacketOut(t, s) ==
  /\ loc[t] = Idle
  /\ ~Busy
  /\ Start(t, [at |-> "packetOut", sw |-> s])
  /\ UNCHANGED <<table, events, switchHash, fdd, policies, pushed, query, raced>>

(* query: flow_stats for each switch in switch_hash, on a socket of its own. *)
Query(s) ==
  /\ s \in Queried
  /\ query = Idle
  /\ s \in switchHash
  /\ query' = [at |-> "sent", sw |-> s]
  /\ UNCHANGED <<rpcVars, table, events, switchHash, fdd, policies, pushed, loc,
                 raced>>

(* The OpenFlow process handles SendTrx; OpenFlowServer models what follows.
   RpcEof is an assertion failure in flow_stats and port_stats. *)
HandleTrx ==
  /\ query.at = "sent"
  /\ server = "listening"
  /\ query' = IF query.sw \in switches THEN Idle ELSE [at |-> "assertion"]
  /\ UNCHANGED <<rpcVars, table, events, switchHash, fdd, policies, pushed, loc,
                 raced>>

----
RpcStep ==
  /\ \/ Rpc!ServerListens \/ Rpc!Connect \/ Rpc!HandleRequest
     \/ \E t \in Tasks : Rpc!Hop(t) \/ Rpc!ClearToRead(t) \/ Rpc!WriteRequest(t)
  /\ UNCHANGED ctlVars

TaskStep(t) == ReadReply(t) \/ Flushed(t) \/ Continue(t)

Next ==
  \/ \E s \in SwitchIds : SwitchUp(s) \/ SwitchDown(s) \/ SwitchReceives(s)
  \/ PushPolicy
  \/ HandleEvent \/ Update
  \/ \E t \in Tasks : TaskStep(t)
  \/ \E t \in Senders, s \in SwitchIds : PacketOut(t, s)
  \/ \E s \in SwitchIds : Query(s)
  \/ HandleTrx
  \/ RpcStep

Spec == Init /\ [][Next]_vars

(* Both processes run their schedulers, and a poll serves every socket and pipe
   that is ready: the turns of the other loop (Busy) delay a read but cannot
   starve it, hence strong fairness for what waits for input.  Nothing makes a
   client push, a switch connect or disconnect, or a caller send a packet. *)
FairSpec ==
  /\ Spec
  /\ WF_vars(RpcStep)
  /\ SF_vars(HandleEvent)
  /\ SF_vars(Update)
  /\ \A t \in Tasks : SF_vars(TaskStep(t))
  /\ \A s \in SwitchIds : WF_vars(SwitchReceives(s))

----
(* Type invariant of the controller's own state. *)
Locs ==
  {Idle} \cup [at : {"getSwitches"}, pol : Policies]
    \cup [at : {"delete", "install", "flushing"}, todo : Seq(SwitchIds), pol : Policies]
    \cup [at : {"packetOut"}, sw : SwitchIds]

TypeOK ==
  /\ Rpc!TypeOK
  /\ table \in [SwitchIds -> SUBSET AllFlows]
  /\ events \in Seq([kind : {"SwitchUp", "SwitchDown"}, sw : SwitchIds])
  /\ switchHash \subseteq SwitchIds
  /\ fdd \in Policies
  /\ policies \in Seq(Policies)
  /\ pushed \in Policies
  /\ loc \in [Tasks -> Locs]
  /\ raced \subseteq SwitchIds

(* Nothing is left to do: every pipe is empty, both loops wait for input and
   every message has reached its switch. *)
Settled ==
  /\ events = <<>> /\ policies = <<>>
  /\ loc["events"] = Idle /\ loc["policies"] = Idle
  /\ \A s \in SwitchIds : wire[s] = <<>>

(* When everything has settled, each connected switch runs exactly the current
   policy, whatever connections were lost in the middle of an installation and
   whatever part of it was lost with them, except for a switch whose bring-up an
   update overtook. *)
SettledTablesAreCurrent ==
  Settled => \A s \in switches \ raced : table[s] = FlowsOf(fdd)

(* switch_hash, which the controller answers for the switches and queries, is
   exactly the OpenFlow process's table once every event has been handled, and
   differs from it only by events on their way: the bring-up of a switch, which
   handle_event waits for, neither loses nor reorders one. *)
HashIsCurrent ==
  \A s \in SwitchIds :
    (\A i \in 1..Len(events) : events[i].sw # s)
      => (s \in switchHash <=> s \in switches)

(* A policy that was pushed is installed everywhere before long, also while
   switches keep connecting and disconnecting: if the callers of packet_out stop,
   the policy loop does not wait forever for the lock it shares with the event
   loop.  The lock is not fair: with callers that never stop it may. *)
UpdatesFinish ==
  (\A t \in Senders : <>[](loc[t] = Idle))
    => (policies # <<>> ~> policies = <<>> /\ loc["policies"] = Idle)

----
(* The inductive invariant behind the theorems of ControllerProofs. *)

Installing(l) == l.at \in {"delete", "install", "flushing"}

RequestAt(l) ==
  CASE l.at = "getSwitches" -> [op |-> "GetSwitches"]
    [] l.at = "delete"      -> [op |-> "Send", sw |-> Head(l.todo), msg |-> DeleteAll]
    [] l.at = "install"     -> InstallRequest(l)
    [] l.at = "packetOut"   -> [op |-> "Send", sw |-> l.sw, msg |-> PacketOutMsg]

(* A task that waits at the plug-in waits for the call it is at. *)
CallsMatchTasks ==
  \A t \in Tasks :
    IF Rpc!Free(t) THEN loc[t].at \notin {"getSwitches", "packetOut"}
    ELSE /\ loc[t].at \notin {"idle", "flushing"}
         /\ req[t] = RequestAt(loc[t])

(* The event loop brings up one switch at a time, and the policy loop those that
   are left of a list. *)
LoopsHaveSwitches ==
  /\ \/ loc["events"] = Idle
     \/ Installing(loc["events"]) /\ Len(loc["events"].todo) = 1
  /\ Installing(loc["policies"]) => loc["policies"].todo # <<>>
  /\ \A t \in Loops : loc[t].at # "packetOut"
  /\ \A t \in Senders : loc[t].at \in {"idle", "packetOut"}

(* A loop installs the current policy, unless an update overtook it. *)
LoopsInstallCurrent ==
  /\ loc["policies"] # Idle => loc["policies"].pol = fdd
  /\ \A s \in BeingBroughtUp \ raced : loc["events"].pol = fdd

(* The call t is at has been answered, and t has yet to read the answer. *)
Handled(t) == pc[t] = "reading" /\ toServer = <<>>

(* Task t has yet to begin the bring-up of s. *)
WillReach(t, s) ==
  \/ loc[t].at = "getSwitches" /\ (Handled(t) => s \in Head(toClient).found)
  \/ Installing(loc[t]) /\ \E i \in 2..Len(loc[t].todo) : loc[t].todo[i] = s

At(t, stage, s) == loc[t].at = stage /\ Head(loc[t].todo) = s

(* The flows of s are still to be deleted, or the table to be installed, by t. *)
WillDelete(t, s) == WillReach(t, s) \/ (At(t, "delete", s) /\ ~Handled(t))

WillInstall(t, s) ==
  \/ WillReach(t, s)
  \/ At(t, "delete", s) /\ (Handled(t) => Head(toClient).found # {})
  \/ At(t, "install", s) /\ ~Handled(t)

(* Once s has received all that is on its connection, it has no flow that is not
   of the current policy: k is the last deletion on the way, 0 for none. *)
NoOldFlow(s) ==
  \E k \in 0..Len(wire[s]) :
    /\ IF k = 0 THEN table[s] \subseteq FlowsOf(fdd) ELSE wire[s][k] = DeleteAll
    /\ \A i \in 1..Len(wire[s]) :
         i > k /\ wire[s][i].kind = "flow" => wire[s][i] \in FlowsOf(fdd)

(* Then it has every flow of the current policy. *)
EveryFlow(s) ==
  \A f \in FlowsOf(fdd) :
    \/ f \in table[s] /\ \A i \in 1..Len(wire[s]) : wire[s][i] # DeleteAll
    \/ \E i \in 1..Len(wire[s]) :
         /\ wire[s][i] = f
         /\ \A j \in 1..Len(wire[s]) : j > i => wire[s][j] # DeleteAll

SwitchUpUnread(s) == \E i \in 1..Len(events) : events[i] = [kind |-> "SwitchUp", sw |-> s]

(* A loop still has to send s the current policy, or all of it is sent. *)
WillBeCurrent(s) ==
  /\ NoOldFlow(s) \/ (\E t \in Loops : WillDelete(t, s))
  /\ EveryFlow(s) \/ (\E t \in Loops : WillInstall(t, s))

(* A connected switch will run the current policy, or the event loop has yet to
   read that it connected. *)
TablesWillBeCurrent ==
  \A s \in switches \ raced : SwitchUpUnread(s) \/ WillBeCurrent(s)

(* Inductive, with the invariant of the plug-in. *)
IInv ==
  /\ TypeOK
  /\ Rpc!IInv
  /\ server # "dead"
  /\ CallsMatchTasks
  /\ LoopsHaveSwitches
  /\ LoopsInstallCurrent
  /\ TablesWillBeCurrent

----
(* Statements of the repository that the code does not meet. *)

(* Frenetic_NetKAT_Controller.mli:31 says that "[update p] sets the global
   policy to [p]": once everything has settled, every switch would run the last
   policy. *)
UpdateSetsGlobalPolicy ==
  Settled => \A s \in switches : table[s] = FlowsOf(fdd)

(* Frenetic_OpenFlow0x01_Plugin.ml:280 asserts that a statistics request is
   never answered RpcEof; query makes one for each switch in switch_hash. *)
StatsNeverEof == query.at # "assertion"
====
