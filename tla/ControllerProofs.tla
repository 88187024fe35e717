---- MODULE ControllerProofs ----
(* Theorems about Controller, for any switches, policies, sizes of table and
   concurrent callers of packet_out. *)
EXTENDS Controller, FiniteSetTheorems, SequenceTheorems, TLAPS

P == INSTANCE PluginRpcProofs WITH
  Messages <- AllFlows \cup {DeleteAll, PacketOutMsg},
  Batches  <- {TableOf(p) : p \in Policies},
  MayDie   <- FALSE,
  MaxHops  <- 1

Event == [kind : {"SwitchUp", "SwitchDown"}, sw : SwitchIds]

---------------------------------------------------------------------------
(* switch_hash follows the OpenFlow process's table. *)

(* The newest event about a switch says whether it is connected. *)
NewestTellsTable ==
  \A i \in 1..Len(events) :
    (\A j \in 1..Len(events) : j > i => events[j].sw # events[i].sw)
      => (events[i].kind = "SwitchUp" <=> events[i].sw \in switches)

(* HashIsCurrent says nothing of a switch some event is about; handling its last
   event makes it current because that event tells the table. *)
HashInv ==
  /\ events \in Seq(Event)
  /\ NewestTellsTable
  /\ HashIsCurrent

watched == <<events, switchHash, switches>>

---------------------------------------------------------------------------
(* Steps that change neither the events, nor switch_hash, nor the table. *)

LEMMA SameHashKeeps ==
  ASSUME HashInv, UNCHANGED watched
  PROVE  HashInv'
  BY DEF HashInv, NewestTellsTable, HashIsCurrent, watched

\* A call at the plug-in does not touch the OpenFlow process's table.
LEMMA CallsKeepTable ==
  ASSUME NEW t, NEW l, CallAt(t, l),
         l.at \in {"getSwitches", "delete", "install", "packetOut"}
  PROVE  UNCHANGED switches
<1>1. CASE l.at = "getSwitches"
  BY <1>1 DEF CallAt, Rpc!Call, Rpc!netVars
<1>2. CASE l.at = "delete"
  BY <1>2 DEF CallAt, Rpc!Call, Rpc!netVars
<1>3. CASE l.at = "install"
  BY <1>3 DEF CallAt, Rpc!Call, Rpc!netVars
<1>4. CASE l.at = "packetOut"
  BY <1>4 DEF CallAt, Rpc!Call, Rpc!netVars
<1> QED
  BY <1>1, <1>2, <1>3, <1>4

LEMMA TaskStepsKeepHash ==
  ASSUME NEW t \in Tasks, TaskStep(t)
  PROVE  UNCHANGED watched
<1>1. CASE ReadReply(t)
  BY <1>1 DEF ReadReply, Rpc!ReadReply, Rpc!netVars, watched
<1>2. CASE Flushed(t)
  BY <1>2 DEF Flushed, rpcVars, watched
<1>3. CASE Continue(t)
  BY <1>3, CallsKeepTable DEF Continue, ctlVars, watched
<1> QED
  BY <1>1, <1>2, <1>3 DEF TaskStep

LEMMA RpcStepsKeepHash ==
  ASSUME RpcStep
  PROVE  UNCHANGED watched
  BY DEF RpcStep, ctlVars, watched, Rpc!ServerListens, Rpc!Connect, Rpc!HandleRequest,
         Rpc!Hop, Rpc!ClearToRead, Rpc!WriteRequest, Rpc!netVars

LEMMA UpdateKeepsHash ==
  ASSUME Update
  PROVE  UNCHANGED watched
<1>1. CallAt("policies", [at |-> "getSwitches", pol |-> Head(policies)])
  BY DEF Update, Start
<1>2. UNCHANGED switches
  BY <1>1, CallsKeepTable
<1> QED
  BY <1>2 DEF Update, watched

LEMMA PacketOutKeepsHash ==
  ASSUME NEW t \in Senders, NEW s \in SwitchIds, PacketOut(t, s)
  PROVE  UNCHANGED watched
<1>1. CallAt(t, [at |-> "packetOut", sw |-> s])
  BY DEF PacketOut, Start
<1>2. UNCHANGED switches
  BY <1>1, CallsKeepTable
<1> QED
  BY <1>2 DEF PacketOut, watched

---------------------------------------------------------------------------
(* A switch connects or disconnects. *)

LEMMA ReportKeeps ==
  ASSUME HashInv, UNCHANGED switchHash,
         NEW k \in {"SwitchUp", "SwitchDown"}, NEW s \in SwitchIds,
         events' = Append(events, [kind |-> k, sw |-> s]),
         k = "SwitchUp" <=> s \in switches',
         \A u \in SwitchIds : u # s => (u \in switches' <=> u \in switches)
  PROVE  HashInv'
<1> DEFINE n == Len(events)
<1>1. [kind |-> k, sw |-> s] \in Event
  BY DEF Event
<1>2. /\ n \in Nat
      /\ events' \in Seq(Event)
      /\ Len(events') = n + 1
      /\ events'[n + 1] = [kind |-> k, sw |-> s]
      /\ \A i \in 1..n : events'[i] = events[i] /\ events[i] \in Event
  BY <1>1 DEF HashInv
<1>3. NewestTellsTable'
  <2> SUFFICES ASSUME NEW i \in 1..(n + 1),
                      \A j \in 1..(n + 1) : j > i => events'[j].sw # events'[i].sw
               PROVE  events'[i].kind = "SwitchUp" <=> events'[i].sw \in switches'
    BY <1>2 DEF NewestTellsTable
  <2>1. CASE i = n + 1
    BY <2>1, <1>2
  <2>2. CASE i \in 1..n
    <3>1. events[i].sw \in SwitchIds /\ events[i].sw # s
      BY <2>2, <1>2 DEF Event
    <3>2. \A j \in 1..n : j > i => events[j].sw # events[i].sw
      BY <2>2, <1>2
    <3>3. events[i].kind = "SwitchUp" <=> events[i].sw \in switches
      BY <2>2, <3>2 DEF HashInv, NewestTellsTable
    <3> QED
      BY <2>2, <1>2, <3>1, <3>3
  <2> QED
    BY <2>1, <2>2, <1>2
<1>4. HashIsCurrent'
  <2> SUFFICES ASSUME NEW u \in SwitchIds,
                      \A i \in 1..(n + 1) : events'[i].sw # u
               PROVE  u \in switchHash <=> u \in switches'
    BY <1>2 DEF HashIsCurrent
  <2>1. u # s
    BY <1>2
  <2>2. \A i \in 1..n : events[i].sw # u
    BY <1>2
  <2> QED
    BY <2>1, <2>2 DEF HashInv, HashIsCurrent
<1> QED
  BY <1>2, <1>3, <1>4 DEF HashInv

LEMMA SwitchUpKeeps ==
  ASSUME HashInv, NEW s \in SwitchIds, SwitchUp(s)
  PROVE  HashInv'
<1>1. events' = Append(events, [kind |-> "SwitchUp", sw |-> s]) /\ UNCHANGED switchHash
  BY DEF SwitchUp
<1>2. switches' = switches \cup {s}
  BY DEF SwitchUp, Rpc!SwitchConnects
<1> QED
  BY <1>1, <1>2, ReportKeeps

LEMMA SwitchDownKeeps ==
  ASSUME HashInv, NEW s \in SwitchIds, SwitchDown(s)
  PROVE  HashInv'
<1>1. events' = Append(events, [kind |-> "SwitchDown", sw |-> s]) /\ UNCHANGED switchHash
  BY DEF SwitchDown
<1>2. switches' = switches \ {s}
  BY DEF SwitchDown, Rpc!SwitchDisconnects
<1> QED
  BY <1>1, <1>2, ReportKeeps

---------------------------------------------------------------------------
(* The event loop takes the oldest event. *)

LEMMA HandleEventKeeps ==
  ASSUME HashInv, HandleEvent
  PROVE  HashInv'
<1> DEFINE e == Head(events)
           n == Len(events)
<1>1. /\ events # <<>>
      /\ events' = Tail(events)
      /\ switchHash' = HashAfter(e)
  BY DEF HandleEvent, Handle
<1>2. UNCHANGED switches
  <2>1. CASE e.kind = "SwitchUp"
    <3>1. CallAt("events", [at |-> "delete", todo |-> <<e.sw>>, pol |-> fdd])
      BY <2>1 DEF HandleEvent, Handle, Start
    <3> QED
      BY <3>1, CallsKeepTable
  <2>2. CASE e.kind # "SwitchUp"
    BY <2>2 DEF HandleEvent, Handle, rpcVars
  <2> QED
    BY <2>1, <2>2
<1>3. /\ n \in Nat \ {0}
      /\ e = events[1]
      /\ e \in Event
      /\ events' \in Seq(Event)
      /\ Len(events') = n - 1
      /\ \A i \in 1..(n - 1) : events'[i] = events[i + 1]
  BY <1>1 DEF HashInv
<1>4. NewestTellsTable'
  <2> SUFFICES ASSUME NEW i \in 1..(n - 1),
                      \A j \in 1..(n - 1) : j > i => events'[j].sw # events'[i].sw
               PROVE  events'[i].kind = "SwitchUp" <=> events'[i].sw \in switches
    BY <1>2, <1>3 DEF NewestTellsTable
  <2>1. i + 1 \in 1..n /\ events'[i] = events[i + 1]
    BY <1>3
  <2>2. ASSUME NEW j \in 1..n, j > i + 1
        PROVE  events[j].sw # events[i + 1].sw
    <3>1. j - 1 \in 1..(n - 1) /\ j - 1 > i /\ events'[j - 1] = events[j]
      BY <2>2, <1>3
    <3> QED
      BY <3>1, <2>1
  <2> QED
    BY <2>1, <2>2 DEF HashInv, NewestTellsTable
<1>5. HashIsCurrent'
  <2> SUFFICES ASSUME NEW u \in SwitchIds,
                      \A i \in 1..(n - 1) : events'[i].sw # u
               PROVE  u \in switchHash' <=> u \in switches
    BY <1>2, <1>3 DEF HashIsCurrent
  <2>1. ASSUME NEW j \in 1..n, j > 1
        PROVE  events[j].sw # u
    <3>1. j - 1 \in 1..(n - 1) /\ events'[j - 1] = events[j]
      BY <2>1, <1>3
    <3> QED
      BY <3>1
  <2>2. CASE u = e.sw
    <3>1. 1 \in 1..n /\ \A j \in 1..n : j > 1 => events[j].sw # events[1].sw
      BY <2>1, <2>2, <1>3
    <3>2. e.kind = "SwitchUp" <=> u \in switches
      BY <3>1, <2>2, <1>3 DEF HashInv, NewestTellsTable
    <3> QED
      BY <3>2, <2>2, <1>1 DEF HashAfter
  <2>3. CASE u # e.sw
    <3>1. \A j \in 1..n : events[j].sw # u
      BY <2>1, <2>3, <1>3
    <3>2. u \in switchHash <=> u \in switches
      BY <3>1 DEF HashInv, HashIsCurrent
    <3> QED
      BY <3>2, <2>3, <1>1 DEF HashAfter
  <2> QED
    BY <2>2, <2>3
<1> QED
  BY <1>3, <1>4, <1>5 DEF HashInv

---------------------------------------------------------------------------

LEMMA InitHasHashInv ==
  ASSUME Init
  PROVE  HashInv
  BY DEF Init, Rpc!Init, HashInv, NewestTellsTable, HashIsCurrent

LEMMA NextKeepsHashInv ==
  ASSUME HashInv, [Next]_vars
  PROVE  HashInv'
<1>1. ASSUME NEW s \in SwitchIds, SwitchUp(s) PROVE HashInv'
  BY <1>1, SwitchUpKeeps
<1>2. ASSUME NEW s \in SwitchIds, SwitchDown(s) PROVE HashInv'
  BY <1>2, SwitchDownKeeps
<1>3. ASSUME NEW s \in SwitchIds, SwitchReceives(s) PROVE HashInv'
  BY <1>3, SameHashKeeps DEF SwitchReceives, Rpc!SwitchReceives, watched
<1>4. CASE PushPolicy
  BY <1>4, SameHashKeeps DEF PushPolicy, rpcVars, watched
<1>5. CASE HandleEvent
  BY <1>5, HandleEventKeeps
<1>6. CASE Update
  BY <1>6, SameHashKeeps, UpdateKeepsHash
<1>7. ASSUME NEW t \in Tasks, TaskStep(t) PROVE HashInv'
  BY <1>7, SameHashKeeps, TaskStepsKeepHash
<1>8. ASSUME NEW t \in Senders, NEW s \in SwitchIds, PacketOut(t, s) PROVE HashInv'
  BY <1>8, SameHashKeeps, PacketOutKeepsHash
<1>9. ASSUME NEW s \in SwitchIds, Query(s) PROVE HashInv'
  BY <1>9, SameHashKeeps DEF Query, rpcVars, watched
<1>10. CASE HandleTrx
  BY <1>10, SameHashKeeps DEF HandleTrx, rpcVars, watched
<1>11. CASE RpcStep
  BY <1>11, SameHashKeeps, RpcStepsKeepHash
<1>12. CASE UNCHANGED vars
  BY <1>12, SameHashKeeps DEF vars, rpcVars, ctlVars, watched
<1> QED
  BY <1>1, <1>2, <1>3, <1>4, <1>5, <1>6, <1>7, <1>8, <1>9, <1>10, <1>11, <1>12 DEF Next

(* handle_event keeps switch_hash equal to the OpenFlow process's table but for
   the events on their way: with any number of switches connecting and
   disconnecting while a bring-up, an update or a packet_out holds the plug-in,
   none is lost, repeated or applied out of order. *)
THEOREM HashFollowsTable == Spec => []HashIsCurrent
<1>1. Init => HashInv
  BY InitHasHashInv
<1>2. HashInv /\ [Next]_vars => HashInv'
  BY NextKeepsHashInv
<1>3. HashInv => HashIsCurrent
  BY DEF HashInv
<1> QED
  BY <1>1, <1>2, <1>3, PTL DEF Spec
---------------------------------------------------------------------------
(* The plug-in: what PluginRpcProofs shows of PluginRpc holds of Rpc. *)

LEMMA TablesAreBatches ==
  {TableOf(p) : p \in Policies} \subseteq Seq(AllFlows \cup {DeleteAll, PacketOutMsg})
<1> SUFFICES ASSUME NEW p \in Policies
             PROVE  TableOf(p) \in Seq(AllFlows)
  OBVIOUS
<1>1. \A i \in 1..Rows : Flow(p, i) \in AllFlows
  BY DEF AllFlows, FlowsOf
<1>2. TableOf(p) \in [1..Rows -> AllFlows]
  BY <1>1 DEF TableOf
<1> QED
  BY <1>2, ControllerBoundsAreNat

LEMMA RpcAssumptions ==
  /\ NoRequest \notin P!Requests
  /\ NoReply \notin P!Replies
  /\ FALSE \in BOOLEAN
  /\ 1 \in Nat /\ MaxWire \in Nat
  BY NoRequestIsNoRequest, NoReplyIsNoReply, ControllerBoundsAreNat
     DEF P!Requests, Rpc!Requests, P!Replies, Rpc!Replies, P!ReplyOps, Rpc!ReplyOps

LEMMA SameRpcIInv == P!IInv <=> Rpc!IInv
  BY DEF P!IInv, Rpc!IInv, P!TypeOK, Rpc!TypeOK, P!CallsHaveRequests, Rpc!CallsHaveRequests,
         P!QueuesAreDisjoint, Rpc!QueuesAreDisjoint, P!OneConversation,
         Rpc!OneConversation, P!SocketHasConversation, Rpc!SocketHasConversation,
         P!LockHasHolder, Rpc!LockHasHolder, P!WaitersWaitForLock,
         Rpc!WaitersWaitForLock, P!Holding, Rpc!Holding, P!Free, Rpc!Free, P!Phases,
         Rpc!Phases, P!Requests, Rpc!Requests, P!Replies, Rpc!Replies, P!ReplyOps,
         Rpc!ReplyOps, P!ReplyOp, Rpc!ReplyOp

LEMMA SameRpcIInvNext == P!IInv' <=> Rpc!IInv'
  BY DEF P!IInv, Rpc!IInv, P!TypeOK, Rpc!TypeOK, P!CallsHaveRequests, Rpc!CallsHaveRequests,
         P!QueuesAreDisjoint, Rpc!QueuesAreDisjoint, P!OneConversation,
         Rpc!OneConversation, P!SocketHasConversation, Rpc!SocketHasConversation,
         P!LockHasHolder, Rpc!LockHasHolder, P!WaitersWaitForLock,
         Rpc!WaitersWaitForLock, P!Holding, Rpc!Holding, P!Free, Rpc!Free, P!Phases,
         Rpc!Phases, P!Requests, Rpc!Requests, P!Replies, Rpc!Replies, P!ReplyOps,
         Rpc!ReplyOps, P!ReplyOp, Rpc!ReplyOp

LEMMA SameRpcNext == P!Next <=> Rpc!Next
  BY DEF P!Next, Rpc!Next, P!ServerListens, Rpc!ServerListens, P!Connect, Rpc!Connect, P!Die,
         Rpc!Die, P!TaskStep, Rpc!TaskStep, P!Hop, Rpc!Hop, P!ClearToRead,
         Rpc!ClearToRead, P!WriteRequest, Rpc!WriteRequest, P!ReadReply, Rpc!ReadReply,
         P!ReadEof, Rpc!ReadEof, P!Call, Rpc!Call, P!HandleRequest, Rpc!HandleRequest,
         P!SwitchConnects, Rpc!SwitchConnects, P!SwitchDisconnects,
         Rpc!SwitchDisconnects, P!SwitchReceives, Rpc!SwitchReceives, P!SignalRead,
         Rpc!SignalRead, P!Free, Rpc!Free, P!lockVars, Rpc!lockVars, P!sockVars,
         Rpc!sockVars, P!netVars, Rpc!netVars, P!taskVars, Rpc!taskVars, P!ReplyOp,
         Rpc!ReplyOp, P!ReplyTo, Rpc!ReplyTo, P!WireAfter, Rpc!WireAfter, P!Payload,
         Rpc!Payload, P!Requests, Rpc!Requests

LEMMA RpcInit == Rpc!Init => Rpc!IInv
<1>1. P!Init => P!IInv
  BY P!InitEstablishesIInv, RpcAssumptions, TablesAreBatches
<1> QED
  BY <1>1, SameRpcIInv DEF P!Init, Rpc!Init

LEMMA RpcKeeps == Rpc!IInv /\ [Rpc!Next]_(Rpc!vars) => Rpc!IInv'
<1>1. P!IInv /\ [P!Next]_(P!vars) => P!IInv'
  BY P!NextPreservesIInv, RpcAssumptions, TablesAreBatches
<1> QED
  BY <1>1, SameRpcIInv, SameRpcIInvNext, SameRpcNext DEF P!vars, Rpc!vars

\* The reading task has its request or the answer to it on the socket, alone.
LEMMA Conversation ==
  ASSUME Rpc!IInv, server # "dead", NEW t \in Tasks, pc[t] = "reading"
  PROVE  /\ \A u \in Tasks : u # t => pc[u] \notin {"granted", "reading"}
         /\ \/ toServer = <<req[t]>> /\ toClient = <<>>
            \/ /\ toServer = <<>>
               /\ toClient # <<>> /\ toClient = <<Head(toClient)>>
               /\ Head(toClient).op = Rpc!ReplyOp(req[t])
<1>1. \A u \in Tasks : u # t => pc[u] \notin {"granted", "reading"}
  BY DEF Rpc!IInv, Rpc!OneConversation, Rpc!Holding
<1> QED
  BY <1>1 DEF Rpc!IInv, Rpc!SocketHasConversation

LEMMA SomebodyReads ==
  ASSUME Rpc!IInv, toServer # <<>>
  PROVE  \E t \in Tasks : pc[t] = "reading"
  BY DEF Rpc!IInv, Rpc!SocketHasConversation

LEMMA JobIsNotReading ==
  ASSUME Rpc!IInv, jobs # <<>>
  PROVE  pc[Head(jobs)] \in {"scheduled", "waiting"}
<1>1. 1 \in 1..Len(jobs) /\ Head(jobs) = jobs[1]
  BY DEF Rpc!IInv, Rpc!TypeOK
<1> QED
  BY <1>1 DEF Rpc!IInv, Rpc!QueuesAreDisjoint

---------------------------------------------------------------------------
(* Where the tasks are. *)

Callers == {"getSwitches", "delete", "install", "packetOut"}

(* What LoopsHaveSwitches says of task t when it is at l. *)
Fits(t, l) ==
  /\ t = "events" => l = Idle \/ (Installing(l) /\ Len(l.todo) = 1)
  /\ t = "policies" => (Installing(l) => l.todo # <<>>)
  /\ t \in Loops => l.at # "packetOut"
  /\ t \in Senders => l.at \in {"idle", "packetOut"}

LEMMA TasksAre ==
  /\ "events" \in Tasks /\ "policies" \in Tasks /\ "events" # "policies"
  /\ \A t \in Tasks : t \in Senders <=> t \notin Loops
  /\ Loops \subseteq Tasks /\ Senders \subseteq Tasks
  BY SendersAreOtherTasks DEF Tasks, Loops

LEMMA LoopsFit ==
  LoopsHaveSwitches <=> \A t \in Tasks : Fits(t, loc[t])
  BY TasksAre DEF LoopsHaveSwitches, Fits, Tasks, Loops

LEMMA LoopsFitNext ==
  LoopsHaveSwitches' <=> \A t \in Tasks : Fits(t, loc'[t])
  BY TasksAre DEF LoopsHaveSwitches, Fits, Tasks, Loops

LEMMA LocShape ==
  ASSUME NEW l \in Locs
  PROVE  /\ l.at \in Callers \cup {"idle", "flushing"}
         /\ l.at = "idle" <=> l = Idle
         /\ Installing(l) =>
              /\ l.todo \in Seq(SwitchIds) /\ l.pol \in Policies
              /\ l = [at |-> l.at, todo |-> l.todo, pol |-> l.pol]
         /\ l.at = "getSwitches" => l.pol \in Policies
         /\ l.at = "packetOut" => l.sw \in SwitchIds
  BY DEF Locs, Idle, Callers, Installing

LEMMA InstallingLoc ==
  ASSUME NEW at \in {"delete", "install", "flushing"}, NEW todo \in Seq(SwitchIds),
         NEW p \in Policies
  PROVE  [at |-> at, todo |-> todo, pol |-> p] \in Locs
  BY DEF Locs

LEMMA HeadOfTodo ==
  ASSUME NEW l \in Locs, Installing(l), l.todo # <<>>
  PROVE  /\ Head(l.todo) \in SwitchIds
         /\ Tail(l.todo) \in Seq(SwitchIds)
  BY LocShape

LEMMA LengthOne ==
  ASSUME NEW S, NEW q \in Seq(S), Len(q) = 1
  PROVE  q # <<>>
  BY EmptySeq

LEMMA FitsHasSwitch ==
  ASSUME NEW t \in Tasks, NEW l \in Locs, Fits(t, l), Installing(l)
  PROVE  l.todo # <<>> /\ t \in Loops
<1>1. l.todo \in Seq(SwitchIds)
  BY LocShape
<1>2. l.at \notin {"idle", "packetOut"} /\ l # Idle
  BY LocShape DEF Installing
<1>3. t \in Loops
  BY <1>2, TasksAre DEF Fits
<1>4. CASE t = "events"
  <2>1. Len(l.todo) = 1
    BY <1>2, <1>4 DEF Fits
  <2> QED
    BY <2>1, <1>1, <1>3, LengthOne
<1>5. CASE t = "policies"
  BY <1>3, <1>5 DEF Fits
<1> QED
  BY <1>3, <1>4, <1>5 DEF Loops

LEMMA RequestIsRequest ==
  ASSUME NEW t \in Tasks, NEW l \in Locs, Fits(t, l), l.at \in Callers
  PROVE  RequestAt(l) \in Rpc!Requests
<1>1. CASE l.at = "getSwitches"
  BY <1>1 DEF RequestAt, Rpc!Requests
<1>2. CASE l.at = "delete"
  <2>1. Head(l.todo) \in SwitchIds
    BY <1>2, FitsHasSwitch, HeadOfTodo DEF Installing
  <2> QED
    BY <1>2, <2>1 DEF RequestAt, Rpc!Requests
<1>3. CASE l.at = "install"
  <2>1. Head(l.todo) \in SwitchIds
    BY <1>3, FitsHasSwitch, HeadOfTodo DEF Installing
  <2>2. l.pol \in Policies
    BY <1>3, LocShape DEF Installing
  <2> QED
    BY <1>3, <2>1, <2>2 DEF RequestAt, InstallRequest, Rpc!Requests
<1>4. CASE l.at = "packetOut"
  <2>1. l.sw \in SwitchIds
    BY <1>4, LocShape
  <2> QED
    BY <1>4, <2>1 DEF RequestAt, Rpc!Requests
<1> QED
  BY <1>1, <1>2, <1>3, <1>4 DEF Callers

LEMMA CallAtCalls ==
  ASSUME NEW t, NEW l, CallAt(t, l), l.at \in Callers
  PROVE  \E h \in 0..1 : Rpc!Call(t, RequestAt(l), h)
<1>1. CASE l.at = "getSwitches"
  BY <1>1 DEF CallAt, RequestAt
<1>2. CASE l.at = "delete"
  BY <1>2 DEF CallAt, RequestAt
<1>3. CASE l.at = "install"
  BY <1>3 DEF CallAt, RequestAt
<1>4. CASE l.at = "packetOut"
  BY <1>4 DEF CallAt, RequestAt
<1> QED
  BY <1>1, <1>2, <1>3, <1>4 DEF Callers

\* What a call changes: only t's own state.
LEMMA CallChanges ==
  ASSUME Rpc!IInv, NEW t \in Tasks, NEW l, CallAt(t, l), l.at \in Callers
  PROVE  /\ Rpc!Free(t)
         /\ pc' = [pc EXCEPT ![t] = "scheduled"]
         /\ req' = [req EXCEPT ![t] = RequestAt(l)]
         /\ pc'[t] = "scheduled" /\ req'[t] = RequestAt(l)
         /\ \A u \in Tasks : u # t => pc'[u] = pc[u] /\ req'[u] = req[u]
         /\ UNCHANGED <<server, switches, wire, toServer, toClient>>
<1>1. PICK h \in 0..1 : Rpc!Call(t, RequestAt(l), h)
  BY CallAtCalls
<1> QED
  BY <1>1 DEF Rpc!Call, Rpc!netVars, Rpc!sockVars, Rpc!IInv, Rpc!TypeOK

---------------------------------------------------------------------------
(* Where a task goes after an answer. *)

LEMMA SeqsOfSet ==
  ASSUME NEW S, IsFiniteSet(S), NEW sws \in SetToSeqs(S)
  PROVE  /\ sws \in Seq(S)
         /\ \A x \in S : \E i \in 1..Len(sws) : sws[i] = x
         /\ S # {} => sws # <<>>
<1> DEFINE D == 1..Cardinality(S)
<1>1. Cardinality(S) \in Nat
  BY FS_CardinalityType
<1>2. sws \in [D -> S] /\ \A i, j \in D : i # j => sws[i] # sws[j]
  BY DEF SetToSeqs
<1>3. sws \in Injection(D, S)
  BY <1>2 DEF Injection, IsInjective
<1>4. Cardinality(D) = Cardinality(S)
  BY <1>1, FS_Interval
<1>5. sws \in Surjection(D, S)
  BY <1>3, <1>4, FS_Injection
<1>6. \A x \in S : \E i \in D : sws[i] = x
  BY <1>5 DEF Surjection
<1>7. sws \in Seq(S) /\ Len(sws) = Cardinality(S)
  BY <1>1, <1>2
<1> QED
  BY <1>6, <1>7, <1>1

LEMMA AfterSwitchGoes ==
  ASSUME NEW t \in Tasks, NEW l \in Locs, Fits(t, l), Installing(l)
  PROVE  LET m == AfterSwitch(l)
         IN  /\ m \in Locs
             /\ Fits(t, m)
             /\ m.at \in {"idle", "delete"}
             /\ m # Idle => m.pol = l.pol
             /\ t = "events" => m = Idle
<1>1. l.todo \in Seq(SwitchIds) /\ l.todo # <<>> /\ l.pol \in Policies /\ t \in Loops
  BY LocShape, FitsHasSwitch
<1>2. Tail(l.todo) \in Seq(SwitchIds) /\ Len(Tail(l.todo)) = Len(l.todo) - 1
  BY <1>1
<1>3. CASE Tail(l.todo) = <<>>
  BY <1>3, <1>1, TasksAre DEF AfterSwitch, Locs, Idle, Fits, Installing, Loops
<1>4. CASE Tail(l.todo) # <<>>
  <2>1. Len(l.todo) # 1 /\ l # Idle
    <3>1. Len(Tail(l.todo)) # 0
      BY <1>4, <1>2, EmptySeq
    <3>2. l # Idle
      BY LocShape DEF Installing
    <3> QED
      BY <3>1, <3>2, <1>1, <1>2
  <2>2. t = "policies"
    BY <2>1, <1>1 DEF Fits, Loops
  <2>3. AfterSwitch(l) = [at |-> "delete", todo |-> Tail(l.todo), pol |-> l.pol]
    BY <1>4 DEF AfterSwitch
  <2>4. AfterSwitch(l) \in Locs
    BY <2>3, <1>1, <1>2, InstallingLoc
  <2> QED
    BY <1>4, <2>2, <2>3, <2>4, TasksAre DEF Fits, Loops
<1> QED
  BY <1>3, <1>4

LEMMA AfterGoes ==
  ASSUME NEW t \in Tasks, NEW l \in Locs, Fits(t, l), l.at \in Callers,
         NEW r, r.found \in SUBSET SwitchIds, NEW m \in After(l, r)
  PROVE  /\ m \in Locs
         /\ Fits(t, m)
         /\ m.at \notin {"getSwitches", "packetOut"}
         /\ m # Idle => m.pol = l.pol
         /\ t = "events" /\ m # Idle => Installing(l) /\ m.todo = l.todo
<1>0. Idle \in Locs /\ Idle.at = "idle" /\ Fits(t, Idle)
  BY TasksAre DEF Locs, Idle, Fits, Installing, Loops
<1>1. CASE l.at = "getSwitches"
  <2>1. t = "policies"
    BY <1>1, TasksAre, LocShape DEF Fits, Loops, Installing
  <2>2. CASE r.found = {}
    BY <1>1, <2>2, <1>0 DEF After
  <2>3. CASE r.found # {}
    <3>1. PICK sws \in SetToSeqs(r.found) :
            m = [at |-> "delete", todo |-> sws, pol |-> l.pol]
      BY <1>1, <2>3 DEF After
    <3>2. IsFiniteSet(r.found)
      BY SwitchIdsAreFinite, FS_Subset
    <3>3. sws \in Seq(r.found) /\ sws # <<>>
      BY <2>3, <3>2, SeqsOfSet
    <3>4. sws \in Seq(SwitchIds)
      BY <3>3
    <3>5. m \in Locs
      BY <1>1, <3>1, <3>4, InstallingLoc, LocShape
    <3> QED
      BY <2>1, <3>1, <3>3, <3>5, TasksAre DEF Fits, Loops
  <2> QED
    BY <2>2, <2>3
<1>2. CASE l.at \in {"delete", "install"}
  <2>1. /\ Installing(l) /\ t \in Loops
        /\ l.todo \in Seq(SwitchIds) /\ l.todo # <<>> /\ l.pol \in Policies
    BY <1>2, LocShape, FitsHasSwitch DEF Installing
  <2>2. CASE r.found = {}
    <3>1. m = [at |-> "flushing", todo |-> l.todo, pol |-> l.pol]
      BY <1>2, <2>2 DEF After
    <3> QED
      BY <3>1, <2>1, InstallingLoc, LocShape, TasksAre DEF Fits, Installing, Loops
  <2>3. CASE r.found # {} /\ l.at = "delete"
    <3>1. m = [at |-> "install", todo |-> l.todo, pol |-> l.pol]
      BY <2>3 DEF After
    <3> QED
      BY <3>1, <2>1, InstallingLoc, LocShape, TasksAre DEF Fits, Installing, Loops
  <2>4. CASE r.found # {} /\ l.at = "install"
    <3>1. m = AfterSwitch(l)
      BY <2>4 DEF After
    <3> QED
      BY <3>1, <2>1, AfterSwitchGoes
  <2> QED
    BY <1>2, <2>2, <2>3, <2>4
<1>3. CASE l.at = "packetOut"
  BY <1>3, <1>0 DEF After
<1> QED
  BY <1>1, <1>2, <1>3 DEF Callers

---------------------------------------------------------------------------
(* Every step keeps the types and where the tasks are, and is one of PluginRpc. *)

CtlTypeOK ==
  /\ table \in [SwitchIds -> SUBSET AllFlows]
  /\ events \in Seq(Event)
  /\ switchHash \subseteq SwitchIds
  /\ fdd \in Policies
  /\ policies \in Seq(Policies)
  /\ pushed \in Policies
  /\ loc \in [Tasks -> Locs]
  /\ raced \subseteq SwitchIds

Control ==
  /\ CtlTypeOK
  /\ server # "dead"
  /\ CallsMatchTasks
  /\ LoopsHaveSwitches
  /\ LoopsInstallCurrent

CtlInv == Control /\ Rpc!IInv

LEMMA IInvParts ==
  IInv <=> Control /\ Rpc!IInv /\ TablesWillBeCurrent
  BY DEF IInv, Control, CtlTypeOK, TypeOK, Rpc!IInv, Event

LEMMA TaskMoves ==
  ASSUME CtlInv, NEW t \in Tasks, NEW m \in Locs, Fits(t, m),
         loc' = [loc EXCEPT ![t] = m],
         \A u \in Tasks : u # t => pc'[u] = pc[u] /\ req'[u] = req[u],
         IF pc'[t] \in {"idle", "raised"} THEN m.at \notin {"getSwitches", "packetOut"}
         ELSE m.at \notin {"idle", "flushing"} /\ req'[t] = RequestAt(m)
  PROVE  loc' \in [Tasks -> Locs] /\ CallsMatchTasks' /\ LoopsHaveSwitches'
<1>1. /\ loc' \in [Tasks -> Locs]
      /\ loc'[t] = m
      /\ \A u \in Tasks : u # t => loc'[u] = loc[u]
  BY DEF CtlInv, Control, CtlTypeOK
<1>2. ASSUME NEW u \in Tasks, u # t
      PROVE  IF pc'[u] \in {"idle", "raised"}
             THEN loc'[u].at \notin {"getSwitches", "packetOut"}
             ELSE loc'[u].at \notin {"idle", "flushing"} /\ req'[u] = RequestAt(loc'[u])
  BY <1>1, <1>2 DEF CtlInv, Control, CallsMatchTasks, Rpc!Free
<1>3. CallsMatchTasks'
  BY <1>1, <1>2 DEF CallsMatchTasks, Rpc!Free, RequestAt, InstallRequest
<1>4. \A u \in Tasks : Fits(u, loc'[u])
  BY <1>1, LoopsFit DEF CtlInv, Control
<1> QED
  BY <1>1, <1>3, <1>4, LoopsFitNext

LEMMA NobodyMoves ==
  ASSUME CtlInv, loc' = loc,
         \A t \in Tasks : /\ pc'[t] \in {"idle", "raised"} <=> pc[t] \in {"idle", "raised"}
                          /\ req'[t] = req[t]
  PROVE  loc' \in [Tasks -> Locs] /\ CallsMatchTasks' /\ LoopsHaveSwitches'
<1>1. CallsMatchTasks'
  BY DEF CtlInv, Control, CallsMatchTasks, Rpc!Free, RequestAt, InstallRequest
<1> QED
  BY <1>1, LoopsFit, LoopsFitNext DEF CtlInv, Control, CtlTypeOK

LEMMA PolicyKept ==
  ASSUME CtlInv, NEW t \in Tasks, NEW m, loc' = [loc EXCEPT ![t] = m],
         UNCHANGED <<fdd, raced>>, loc[t] # Idle, m # Idle => m.pol = loc[t].pol,
         t = "events" /\ m # Idle => m.todo = loc[t].todo
  PROVE  LoopsInstallCurrent'
<1>1. loc \in [Tasks -> Locs] /\ LoopsInstallCurrent
  BY DEF CtlInv, Control, CtlTypeOK
<1>2. loc'[t] = m /\ \A u \in Tasks : u # t => loc'[u] = loc[u]
  BY <1>1
<1> QED
  BY <1>1, <1>2, TasksAre DEF LoopsInstallCurrent, BeingBroughtUp, Idle

LEMMA PolicyUntouched ==
  ASSUME LoopsInstallCurrent, UNCHANGED <<fdd, raced>>,
         loc'["events"] = loc["events"], loc'["policies"] = loc["policies"]
  PROVE  LoopsInstallCurrent'
  BY DEF LoopsInstallCurrent, BeingBroughtUp, Idle

\* A step at which no task moves, and no policy becomes current.
LEMMA OthersStep ==
  ASSUME CtlInv, UNCHANGED <<loc, fdd, raced>>, server' # "dead",
         \A t \in Tasks : /\ pc'[t] \in {"idle", "raised"} <=> pc[t] \in {"idle", "raised"}
                          /\ req'[t] = req[t],
         table' \in [SwitchIds -> SUBSET AllFlows], events' \in Seq(Event),
         switchHash' \subseteq SwitchIds, policies' \in Seq(Policies), pushed' \in Policies
  PROVE  Control'
<1>1. loc' \in [Tasks -> Locs] /\ CallsMatchTasks' /\ LoopsHaveSwitches'
  BY NobodyMoves
<1>2. LoopsInstallCurrent'
  BY PolicyUntouched DEF CtlInv, Control
<1> QED
  BY <1>1, <1>2 DEF CtlInv, Control, CtlTypeOK

LEMMA ReadReplyReads ==
  ASSUME CtlInv, NEW t \in Tasks, ReadReply(t)
  PROVE  /\ Handled(t)
         /\ pc' = [pc EXCEPT ![t] = "idle"]
         /\ req' = [req EXCEPT ![t] = NoRequest]
         /\ toClient # <<>> /\ Head(toClient).found \in SUBSET SwitchIds
         /\ loc[t].at \in Callers
         /\ \E m \in After(loc[t], Head(toClient)) : loc' = [loc EXCEPT ![t] = m]
         /\ \A u \in Tasks : u # t => pc[u] \notin {"granted", "reading"}
<1>1. Rpc!ReadReply(t) /\ pc[t] = "reading" /\ toClient # <<>>
  BY DEF ReadReply, Rpc!ReadReply
<1>2. /\ Head(toClient).op = Rpc!ReplyOp(req[t])
      /\ toServer = <<>>
      /\ \A u \in Tasks : u # t => pc[u] \notin {"granted", "reading"}
  BY <1>1, Conversation DEF CtlInv, Control
<1>3. Head(toClient) \in Rpc!Replies
  BY <1>1, HeadTailProperties DEF CtlInv, Rpc!IInv, Rpc!TypeOK
<1>4. loc[t].at \in Callers
  BY <1>1, LocShape DEF CtlInv, Control, CtlTypeOK, CallsMatchTasks, Rpc!Free
<1>5. \E m \in After(loc[t], Head(toClient)) : loc' = [loc EXCEPT ![t] = m]
  BY DEF ReadReply
<1> QED
  BY <1>1, <1>2, <1>3, <1>4, <1>5 DEF Rpc!ReadReply, Rpc!Replies, Handled

LEMMA ReadReplyControl ==
  ASSUME CtlInv, NEW t \in Tasks, ReadReply(t)
  PROVE  Control'
<1>1. PICK m \in After(loc[t], Head(toClient)) : loc' = [loc EXCEPT ![t] = m]
  BY ReadReplyReads
<1>2. loc[t] \in Locs /\ Fits(t, loc[t]) /\ loc[t] # Idle
  BY ReadReplyReads, LoopsFit, LocShape DEF CtlInv, Control, CtlTypeOK, Callers
<1>3. /\ m \in Locs /\ Fits(t, m)
      /\ m.at \notin {"getSwitches", "packetOut"}
      /\ m # Idle => m.pol = loc[t].pol
      /\ t = "events" /\ m # Idle => m.todo = loc[t].todo
  BY <1>2, ReadReplyReads, AfterGoes
<1>4. /\ pc'[t] = "idle"
      /\ \A u \in Tasks : u # t => pc'[u] = pc[u] /\ req'[u] = req[u]
  BY ReadReplyReads DEF CtlInv, Rpc!IInv, Rpc!TypeOK
<1>5. loc' \in [Tasks -> Locs] /\ CallsMatchTasks' /\ LoopsHaveSwitches'
  BY <1>1, <1>3, <1>4, TaskMoves
<1>6. LoopsInstallCurrent'
  BY <1>1, <1>2, <1>3, PolicyKept DEF ReadReply
<1> QED
  BY <1>5, <1>6 DEF ReadReply, Rpc!ReadReply, CtlInv, Control, CtlTypeOK

LEMMA FlushedControl ==
  ASSUME CtlInv, NEW t \in Tasks, Flushed(t)
  PROVE  Control'
<1> DEFINE m == AfterSwitch(loc[t])
<1>1. /\ loc' = [loc EXCEPT ![t] = m]
      /\ loc[t].at = "flushing"
      /\ UNCHANGED <<pc, req>>
  BY DEF Flushed, rpcVars
<1>2. loc[t] \in Locs /\ Fits(t, loc[t]) /\ Installing(loc[t]) /\ loc[t] # Idle
  BY <1>1, LoopsFit DEF CtlInv, Control, CtlTypeOK, Installing, Idle
<1>3. /\ m \in Locs /\ Fits(t, m)
      /\ m.at \in {"idle", "delete"}
      /\ m # Idle => m.pol = loc[t].pol
      /\ t = "events" => m = Idle
  BY <1>2, AfterSwitchGoes
<1>4. pc[t] \in {"idle", "raised"}
  BY <1>1 DEF CtlInv, Control, CallsMatchTasks, Rpc!Free
<1>5. loc' \in [Tasks -> Locs] /\ CallsMatchTasks' /\ LoopsHaveSwitches'
  BY <1>1, <1>3, <1>4, TaskMoves
<1>6. LoopsInstallCurrent'
  BY <1>1, <1>2, <1>3, PolicyKept DEF Flushed
<1> QED
  BY <1>5, <1>6 DEF Flushed, rpcVars, CtlInv, Control, CtlTypeOK

LEMMA ContinueControl ==
  ASSUME CtlInv, NEW t \in Tasks, Continue(t)
  PROVE  Control'
<1> DEFINE l == loc[t]
<1>1. CallAt(t, l) /\ l.at \in {"delete", "install"} /\ UNCHANGED ctlVars
  BY DEF Continue
<1>2. l \in Locs /\ Fits(t, l) /\ loc' = [loc EXCEPT ![t] = l] /\ l.at \in Callers
  BY <1>1, LoopsFit DEF CtlInv, Control, CtlTypeOK, ctlVars, Callers
<1>3. /\ pc'[t] = "scheduled" /\ req'[t] = RequestAt(l)
      /\ \A u \in Tasks : u # t => pc'[u] = pc[u] /\ req'[u] = req[u]
      /\ UNCHANGED server
  BY <1>1, <1>2, CallChanges DEF CtlInv
<1> HIDE DEF l
<1>4. loc' \in [Tasks -> Locs] /\ CallsMatchTasks' /\ LoopsHaveSwitches'
  BY <1>1, <1>2, <1>3, TaskMoves DEF Callers
<1>5. LoopsInstallCurrent'
  BY <1>1, PolicyUntouched DEF CtlInv, Control, ctlVars
<1> QED
  BY <1>1, <1>3, <1>4, <1>5 DEF ctlVars, CtlInv, Control, CtlTypeOK

\* A task that was idle begins with a call.
LEMMA StartControl ==
  ASSUME CtlInv, NEW t \in Tasks, NEW l \in Locs, Fits(t, l), l.at \in Callers,
         Start(t, l)
  PROVE  /\ loc' \in [Tasks -> Locs] /\ CallsMatchTasks' /\ LoopsHaveSwitches'
         /\ loc'[t] = l /\ \A u \in Tasks : u # t => loc'[u] = loc[u]
         /\ server' # "dead"
<1>1. loc' = [loc EXCEPT ![t] = l] /\ CallAt(t, l)
  BY DEF Start
<1>2. /\ pc'[t] = "scheduled" /\ req'[t] = RequestAt(l)
      /\ \A u \in Tasks : u # t => pc'[u] = pc[u] /\ req'[u] = req[u]
      /\ UNCHANGED server
  BY <1>1, CallChanges DEF CtlInv
<1>3. loc' \in [Tasks -> Locs] /\ CallsMatchTasks' /\ LoopsHaveSwitches'
  BY <1>1, <1>2, TaskMoves DEF Callers
<1> QED
  BY <1>1, <1>2, <1>3 DEF CtlInv, Control, CtlTypeOK

LEMMA HeadEvent ==
  ASSUME CtlTypeOK, events # <<>>
  PROVE  /\ Head(events) \in Event
         /\ Tail(events) \in Seq(Event)
         /\ Head(events).sw \in SwitchIds
<1>1. Head(events) \in Event /\ Tail(events) \in Seq(Event)
  BY HeadTailProperties DEF CtlTypeOK
<1> QED
  BY <1>1 DEF Event

LEMMA BringUpLoc ==
  ASSUME NEW s \in SwitchIds, NEW p \in Policies
  PROVE  LET l == [at |-> "delete", todo |-> <<s>>, pol |-> p]
         IN  l \in Locs /\ Fits("events", l) /\ l.at \in Callers /\ l # Idle
<1>1. <<s>> \in Seq(SwitchIds) /\ Len(<<s>>) = 1
  OBVIOUS
<1>2. [at |-> "delete", todo |-> <<s>>, pol |-> p] \in Locs
  BY <1>1, InstallingLoc
<1> QED
  BY <1>1, <1>2, TasksAre DEF Fits, Installing, Callers, Loops, Idle

LEMMA HandleEventControl ==
  ASSUME CtlInv, HandleEvent
  PROVE  Control'
<1> DEFINE e == Head(events)
           l == [at |-> "delete", todo |-> <<e.sw>>, pol |-> fdd]
<1>1. /\ events # <<>> /\ events' = Tail(events)
      /\ loc["events"] = Idle
      /\ UNCHANGED <<table, fdd, policies, pushed>>
  BY DEF HandleEvent, Handle
<1>2. /\ e.sw \in SwitchIds /\ events' \in Seq(Event) /\ fdd \in Policies
      /\ switchHash' \subseteq SwitchIds
  <2>1. e.sw \in SwitchIds /\ Tail(events) \in Seq(Event)
    BY <1>1, HeadEvent DEF CtlInv, Control
  <2>2. switchHash' = HashAfter(e)
    BY DEF HandleEvent, Handle
  <2> QED
    BY <2>1, <2>2, <1>1 DEF HashAfter, CtlInv, Control, CtlTypeOK
<1>3. CASE e.kind = "SwitchUp"
  <2>1. Start("events", l) /\ raced' = raced \ {e.sw}
    BY <1>3 DEF HandleEvent, Handle
  <2>2. l \in Locs /\ Fits("events", l) /\ l.at \in Callers /\ l # Idle
    BY <1>2, BringUpLoc
  <2>3. /\ loc' \in [Tasks -> Locs] /\ CallsMatchTasks' /\ LoopsHaveSwitches'
        /\ loc'["events"] = l /\ \A u \in Tasks : u # "events" => loc'[u] = loc[u]
        /\ server' # "dead"
    BY <2>1, <2>2, StartControl, TasksAre
  <2>4. LoopsInstallCurrent'
    BY <1>1, <2>3, TasksAre DEF CtlInv, Control, LoopsInstallCurrent, Idle
  <2> QED
    BY <1>1, <1>2, <2>1, <2>3, <2>4 DEF CtlInv, Control, CtlTypeOK
<1>4. CASE e.kind # "SwitchUp"
  <2>1. UNCHANGED <<rpcVars, loc, raced>>
    BY <1>4 DEF HandleEvent, Handle
  <2> QED
    BY <1>1, <1>2, <2>1, OthersStep DEF rpcVars, CtlInv, Control, CtlTypeOK
<1> QED
  BY <1>3, <1>4

LEMMA UpdateControl ==
  ASSUME CtlInv, Update
  PROVE  Control'
<1> DEFINE p == Head(policies)
           l == [at |-> "getSwitches", pol |-> p]
<1>1. /\ policies # <<>> /\ policies' = Tail(policies)
      /\ loc["policies"] = Idle
      /\ fdd' = p
      /\ Start("policies", l)
      /\ raced' = BeingBroughtUp
      /\ UNCHANGED <<table, events, switchHash, pushed>>
  BY DEF Update
<1>2. p \in Policies /\ policies' \in Seq(Policies)
  BY <1>1 DEF CtlInv, Control, CtlTypeOK
<1>3. l \in Locs /\ Fits("policies", l) /\ l.at \in Callers
  BY <1>2, TasksAre DEF Locs, Fits, Installing, Callers, Loops, Idle
<1>4. /\ loc' \in [Tasks -> Locs] /\ CallsMatchTasks' /\ LoopsHaveSwitches'
      /\ loc'["policies"] = l /\ \A u \in Tasks : u # "policies" => loc'[u] = loc[u]
      /\ server' # "dead"
  BY <1>1, <1>3, StartControl, TasksAre
<1>5. BeingBroughtUp' = raced'
  BY <1>1, <1>4, TasksAre DEF BeingBroughtUp, Idle
<1>6. LoopsInstallCurrent'
  BY <1>1, <1>4, <1>5 DEF LoopsInstallCurrent
<1>7. raced' \subseteq SwitchIds
  <2>1. CASE loc["events"] = Idle
    BY <2>1, <1>1 DEF BeingBroughtUp
  <2>2. CASE loc["events"] # Idle
    <3>1. /\ loc["events"] \in Locs /\ Installing(loc["events"])
          /\ Fits("events", loc["events"])
      BY <2>2, TasksAre, LoopsFit DEF CtlInv, Control, CtlTypeOK, LoopsHaveSwitches
    <3> QED
      BY <2>2, <3>1, <1>1, HeadOfTodo, FitsHasSwitch, TasksAre DEF BeingBroughtUp
  <2> QED
    BY <2>1, <2>2
<1> QED
  BY <1>1, <1>2, <1>4, <1>6, <1>7 DEF CtlInv, Control, CtlTypeOK

LEMMA PacketOutControl ==
  ASSUME CtlInv, NEW t \in Senders, NEW s \in SwitchIds, PacketOut(t, s)
  PROVE  Control'
<1> DEFINE l == [at |-> "packetOut", sw |-> s]
<1>1. Start(t, l) /\ UNCHANGED <<table, events, switchHash, fdd, policies, pushed, raced>>
  BY DEF PacketOut
<1>2. l \in Locs /\ Fits(t, l) /\ l.at \in Callers
  BY TasksAre DEF Locs, Fits, Installing, Callers, Loops
<1>3. /\ loc' \in [Tasks -> Locs] /\ CallsMatchTasks' /\ LoopsHaveSwitches'
      /\ \A u \in Tasks : u # t => loc'[u] = loc[u]
      /\ server' # "dead"
  BY <1>1, <1>2, StartControl, TasksAre
<1>4. LoopsInstallCurrent'
  <2>1. loc'["events"] = loc["events"] /\ loc'["policies"] = loc["policies"]
    BY <1>3, TasksAre DEF Loops
  <2> QED
    BY <1>1, <2>1, PolicyUntouched DEF CtlInv, Control
<1> QED
  BY <1>1, <1>3, <1>4 DEF CtlInv, Control, CtlTypeOK

LEMMA NewEvent ==
  ASSUME CtlTypeOK, NEW k \in {"SwitchUp", "SwitchDown"}, NEW s \in SwitchIds
  PROVE  Append(events, [kind |-> k, sw |-> s]) \in Seq(Event)
<1>1. [kind |-> k, sw |-> s] \in Event
  BY DEF Event
<1> QED
  BY <1>1 DEF CtlTypeOK

LEMMA NetworkControl ==
  ASSUME CtlInv, NEW s \in SwitchIds, SwitchUp(s) \/ SwitchDown(s)
  PROVE  Control'
<1>1. events' \in Seq(Event)
  BY NewEvent DEF SwitchUp, SwitchDown, CtlInv, Control
<1>2. UNCHANGED <<server, pc, req>>
  BY DEF SwitchUp, SwitchDown, Rpc!SwitchConnects, Rpc!SwitchDisconnects, Rpc!taskVars
<1>3. UNCHANGED <<table, switchHash, fdd, policies, pushed, loc, query, raced>>
  BY DEF SwitchUp, SwitchDown
<1> QED
  BY <1>1, <1>2, <1>3, OthersStep DEF CtlInv, Control, CtlTypeOK

LEMMA FlowKinds ==
  /\ \A f \in AllFlows : f.kind = "flow" /\ f # DeleteAll /\ f # PacketOutMsg
  /\ DeleteAll # PacketOutMsg
  /\ DeleteAll.kind = "delete_all" /\ PacketOutMsg.kind = "packet_out"
<1>1. DeleteAll.kind = "delete_all" /\ PacketOutMsg.kind = "packet_out"
  BY DEF DeleteAll, PacketOutMsg
<1>2. \A f \in AllFlows : f.kind = "flow"
  BY DEF AllFlows, FlowsOf, Flow
<1> QED
  BY <1>1, <1>2

LEMMA WireShape ==
  ASSUME Rpc!IInv, NEW s \in SwitchIds
  PROVE  wire[s] \in Seq(AllFlows \cup {DeleteAll, PacketOutMsg})
  BY DEF Rpc!IInv, Rpc!TypeOK

LEMMA ReceivesControl ==
  ASSUME CtlInv, NEW s \in SwitchIds, SwitchReceives(s)
  PROVE  Control'
<1>1. Head(wire[s]) \in AllFlows \cup {DeleteAll, PacketOutMsg}
  BY WireShape, HeadTailProperties DEF CtlInv, SwitchReceives, Rpc!SwitchReceives
<1>2. Apply(Head(wire[s]), table[s]) \in SUBSET AllFlows
  BY <1>1, FlowKinds DEF Apply, CtlInv, Control, CtlTypeOK
<1>3. table' \in [SwitchIds -> SUBSET AllFlows]
  BY <1>2 DEF SwitchReceives, CtlInv, Control, CtlTypeOK
<1> QED
  BY <1>3, OthersStep
     DEF SwitchReceives, Rpc!SwitchReceives, Rpc!taskVars, CtlInv, Control, CtlTypeOK

LEMMA PushControl ==
  ASSUME CtlInv, PushPolicy
  PROVE  Control'
<1>1. pushed + 1 \in Policies
  BY ControllerBoundsAreNat DEF PushPolicy, Policies, CtlInv, Control, CtlTypeOK
<1>2. policies' \in Seq(Policies) /\ pushed' \in Policies
  BY <1>1 DEF PushPolicy, CtlInv, Control, CtlTypeOK
<1> QED
  BY <1>2, OthersStep DEF PushPolicy, rpcVars, CtlInv, Control, CtlTypeOK

LEMMA QueryControl ==
  ASSUME CtlInv, \/ \E s \in SwitchIds : Query(s)
                 \/ HandleTrx
  PROVE  Control'
  BY OthersStep DEF Query, HandleTrx, rpcVars, CtlInv, Control, CtlTypeOK

LEMMA RpcStepKeepsCalls ==
  ASSUME CtlInv, RpcStep
  PROVE  /\ server' # "dead"
         /\ \A t \in Tasks : /\ pc'[t] \in {"idle", "raised"} <=> pc[t] \in {"idle", "raised"}
                             /\ req'[t] = req[t]
<1>1. CASE Rpc!ServerListens \/ Rpc!Connect \/ Rpc!HandleRequest
  BY <1>1 DEF Rpc!ServerListens, Rpc!Connect, Rpc!HandleRequest, Rpc!taskVars, CtlInv, Control
<1>2. ASSUME NEW t \in Tasks, Rpc!Hop(t)
      PROVE  UNCHANGED <<server, pc, req>>
  BY <1>2 DEF Rpc!Hop, Rpc!taskVars
<1>3. ASSUME NEW t \in Tasks, Rpc!ClearToRead(t)
      PROVE  /\ UNCHANGED <<server, req>>
             /\ \E b \in {"waiting", "granted"} : pc' = [pc EXCEPT ![t] = b]
             /\ pc[t] \in {"scheduled", "waiting"}
  BY <1>3, JobIsNotReading DEF Rpc!ClearToRead, CtlInv
<1>4. ASSUME NEW t \in Tasks, Rpc!WriteRequest(t)
      PROVE  /\ UNCHANGED <<server, req>>
             /\ pc' = [pc EXCEPT ![t] = "reading"]
             /\ pc[t] = "granted"
  BY <1>4 DEF Rpc!WriteRequest
<1>5. pc \in [Tasks -> Rpc!Phases]
  BY DEF CtlInv, Rpc!IInv, Rpc!TypeOK
<1> QED
  BY <1>1, <1>2, <1>3, <1>4, <1>5 DEF RpcStep, CtlInv, Control

LEMMA RpcStepControl ==
  ASSUME CtlInv, RpcStep
  PROVE  Control'
<1>1. UNCHANGED <<table, events, switchHash, fdd, policies, pushed, loc, raced>>
  BY DEF RpcStep, ctlVars
<1>2. /\ table' \in [SwitchIds -> SUBSET AllFlows] /\ events' \in Seq(Event)
      /\ switchHash' \subseteq SwitchIds
      /\ policies' \in Seq(Policies) /\ pushed' \in Policies
  BY <1>1 DEF CtlInv, Control, CtlTypeOK
<1> QED
  BY <1>1, <1>2, RpcStepKeepsCalls, OthersStep

LEMMA NextControl ==
  ASSUME CtlInv, [Next]_vars
  PROVE  Control'
<1>1. ASSUME NEW t \in Tasks, TaskStep(t) PROVE Control'
  BY <1>1, ReadReplyControl, FlushedControl, ContinueControl DEF TaskStep
<1>2. CASE UNCHANGED vars
  BY <1>2, OthersStep DEF vars, rpcVars, ctlVars, CtlInv, Control, CtlTypeOK
<1> QED
  BY <1>1, <1>2, NetworkControl, ReceivesControl, PushControl, HandleEventControl,
     UpdateControl, PacketOutControl, QueryControl, RpcStepControl DEF Next

LEMMA InitControl ==
  ASSUME Init
  PROVE  Control
<1>1. /\ loc = [t \in Tasks |-> Idle] /\ Idle \in Locs /\ Idle.at = "idle"
      /\ pc = [t \in Tasks |-> "idle"] /\ server = "launching"
  BY DEF Init, Rpc!Init, Idle, Locs
<1>2. CtlTypeOK
  BY <1>1, ControllerBoundsAreNat DEF Init, CtlTypeOK, Policies
<1> QED
  BY <1>1, <1>2, TasksAre DEF Control, CallsMatchTasks, LoopsHaveSwitches, Installing,
     LoopsInstallCurrent, BeingBroughtUp, Rpc!Free

---------------------------------------------------------------------------
(* Every step is one of PluginRpc or leaves its variables unchanged. *)

LEMMA CallIsRpc ==
  ASSUME NEW t \in Tasks, NEW l \in Locs, Fits(t, l), l.at \in Callers, CallAt(t, l)
  PROVE  Rpc!Next
<1>1. RequestAt(l) \in Rpc!Requests
  BY RequestIsRequest
<1>2. \E h \in 0..1 : Rpc!Call(t, RequestAt(l), h)
  BY CallAtCalls
<1> QED
  BY <1>1, <1>2 DEF Rpc!Next

LEMMA NextIsRpc ==
  ASSUME CtlInv, [Next]_vars
  PROVE  [Rpc!Next]_(Rpc!vars)
<1>1. ASSUME NEW s \in SwitchIds, SwitchUp(s) \/ SwitchDown(s) \/ SwitchReceives(s)
      PROVE  Rpc!Next
  BY <1>1 DEF SwitchUp, SwitchDown, SwitchReceives, Rpc!Next
<1>2. CASE PushPolicy \/ (\E s \in SwitchIds : Query(s)) \/ HandleTrx
  BY <1>2 DEF PushPolicy, Query, HandleTrx, rpcVars, Rpc!vars
<1>3. CASE HandleEvent
  <2> DEFINE e == Head(events)
             l == [at |-> "delete", todo |-> <<e.sw>>, pol |-> fdd]
  <2>1. CASE e.kind = "SwitchUp"
    <3>1. CallAt("events", l)
      BY <1>3, <2>1 DEF HandleEvent, Handle, Start
    <3>2. e.sw \in SwitchIds /\ fdd \in Policies
      BY <1>3, HeadEvent DEF HandleEvent, Handle, CtlInv, Control, CtlTypeOK
    <3> QED
      BY <3>1, <3>2, BringUpLoc, CallIsRpc, TasksAre
  <2>2. CASE e.kind # "SwitchUp"
    BY <1>3, <2>2 DEF HandleEvent, Handle, rpcVars, Rpc!vars
  <2> QED
    BY <2>1, <2>2
<1>4. CASE Update
  <2> DEFINE l == [at |-> "getSwitches", pol |-> Head(policies)]
  <2>1. CallAt("policies", l)
    BY <1>4 DEF Update, Start
  <2>2. Head(policies) \in Policies
    BY <1>4 DEF Update, CtlInv, Control, CtlTypeOK
  <2>3. l \in Locs /\ Fits("policies", l) /\ l.at \in Callers
    BY <2>2, TasksAre DEF Locs, Fits, Installing, Callers, Loops, Idle
  <2> QED
    BY <2>1, <2>3, CallIsRpc, TasksAre
<1>5. ASSUME NEW t \in Tasks, TaskStep(t)
      PROVE  [Rpc!Next]_(Rpc!vars)
  <2>1. CASE ReadReply(t)
    BY <2>1 DEF ReadReply, Rpc!Next, Rpc!TaskStep
  <2>2. CASE Flushed(t)
    BY <2>2 DEF Flushed, rpcVars, Rpc!vars
  <2>3. CASE Continue(t)
    BY <2>3, CallIsRpc, LoopsFit DEF Continue, CtlInv, Control, CtlTypeOK, Callers
  <2> QED
    BY <1>5, <2>1, <2>2, <2>3 DEF TaskStep
<1>6. ASSUME NEW t \in Senders, NEW s \in SwitchIds, PacketOut(t, s)
      PROVE  Rpc!Next
  <2> DEFINE l == [at |-> "packetOut", sw |-> s]
  <2>1. CallAt(t, l)
    BY <1>6 DEF PacketOut, Start
  <2>2. l \in Locs /\ Fits(t, l) /\ l.at \in Callers
    BY TasksAre DEF Locs, Fits, Installing, Callers, Loops
  <2> QED
    BY <2>1, <2>2, CallIsRpc, TasksAre
<1>7. CASE RpcStep
  BY <1>7 DEF RpcStep, Rpc!Next, Rpc!TaskStep
<1>8. CASE UNCHANGED vars
  BY <1>8 DEF vars, rpcVars, Rpc!vars
<1> QED
  BY <1>1, <1>2, <1>3, <1>4, <1>5, <1>6, <1>7, <1>8 DEF Next

LEMMA CtlInductive == Spec => []CtlInv
<1>1. Init => CtlInv
  BY InitControl, RpcInit DEF CtlInv, Init
<1>2. CtlInv /\ [Next]_vars => CtlInv'
  <2> SUFFICES ASSUME CtlInv, [Next]_vars PROVE CtlInv'
    OBVIOUS
  <2>1. [Rpc!Next]_(Rpc!vars)
    BY NextIsRpc
  <2>2. Rpc!IInv'
    BY <2>1, RpcKeeps DEF CtlInv
  <2> QED
    BY <2>2, NextControl DEF CtlInv
<1> QED
  BY <1>1, <1>2, PTL DEF Spec

(* The controller's own state, and the plug-in's, keep their types: every loop
   holds a list of switches and a policy that was pushed. *)
THEOREM TypeCorrect == Spec => []TypeOK
<1>1. CtlInv => TypeOK
  BY DEF CtlInv, Control, CtlTypeOK, TypeOK, Rpc!IInv, Event
<1> QED
  BY <1>1, CtlInductive, PTL

---------------------------------------------------------------------------
(* What is on the way to a switch. *)

ControllerMessages == AllFlows \cup {DeleteAll, PacketOutMsg}

LEMMA SameWire ==
  ASSUME NEW s, wire'[s] = wire[s], table'[s] = table[s], fdd' = fdd
  PROVE  /\ NoOldFlow(s) <=> NoOldFlow(s)'
         /\ EveryFlow(s) <=> EveryFlow(s)'
  BY DEF NoOldFlow, EveryFlow, FlowsOf, Flow, DeleteAll

LEMMA Appended ==
  ASSUME NEW w \in Seq(ControllerMessages), NEW ms \in Seq(ControllerMessages)
  PROVE  /\ w \o ms \in Seq(ControllerMessages)
         /\ Len(w) \in Nat /\ Len(ms) \in Nat
         /\ Len(w \o ms) = Len(w) + Len(ms)
         /\ \A i \in 1..Len(w) : (w \o ms)[i] = w[i]
         /\ \A i \in 1..Len(ms) : (w \o ms)[Len(w) + i] = ms[i]
         /\ \A i \in 1..Len(w \o ms) :
              i > Len(w) => i - Len(w) \in 1..Len(ms) /\ (w \o ms)[i] = ms[i - Len(w)]
  OBVIOUS

\* Messages that neither delete nor carry another policy leave s as it will be.
LEMMA SentKeeps ==
  ASSUME NEW s, NEW ms \in Seq(ControllerMessages), wire[s] \in Seq(ControllerMessages),
         wire'[s] = wire[s] \o ms, table'[s] = table[s], fdd' = fdd,
         \A i \in 1..Len(ms) : ms[i].kind = "flow" => ms[i] \in FlowsOf(fdd),
         \A i \in 1..Len(ms) : ms[i] # DeleteAll
  PROVE  /\ NoOldFlow(s) => NoOldFlow(s)'
         /\ EveryFlow(s) => EveryFlow(s)'
<1> DEFINE w == wire[s]
           v == wire'[s]
<1>1. /\ Len(w) \in Nat /\ Len(ms) \in Nat /\ Len(v) = Len(w) + Len(ms)
      /\ \A i \in 1..Len(w) : v[i] = w[i]
      /\ \A i \in 1..Len(v) :
           i > Len(w) => i - Len(w) \in 1..Len(ms) /\ v[i] = ms[i - Len(w)]
  BY Appended
<1>2. FlowsOf(fdd') = FlowsOf(fdd)
  OBVIOUS
<1> HIDE DEF w, v
<1>3. ASSUME NoOldFlow(s)
      PROVE  NoOldFlow(s)'
  <2>1. PICK k \in 0..Len(w) :
          /\ IF k = 0 THEN table[s] \subseteq FlowsOf(fdd) ELSE w[k] = DeleteAll
          /\ \A i \in 1..Len(w) : i > k /\ w[i].kind = "flow" => w[i] \in FlowsOf(fdd)
    BY <1>3 DEF NoOldFlow, w
  <2>2. k \in 0..Len(v)
    BY <1>1
  <2>3. IF k = 0 THEN table'[s] \subseteq FlowsOf(fdd) ELSE v[k] = DeleteAll
    BY <2>1, <1>1
  <2>4. \A i \in 1..Len(v) : i > k /\ v[i].kind = "flow" => v[i] \in FlowsOf(fdd)
    <3> TAKE i \in 1..Len(v)
    <3>1. CASE i \in 1..Len(w)
      BY <3>1, <2>1, <1>1
    <3>2. CASE i > Len(w)
      BY <3>2, <1>1
    <3> QED
      BY <3>1, <3>2, <1>1
  <2> QED
    BY <2>2, <2>3, <2>4, <1>2 DEF NoOldFlow, v, DeleteAll
<1>4. ASSUME EveryFlow(s)
      PROVE  EveryFlow(s)'
  <2>1. ASSUME NEW f \in FlowsOf(fdd)
        PROVE  \/ f \in table'[s] /\ \A i \in 1..Len(v) : v[i] # DeleteAll
               \/ \E i \in 1..Len(v) :
                    /\ v[i] = f
                    /\ \A j \in 1..Len(v) : j > i => v[j] # DeleteAll
    <3>1. CASE f \in table[s] /\ \A i \in 1..Len(w) : w[i] # DeleteAll
      <4>1. \A i \in 1..Len(v) : v[i] # DeleteAll
        <5> TAKE i \in 1..Len(v)
        <5>1. CASE i \in 1..Len(w)
          BY <5>1, <3>1, <1>1
        <5>2. CASE i > Len(w)
          BY <5>2, <1>1
        <5> QED
          BY <5>1, <5>2, <1>1
      <4> QED
        BY <4>1, <3>1
    <3>2. ASSUME NEW i \in 1..Len(w), w[i] = f,
                 \A j \in 1..Len(w) : j > i => w[j] # DeleteAll
          PROVE  \E k \in 1..Len(v) :
                    /\ v[k] = f
                    /\ \A j \in 1..Len(v) : j > k => v[j] # DeleteAll
      <4>1. i \in 1..Len(v) /\ v[i] = f
        BY <3>2, <1>1
      <4>2. ASSUME NEW j \in 1..Len(v), j > i
            PROVE  v[j] # DeleteAll
        <5>1. CASE j \in 1..Len(w)
          BY <5>1, <4>2, <3>2, <1>1
        <5>2. CASE j > Len(w)
          BY <5>2, <1>1
        <5> QED
          BY <5>1, <5>2, <1>1
      <4> QED
        BY <4>1, <4>2
    <3> QED
      BY <3>1, <3>2, <1>4 DEF EveryFlow, w
  <2> QED
    BY <2>1, <1>2 DEF EveryFlow, v, DeleteAll
<1> QED
  BY <1>3, <1>4

\* A deletion puts an end to what was there.
LEMMA DeletionSent ==
  ASSUME NEW s, wire[s] \in Seq(ControllerMessages), wire'[s] = wire[s] \o <<DeleteAll>>
  PROVE  NoOldFlow(s)'
<1> DEFINE n == Len(wire[s]) + 1
<1>1. <<DeleteAll>> \in Seq(ControllerMessages) /\ Len(<<DeleteAll>>) = 1
  BY DEF ControllerMessages
<1>2. n \in Nat /\ n > 0 /\ Len(wire'[s]) = n /\ wire'[s][n] = DeleteAll
  BY <1>1, Appended
<1>3. n \in 0..Len(wire'[s])
  BY <1>2
<1> HIDE DEF n
<1>4. \A i \in 1..Len(wire'[s]) : ~(i > n)
  BY <1>2
<1> QED
  BY <1>2, <1>3, <1>4 DEF NoOldFlow, DeleteAll

\* A table that is sent will be there.
LEMMA TableSent ==
  ASSUME NEW s, NEW p \in Policies, wire[s] \in Seq(ControllerMessages),
         wire'[s] = wire[s] \o TableOf(p), fdd' = p
  PROVE  EveryFlow(s)'
<1> DEFINE w == wire[s]
           v == wire'[s]
           ms == TableOf(p)
<1>1. ms \in Seq(ControllerMessages) /\ Len(ms) = Rows /\ \A i \in 1..Rows : ms[i] = Flow(p, i)
  <2>1. ms \in Seq(ControllerMessages)
    BY TablesAreBatches DEF ControllerMessages
  <2>2. Len(ms) = Rows /\ \A i \in 1..Rows : ms[i] = Flow(p, i)
    BY ControllerBoundsAreNat DEF TableOf
  <2> QED
    BY <2>1, <2>2
<1>2. /\ Len(w) \in Nat /\ Len(v) = Len(w) + Rows
      /\ \A i \in 1..Rows : v[Len(w) + i] = Flow(p, i)
      /\ \A i \in 1..Len(v) : i > Len(w) => i - Len(w) \in 1..Rows /\ v[i] = ms[i - Len(w)]
  BY <1>1, Appended
<1>3. \A i \in 1..Rows : Flow(p, i) # DeleteAll
  BY DEF Flow, DeleteAll
<1> HIDE DEF w, v, ms
<1>4. ASSUME NEW f \in FlowsOf(p)
      PROVE  \E i \in 1..Len(v) :
               /\ v[i] = f
               /\ \A j \in 1..Len(v) : j > i => v[j] # DeleteAll
  <2>1. PICK i \in 1..Rows : f = Flow(p, i)
    BY <1>4 DEF FlowsOf
  <2>2. Len(w) + i \in 1..Len(v) /\ v[Len(w) + i] = f
    BY <2>1, <1>2, ControllerBoundsAreNat
  <2>3. ASSUME NEW j \in 1..Len(v), j > Len(w) + i
        PROVE  v[j] # DeleteAll
    <3>1. j - Len(w) \in 1..Rows /\ v[j] = ms[j - Len(w)]
      BY <2>3, <1>2
    <3> QED
      BY <3>1, <1>1, <1>3
  <2> QED
    BY <2>2, <2>3
<1> QED
  BY <1>4 DEF EveryFlow, v, DeleteAll

\* The switch applies the head of its connection.
LEMMA ReceivedKeeps ==
  ASSUME NEW s, wire[s] \in Seq(ControllerMessages), wire[s] # <<>>,
         table[s] \in SUBSET AllFlows,
         wire'[s] = Tail(wire[s]), table'[s] = Apply(Head(wire[s]), table[s]), fdd' = fdd
  PROVE  /\ NoOldFlow(s) => NoOldFlow(s)'
         /\ EveryFlow(s) => EveryFlow(s)'
<1> DEFINE w == wire[s]
           v == wire'[s]
           n == Len(w)
<1>1. /\ n \in Nat \ {0} /\ Len(v) = n - 1
      /\ w[1] \in ControllerMessages
      /\ table'[s] = Apply(w[1], table[s])
      /\ \A i \in 1..(n - 1) : v[i] = w[i + 1]
  <2>1. n \in Nat \ {0}
    BY EmptySeq
  <2>2. Len(v) = n - 1 /\ \A i \in 1..(n - 1) : v[i] = w[i + 1]
    BY <2>1, HeadTailProperties
  <2>3. w[1] \in ControllerMessages /\ Head(w) = w[1]
    BY <2>1
  <2> QED
    BY <2>1, <2>2, <2>3
<1>2. FlowsOf(fdd') = FlowsOf(fdd)
  OBVIOUS
<1>3. w[1] = DeleteAll => table'[s] = {}
  BY <1>1, FlowKinds DEF Apply
<1>4. w[1].kind = "flow" => table'[s] = table[s] \cup {w[1]}
  BY <1>1, FlowKinds DEF Apply
<1>5. w[1] # DeleteAll => table[s] \subseteq table'[s]
  BY <1>1, FlowKinds DEF Apply, ControllerMessages
<1>6. table'[s] \subseteq table[s] \cup {w[1]} /\ (w[1].kind # "flow" => table'[s] \subseteq table[s])
  BY <1>1 DEF Apply
<1>7. \A f \in FlowsOf(fdd) : f # DeleteAll
  BY DEF FlowsOf, Flow, DeleteAll
<1>8. \A f \in FlowsOf(fdd) : f.kind = "flow"
  BY DEF FlowsOf, Flow
<1> HIDE DEF w, v, n
<1>9. ASSUME NoOldFlow(s)
      PROVE  NoOldFlow(s)'
  <2>1. PICK k \in 0..n :
          /\ IF k = 0 THEN table[s] \subseteq FlowsOf(fdd) ELSE w[k] = DeleteAll
          /\ \A i \in 1..n : i > k /\ w[i].kind = "flow" => w[i] \in FlowsOf(fdd)
    BY <1>9 DEF NoOldFlow, w, n
  <2>2. PICK m \in 0..(n - 1) : m = IF k = 0 THEN 0 ELSE k - 1
    BY <1>1
  <2>3. IF m = 0 THEN table'[s] \subseteq FlowsOf(fdd) ELSE v[m] = DeleteAll
    <3>1. CASE k = 0
      <4>1. w[1].kind = "flow" => w[1] \in FlowsOf(fdd)
        BY <3>1, <2>1, <1>1
      <4> QED
        BY <3>1, <4>1, <2>1, <2>2, <1>6
    <3>2. CASE k = 1
      BY <3>2, <2>1, <2>2, <1>3
    <3>3. CASE k > 1
      BY <3>3, <2>1, <2>2, <1>1
    <3> QED
      BY <3>1, <3>2, <3>3
  <2>4. ASSUME NEW i \in 1..(n - 1), i > m, v[i].kind = "flow"
        PROVE  v[i] \in FlowsOf(fdd)
    <3>1. i + 1 \in 1..n /\ i + 1 > k /\ v[i] = w[i + 1]
      BY <2>2, <2>4, <1>1
    <3> QED
      BY <3>1, <2>1, <2>4
  <2> QED
    BY <2>2, <2>3, <2>4, <1>1, <1>2 DEF NoOldFlow, v, DeleteAll
<1>10. ASSUME EveryFlow(s)
       PROVE  EveryFlow(s)'
  <2>1. ASSUME NEW f \in FlowsOf(fdd)
        PROVE  \/ f \in table'[s] /\ \A i \in 1..(n - 1) : v[i] # DeleteAll
               \/ \E i \in 1..(n - 1) :
                    /\ v[i] = f
                    /\ \A j \in 1..(n - 1) : j > i => v[j] # DeleteAll
    <3>1. CASE f \in table[s] /\ \A i \in 1..n : w[i] # DeleteAll
      <4>1. f \in table'[s]
        BY <3>1, <1>1, <1>5
      <4>2. \A i \in 1..(n - 1) : v[i] # DeleteAll
        BY <3>1, <1>1
      <4> QED
        BY <4>1, <4>2
    <3>2. ASSUME NEW i \in 1..n, w[i] = f, \A j \in 1..n : j > i => w[j] # DeleteAll
          PROVE  \/ f \in table'[s] /\ \A j \in 1..(n - 1) : v[j] # DeleteAll
                 \/ \E k \in 1..(n - 1) :
                      /\ v[k] = f
                      /\ \A j \in 1..(n - 1) : j > k => v[j] # DeleteAll
      <4>1. CASE i = 1
        <5>1. f \in table'[s]
          BY <4>1, <3>2, <1>4, <1>8
        <5>2. \A j \in 1..(n - 1) : v[j] # DeleteAll
          BY <4>1, <3>2, <1>1
        <5> QED
          BY <5>1, <5>2
      <4>2. CASE i > 1
        <5>1. i - 1 \in 1..(n - 1) /\ v[i - 1] = f
          BY <4>2, <3>2, <1>1
        <5>2. \A j \in 1..(n - 1) : j > i - 1 => v[j] # DeleteAll
          BY <4>2, <3>2, <1>1
        <5> QED
          BY <5>1, <5>2
      <4> QED
        BY <4>1, <4>2
    <3> QED
      BY <3>1, <3>2, <1>10 DEF EveryFlow, w, n
  <2>2. \A f \in FlowsOf(fdd) :
          \/ f \in table'[s] /\ \A i \in 1..Len(v) : v[i] # DeleteAll
          \/ \E i \in 1..Len(v) :
               /\ v[i] = f
               /\ \A j \in 1..Len(v) : j > i => v[j] # DeleteAll
    BY <2>1, <1>1
  <2> QED
    BY <2>2, <1>2 DEF EveryFlow, v, DeleteAll
<1> QED
  BY <1>9, <1>10

---------------------------------------------------------------------------
(* Every step keeps what the loops still have to send. *)

LEMMA SwitchesAreIds ==
  ASSUME CtlInv
  PROVE  switches \subseteq SwitchIds
  BY DEF CtlInv, Rpc!IInv, Rpc!TypeOK

LEMMA SameLoop ==
  ASSUME NEW u, NEW s, loc'[u] = loc[u],
         \/ ~Handled(u) /\ ~Handled(u)'
         \/ UNCHANGED <<toServer, toClient>> /\ pc'[u] = pc[u]
  PROVE  /\ WillReach(u, s) => WillReach(u, s)'
         /\ WillDelete(u, s) => WillDelete(u, s)'
         /\ WillInstall(u, s) => WillInstall(u, s)'
<1>1. WillReach(u, s) => WillReach(u, s)'
  BY DEF WillReach, Handled, Installing
<1> QED
  BY <1>1 DEF WillDelete, WillInstall, At, Handled

LEMMA StaysCurrent ==
  ASSUME NEW s, WillBeCurrent(s),
         NoOldFlow(s) => NoOldFlow(s)', EveryFlow(s) => EveryFlow(s)',
         \A u \in Loops : /\ WillDelete(u, s) => WillDelete(u, s)'
                          /\ WillInstall(u, s) => WillInstall(u, s)'
  PROVE  WillBeCurrent(s)'
  BY DEF WillBeCurrent

\* A step of the tasks alone.
LEMMA LoopsGoOn ==
  ASSUME CtlInv, TablesWillBeCurrent,
         UNCHANGED <<table, wire, switches, events, fdd, raced>>,
         \A u \in Loops, s \in switches :
           /\ WillDelete(u, s) => WillDelete(u, s)'
           /\ WillInstall(u, s) => WillInstall(u, s)'
  PROVE  TablesWillBeCurrent'
<1> SUFFICES ASSUME NEW s \in switches \ raced, ~SwitchUpUnread(s)
             PROVE  WillBeCurrent(s)'
  BY DEF TablesWillBeCurrent, SwitchUpUnread
<1>1. WillBeCurrent(s)
  BY DEF TablesWillBeCurrent
<1>2. NoOldFlow(s) => NoOldFlow(s)'
  BY SameWire
<1>3. EveryFlow(s) => EveryFlow(s)'
  BY SameWire
<1> QED
  BY <1>1, <1>2, <1>3, StaysCurrent

LEMMA QuietTables ==
  ASSUME CtlInv, TablesWillBeCurrent,
         UNCHANGED <<table, wire, switches, events, fdd, raced>>,
         \A u \in Loops : /\ loc'[u] = loc[u]
                          /\ \/ ~Handled(u) /\ ~Handled(u)'
                             \/ UNCHANGED <<toServer, toClient>> /\ pc'[u] = pc[u]
  PROVE  TablesWillBeCurrent'
<1>1. ASSUME NEW u \in Loops, NEW s \in switches
      PROVE  /\ WillDelete(u, s) => WillDelete(u, s)'
             /\ WillInstall(u, s) => WillInstall(u, s)'
  BY SameLoop
<1> QED
  BY <1>1, LoopsGoOn

LEMMA ContinueTables ==
  ASSUME CtlInv, TablesWillBeCurrent, NEW t \in Tasks, Continue(t)
  PROVE  TablesWillBeCurrent'
<1>1. CallAt(t, loc[t]) /\ loc[t].at \in Callers /\ UNCHANGED ctlVars
  BY DEF Continue, Callers
<1>2. /\ Rpc!Free(t) /\ pc'[t] = "scheduled"
      /\ \A u \in Tasks : u # t => pc'[u] = pc[u]
      /\ UNCHANGED <<switches, wire, toServer, toClient>>
  BY <1>1, CallChanges DEF CtlInv
<1>3. ~Handled(t) /\ ~Handled(t)'
  BY <1>2 DEF Rpc!Free, Handled
<1> QED
  BY <1>1, <1>2, <1>3, QuietTables, TasksAre DEF ctlVars

LEMMA PacketOutTables ==
  ASSUME CtlInv, TablesWillBeCurrent, NEW t \in Senders, NEW s \in SwitchIds,
         PacketOut(t, s)
  PROVE  TablesWillBeCurrent'
<1> DEFINE l == [at |-> "packetOut", sw |-> s]
<1>1. /\ CallAt(t, l) /\ loc' = [loc EXCEPT ![t] = l]
      /\ UNCHANGED <<table, events, fdd, raced>>
  BY DEF PacketOut, Start
<1>2. /\ \A u \in Tasks : u # t => pc'[u] = pc[u]
      /\ UNCHANGED <<switches, wire, toServer, toClient>>
  BY <1>1, CallChanges, TasksAre DEF CtlInv, Callers
<1>3. \A u \in Loops : u \in Tasks /\ u # t /\ loc'[u] = loc[u]
  BY <1>1, TasksAre DEF CtlInv, Control, CtlTypeOK
<1> QED
  BY <1>1, <1>2, <1>3, QuietTables

LEMMA AfterSwitchReaches ==
  ASSUME NEW l \in Locs, Installing(l), l.todo # <<>>,
         NEW i \in 2..Len(l.todo)
  PROVE  LET m == AfterSwitch(l)
         IN  /\ m.at = "delete" /\ Installing(m)
             /\ \/ Head(m.todo) = l.todo[i]
                \/ \E j \in 2..Len(m.todo) : m.todo[j] = l.todo[i]
<1> DEFINE tl == Tail(l.todo)
<1>1. l.todo \in Seq(SwitchIds)
  BY LocShape
<1>2. /\ tl \in Seq(SwitchIds)
      /\ Len(tl) = Len(l.todo) - 1
      /\ \A j \in 1..Len(tl) : tl[j] = l.todo[j + 1]
  BY <1>1, HeadTailProperties
<1>3. AfterSwitch(l) = IF tl = <<>> THEN Idle ELSE [at |-> "delete", todo |-> tl, pol |-> l.pol]
  BY DEF AfterSwitch
<1> HIDE DEF tl
<1>4. tl # <<>>
  <2>1. Len(l.todo) \in Nat /\ Len(l.todo) >= 2
    BY <1>1
  <2>2. Len(tl) # 0
    BY <2>1, <1>2
  <2> QED
    BY <2>2
<1>5. AfterSwitch(l) = [at |-> "delete", todo |-> tl, pol |-> l.pol]
  BY <1>3, <1>4
<1>6. i - 1 \in 1..Len(tl) /\ tl[i - 1] = l.todo[i]
  BY <1>1, <1>2
<1>7. CASE i = 2
  <2>1. Head(tl) = l.todo[i]
    BY <1>6, <1>7, <1>2, <1>4
  <2> QED
    BY <2>1, <1>5 DEF Installing
<1>8. CASE i # 2
  BY <1>5, <1>6, <1>8 DEF Installing
<1> QED
  BY <1>7, <1>8

LEMMA FlushedTables ==
  ASSUME CtlInv, TablesWillBeCurrent, NEW t \in Tasks, Flushed(t)
  PROVE  TablesWillBeCurrent'
<1> DEFINE l == loc[t]
           m == AfterSwitch(l)
<1>1. /\ loc' = [loc EXCEPT ![t] = m] /\ l.at = "flushing"
      /\ UNCHANGED <<rpcVars, table, events, fdd, raced>>
  BY DEF Flushed
<1>2. /\ loc'[t] = m /\ \A u \in Tasks : u # t => loc'[u] = loc[u]
      /\ l \in Locs /\ Fits(t, l) /\ Installing(l)
  BY <1>1, LoopsFit DEF CtlInv, Control, CtlTypeOK, Installing
<1>3. l.todo # <<>>
  BY <1>2, FitsHasSwitch
<1>4. ~Handled(t)'
  BY <1>1 DEF CtlInv, Control, CallsMatchTasks, Rpc!Free, Handled, rpcVars
<1> HIDE DEF l, m
<1>5. ASSUME NEW s \in SwitchIds, WillDelete(t, s) \/ WillInstall(t, s)
      PROVE  WillDelete(t, s)' /\ WillInstall(t, s)'
  <2>1. PICK i \in 2..Len(l.todo) : l.todo[i] = s
    BY <1>5, <1>1 DEF WillDelete, WillInstall, WillReach, At, l
  <2>2. /\ m.at = "delete" /\ Installing(m)
        /\ Head(m.todo) = s \/ \E j \in 2..Len(m.todo) : m.todo[j] = s
    BY <1>2, <1>3, <2>1, AfterSwitchReaches DEF m
  <2>3. WillReach(t, s)' \/ At(t, "delete", s)'
    BY <1>2, <2>2 DEF WillReach, At, Installing
  <2> QED
    BY <2>3, <1>4 DEF WillDelete, WillInstall
<1>6. ASSUME NEW u \in Loops, NEW s \in SwitchIds
      PROVE  /\ WillDelete(u, s) => WillDelete(u, s)'
             /\ WillInstall(u, s) => WillInstall(u, s)'
  <2>1. CASE u = t
    BY <2>1, <1>5
  <2>2. CASE u # t
    BY <2>2, <1>1, <1>2, SameLoop, TasksAre DEF rpcVars
  <2> QED
    BY <2>1, <2>2
<1> QED
  BY <1>1, <1>6, LoopsGoOn, SwitchesAreIds DEF rpcVars

LEMMA ReadReplyTables ==
  ASSUME CtlInv, TablesWillBeCurrent, NEW t \in Tasks, ReadReply(t)
  PROVE  TablesWillBeCurrent'
<1> DEFINE l == loc[t]
           r == Head(toClient)
<1>1. PICK m \in After(l, r) : loc' = [loc EXCEPT ![t] = m]
  BY ReadReplyReads
<1>2. /\ loc'[t] = m /\ \A u \in Tasks : u # t => loc'[u] = loc[u]
      /\ l \in Locs /\ Fits(t, l) /\ l.at \in Callers
      /\ Handled(t) /\ r.found \in SUBSET SwitchIds
  BY <1>1, ReadReplyReads, LoopsFit DEF CtlInv, Control, CtlTypeOK
<1>3. /\ pc'[t] = "idle"
      /\ \A u \in Tasks : u # t => pc'[u] = pc[u] /\ pc[u] # "reading"
  BY ReadReplyReads DEF CtlInv, Rpc!IInv, Rpc!TypeOK
<1>4. UNCHANGED <<table, wire, switches, events, fdd, raced>>
  BY DEF ReadReply, Rpc!ReadReply, Rpc!netVars
<1>5. ~Handled(t)'
  BY <1>3 DEF Handled
<1>6. Installing(l) => l.todo # <<>> /\ l.todo \in Seq(SwitchIds)
  BY <1>2, FitsHasSwitch, LocShape
<1> HIDE DEF l, r
\* What was left of a list is left.
<1>7. ASSUME NEW s \in SwitchIds, l.at \in {"delete", "install"},
             NEW i \in 2..Len(l.todo), l.todo[i] = s
      PROVE  WillReach(t, s)' \/ At(t, "delete", s)'
  <2>1. Installing(l)
    BY <1>7 DEF Installing
  <2>2. CASE r.found = {}
    <3>1. m = [at |-> "flushing", todo |-> l.todo, pol |-> l.pol]
      BY <1>1, <1>7, <2>2 DEF After
    <3> QED
      BY <3>1, <1>2, <1>7 DEF WillReach, Installing
  <2>3. CASE r.found # {} /\ l.at = "delete"
    <3>1. m = [at |-> "install", todo |-> l.todo, pol |-> l.pol]
      BY <1>1, <2>3 DEF After
    <3> QED
      BY <3>1, <1>2, <1>7 DEF WillReach, Installing
  <2>4. CASE r.found # {} /\ l.at = "install"
    <3>1. m = AfterSwitch(l)
      BY <1>1, <2>4 DEF After
    <3>2. /\ m.at = "delete" /\ Installing(m)
          /\ Head(m.todo) = s \/ \E j \in 2..Len(m.todo) : m.todo[j] = s
      BY <3>1, <2>1, <1>2, <1>6, <1>7, AfterSwitchReaches
    <3> QED
      BY <3>2, <1>2 DEF WillReach, At, Installing
  <2> QED
    BY <1>7, <2>2, <2>3, <2>4
\* The switches that were found are the list.
<1>8. ASSUME NEW s \in SwitchIds, WillReach(t, s)
      PROVE  WillReach(t, s)' \/ At(t, "delete", s)'
  <2>1. CASE l.at = "getSwitches"
    <3>1. s \in r.found
      BY <1>8, <1>2, <2>1 DEF WillReach, Installing, l, r
    <3>2. PICK sws \in SetToSeqs(r.found) :
            m = [at |-> "delete", todo |-> sws, pol |-> l.pol]
      BY <1>1, <2>1, <3>1 DEF After
    <3>3. IsFiniteSet(r.found)
      BY <1>2, SwitchIdsAreFinite, FS_Subset DEF r
    <3>4. sws \in Seq(r.found) /\ \E i \in 1..Len(sws) : sws[i] = s
      BY <3>1, <3>3, SeqsOfSet
    <3>5. PICK i \in 1..Len(sws) : sws[i] = s
      BY <3>4
    <3>6. CASE i = 1
      <4>1. Head(sws) = s
        BY <3>4, <3>5, <3>6
      <4> QED
        BY <4>1, <3>2, <1>2 DEF At
    <3>7. CASE i # 1
      <4>1. i \in 2..Len(sws)
        BY <3>4, <3>7
      <4> QED
        BY <4>1, <3>2, <3>5, <1>2 DEF WillReach, Installing
    <3> QED
      BY <3>6, <3>7
  <2>2. CASE l.at # "getSwitches"
    BY <1>2, <1>7, <1>8, <2>2 DEF WillReach, Installing, Callers, l
  <2> QED
    BY <2>1, <2>2
<1>9. ASSUME NEW s \in SwitchIds
      PROVE  /\ WillDelete(t, s) => WillDelete(t, s)'
             /\ WillInstall(t, s) => WillInstall(t, s)'
  <2>1. WillReach(t, s) => WillDelete(t, s)' /\ WillInstall(t, s)'
    BY <1>5, <1>8 DEF WillDelete, WillInstall
  <2>2. ASSUME At(t, "delete", s), r.found # {}
        PROVE  WillInstall(t, s)'
    <3>1. m = [at |-> "install", todo |-> l.todo, pol |-> l.pol]
      BY <1>1, <2>2 DEF After, At, l
    <3> QED
      BY <3>1, <2>2, <1>2, <1>5 DEF WillInstall, At, l
  <2> QED
    BY <2>1, <2>2, <1>2 DEF WillDelete, WillInstall, r
<1>10. ASSUME NEW u \in Loops, NEW s \in SwitchIds
       PROVE  /\ WillDelete(u, s) => WillDelete(u, s)'
              /\ WillInstall(u, s) => WillInstall(u, s)'
  <2>1. CASE u = t
    BY <2>1, <1>9
  <2>2. CASE u # t
    BY <2>2, <1>2, <1>3, SameLoop, TasksAre DEF Handled
  <2> QED
    BY <2>1, <2>2
<1> QED
  BY <1>4, <1>10, LoopsGoOn, SwitchesAreIds

\* The request of the reading task is answered.
LEMMA HandleRequestAnswers ==
  ASSUME CtlInv, Rpc!HandleRequest
  PROVE  \E t \in Tasks :
           LET q == RequestAt(loc[t])
           IN  /\ pc[t] = "reading" /\ ~Handled(t)
               /\ loc[t] \in Locs /\ Fits(t, loc[t]) /\ loc[t].at \in Callers
               /\ UNCHANGED <<pc, switches>>
               /\ toServer' = <<>> /\ toClient' = <<Rpc!ReplyTo(q, switches)>>
               /\ wire' = Rpc!WireAfter(q, switches, wire)
               /\ \A u \in Tasks : u # t => pc[u] # "reading"
<1>1. toServer # <<>>
  BY DEF Rpc!HandleRequest
<1>2. PICK t \in Tasks : pc[t] = "reading"
  BY <1>1, SomebodyReads DEF CtlInv
<1>3. /\ toServer = <<req[t]>> /\ toClient = <<>>
      /\ \A u \in Tasks : u # t => pc[u] # "reading"
  BY <1>1, <1>2, Conversation DEF CtlInv, Control
<1>4. loc[t] \in Locs /\ Fits(t, loc[t])
  BY LoopsFit DEF CtlInv, Control, CtlTypeOK
<1>5. req[t] = RequestAt(loc[t]) /\ loc[t].at \in Callers
  BY <1>2, <1>4, LocShape DEF CtlInv, Control, CallsMatchTasks, Rpc!Free
<1>6. /\ toServer' = <<>> /\ toClient' = <<Rpc!ReplyTo(req[t], switches)>>
      /\ wire' = Rpc!WireAfter(req[t], switches, wire)
      /\ UNCHANGED <<pc, switches>>
  BY <1>3 DEF Rpc!HandleRequest, Rpc!taskVars
<1>7. ~Handled(t)
  BY <1>1 DEF Handled
<1> QED
  BY <1>2, <1>3, <1>4, <1>5, <1>6, <1>7

LEMMA WireAfterRequest ==
  ASSUME CtlInv, NEW q, NEW s \in SwitchIds
  PROVE  LET w == Rpc!WireAfter(q, switches, wire)
         IN  /\ q.op = "GetSwitches" => w[s] = wire[s]
             /\ q.op \in {"Send", "SendBatch"} /\ q.sw # s => w[s] = wire[s]
             /\ q.op = "Send" /\ q.sw = s /\ s \in switches => w[s] = wire[s] \o <<q.msg>>
             /\ q.op = "SendBatch" /\ q.sw = s /\ s \in switches => w[s] = wire[s] \o q.msgs
<1>1. wire = [u \in SwitchIds |-> wire[u]]
  BY DEF CtlInv, Rpc!IInv, Rpc!TypeOK
<1> QED
  BY <1>1 DEF Rpc!WireAfter, Rpc!Payload

LEMMA InstallsCurrentOn ==
  ASSUME CtlInv, NEW t \in Loops, Installing(loc[t]), NEW s, Head(loc[t].todo) = s,
         s \notin raced
  PROVE  loc[t].pol = fdd
<1>1. loc[t] # Idle
  BY DEF Installing, Idle
<1> QED
  BY <1>1 DEF CtlInv, Control, LoopsInstallCurrent, BeingBroughtUp, Loops

LEMMA HandleRequestTables ==
  ASSUME CtlInv, TablesWillBeCurrent, Rpc!HandleRequest, UNCHANGED ctlVars
  PROVE  TablesWillBeCurrent'
<1> SUFFICES ASSUME NEW s \in switches \ raced, ~SwitchUpUnread(s)
             PROVE  WillBeCurrent(s)'
  <2>1. UNCHANGED <<switches, raced, events>>
    BY HandleRequestAnswers DEF ctlVars
  <2> QED
    BY <2>1 DEF TablesWillBeCurrent, SwitchUpUnread
<1>1. PICK t \in Tasks :
        LET q == RequestAt(loc[t])
        IN  /\ pc[t] = "reading" /\ ~Handled(t)
            /\ loc[t] \in Locs /\ Fits(t, loc[t]) /\ loc[t].at \in Callers
            /\ UNCHANGED <<pc, switches>>
            /\ toServer' = <<>> /\ toClient' = <<Rpc!ReplyTo(q, switches)>>
            /\ wire' = Rpc!WireAfter(q, switches, wire)
            /\ \A u \in Tasks : u # t => pc[u] # "reading"
  BY HandleRequestAnswers
<1> DEFINE l == loc[t]
           q == RequestAt(l)
           h == Head(l.todo)
<1>2. WillBeCurrent(s) /\ s \in SwitchIds
  BY SwitchesAreIds DEF TablesWillBeCurrent
<1>3. /\ UNCHANGED <<table, fdd, loc>> /\ Handled(t)'
      /\ Head(toClient') = Rpc!ReplyTo(q, switches)
      /\ wire[s] \in Seq(ControllerMessages)
  BY <1>1, <1>2, WireShape DEF ctlVars, Handled, CtlInv, ControllerMessages
<1>4. ASSUME NEW u \in Loops, u # t
      PROVE  /\ WillDelete(u, s) => WillDelete(u, s)'
             /\ WillInstall(u, s) => WillInstall(u, s)'
  BY <1>1, <1>3, <1>4, SameLoop, TasksAre DEF Handled
<1>5. l.at # "getSwitches" /\ WillReach(t, s) => WillReach(t, s)'
  BY <1>3 DEF WillReach, Installing
<1>6. CASE l.at = "getSwitches"
  <2>1. q.op = "GetSwitches" /\ Rpc!ReplyTo(q, switches).found = switches
    BY <1>6 DEF RequestAt, Rpc!ReplyTo
  <2>2. wire'[s] = wire[s]
    BY <1>1, <1>2, <2>1, WireAfterRequest
  <2>3. WillReach(t, s)'
    BY <1>3, <1>6, <2>1 DEF WillReach
  <2>4. \A u \in Loops : /\ WillDelete(u, s) => WillDelete(u, s)'
                         /\ WillInstall(u, s) => WillInstall(u, s)'
    BY <1>4, <2>3 DEF WillDelete, WillInstall
  <2> QED
    BY <1>2, <1>3, <2>2, <2>4, SameWire, StaysCurrent
<1>7. CASE l.at = "packetOut"
  <2>1. q.op = "Send" /\ q.sw = l.sw /\ q.msg = PacketOutMsg
    BY <1>7 DEF RequestAt
  <2>2. t \notin Loops
    BY <1>1, <1>7 DEF Fits
  <2>3. \A u \in Loops : /\ WillDelete(u, s) => WillDelete(u, s)'
                         /\ WillInstall(u, s) => WillInstall(u, s)'
    BY <1>4, <2>2
  <2>4. CASE l.sw = s
    <3>1. wire'[s] = wire[s] \o <<PacketOutMsg>>
      BY <1>1, <1>2, <2>1, <2>4, WireAfterRequest
    <3>2. <<PacketOutMsg>> \in Seq(ControllerMessages)
      BY DEF ControllerMessages
    <3>3. \A i \in 1..Len(<<PacketOutMsg>>) :
            <<PacketOutMsg>>[i].kind # "flow" /\ <<PacketOutMsg>>[i] # DeleteAll
      BY FlowKinds
    <3>4. /\ NoOldFlow(s) => NoOldFlow(s)'
          /\ EveryFlow(s) => EveryFlow(s)'
      BY <1>3, <3>1, <3>2, <3>3, SentKeeps
    <3> QED
      BY <1>2, <2>3, <3>4, StaysCurrent
  <2>5. CASE l.sw # s
    <3>1. wire'[s] = wire[s]
      BY <1>1, <1>2, <2>1, <2>5, WireAfterRequest
    <3> QED
      BY <1>2, <1>3, <2>3, <3>1, SameWire, StaysCurrent
  <2> QED
    BY <2>4, <2>5
<1>8. CASE l.at = "delete"
  <2>1. q.op = "Send" /\ q.sw = h /\ q.msg = DeleteAll
    BY <1>8 DEF RequestAt
  <2>2. t \in Loops
    BY <1>1, <1>8, FitsHasSwitch DEF Installing
  <2>3. CASE h = s
    <3>1. wire'[s] = wire[s] \o <<DeleteAll>>
      BY <1>1, <1>2, <2>1, <2>3, WireAfterRequest
    <3>2. NoOldFlow(s)'
      BY <1>3, <3>1, DeletionSent
    <3>3. Rpc!ReplyTo(q, switches).found = {s} \cap switches
      BY <2>1, <2>3 DEF Rpc!ReplyTo
    <3>4. WillInstall(t, s)'
      BY <1>3, <1>8, <2>3, <3>3 DEF WillInstall, At
    <3> QED
      BY <2>2, <3>2, <3>4 DEF WillBeCurrent
  <2>4. CASE h # s
    <3>1. wire'[s] = wire[s]
      BY <1>1, <1>2, <2>1, <2>4, WireAfterRequest
    <3>2. /\ WillDelete(t, s) => WillDelete(t, s)'
          /\ WillInstall(t, s) => WillInstall(t, s)'
      BY <1>5, <1>8, <2>4 DEF WillDelete, WillInstall, At
    <3> QED
      BY <1>2, <1>3, <1>4, <3>1, <3>2, SameWire, StaysCurrent
  <2> QED
    BY <2>3, <2>4
<1>9. CASE l.at = "install"
  <2>1. q.op = "SendBatch" /\ q.sw = h /\ q.msgs = TableOf(l.pol)
    BY <1>9 DEF RequestAt, InstallRequest
  <2>2. t \in Loops /\ l.pol \in Policies
    BY <1>1, <1>9, FitsHasSwitch, LocShape DEF Installing
  <2>3. WillDelete(t, s) => WillDelete(t, s)'
    BY <1>5, <1>9 DEF WillDelete, At
  <2>4. CASE h = s
    <3>1. wire'[s] = wire[s] \o TableOf(l.pol)
      BY <1>1, <1>2, <2>1, <2>4, WireAfterRequest
    <3>2. l.pol = fdd
      BY <1>9, <2>2, <2>4, InstallsCurrentOn DEF Installing
    <3>3. EveryFlow(s)'
      BY <1>3, <2>2, <3>1, <3>2, TableSent
    <3>4. TableOf(fdd) \in Seq(ControllerMessages)
      BY <2>2, <3>2, TablesAreBatches DEF ControllerMessages
    <3>5. \A i \in 1..Len(TableOf(fdd)) :
            TableOf(fdd)[i] \in FlowsOf(fdd) /\ TableOf(fdd)[i] # DeleteAll
      BY ControllerBoundsAreNat DEF TableOf, FlowsOf, Flow, DeleteAll
    <3>6. NoOldFlow(s) => NoOldFlow(s)'
      BY <1>3, <3>1, <3>2, <3>4, <3>5, SentKeeps
    <3> QED
      BY <1>2, <1>4, <2>3, <3>3, <3>6 DEF WillBeCurrent
  <2>5. CASE h # s
    <3>1. wire'[s] = wire[s]
      BY <1>1, <1>2, <2>1, <2>5, WireAfterRequest
    <3>2. WillInstall(t, s) => WillInstall(t, s)'
      BY <1>5, <1>9, <2>5 DEF WillInstall, At
    <3> QED
      BY <1>2, <1>3, <1>4, <2>3, <3>1, <3>2, SameWire, StaysCurrent
  <2> QED
    BY <2>4, <2>5
<1> QED
  BY <1>1, <1>6, <1>7, <1>8, <1>9 DEF Callers

LEMMA RpcStepTables ==
  ASSUME CtlInv, TablesWillBeCurrent, RpcStep
  PROVE  TablesWillBeCurrent'
<1>1. UNCHANGED ctlVars
  BY DEF RpcStep
<1>2. UNCHANGED <<loc, table, events, fdd, raced>>
  BY <1>1 DEF ctlVars
<1>3. CASE Rpc!ServerListens \/ Rpc!Connect
  <2>1. UNCHANGED <<wire, switches, toServer, toClient, pc>>
    BY <1>3 DEF Rpc!ServerListens, Rpc!Connect, Rpc!netVars, Rpc!sockVars, Rpc!taskVars
  <2> QED
    BY <1>2, <2>1, QuietTables
<1>4. CASE Rpc!HandleRequest
  BY <1>1, <1>4, HandleRequestTables
<1>5. ASSUME NEW t \in Tasks, Rpc!Hop(t)
      PROVE  TablesWillBeCurrent'
  <2>1. UNCHANGED <<wire, switches, toServer, toClient, pc>>
    BY <1>5 DEF Rpc!Hop, Rpc!netVars, Rpc!sockVars, Rpc!taskVars
  <2> QED
    BY <1>2, <2>1, QuietTables
<1>6. ASSUME NEW t \in Tasks, Rpc!ClearToRead(t)
      PROVE  TablesWillBeCurrent'
  <2>1. /\ UNCHANGED <<wire, switches, toServer, toClient>>
        /\ pc[t] \in {"scheduled", "waiting"}
        /\ \E b \in {"waiting", "granted"} : pc' = [pc EXCEPT ![t] = b]
    BY <1>6, JobIsNotReading DEF Rpc!ClearToRead, Rpc!netVars, Rpc!sockVars, CtlInv
  <2>2. /\ ~Handled(t) /\ ~Handled(t)'
        /\ \A u \in Tasks : u # t => pc'[u] = pc[u]
    BY <2>1 DEF Handled, CtlInv, Rpc!IInv, Rpc!TypeOK
  <2> QED
    BY <1>2, <2>1, <2>2, QuietTables, TasksAre
<1>7. ASSUME NEW t \in Tasks, Rpc!WriteRequest(t)
      PROVE  TablesWillBeCurrent'
  <2>1. /\ UNCHANGED <<wire, switches, toClient>>
        /\ pc[t] = "granted" /\ pc' = [pc EXCEPT ![t] = "reading"]
        /\ toServer' = Append(toServer, req[t])
    BY <1>7 DEF Rpc!WriteRequest, Rpc!netVars, CtlInv, Control
  <2>2. toServer' # <<>>
    BY <2>1 DEF CtlInv, Rpc!IInv, Rpc!TypeOK
  <2>3. \A u \in Tasks : u # t => pc'[u] = pc[u] /\ pc[u] # "reading"
    BY <2>1 DEF CtlInv, Rpc!IInv, Rpc!TypeOK, Rpc!OneConversation, Rpc!Holding
  <2>4. \A u \in Tasks : ~Handled(u) /\ ~Handled(u)'
    BY <2>1, <2>2, <2>3 DEF Handled
  <2> QED
    BY <1>2, <2>1, <2>4, QuietTables, TasksAre
<1> QED
  BY <1>3, <1>4, <1>5, <1>6, <1>7 DEF RpcStep

\* The network and the client leave the tasks where they are.
LEMMA SameLoops ==
  ASSUME NEW s, UNCHANGED <<loc, pc, toServer, toClient>>
  PROVE  \A u \in Loops : /\ WillDelete(u, s) => WillDelete(u, s)'
                          /\ WillInstall(u, s) => WillInstall(u, s)'
<1> TAKE u \in Loops
<1> QED
  BY SameLoop

LEMMA SwitchUpTables ==
  ASSUME CtlInv, TablesWillBeCurrent, NEW c \in SwitchIds, SwitchUp(c)
  PROVE  TablesWillBeCurrent'
<1> DEFINE e == [kind |-> "SwitchUp", sw |-> c]
<1>1. /\ events' = Append(events, e) /\ switches' = switches \cup {c}
      /\ UNCHANGED <<table, wire, fdd, raced, loc, pc, toServer, toClient>>
  BY DEF SwitchUp, Rpc!SwitchConnects, Rpc!sockVars, Rpc!taskVars
<1>2. /\ Len(events) \in Nat /\ Len(events') = Len(events) + 1
      /\ events'[Len(events) + 1] = e
      /\ \A i \in 1..Len(events) : events'[i] = events[i]
  BY <1>1 DEF CtlInv, Control, CtlTypeOK
<1>3. SwitchUpUnread(c)'
  BY <1>2 DEF SwitchUpUnread
<1>4. \A s : SwitchUpUnread(s) => SwitchUpUnread(s)'
  BY <1>2 DEF SwitchUpUnread
<1> SUFFICES ASSUME NEW s \in switches' \ raced', ~SwitchUpUnread(s)'
             PROVE  WillBeCurrent(s)'
  BY DEF TablesWillBeCurrent
<1>5. s \in switches \ raced /\ ~SwitchUpUnread(s)
  BY <1>1, <1>3, <1>4
<1> QED
  BY <1>1, <1>5, SameWire, SameLoops, StaysCurrent DEF TablesWillBeCurrent

LEMMA SwitchDownTables ==
  ASSUME CtlInv, TablesWillBeCurrent, NEW c \in SwitchIds, SwitchDown(c)
  PROVE  TablesWillBeCurrent'
<1>1. /\ events' = Append(events, [kind |-> "SwitchDown", sw |-> c])
      /\ switches' = switches \ {c} /\ wire' = [wire EXCEPT ![c] = <<>>]
      /\ UNCHANGED <<table, fdd, raced, loc, pc, toServer, toClient>>
  BY DEF SwitchDown, Rpc!SwitchDisconnects, Rpc!sockVars, Rpc!taskVars
<1>2. /\ Len(events) \in Nat /\ Len(events') = Len(events) + 1
      /\ \A i \in 1..Len(events) : events'[i] = events[i]
  BY <1>1 DEF CtlInv, Control, CtlTypeOK
<1>3. \A s : SwitchUpUnread(s) => SwitchUpUnread(s)'
  BY <1>2 DEF SwitchUpUnread
<1> SUFFICES ASSUME NEW s \in switches' \ raced', ~SwitchUpUnread(s)'
             PROVE  WillBeCurrent(s)'
  BY DEF TablesWillBeCurrent
<1>4. s \in switches \ raced /\ ~SwitchUpUnread(s) /\ s # c
  BY <1>1, <1>3
<1>5. wire'[s] = wire[s]
  BY <1>1, <1>4, SwitchesAreIds DEF CtlInv, Rpc!IInv, Rpc!TypeOK
<1> QED
  BY <1>1, <1>4, <1>5, SameWire, SameLoops, StaysCurrent DEF TablesWillBeCurrent

LEMMA ReceivesTables ==
  ASSUME CtlInv, TablesWillBeCurrent, NEW c \in SwitchIds, SwitchReceives(c)
  PROVE  TablesWillBeCurrent'
<1>1. /\ wire[c] # <<>> /\ wire' = [wire EXCEPT ![c] = Tail(@)]
      /\ table' = [table EXCEPT ![c] = Apply(Head(wire[c]), @)]
      /\ UNCHANGED <<switches, events, fdd, raced, loc, pc, toServer, toClient>>
  BY DEF SwitchReceives, Rpc!SwitchReceives, Rpc!sockVars, Rpc!taskVars
<1> SUFFICES ASSUME NEW s \in switches \ raced, ~SwitchUpUnread(s)
             PROVE  WillBeCurrent(s)'
  BY <1>1 DEF TablesWillBeCurrent, SwitchUpUnread
<1>2. WillBeCurrent(s) /\ s \in SwitchIds
  BY SwitchesAreIds DEF TablesWillBeCurrent
<1>3. /\ NoOldFlow(s) => NoOldFlow(s)'
      /\ EveryFlow(s) => EveryFlow(s)'
  <2>1. CASE s = c
    <3>1. wire'[s] = Tail(wire[s]) /\ table'[s] = Apply(Head(wire[s]), table[s])
      BY <1>1, <1>2, <2>1 DEF CtlInv, Control, CtlTypeOK, Rpc!IInv, Rpc!TypeOK
    <3>2. wire[s] \in Seq(ControllerMessages) /\ table[s] \in SUBSET AllFlows
      BY <1>2, WireShape DEF CtlInv, Control, CtlTypeOK, ControllerMessages
    <3> QED
      BY <1>1, <2>1, <3>1, <3>2, ReceivedKeeps
  <2>2. CASE s # c
    <3>1. wire'[s] = wire[s] /\ table'[s] = table[s]
      BY <1>1, <1>2, <2>2 DEF CtlInv, Control, CtlTypeOK, Rpc!IInv, Rpc!TypeOK
    <3> QED
      BY <1>1, <3>1, SameWire
  <2> QED
    BY <2>1, <2>2
<1> QED
  BY <1>1, <1>2, <1>3, SameLoops, StaysCurrent

\* An idle task has nothing to send.
LEMMA IdleSendsNothing ==
  ASSUME NEW u, NEW s, loc[u] = Idle
  PROVE  ~WillDelete(u, s) /\ ~WillInstall(u, s)
  BY DEF WillDelete, WillInstall, WillReach, At, Installing, Idle

LEMMA HandleEventTables ==
  ASSUME CtlInv, TablesWillBeCurrent, HandleEvent
  PROVE  TablesWillBeCurrent'
<1> DEFINE e == Head(events)
           l == [at |-> "delete", todo |-> <<e.sw>>, pol |-> fdd]
<1>1. /\ events # <<>> /\ events' = Tail(events) /\ loc["events"] = Idle
      /\ UNCHANGED <<table, fdd>>
  BY DEF HandleEvent, Handle
<1>2. /\ e \in Event /\ e = events[1]
      /\ Len(events) \in Nat \ {0} /\ Len(events') = Len(events) - 1
      /\ \A i \in 1..(Len(events) - 1) : events'[i] = events[i + 1]
  BY <1>1, HeadTailProperties DEF CtlInv, Control, CtlTypeOK
<1>3. ASSUME NEW s, SwitchUpUnread(s), ~(e.kind = "SwitchUp" /\ e.sw = s)
      PROVE  SwitchUpUnread(s)'
  <2>1. PICK i \in 1..Len(events) : events[i] = [kind |-> "SwitchUp", sw |-> s]
    BY <1>3 DEF SwitchUpUnread
  <2>2. i # 1
    BY <2>1, <1>2, <1>3
  <2>3. i - 1 \in 1..Len(events') /\ events'[i - 1] = events[i]
    BY <2>2, <1>2
  <2> QED
    BY <2>1, <2>3 DEF SwitchUpUnread
<1>4. CASE e.kind = "SwitchUp"
  <2>1. /\ CallAt("events", l) /\ loc' = [loc EXCEPT !["events"] = l]
        /\ raced' = raced \ {e.sw}
    BY <1>4 DEF HandleEvent, Handle, Start
  <2>2. /\ pc'["events"] = "scheduled"
        /\ \A u \in Tasks : u # "events" => pc'[u] = pc[u]
        /\ UNCHANGED <<switches, wire, toServer, toClient>>
    BY <2>1, CallChanges, TasksAre DEF CtlInv, Callers
  <2>3. loc'["events"] = l /\ \A u \in Tasks : u # "events" => loc'[u] = loc[u]
    BY <2>1, TasksAre DEF CtlInv, Control, CtlTypeOK
  <2> HIDE DEF l
  <2> SUFFICES ASSUME NEW s \in switches \ raced', ~SwitchUpUnread(s)'
               PROVE  WillBeCurrent(s)'
    BY <2>2 DEF TablesWillBeCurrent
  <2>4. CASE s = e.sw
    <3>1. At("events", "delete", s)' /\ ~Handled("events")'
      BY <2>2, <2>3, <2>4 DEF At, Handled, l
    <3> QED
      BY <3>1 DEF WillBeCurrent, WillDelete, WillInstall, Loops
  <2>5. CASE s # e.sw
    <3>1. s \in switches \ raced /\ ~SwitchUpUnread(s)
      BY <1>3, <2>1, <2>5
    <3>2. ASSUME NEW u \in Loops
          PROVE  /\ WillDelete(u, s) => WillDelete(u, s)'
                 /\ WillInstall(u, s) => WillInstall(u, s)'
      <4>1. CASE u = "events"
        BY <4>1, <1>1, IdleSendsNothing
      <4>2. CASE u # "events"
        BY <4>2, <2>2, <2>3, SameLoop, TasksAre
      <4> QED
        BY <4>1, <4>2
    <3> QED
      BY <1>1, <2>2, <3>1, <3>2, SameWire, StaysCurrent DEF TablesWillBeCurrent
  <2> QED
    BY <2>4, <2>5
<1>5. CASE e.kind # "SwitchUp"
  <2>1. UNCHANGED <<switches, wire, toServer, toClient, pc, loc, raced>>
    BY <1>5 DEF HandleEvent, Handle, rpcVars
  <2>2. \A s : SwitchUpUnread(s) => SwitchUpUnread(s)'
    BY <1>3, <1>5
  <2> SUFFICES ASSUME NEW s \in switches \ raced, ~SwitchUpUnread(s)'
               PROVE  WillBeCurrent(s)'
    BY <2>1 DEF TablesWillBeCurrent
  <2>3. WillBeCurrent(s)
    BY <2>2 DEF TablesWillBeCurrent
  <2> QED
    BY <1>1, <2>1, <2>3, SameWire, SameLoops, StaysCurrent
<1> QED
  BY <1>4, <1>5

\* The policy loop will ask for the switches, and reach them all.
LEMMA UpdateTables ==
  ASSUME CtlInv, TablesWillBeCurrent, Update
  PROVE  TablesWillBeCurrent'
<1> DEFINE l == [at |-> "getSwitches", pol |-> Head(policies)]
<1>1. /\ CallAt("policies", l) /\ loc' = [loc EXCEPT !["policies"] = l]
  BY DEF Update, Start
<1>2. pc'["policies"] = "scheduled"
  BY <1>1, CallChanges, TasksAre DEF CtlInv, Callers
<1>3. loc'["policies"] = l
  BY <1>1, TasksAre DEF CtlInv, Control, CtlTypeOK
<1>4. \A s : WillReach("policies", s)'
  BY <1>2, <1>3 DEF WillReach, Handled
<1> QED
  BY <1>4 DEF TablesWillBeCurrent, WillBeCurrent, WillDelete, WillInstall, Loops

LEMMA NextTables ==
  ASSUME CtlInv, TablesWillBeCurrent, [Next]_vars
  PROVE  TablesWillBeCurrent'
<1>1. CASE PushPolicy \/ (\E s \in SwitchIds : Query(s)) \/ HandleTrx \/ UNCHANGED vars
  <2>1. UNCHANGED <<table, wire, switches, events, fdd, raced, loc, toServer, toClient, pc>>
    BY <1>1 DEF PushPolicy, Query, HandleTrx, vars, rpcVars, ctlVars
  <2> QED
    BY <2>1, QuietTables
<1>2. ASSUME NEW t \in Tasks, TaskStep(t) PROVE TablesWillBeCurrent'
  BY <1>2, ReadReplyTables, FlushedTables, ContinueTables DEF TaskStep
<1> QED
  BY <1>1, <1>2, SwitchUpTables, SwitchDownTables, ReceivesTables, HandleEventTables,
     UpdateTables, PacketOutTables, RpcStepTables DEF Next

LEMMA Inductive == Spec => []IInv
<1>1. Init => TablesWillBeCurrent
  BY DEF Init, Rpc!Init, TablesWillBeCurrent
<1>2. TablesWillBeCurrent /\ CtlInv /\ [Next]_vars => TablesWillBeCurrent'
  BY NextTables
<1>3. Spec => []TablesWillBeCurrent
  BY <1>1, <1>2, CtlInductive, PTL DEF Spec
<1>4. CtlInv /\ TablesWillBeCurrent => IInv
  BY IInvParts DEF CtlInv
<1> QED
  BY <1>3, <1>4, CtlInductive, PTL

(* Once everything has settled, every connected switch runs exactly the current
   policy, but for one whose bring-up an update overtook: whatever connections
   are lost and made again in the middle of an installation, however the two
   loops and the callers of packet_out take turns at the plug-in, and for any
   number of switches, policies and flows. *)
THEOREM TablesSettle == Spec => []SettledTablesAreCurrent
<1>1. ASSUME IInv, Settled, NEW s \in switches \ raced
      PROVE  table[s] = FlowsOf(fdd)
  <2>1. ~SwitchUpUnread(s) /\ wire[s] = <<>> /\ table[s] \in SUBSET AllFlows
    BY <1>1 DEF Settled, SwitchUpUnread, IInv, TypeOK, Rpc!TypeOK
  <2>2. \A u \in Loops : ~WillDelete(u, s) /\ ~WillInstall(u, s)
    BY <1>1, IdleSendsNothing DEF Settled, Loops
  <2>3. NoOldFlow(s) /\ EveryFlow(s)
    BY <1>1, <2>1, <2>2 DEF IInv, TablesWillBeCurrent, WillBeCurrent
  <2>4. table[s] \subseteq FlowsOf(fdd)
    BY <2>1, <2>3 DEF NoOldFlow
  <2>5. FlowsOf(fdd) \subseteq table[s]
    BY <2>1, <2>3 DEF EveryFlow
  <2> QED
    BY <2>4, <2>5
<1>2. IInv => SettledTablesAreCurrent
  BY <1>1 DEF SettledTablesAreCurrent
<1> QED
  BY <1>2, Inductive, PTL

====
