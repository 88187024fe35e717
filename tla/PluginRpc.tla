---- MODULE PluginRpc ----
(* The RPC client of async/Frenetic_OpenFlow0x01_Plugin.ml, together with the
   loop of frenetic/openflow.ml (rpc_handler) that answers it.

   Every caller shares one socket.  The flag read_outstanding and the condition
   read_finished are a lock around "write a request, read its reply": a caller
   that finds the flag set waits for the condition, signal_read clears the flag
   and wakes every waiter, and each of them tests the flag again when the
   scheduler runs it.  The scheduler runs jobs in FIFO order, so a caller that
   arrived just before the wake-up is served before the callers it wakes.  Call
   paths go through different numbers of binds (scheduler turns) before they
   reach clear_to_read: each costs a turn at the end of the queue.

   The lock is released only after the expected reply has been read: an
   end-of-file or an unexpected reply raises with the lock held. *)
EXTENDS RpcProtocol, Naturals

CONSTANTS Tasks,        \* computations of the controller process that call
          NoRequest,    \* no call in progress
          NoReply,      \* nothing returned
          MayDie,       \* may the OpenFlow process die?
          MaxHops,      \* bound on the binds between a call and clear_to_read
          MaxWire       \* bound: callers pause while a switch has this backlog

ASSUME NoRequestIsNoRequest == NoRequest \notin Requests
ASSUME NoReplyIsNoReply == NoReply \notin Replies
ASSUME MayDieIsBoolean == MayDie \in BOOLEAN
ASSUME BoundsAreNat == MaxHops \in Nat /\ MaxWire \in Nat

VARIABLES
  server,           \* "launching", "listening" or "dead": the OpenFlow process
  linked,           \* server_reader and server_writer are filled
  switches,         \* the OpenFlow process's table of switches
  wire,             \* messages written to each switch, not yet received
  readOutstanding,  \* read_outstanding
  waiters,          \* tasks waiting on read_finished, in order
  jobs,             \* tasks scheduled to run, in order
  hops,             \* binds each task has left before clear_to_read
  toServer,         \* requests on the shared socket
  toClient,         \* replies on the shared socket
  pc,               \* where each task is
  req,              \* the request of its current call
  reply             \* what its last call returned, NoReply while it runs

lockVars == <<readOutstanding, waiters, jobs, hops>>
sockVars == <<toServer, toClient>>
netVars  == <<switches, wire>>
taskVars == <<pc, req, reply>>
vars == <<server, linked, switches, wire, readOutstanding, waiters, jobs, hops,
          toServer, toClient, pc, req, reply>>

Phases == {"idle", "raised", "scheduled", "waiting", "granted", "reading"}

Init ==
  /\ server = "launching"
  /\ linked = FALSE
  /\ switches = {}
  /\ wire = [s \in SwitchIds |-> <<>>]
  /\ readOutstanding = FALSE
  /\ waiters = <<>>
  /\ jobs = <<>>
  /\ hops = [t \in Tasks |-> 0]
  /\ toServer = <<>>
  /\ toClient = <<>>
  /\ pc = [t \in Tasks |-> "idle"]
  /\ req = [t \in Tasks |-> NoRequest]
  /\ reply = [t \in Tasks |-> NoReply]

----
(* Launching the OpenFlow process and connecting to it. *)

ServerListens ==
  /\ server = "launching"
  /\ server' = "listening"
  /\ UNCHANGED <<linked, netVars, lockVars, sockVars, taskVars>>

(* wait_for_server succeeded; while the server is not listening it retries. *)
Connect ==
  /\ server = "listening"
  /\ ~linked
  /\ linked' = TRUE
  /\ UNCHANGED <<server, netVars, lockVars, sockVars, taskVars>>

(* The environment: the OpenFlow process dies and takes its connections with it.
   What it had already written to the shared socket can still be read. *)
Die ==
  /\ MayDie
  /\ server = "listening"
  /\ server' = "dead"
  /\ switches' = {}
  /\ wire' = [s \in SwitchIds |-> <<>>]
  /\ toServer' = <<>>
  /\ UNCHANGED <<linked, lockVars, toClient, taskVars>>

----
(* A call: send, send_batch, switch_features or get_switches. *)

Free(t) == pc[t] \in {"idle", "raised"}

(* The call is on its way to ready_to_process, h binds from clear_to_read; the
   scheduler gets there once the socket's Ivars are filled. *)
Call(t, r, h) ==
  /\ Free(t)
  /\ \A s \in SwitchIds : Len(wire[s]) < MaxWire
  /\ pc' = [pc EXCEPT ![t] = "scheduled"]
  /\ req' = [req EXCEPT ![t] = r]
  /\ reply' = [reply EXCEPT ![t] = NoReply]
  /\ jobs' = Append(jobs, t)
  /\ hops' = [hops EXCEPT ![t] = h]
  /\ UNCHANGED <<server, linked, netVars, readOutstanding, waiters, sockVars>>

(* The job at the head of the scheduler's queue is t's, and only binds. *)
Hop(t) ==
  /\ linked
  /\ jobs # <<>>
  /\ t = Head(jobs)
  /\ hops[t] > 0
  /\ hops' = [hops EXCEPT ![t] = @ - 1]
  /\ jobs' = Append(Tail(jobs), t)
  /\ UNCHANGED <<server, linked, netVars, readOutstanding, waiters, sockVars,
                 taskVars>>

(* Mutant: a task that is woken takes the lock without testing the flag again. *)
ClearToReadOnce(t) ==
  /\ linked
  /\ jobs # <<>>
  /\ t = Head(jobs)
  /\ hops[t] = 0
  /\ jobs' = Tail(jobs)
  /\ IF readOutstanding /\ pc[t] = "scheduled"
     THEN /\ waiters' = Append(waiters, t)
          /\ pc' = [pc EXCEPT ![t] = "waiting"]
          /\ UNCHANGED readOutstanding
     ELSE /\ readOutstanding' = TRUE
          /\ pc' = [pc EXCEPT ![t] = "granted"]
          /\ UNCHANGED waiters
  /\ UNCHANGED <<server, linked, netVars, hops, sockVars, req, reply>>

(* The job at the head of the scheduler's queue is t's clear_to_read. *)
ClearToRead(t) ==
  /\ linked
  /\ jobs # <<>>
  /\ t = Head(jobs)
  /\ hops[t] = 0
  /\ jobs' = Tail(jobs)
  /\ IF readOutstanding
     THEN /\ waiters' = Append(waiters, t)
          /\ pc' = [pc EXCEPT ![t] = "waiting"]
          /\ UNCHANGED readOutstanding
     ELSE /\ readOutstanding' = TRUE
          /\ pc' = [pc EXCEPT ![t] = "granted"]
          /\ UNCHANGED waiters
  /\ UNCHANGED <<server, linked, netVars, hops, sockVars, req, reply>>

WriteRequest(t) ==
  /\ pc[t] = "granted"
  /\ pc' = [pc EXCEPT ![t] = "reading"]
  /\ toServer' = IF server = "dead" THEN toServer ELSE Append(toServer, req[t])
  /\ UNCHANGED <<server, linked, netVars, lockVars, toClient, req, reply>>

(* Mutant: the condition is not broadcast. *)
SignalReadSilently ==
  /\ readOutstanding' = FALSE
  /\ UNCHANGED <<jobs, waiters, hops>>

(* signal_read: clear the flag, schedule every waiter. *)
SignalRead ==
  /\ readOutstanding' = FALSE
  /\ jobs' = jobs \o waiters
  /\ waiters' = <<>>
  /\ UNCHANGED hops

(* The reply arrives: the expected constructor releases the lock and returns,
   any other one is an assertion failure. *)
ReadReply(t) ==
  /\ pc[t] = "reading"
  /\ toClient # <<>>
  /\ toClient' = Tail(toClient)
  /\ reply' = [reply EXCEPT ![t] = Head(toClient)]
  /\ req' = [req EXCEPT ![t] = NoRequest]
  /\ IF Head(toClient).op = ReplyOp(req[t])
     THEN /\ SignalRead
          /\ pc' = [pc EXCEPT ![t] = "idle"]
     ELSE /\ pc' = [pc EXCEPT ![t] = "raised"]
          /\ UNCHANGED lockVars
  /\ UNCHANGED <<server, linked, netVars, toServer>>

(* Mutant: the failed read releases the lock. *)
ReadEofReleases(t) ==
  /\ pc[t] = "reading"
  /\ server = "dead"
  /\ toClient = <<>>
  /\ pc' = [pc EXCEPT ![t] = "raised"]
  /\ req' = [req EXCEPT ![t] = NoRequest]
  /\ SignalRead
  /\ UNCHANGED <<server, linked, netVars, sockVars, reply>>

(* End-of-file on the shared socket: the read fails, the lock stays taken. *)
ReadEof(t) ==
  /\ pc[t] = "reading"
  /\ server = "dead"
  /\ toClient = <<>>
  /\ pc' = [pc EXCEPT ![t] = "raised"]
  /\ req' = [req EXCEPT ![t] = NoRequest]
  /\ UNCHANGED <<server, linked, netVars, lockVars, sockVars, reply>>

----
(* The OpenFlow process. *)

(* One iteration of rpc_handler on the shared socket. *)
HandleRequest ==
  /\ server = "listening"
  /\ toServer # <<>>
  /\ toServer' = Tail(toServer)
  /\ toClient' = Append(toClient, ReplyTo(Head(toServer), switches))
  /\ wire' = WireAfter(Head(toServer), switches, wire)
  /\ UNCHANGED <<server, linked, switches, lockVars, taskVars>>

(* client_handler adds a switch to the table, and removes it at end-of-file;
   OpenFlowServer models these two handlers in full. *)
SwitchConnects(s) ==
  /\ server = "listening"
  /\ s \notin switches
  /\ switches' = switches \cup {s}
  /\ UNCHANGED <<server, linked, wire, lockVars, sockVars, taskVars>>

SwitchDisconnects(s) ==
  /\ s \in switches
  /\ switches' = switches \ {s}
  /\ wire' = [wire EXCEPT ![s] = <<>>]
  /\ UNCHANGED <<server, linked, lockVars, sockVars, taskVars>>

(* The environment: a switch reads its connection. *)
SwitchReceives(s) ==
  /\ wire[s] # <<>>
  /\ wire' = [wire EXCEPT ![s] = Tail(@)]
  /\ UNCHANGED <<server, linked, switches, lockVars, sockVars, taskVars>>

----
TaskStep(t) ==
  Hop(t) \/ ClearToRead(t) \/ WriteRequest(t) \/ ReadReply(t) \/ ReadEof(t)

Next ==
  \/ ServerListens \/ Connect \/ Die
  \/ \E t \in Tasks :
       TaskStep(t) \/ \E r \in Requests, h \in 0..MaxHops : Call(t, r, h)
  \/ HandleRequest
  \/ \E s \in SwitchIds :
       SwitchConnects(s) \/ SwitchDisconnects(s) \/ SwitchReceives(s)

Spec == Init /\ [][Next]_vars

----
Holding(t) == pc[t] \in {"granted", "reading"}

(* Type invariant: the values every variable of the client, of the shared
   socket and of the request loop takes.  Of the socket the code's types say
   nothing: both ends unmarshal what comes as an rpc_command, each by a
   declaration of its own, and any constructor of it may come; that requests go
   one way and the four replies of the lock's callers the other is for the two
   handlers to keep. *)
TypeOK ==
  /\ server \in {"launching", "listening", "dead"}
  /\ linked \in BOOLEAN
  /\ switches \subseteq SwitchIds
  /\ wire \in [SwitchIds -> Seq(Messages)]
  /\ readOutstanding \in BOOLEAN
  /\ waiters \in Seq(Tasks)
  /\ jobs \in Seq(Tasks)
  /\ hops \in [Tasks -> 0..MaxHops]
  /\ toServer \in Seq(Requests)
  /\ toClient \in Seq(Replies)
  /\ pc \in [Tasks -> Phases]
  /\ req \in [Tasks -> Requests \cup {NoRequest}]
  /\ reply \in [Tasks -> Replies \cup {NoReply}]

(* The shared socket carries one conversation: at most one task is between
   clear_to_read and signal_read, and the flag is set as long as one is. *)
OneConversation ==
  /\ \A t \in Tasks : Holding(t) => readOutstanding
  /\ \A t, u \in Tasks : Holding(t) /\ Holding(u) => t = u

(* The `assert false' of send, send_batch, switch_features and get_switches is
   unreachable: the reply a task is about to read has the constructor that
   answers its own request, and no other request or reply is under way. *)
RepliesMatch ==
  \A t \in Tasks :
    pc[t] = "reading" /\ toClient # <<>> =>
      /\ Head(toClient).op = ReplyOp(req[t])
      /\ Tail(toClient) = <<>>
      /\ toServer = <<>>

(* No wake-up is lost: whoever waits on read_finished waits for a task that
   still holds the lock, or for one that raised with the lock held. *)
NoLostWakeup ==
  waiters # <<>> =>
    /\ readOutstanding
    /\ (\E t \in Tasks : Holding(t)) \/ server = "dead"

(* The lock is taken and nobody will release it. *)
Stuck == server = "dead" /\ readOutstanding /\ \A t \in Tasks : ~Holding(t)

(* A failed read is final: the step in which a read raises leaves the client
   stuck, and from then on no caller is ever granted the socket; they pile up on
   the condition.  It is why the `skipping' of bring_up_switch, which swallows
   the exception, does not let implement_policy go on with the next switch. *)
FailedReadIsFinal ==
  [][(Stuck \/ \E t \in Tasks : pc[t] = "reading" /\ pc'[t] = "raised")
       => Stuck']_vars

----
(* The inductive invariant behind the theorems of PluginRpcProofs. *)

(* A task has a request exactly while its call is in progress. *)
CallsHaveRequests ==
  \A t \in Tasks : Free(t) <=> req[t] = NoRequest

(* A scheduled task is in the scheduler's queue, or was woken and is there
   again; a waiting one waits once.  No task is queued twice. *)
QueuesAreDisjoint ==
  /\ \A i \in 1..Len(jobs) : pc[jobs[i]] \in {"scheduled", "waiting"}
  /\ \A i \in 1..Len(waiters) : pc[waiters[i]] = "waiting"
  /\ \A i, j \in 1..Len(jobs) : jobs[i] = jobs[j] => i = j
  /\ \A i, j \in 1..Len(waiters) : waiters[i] = waiters[j] => i = j
  /\ \A i \in 1..Len(jobs), j \in 1..Len(waiters) : jobs[i] # waiters[j]

(* What is on the shared socket is the request of the reading task, or the
   answer to it, or nothing once the OpenFlow process is dead. *)
SocketHasConversation ==
  /\ (\A t \in Tasks : pc[t] # "reading") => toServer = <<>> /\ toClient = <<>>
  /\ \A t \in Tasks : pc[t] = "reading" =>
       \/ server # "dead" /\ toServer = <<req[t]>> /\ toClient = <<>>
       \/ /\ toServer = <<>>
          /\ toClient # <<>>
          /\ toClient = <<Head(toClient)>>
          /\ Head(toClient).op = ReplyOp(req[t])
       \/ server = "dead" /\ toServer = <<>> /\ toClient = <<>>

LockHasHolder ==
  readOutstanding => (\E t \in Tasks : Holding(t)) \/ server = "dead"

WaitersWaitForLock == waiters # <<>> => readOutstanding

(* Inductive: the conjunction of the type invariant and the parts above with
   mutual exclusion of the shared socket. *)
IInv ==
  /\ TypeOK
  /\ CallsHaveRequests
  /\ QueuesAreDisjoint
  /\ OneConversation
  /\ SocketHasConversation
  /\ LockHasHolder
  /\ WaitersWaitForLock

----
(* Refinement: the client implements the atomic calls of RpcService.  A task
   counts as answered from the moment the reply to its request is on the
   socket until it has read it. *)
Answered(t) == pc[t] = "reading" /\ toClient # <<>>

phaseBar ==
  [t \in Tasks |-> IF Free(t) THEN "idle"
                   ELSE IF Answered(t) THEN "answered" ELSE "invoked"]

replyBar ==
  [t \in Tasks |-> IF Answered(t) THEN Head(toClient) ELSE reply[t]]

Service == INSTANCE RpcService WITH
  running <- server # "dead", phase <- phaseBar, reply <- replyBar

(* Every step of the client and of the request loop is a step of the abstract
   service or leaves it unchanged: each call takes effect exactly once, and
   returns the answer computed for it, whatever the other callers do. *)
ImplementsService == Service!Spec
====
