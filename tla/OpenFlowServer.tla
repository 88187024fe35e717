---- MODULE OpenFlowServer ----
(* The OpenFlow process, frenetic/openflow.ml: one client_handler per TCP
   connection of a switch, the table of connected switches, the pipe of events,
   and the send / SendTrx side of rpc_handler.

   A connection is used once: a switch that comes back opens another one, and
   may do so before the process has seen the end-of-file of the old one.

   An exception in a handler closes that handler's connection and, because the
   servers are created with on_handler_error:`Raise, stops the server from
   accepting further connections.  It does not clean up the table. *)
EXTENDS Naturals, Sequences, FiniteSets

CONSTANTS SwitchIds,  \* datapath identifiers
          Conns,      \* TCP connections from switches
          Calls,      \* SendTrx calls of the controller, one socket each
          NoConn, NoCall,
          Zero,       \* the identifier 0, which may be a switch's or not
          FirstXid,   \* transaction identifiers start above this (100000)
          LowXids,    \* identifiers the controller uses outside transactions
          MaxInbox,   \* bound: unread messages per connection
          MaxEvents   \* bound: switches pause while this many events are unread

ASSUME NoConnIsNoConn == NoConn \notin Conns
ASSUME NoCallIsNoCall == NoCall \notin Calls
ASSUME CallsAreFinite == IsFiniteSet(Calls)
ASSUME FirstXidIsNat == FirstXid \in Nat
ASSUME LowXidsAreLow == \A x \in LowXids : x \in 0..FirstXid
ASSUME BoundsAreNat == MaxInbox \in Nat /\ MaxEvents \in Nat

VARIABLES
  listening,     \* the server for switches accepts connections
  conn,          \* state of each connection's client_handler
  peer,          \* the switch at the other end of it
  inbox,         \* messages of the switch not yet handled, oldest first
  owed,          \* requests the switch has not answered
  switches,      \* switches: the connection that registered each identifier
  txns,          \* threadState.txns of each connection
  xidCell,       \* xid_cell of each connection
  events,        \* the events pipe
  view,          \* identifiers up according to the events read so far
  rpcListening,  \* the server for controllers accepts connections
  rpcOpen,       \* the shared RPC connection is open
  call           \* what each SendTrx call has come to

connVars == <<conn, peer, inbox, owed>>
trxVars  == <<txns, xidCell, call>>
rpcVars  == <<rpcListening, rpcOpen>>
vars == <<listening, conn, peer, inbox, owed, switches, txns, xidCell, events,
          view, rpcListening, rpcOpen, call>>

(* The handler's states, and a connection's before and after the handler. *)
States == {"Unopened", "Initial", "SentSwitchFeatures", "Connected",
           "Closed", "Crashed"}

Xids == 0..(FirstXid + Cardinality(Calls))

(* What a switch sends.  "Event" stands for the messages event_from_message
   turns into an event (packet-in, port added or removed), "Other" for those it
   does not (barrier reply, port modified, error).  Replies carry the call they
   answer, for the properties only. *)
Messages ==
  [kind : {"Hello", "EchoRequest", "FeaturesReply", "Unparsable", "Eof"}]
    \cup [kind : {"Event", "Other"}, xid : Xids, for : Calls \cup {NoCall}]
    \cup [kind : {"StatsReply"}, xid : Xids, rows : {0, 1}, for : Calls]

Requests == [kind : {"Features"}] \cup [kind : {"Stats"}, xid : Xids, for : Calls]

Events == [kind : {"SwitchUp", "SwitchDown"}, sw : SwitchIds \cup {Zero}]
            \cup [kind : {"Network"}]

CallStates ==
  [state : {"idle", "eof"}] \cup [state : {"pending"}, on : Conns, xid : Xids]
    \cup [state : {"answered"}, by : Calls \cup {NoCall}]

Init ==
  /\ listening = TRUE
  /\ conn = [c \in Conns |-> "Unopened"]
  /\ peer \in [Conns -> SwitchIds]
  /\ inbox = [c \in Conns |-> <<>>]
  /\ owed = [c \in Conns |-> {}]
  /\ switches = [s \in SwitchIds |-> NoConn]
  /\ txns = [c \in Conns |-> {}]
  /\ xidCell = [c \in Conns |-> FirstXid]
  /\ events = <<>>
  /\ view = {}
  /\ rpcListening = TRUE
  /\ rpcOpen = TRUE
  /\ call = [k \in Calls |-> [state |-> "idle"]]

Alive(c) == conn[c] \in {"Initial", "SentSwitchFeatures", "Connected"}

----
(* The switches. *)

(* A switch connects: the server runs client_handler, which greets it. *)
Open(c) ==
  /\ listening
  /\ conn[c] = "Unopened"
  /\ conn' = [conn EXCEPT ![c] = "Initial"]
  /\ UNCHANGED <<listening, peer, inbox, owed, switches, trxVars, events, view,
                 rpcVars>>

(* The switch of connection c writes m, unless it has closed the connection. *)
Write(c, m) ==
  /\ Alive(c)
  /\ Len(inbox[c]) < MaxInbox
  /\ Len(events) < MaxEvents
  /\ \A i \in 1..Len(inbox[c]) : inbox[c][i].kind # "Eof"
  /\ inbox' = [inbox EXCEPT ![c] = Append(@, m)]
  /\ UNCHANGED <<listening, conn, peer, switches, trxVars, events, view, rpcVars>>

Unsolicited(c) ==
  /\ \E m \in [kind : {"Hello", "EchoRequest", "Unparsable", "Eof"}]
              \cup [kind : {"Event", "Other"}, xid : LowXids, for : {NoCall}] :
       Write(c, m)
  /\ UNCHANGED owed

AnswerFeatures(c) ==
  \E r \in owed[c] :
    /\ r.kind = "Features"
    /\ Write(c, [kind |-> "FeaturesReply"])
    /\ owed' = [owed EXCEPT ![c] = @ \ {r}]

(* A switch answers a statistics request with the matching rows, or with an
   error; it may announce that more parts of the answer follow. *)
AnswerStats(c, k) ==
  \E r \in owed[c] :
    /\ r.kind = "Stats" /\ r.for = k
    /\ \E m \in [kind : {"StatsReply"}, xid : {r.xid}, rows : {0, 1}, for : {r.for}]
               \cup [kind : {"Other"}, xid : {r.xid}, for : {r.for}] : Write(c, m)
    /\ owed' \in {owed, [owed EXCEPT ![c] = @ \ {r}]}

----
(* client_handler. *)

(* Takes the message at the head of the pipe my_events. *)
Take(c, kinds) ==
  /\ Alive(c)
  /\ inbox[c] # <<>>
  /\ Head(inbox[c]).kind \in kinds
  /\ inbox' = [inbox EXCEPT ![c] = Tail(@)]

(* The handler of c raises: its connection and the server are closed. *)
Raise(c) ==
  /\ conn' = [conn EXCEPT ![c] = "Crashed"]
  /\ listening' = FALSE

HandleUnparsable(c) ==
  /\ Take(c, {"Unparsable"})
  /\ Raise(c)
  /\ UNCHANGED <<peer, owed, switches, trxVars, events, view, rpcVars>>

HandleEchoRequest(c) ==
  /\ Take(c, {"EchoRequest"})
  /\ UNCHANGED <<listening, conn, peer, owed, switches, trxVars, events, view,
                 rpcVars>>

(* Initial: a Hello is answered with a request for the switch's features, and
   anything but a Hello is an assertion failure. *)
HandleInitial(c) ==
  /\ conn[c] = "Initial"
  /\ Take(c, {"Hello", "FeaturesReply", "Event", "Other", "StatsReply", "Eof"})
  /\ CASE Head(inbox[c]).kind = "Hello" ->
            /\ conn' = [conn EXCEPT ![c] = "SentSwitchFeatures"]
            /\ owed' = [owed EXCEPT ![c] = @ \cup {[kind |-> "Features"]}]
            /\ UNCHANGED listening
       [] Head(inbox[c]).kind = "Eof" ->
            /\ conn' = [conn EXCEPT ![c] = "Closed"]
            /\ UNCHANGED <<owed, listening>>
       [] OTHER -> Raise(c) /\ UNCHANGED owed
  /\ UNCHANGED <<peer, switches, trxVars, events, view, rpcVars>>

(* Mutant: the table entry of a switch that is still there is replaced. *)
RegisterReplacing(c) ==
  /\ conn[c] = "SentSwitchFeatures"
  /\ Take(c, {"FeaturesReply"})
  /\ switches' = [switches EXCEPT ![peer[c]] = c]
  /\ events' = Append(events, [kind |-> "SwitchUp", sw |-> peer[c]])
  /\ conn' = [conn EXCEPT ![c] = "Connected"]
  /\ UNCHANGED <<listening, peer, owed, trxVars, view, rpcVars>>

(* SentSwitchFeatures, the features arrive: the switch enters the table, unless
   its identifier is still there, in which case add_exn raises. *)
Register(c) ==
  /\ conn[c] = "SentSwitchFeatures"
  /\ Take(c, {"FeaturesReply"})
  /\ IF switches[peer[c]] = NoConn
     THEN /\ switches' = [switches EXCEPT ![peer[c]] = c]
          /\ events' = Append(events, [kind |-> "SwitchUp", sw |-> peer[c]])
          /\ conn' = [conn EXCEPT ![c] = "Connected"]
          /\ UNCHANGED listening
     ELSE Raise(c) /\ UNCHANGED <<switches, events>>
  /\ UNCHANGED <<peer, owed, trxVars, view, rpcVars>>

(* SentSwitchFeatures, anything else is dropped. *)
DropEarly(c) ==
  /\ conn[c] = "SentSwitchFeatures"
  /\ Take(c, {"Hello", "Event", "Other", "StatsReply", "Eof"})
  /\ conn' = IF Head(inbox[c]).kind = "Eof"
             THEN [conn EXCEPT ![c] = "Closed"] ELSE conn
  /\ UNCHANGED <<listening, peer, owed, switches, trxVars, events, view, rpcVars>>

(* Mutant: the switch leaves the table without an event. *)
DisconnectSilently(c) ==
  /\ conn[c] = "Connected"
  /\ Take(c, {"Eof"})
  /\ conn' = [conn EXCEPT ![c] = "Closed"]
  /\ switches' = [switches EXCEPT ![peer[c]] = NoConn]
  /\ UNCHANGED <<listening, peer, owed, events, trxVars, view, rpcVars>>

(* Connected, end-of-file: the switch leaves the table. *)
Disconnect(c) ==
  /\ conn[c] = "Connected"
  /\ Take(c, {"Eof"})
  /\ conn' = [conn EXCEPT ![c] = "Closed"]
  /\ switches' = [switches EXCEPT ![peer[c]] = NoConn]
  /\ events' = Append(events, [kind |-> "SwitchDown", sw |-> peer[c]])
  /\ UNCHANGED <<listening, peer, owed, trxVars, view, rpcVars>>

XidOf(m) == IF m.kind \in {"Event", "Other", "StatsReply"} THEN m.xid ELSE 0

(* Mutant: a message without an event counterpart is reported as SwitchUp 0. *)
EventOfUp(m) ==
  IF m.kind \in {"Event", "StatsReply"}
  THEN [kind |-> "Network"] ELSE [kind |-> "SwitchUp", sw |-> Zero]

(* event_from_message: List.hd_exn raises on a statistics reply without rows;
   a message without an event counterpart is reported as SwitchDown 0. *)
EventOf(m) ==
  IF m.kind \in {"Event", "StatsReply"}
  THEN [kind |-> "Network"] ELSE [kind |-> "SwitchDown", sw |-> Zero]

EventRaises(m) == m.kind = "StatsReply" /\ m.rows = 0

Matching(c, m) == {x \in txns[c] : x.xid = XidOf(m)}

(* Mutant: the transaction is forgotten without filling its Ivar. *)
ForgetTransaction(c, m) ==
  /\ txns' = [txns EXCEPT ![c] = @ \ Matching(c, m)]
  /\ UNCHANGED call

(* The transaction with the identifier of m, if there is one, leaves the table
   and its Ivar is filled. *)
EndTransaction(c, m) ==
  /\ txns' = [txns EXCEPT ![c] = @ \ Matching(c, m)]
  /\ call' = [k \in Calls |->
                IF \E x \in Matching(c, m) : x.call = k
                THEN [state |-> "answered", by |-> m.for] ELSE call[k]]

(* Connected: report the message, then see whether it ends a transaction. *)
HandleConnected(c) ==
  /\ conn[c] = "Connected"
  /\ Take(c, {"Hello", "FeaturesReply", "Event", "Other", "StatsReply"})
  /\ LET m == Head(inbox[c])
     IN IF EventRaises(m)
        THEN Raise(c) /\ UNCHANGED <<events, txns, call>>
        ELSE /\ events' = Append(events, EventOf(m))
             /\ EndTransaction(c, m)
             /\ UNCHANGED <<conn, listening>>
  /\ UNCHANGED <<peer, owed, switches, xidCell, view, rpcVars>>

----
(* rpc_handler. *)

(* The stream of events: GetEvents copies the pipe to the controller. *)
DeliverEvent ==
  /\ events # <<>>
  /\ events' = Tail(events)
  /\ LET e == Head(events)
     IN view' = CASE e.kind = "SwitchUp"   -> view \cup {e.sw}
                  [] e.kind = "SwitchDown" -> view \ {e.sw}
                  [] OTHER                 -> view
  /\ UNCHANGED <<listening, connVars, switches, trxVars, rpcVars>>

(* Writing to a connection that a crashed handler left closed raises. *)
Writable(s) == conn[switches[s]] # "Crashed"

(* Send and SendBatch on the shared connection, to a switch in the table whose
   connection a crash has closed: rpc_handler raises, and its connection and
   the server for controllers are closed.  (Otherwise they change nothing
   here.) *)
SendToCrashed(s) ==
  /\ rpcOpen
  /\ switches[s] # NoConn
  /\ ~Writable(s)
  /\ rpcOpen' = FALSE
  /\ rpcListening' = FALSE
  /\ UNCHANGED <<listening, connVars, switches, trxVars, events, view>>

(* Mutant: the cell is not incremented. *)
SameXid(c) == xidCell[c]

(* next_uid *)
NextXid(c) == xidCell[c] + 1

(* SendTrx: unknown switches are answered RpcEof at once.  Otherwise the
   message is written under a fresh identifier and the answer is left to the
   transaction's Ivar. *)
SendTrx(k, s) ==
  /\ rpcListening
  /\ call[k].state = "idle"
  /\ LET c == switches[s]
         x == NextXid(c)
     IN CASE c = NoConn ->
               /\ call' = [call EXCEPT ![k] = [state |-> "eof"]]
               /\ UNCHANGED <<owed, txns, xidCell, rpcListening>>
          [] c # NoConn /\ ~Writable(s) ->
               /\ call' = [call EXCEPT ![k] = [state |-> "eof"]]
               /\ xidCell' = [xidCell EXCEPT ![c] = x]
               /\ txns' = [txns EXCEPT ![c] = @ \cup {[xid |-> x, call |-> k]}]
               /\ rpcListening' = FALSE
               /\ UNCHANGED owed
          [] OTHER ->
               /\ call' = [call EXCEPT ![k] =
                             [state |-> "pending", on |-> c, xid |-> x]]
               /\ xidCell' = [xidCell EXCEPT ![c] = x]
               /\ txns' = [txns EXCEPT ![c] = @ \cup {[xid |-> x, call |-> k]}]
               /\ owed' = [owed EXCEPT ![c] =
                             @ \cup {[kind |-> "Stats", xid |-> x, for |-> k]}]
               /\ UNCHANGED rpcListening
  /\ UNCHANGED <<listening, conn, peer, inbox, switches, events, view, rpcOpen>>

----
Handle(c) ==
  \/ HandleUnparsable(c) \/ HandleEchoRequest(c) \/ HandleInitial(c)
  \/ Register(c) \/ DropEarly(c) \/ Disconnect(c) \/ HandleConnected(c)

Next ==
  \/ \E c \in Conns :
       \/ Open(c) \/ Unsolicited(c) \/ AnswerFeatures(c) \/ Handle(c)
       \/ \E k \in Calls : AnswerStats(c, k)
  \/ DeliverEvent
  \/ \E s \in SwitchIds : SendToCrashed(s) \/ \E k \in Calls : SendTrx(k, s)

Spec == Init /\ [][Next]_vars

(* The schedulers of the process and of the kernel keep running: a message that
   has arrived is handled and an event is delivered.  A switch that keeps its
   connection answers each request, also when other messages keep filling the
   bounded inbox (strong fairness). *)
Fair(c) ==
  /\ WF_vars(Handle(c))
  /\ SF_vars(AnswerFeatures(c))
  /\ \A k \in Calls : SF_vars(AnswerStats(c, k))

FairSpec == Spec /\ WF_vars(DeliverEvent) /\ \A c \in Conns : Fair(c)

----
(* Type invariant. *)
TypeOK ==
  /\ listening \in BOOLEAN
  /\ conn \in [Conns -> States]
  /\ peer \in [Conns -> SwitchIds]
  /\ inbox \in [Conns -> Seq(Messages)]
  /\ owed \in [Conns -> SUBSET Requests]
  /\ switches \in [SwitchIds -> Conns \cup {NoConn}]
  /\ txns \in [Conns -> SUBSET [xid : Xids, call : Calls]]
  /\ xidCell \in [Conns -> Xids]
  /\ events \in Seq(Events)
  /\ view \subseteq SwitchIds
  /\ rpcListening \in BOOLEAN /\ rpcOpen \in BOOLEAN
  /\ call \in [Calls -> CallStates]

(* The table of switches and the handlers agree, whatever connections come and
   go: a Connected handler owns its switch's entry (so at most one does, and an
   end-of-file only ever removes its own entry), and an entry belongs to a
   connection of that very switch, Connected or closed by a crash. *)
TableMatchesHandlers ==
  /\ \A c \in Conns : conn[c] = "Connected" => switches[peer[c]] = c
  /\ \A s \in SwitchIds : switches[s] # NoConn =>
       /\ peer[switches[s]] = s
       /\ conn[switches[s]] \in {"Connected", "Crashed"}

(* What the last SwitchUp or SwitchDown for s on its way to the controller
   says, or else what the controller was told before. *)
BelievedUp(s) ==
  LET about == {i \in 1..Len(events) :
                  events[i].kind \in {"SwitchUp", "SwitchDown"} /\ events[i].sw = s}
  IN IF about = {} THEN s \in view
     ELSE \E i \in about :
            events[i].kind = "SwitchUp" /\ \A j \in about : j <= i

(* A controller that has read every event knows exactly the switches in the
   table: no SwitchUp or SwitchDown is missing, spurious or out of order, as
   long as no switch has the identifier 0. *)
EventsMatchTable ==
  \A s \in SwitchIds : BelievedUp(s) <=> switches[s] # NoConn

(* A call gets the switch's answer to its own request: neither an answer to
   another transaction, nor a message that answers one of the flow-table
   requests the controller sends under its low identifiers. *)
CallGetsItsAnswer ==
  \A k \in Calls : call[k].state = "answered" => call[k].by = k

(* The Ivar of a transaction in the table is empty, so filling it never raises,
   and a call that waits on a live connection is in that connection's table. *)
TransactionsArePending ==
  /\ \A c \in Conns : \A x \in txns[c] :
       call[x.call] \in {[state |-> "pending", on |-> c, xid |-> x.xid],
                         [state |-> "eof"]}
  /\ \A k \in Calls : call[k].state = "pending" =>
       [xid |-> call[k].xid, call |-> k] \in txns[call[k].on]

(* A transaction ends: if the switch keeps its connection and answers, the call
   gets an answer, unless the handler crashed. *)
TransactionEnds ==
  \A k \in Calls :
    call[k].state = "pending" ~>
      \/ call[k].state # "pending"
      \/ conn[call[k].on] \in {"Closed", "Crashed"}

----
(* Statements of the repository's comments that the code does not meet. *)

(* openflow.ml:203 says of the Deferred of send_txn that it "will be fulfilled
   when a matching response is received". *)
MatchingResponseFulfils ==
  [][\A c \in Conns, k \in Calls :
       LET m == Head(inbox[c])
       IN (/\ conn[c] = "Connected"
           /\ inbox[c] # <<>> /\ inbox'[c] = Tail(inbox[c])
           /\ m.kind = "StatsReply"
           /\ call[k] = [state |-> "pending", on |-> c, xid |-> m.xid])
            => call'[k].state = "answered"]_vars
====
