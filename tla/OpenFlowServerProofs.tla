---- MODULE OpenFlowServerProofs ----
(* The OpenFlow process, for any switches, connections and calls: the table of
   switches and the events about it, statistics calls whatever the switches send,
   and the types of all variables. *)
EXTENDS OpenFlowServer, FiniteSetTheorems, TLAPS

TableTypeOK ==
  /\ conn \in [Conns -> States]
  /\ peer \in [Conns -> SwitchIds]
  /\ switches \in [SwitchIds -> Conns \cup {NoConn}]

TableInv == TableTypeOK /\ TableMatchesHandlers

---------------------------------------------------------------------------
(* Steps that leave the table of switches alone. *)

\* A handler may end, or go on without being Connected; one that owns an entry stays
\* Connected or crashes.
LEMMA SameTableKeeps ==
  ASSUME TableInv, UNCHANGED <<peer, switches>>, conn' \in [Conns -> States],
         \A c \in Conns : \/ conn'[c] = conn[c]
                          \/ conn'[c] = "Crashed"
                          \/ /\ conn[c] \notin {"Connected", "Crashed"}
                             /\ conn'[c] # "Connected"
  PROVE  TableInv'
<1>1. \A c \in Conns : conn'[c] = "Connected" => conn[c] = "Connected"
  OBVIOUS
<1>2. \A c \in Conns : conn[c] \in {"Connected", "Crashed"} =>
                         conn'[c] \in {"Connected", "Crashed"}
  OBVIOUS
<1>3. \A s \in SwitchIds : switches[s] # NoConn => switches[s] \in Conns
  BY DEF TableInv, TableTypeOK
<1> QED
  BY <1>1, <1>2, <1>3 DEF TableInv, TableTypeOK, TableMatchesHandlers

LEMMA SameHandlersKeep ==
  ASSUME TableInv, UNCHANGED <<conn, peer, switches>>
  PROVE  TableInv'
  BY DEF TableInv, TableTypeOK, TableMatchesHandlers

\* One handler that is not to become Connected.
LEMMA OneHandlerKeeps ==
  ASSUME TableInv, NEW c \in Conns, NEW state \in States, UNCHANGED <<peer, switches>>,
         conn' = [conn EXCEPT ![c] = state],
         \/ state = "Crashed"
         \/ conn[c] \notin {"Connected", "Crashed"} /\ state # "Connected"
  PROVE  TableInv'
<1>1. conn \in [Conns -> States]
  BY DEF TableInv, TableTypeOK
<1>2. conn' \in [Conns -> States] /\ conn'[c] = state
      /\ \A d \in Conns : d # c => conn'[d] = conn[d]
  BY <1>1
<1> QED
  BY <1>2, SameTableKeeps

LEMMA RaiseKeeps ==
  ASSUME TableInv, NEW c \in Conns, Raise(c), UNCHANGED <<peer, switches>>
  PROVE  TableInv'
<1>1. "Crashed" \in States /\ conn' = [conn EXCEPT ![c] = "Crashed"]
  BY DEF Raise, States
<1> QED
  BY <1>1, OneHandlerKeeps

---------------------------------------------------------------------------
(* Register and Disconnect. *)

\* The entry of the switch was free, so that no handler of it was Connected.
LEMMA RegisterKeeps ==
  ASSUME TableInv, NEW c \in Conns, Register(c)
  PROVE  TableInv'
<1>1. conn[c] = "SentSwitchFeatures" /\ peer' = peer
  BY DEF Register
<1>2. CASE switches[peer[c]] = NoConn
  <2>1. /\ switches' = [switches EXCEPT ![peer[c]] = c]
        /\ conn' = [conn EXCEPT ![c] = "Connected"]
    BY <1>2 DEF Register
  <2>2. /\ conn \in [Conns -> States] /\ peer[c] \in SwitchIds
        /\ switches \in [SwitchIds -> Conns \cup {NoConn}]
    BY DEF TableInv, TableTypeOK
  <2>3. TableTypeOK'
    BY <1>1, <2>1, <2>2 DEF TableInv, TableTypeOK, States
  <2>4. /\ conn'[c] = "Connected" /\ switches'[peer[c]] = c
        /\ \A d \in Conns : d # c => conn'[d] = conn[d]
        /\ \A s \in SwitchIds : s # peer[c] => switches'[s] = switches[s]
    BY <2>1, <2>2
  <2>5. \A d \in Conns : conn'[d] = "Connected" => switches'[peer'[d]] = d
    <3> SUFFICES ASSUME NEW d \in Conns, conn'[d] = "Connected", d # c
                 PROVE  switches'[peer[d]] = d
      BY <1>1, <2>4
    <3>1. switches[peer[d]] = d /\ peer[d] \in SwitchIds
      BY <2>4 DEF TableInv, TableTypeOK, TableMatchesHandlers
    <3>2. peer[d] # peer[c]
      BY <1>2, <3>1, NoConnIsNoConn
    <3> QED
      BY <2>4, <3>1, <3>2
  <2>6. ASSUME NEW s \in SwitchIds, switches'[s] # NoConn
        PROVE  peer'[switches'[s]] = s /\ conn'[switches'[s]] \in {"Connected", "Crashed"}
    <3>1. CASE s = peer[c]
      BY <1>1, <2>4, <3>1
    <3>2. CASE s # peer[c]
      <4>1. /\ switches'[s] = switches[s] /\ switches[s] \in Conns
            /\ peer[switches[s]] = s /\ conn[switches[s]] \in {"Connected", "Crashed"}
        BY <2>2, <2>4, <2>6, <3>2 DEF TableInv, TableMatchesHandlers
      <4>2. switches[s] # c
        BY <1>1, <4>1
      <4> QED
        BY <1>1, <2>4, <4>1, <4>2
    <3> QED
      BY <3>1, <3>2
  <2> QED
    BY <2>3, <2>5, <2>6 DEF TableInv, TableMatchesHandlers
<1>3. CASE switches[peer[c]] # NoConn
  <2>1. Raise(c) /\ UNCHANGED <<peer, switches>>
    BY <1>3 DEF Register
  <2> QED
    BY <2>1, RaiseKeeps
<1> QED
  BY <1>2, <1>3

\* The entry that goes is the handler's own.
LEMMA DisconnectKeeps ==
  ASSUME TableInv, NEW c \in Conns, Disconnect(c)
  PROVE  TableInv'
<1>1. /\ conn[c] = "Connected" /\ peer' = peer
      /\ conn' = [conn EXCEPT ![c] = "Closed"]
      /\ switches' = [switches EXCEPT ![peer[c]] = NoConn]
  BY DEF Disconnect
<1>2. /\ conn \in [Conns -> States] /\ peer[c] \in SwitchIds
      /\ switches \in [SwitchIds -> Conns \cup {NoConn}] /\ switches[peer[c]] = c
  BY <1>1 DEF TableInv, TableTypeOK, TableMatchesHandlers
<1>3. TableTypeOK'
  BY <1>1, <1>2 DEF TableInv, TableTypeOK, States
<1>4. /\ conn'[c] = "Closed" /\ switches'[peer[c]] = NoConn
      /\ \A d \in Conns : d # c => conn'[d] = conn[d]
      /\ \A s \in SwitchIds : s # peer[c] => switches'[s] = switches[s]
  BY <1>1, <1>2
<1>5. ASSUME NEW d \in Conns, conn'[d] = "Connected" PROVE switches'[peer'[d]] = d
  <2>1. d # c
    BY <1>4, <1>5
  <2>2. switches[peer[d]] = d /\ peer[d] \in SwitchIds
    BY <1>4, <1>5, <2>1 DEF TableInv, TableTypeOK, TableMatchesHandlers
  <2>3. peer[d] # peer[c]
    BY <1>2, <2>1, <2>2
  <2> QED
    BY <1>1, <1>4, <2>2, <2>3
<1>6. ASSUME NEW s \in SwitchIds, switches'[s] # NoConn
      PROVE  peer'[switches'[s]] = s /\ conn'[switches'[s]] \in {"Connected", "Crashed"}
  <2>1. s # peer[c]
    BY <1>4, <1>6
  <2>2. /\ switches'[s] = switches[s] /\ switches[s] \in Conns
        /\ peer[switches[s]] = s /\ conn[switches[s]] \in {"Connected", "Crashed"}
    BY <1>2, <1>4, <1>6, <2>1 DEF TableInv, TableMatchesHandlers
  <2>3. switches[s] # c
    BY <2>1, <2>2
  <2> QED
    BY <1>1, <1>4, <2>2, <2>3
<1> QED
  BY <1>3, <1>5, <1>6 DEF TableInv, TableMatchesHandlers

---------------------------------------------------------------------------

LEMMA HandleKeeps ==
  ASSUME TableInv, NEW c \in Conns, Handle(c)
  PROVE  TableInv'
<1>1. CASE HandleUnparsable(c)
  BY <1>1, RaiseKeeps DEF HandleUnparsable
<1>2. CASE HandleEchoRequest(c)
  BY <1>2, SameHandlersKeep DEF HandleEchoRequest
<1>3. CASE HandleInitial(c)
  <2>1. UNCHANGED <<peer, switches>> /\ conn[c] = "Initial"
    BY <1>3 DEF HandleInitial
  <2>2. \/ conn' = [conn EXCEPT ![c] = "SentSwitchFeatures"]
        \/ conn' = [conn EXCEPT ![c] = "Closed"]
        \/ Raise(c)
    BY <1>3 DEF HandleInitial
  <2>3. "SentSwitchFeatures" \in States /\ "Closed" \in States
    BY DEF States
  <2> QED
    BY <2>1, <2>2, <2>3, OneHandlerKeeps, RaiseKeeps
<1>4. CASE Register(c)
  BY <1>4, RegisterKeeps
<1>5. CASE DropEarly(c)
  <2>1. UNCHANGED <<peer, switches>> /\ conn[c] = "SentSwitchFeatures"
        /\ (conn' = [conn EXCEPT ![c] = "Closed"] \/ conn' = conn)
    BY <1>5 DEF DropEarly
  <2>2. "Closed" \in States
    BY DEF States
  <2> QED
    BY <2>1, <2>2, OneHandlerKeeps, SameHandlersKeep
<1>6. CASE Disconnect(c)
  BY <1>6, DisconnectKeeps
<1>7. CASE HandleConnected(c)
  <2>1. UNCHANGED <<peer, switches>> /\ (Raise(c) \/ conn' = conn)
    BY <1>7 DEF HandleConnected
  <2> QED
    BY <2>1, RaiseKeeps, SameHandlersKeep
<1> QED
  BY <1>1, <1>2, <1>3, <1>4, <1>5, <1>6, <1>7 DEF Handle

LEMMA TableInvAtFirst == Init => TableInv
  BY NoConnIsNoConn DEF Init, TableInv, TableTypeOK, TableMatchesHandlers, States

LEMMA TableInvStep == TableInv /\ [Next]_vars => TableInv'
<1> SUFFICES ASSUME TableInv, [Next]_vars PROVE TableInv'
  OBVIOUS
<1>1. ASSUME NEW c \in Conns, Open(c) PROVE TableInv'
  <2>1. /\ UNCHANGED <<peer, switches>> /\ conn[c] = "Unopened" /\ "Initial" \in States
        /\ conn' = [conn EXCEPT ![c] = "Initial"]
    BY <1>1 DEF Open, States
  <2> QED
    BY <2>1, OneHandlerKeeps
<1>2. ASSUME NEW c \in Conns,
             Unsolicited(c) \/ AnswerFeatures(c) \/ \E k \in Calls : AnswerStats(c, k)
      PROVE  TableInv'
  <2>1. UNCHANGED <<conn, peer, switches>>
    BY <1>2 DEF Unsolicited, AnswerFeatures, AnswerStats, Write
  <2> QED
    BY <2>1, SameHandlersKeep
<1>3. ASSUME NEW c \in Conns, Handle(c) PROVE TableInv'
  BY <1>3, HandleKeeps
<1>4. CASE DeliverEvent \/ \E s \in SwitchIds : SendToCrashed(s) \/ \E k \in Calls : SendTrx(k, s)
  <2>1. UNCHANGED <<conn, peer, switches>>
    BY <1>4 DEF DeliverEvent, SendToCrashed, SendTrx, connVars
  <2> QED
    BY <2>1, SameHandlersKeep
<1>5. CASE UNCHANGED vars
  BY <1>5, SameHandlersKeep DEF vars
<1> QED
  BY <1>1, <1>2, <1>3, <1>4, <1>5 DEF Next

\* openflow.ml, client_handler: the table of switches and the handlers agree, for any
\* switches and connections, whatever reconnects early and whatever crashes.
THEOREM TableAndHandlersAgree == Spec => []TableMatchesHandlers
<1>1. TableInv => TableMatchesHandlers
  BY DEF TableInv
<1> QED
  BY TableInvAtFirst, TableInvStep, <1>1, PTL DEF Spec

---------------------------------------------------------------------------
(* The events. *)

About(e, s) == e.kind \in {"SwitchUp", "SwitchDown"} /\ e.sw = s

EventsInv == TableInv /\ events \in Seq(Events) /\ EventsMatchTable

\* The newest event about a switch is what the controller will believe.
LEMMA NewestIsBelieved ==
  ASSUME events \in Seq(Events), NEW e \in Events, NEW s,
         events' = Append(events, e), view' = view
  PROVE  /\ About(e, s) => (BelievedUp(s)' <=> e.kind = "SwitchUp")
         /\ ~About(e, s) => (BelievedUp(s)' <=> BelievedUp(s))
<1>1. /\ Len(events') = Len(events) + 1 /\ Len(events) \in Nat
      /\ events'[Len(events) + 1] = e
      /\ \A i \in 1..Len(events) : events'[i] = events[i]
  OBVIOUS
<1> DEFINE before == {i \in 1..Len(events) : About(events[i], s)}
           after == {i \in 1..Len(events') : About(events'[i], s)}
<1>2. /\ BelievedUp(s) <=> IF before = {} THEN s \in view
                           ELSE \E i \in before : events[i].kind = "SwitchUp"
                                                    /\ \A j \in before : j <= i
      /\ BelievedUp(s)' <=> IF after = {} THEN s \in view
                            ELSE \E i \in after : events'[i].kind = "SwitchUp"
                                                    /\ \A j \in after : j <= i
  BY DEF BelievedUp, About
<1>3. /\ About(e, s) => after = before \cup {Len(events) + 1}
      /\ ~About(e, s) => after = before
  BY <1>1
<1>4. before \subseteq 1..Len(events)
  OBVIOUS
<1> HIDE DEF before, after
<1>5. CASE About(e, s)
  <2>1. Len(events) + 1 \in after /\ \A i \in after : i \in Nat /\ i <= Len(events) + 1
    <3>1. Len(events) \in Nat
      BY <1>1
    <3>2. after = before \cup {Len(events) + 1}
      BY <1>3, <1>5
    <3>3. \A i \in before : i \in Nat /\ i <= Len(events)
      BY <1>4, <3>1
    <3> QED
      BY <3>1, <3>2, <3>3
  <2>2. \A i \in after : (\A j \in after : j <= i) <=> i = Len(events) + 1
    BY <1>1, <2>1
  <2> QED
    BY <1>1, <1>2, <1>5, <2>1, <2>2
<1>6. CASE ~About(e, s)
  <2>1. after = before
    BY <1>3, <1>6
  <2>2. \A i \in before : events'[i] = events[i]
    BY <1>1, <1>4
  <2> QED
    BY <1>2, <1>6, <2>1, <2>2
<1> QED
  BY <1>5, <1>6

\* Reading the oldest event changes nothing of what the controller will believe.
LEMMA ReadingKeepsBelief ==
  ASSUME events \in Seq(Events), NEW s, DeliverEvent
  PROVE  BelievedUp(s)' <=> BelievedUp(s)
<1> DEFINE e == Head(events)
<1>1. /\ events # <<>> /\ events' = Tail(events)
      /\ view' = CASE e.kind = "SwitchUp"   -> view \cup {e.sw}
                   [] e.kind = "SwitchDown" -> view \ {e.sw}
                   [] OTHER                 -> view
  BY DEF DeliverEvent
<1>2. /\ Len(events) \in Nat \ {0} /\ Len(events') = Len(events) - 1 /\ e = events[1]
      /\ \A i \in 1..Len(events') : events'[i] = events[i + 1]
  BY <1>1
<1> DEFINE before == {i \in 1..Len(events) : About(events[i], s)}
           after == {i \in 1..Len(events') : About(events'[i], s)}
<1>3. /\ BelievedUp(s) <=> IF before = {} THEN s \in view
                           ELSE \E i \in before : events[i].kind = "SwitchUp"
                                                    /\ \A j \in before : j <= i
      /\ BelievedUp(s)' <=> IF after = {} THEN s \in view'
                            ELSE \E i \in after : events'[i].kind = "SwitchUp"
                                                    /\ \A j \in after : j <= i
  BY DEF BelievedUp, About
<1>4. /\ \A i \in 1..Len(events') : i \in after <=> i + 1 \in before
      /\ 1 \in before <=> About(e, s)
      /\ before \subseteq 1..Len(events) /\ after \subseteq 1..Len(events')
  BY <1>2
<1>5. /\ ~About(e, s) => (s \in view' <=> s \in view)
      /\ About(e, s) => (s \in view' <=> e.kind = "SwitchUp")
  BY <1>1 DEF About
<1> HIDE DEF before, after, e
<1>6. \A i \in before : i = 1 \/ (i - 1 \in after /\ events[i] = events'[i - 1])
  BY <1>2, <1>4
<1>7. \A i \in after : i + 1 \in before /\ events[i + 1] = events'[i]
  BY <1>2, <1>4
<1>8. CASE after = {}
  <2>1. before = {} \/ before = {1}
    BY <1>6, <1>8
  <2>2. CASE before = {}
    BY <1>3, <1>4, <1>5, <1>8, <2>2
  <2>3. CASE before = {1}
    BY <1>2, <1>3, <1>4, <1>5, <1>8, <2>3
  <2> QED
    BY <2>1, <2>2, <2>3
<1>9. CASE after # {}
  <2>1. before # {} /\ \A i \in before : (\A j \in before : j <= i) => i # 1
    <3>1. PICK k \in after : TRUE
      BY <1>9
    <3>2. k \in Nat \ {0} /\ k + 1 \in before
      BY <1>2, <1>4, <1>7
    <3>3. ~(k + 1 <= 1)
      BY <3>2
    <3> QED
      BY <3>2, <3>3
  <2>2. ASSUME NEW i \in before, events[i].kind = "SwitchUp", \A j \in before : j <= i
        PROVE  \E k \in after : events'[k].kind = "SwitchUp" /\ \A j \in after : j <= k
    <3>1. i - 1 \in after /\ events[i] = events'[i - 1]
      BY <1>6, <2>1, <2>2
    <3>2. \A j \in after : j <= i - 1
      BY <1>2, <1>4, <1>7, <2>2
    <3> QED
      BY <2>2, <3>1, <3>2
  <2>3. ASSUME NEW k \in after, events'[k].kind = "SwitchUp", \A j \in after : j <= k
        PROVE  \E i \in before : events[i].kind = "SwitchUp" /\ \A j \in before : j <= i
    <3>1. k + 1 \in before /\ events[k + 1] = events'[k]
      BY <1>7
    <3>2. \A j \in before : j <= k + 1
      BY <1>2, <1>4, <1>6, <2>3
    <3> QED
      BY <2>3, <3>1, <3>2
  <2> QED
    BY <1>3, <1>9, <2>1, <2>2, <2>3
<1> QED
  BY <1>8, <1>9

\* An event about another switch.
LEMMA OtherEvents ==
  /\ \A s, u : s # u => /\ ~About([kind |-> "SwitchUp", sw |-> u], s)
                        /\ ~About([kind |-> "SwitchDown", sw |-> u], s)
  /\ \A s : ~About([kind |-> "Network"], s)
BY DEF About

\* No event, or one about no switch.
LEMMA QuietKeepsEvents ==
  ASSUME Zero \notin SwitchIds, EventsInv, TableInv', UNCHANGED <<switches, view>>,
         \/ events' = events
         \/ events' = Append(events, [kind |-> "Network"])
         \/ events' = Append(events, [kind |-> "SwitchDown", sw |-> Zero])
  PROVE  EventsInv'
<1>1. events \in Seq(Events) /\ EventsMatchTable
  BY DEF EventsInv
<1>2. CASE events' = events
  <2>1. \A s \in SwitchIds : BelievedUp(s)' <=> BelievedUp(s)
    BY <1>2 DEF BelievedUp
  <2> QED
    BY <1>1, <1>2, <2>1 DEF EventsInv, EventsMatchTable
<1>3. ASSUME NEW e \in Events, \A s \in SwitchIds : ~About(e, s), events' = Append(events, e)
      PROVE  EventsInv'
  <2>1. \A s \in SwitchIds : BelievedUp(s)' <=> BelievedUp(s)
    BY <1>1, <1>3, NewestIsBelieved
  <2>2. events' \in Seq(Events)
    BY <1>1, <1>3
  <2> QED
    BY <1>1, <2>1, <2>2 DEF EventsInv, EventsMatchTable
<1>4. [kind |-> "Network"] \in Events /\ [kind |-> "SwitchDown", sw |-> Zero] \in Events
  BY DEF Events
<1> QED
  BY <1>2, <1>3, <1>4, OtherEvents

\* One switch enters or leaves the table, and the event says so.
LEMMA ChangeKeepsEvents ==
  ASSUME EventsInv, TableInv', view' = view,
         NEW s \in SwitchIds, NEW e \in [kind : {"SwitchUp", "SwitchDown"}, sw : {s}],
         events' = Append(events, e),
         switches'[s] # NoConn <=> e.kind = "SwitchUp",
         \A u \in SwitchIds : u # s => switches'[u] = switches[u]
  PROVE  EventsInv'
<1>1. events \in Seq(Events) /\ EventsMatchTable
  BY DEF EventsInv
<1>2. e \in Events
  BY DEF Events
<1>3. events' \in Seq(Events)
  BY <1>1, <1>2
<1>4. ASSUME NEW u \in SwitchIds PROVE BelievedUp(u)' <=> switches'[u] # NoConn
  <2>1. CASE u = s
    <3>1. About(e, s)
      BY DEF About
    <3> QED
      BY <1>1, <1>2, <2>1, <3>1, NewestIsBelieved
  <2>2. CASE u # s
    <3>1. ~About(e, u)
      BY <2>2 DEF About
    <3> QED
      BY <1>1, <1>2, <2>2, <3>1, NewestIsBelieved DEF EventsMatchTable
  <2> QED
    BY <2>1, <2>2
<1> QED
  BY <1>3, <1>4 DEF EventsInv, EventsMatchTable

LEMMA HandleKeepsEvents ==
  ASSUME Zero \notin SwitchIds, EventsInv, TableInv', NEW c \in Conns, Handle(c)
  PROVE  EventsInv'
<1> DEFINE u == [kind |-> "SwitchUp", sw |-> peer[c]]
           d == [kind |-> "SwitchDown", sw |-> peer[c]]
<1>1. peer[c] \in SwitchIds /\ switches \in [SwitchIds -> Conns \cup {NoConn}]
  BY DEF EventsInv, TableInv, TableTypeOK
<1>2. CASE HandleUnparsable(c) \/ HandleEchoRequest(c) \/ HandleInitial(c) \/ DropEarly(c)
  BY <1>2, QuietKeepsEvents
     DEF HandleUnparsable, HandleEchoRequest, HandleInitial, DropEarly
<1>3. CASE Register(c)
  <2>1. CASE switches[peer[c]] = NoConn
    <3>1. /\ switches' = [switches EXCEPT ![peer[c]] = c] /\ view' = view
          /\ events' = Append(events, u)
      BY <1>3, <2>1 DEF Register
    <3>2. switches'[peer[c]] # NoConn
      BY <1>1, <3>1, NoConnIsNoConn
    <3>3. \A s \in SwitchIds : s # peer[c] => switches'[s] = switches[s]
      BY <1>1, <3>1
    <3>4. u.kind = "SwitchUp" /\ u \in [kind : {"SwitchUp", "SwitchDown"}, sw : {peer[c]}]
      OBVIOUS
    <3> QED
      BY <1>1, <3>1, <3>2, <3>3, <3>4, ChangeKeepsEvents
  <2>2. CASE switches[peer[c]] # NoConn
    BY <1>3, <2>2, QuietKeepsEvents DEF Register
  <2> QED
    BY <2>1, <2>2
<1>4. CASE Disconnect(c)
  <2>1. /\ switches' = [switches EXCEPT ![peer[c]] = NoConn] /\ view' = view
        /\ events' = Append(events, d)
    BY <1>4 DEF Disconnect
  <2>2. /\ switches'[peer[c]] = NoConn
        /\ \A s \in SwitchIds : s # peer[c] => switches'[s] = switches[s]
    BY <1>1, <2>1
  <2>3. d.kind # "SwitchUp" /\ d \in [kind : {"SwitchUp", "SwitchDown"}, sw : {peer[c]}]
    OBVIOUS
  <2> QED
    BY <1>1, <2>1, <2>2, <2>3, ChangeKeepsEvents
<1>5. CASE HandleConnected(c)
  <2>1. UNCHANGED <<switches, view>>
    BY <1>5 DEF HandleConnected
  <2>2. events' = events \/ events' = Append(events, EventOf(Head(inbox[c])))
    BY <1>5 DEF HandleConnected
  <2>3. EventOf(Head(inbox[c])) \in {[kind |-> "Network"], [kind |-> "SwitchDown", sw |-> Zero]}
    BY DEF EventOf
  <2> QED
    BY <2>1, <2>2, <2>3, QuietKeepsEvents
<1> QED
  BY <1>2, <1>3, <1>4, <1>5 DEF Handle

LEMMA EventsInvAtFirst == Init => EventsInv
<1> SUFFICES ASSUME Init PROVE EventsInv
  OBVIOUS
<1>1. events = <<>> /\ view = {} /\ switches = [s \in SwitchIds |-> NoConn]
  BY DEF Init
<1>2. \A s \in SwitchIds : ~BelievedUp(s)
  BY <1>1 DEF BelievedUp
<1> QED
  BY <1>1, <1>2, TableInvAtFirst DEF EventsInv, EventsMatchTable

LEMMA EventsInvStep ==
  ASSUME Zero \notin SwitchIds
  PROVE  EventsInv /\ [Next]_vars => EventsInv'
<1> SUFFICES ASSUME EventsInv, [Next]_vars PROVE EventsInv'
  OBVIOUS
<1>1. TableInv'
  BY TableInvStep DEF EventsInv
<1>2. ASSUME NEW c \in Conns, Handle(c) PROVE EventsInv'
  BY <1>1, <1>2, HandleKeepsEvents
<1>3. CASE DeliverEvent
  <2>1. events \in Seq(Events) /\ events # <<>> /\ events' = Tail(events)
        /\ switches' = switches /\ EventsMatchTable
    BY <1>3 DEF DeliverEvent, EventsInv
  <2>2. \A s \in SwitchIds : BelievedUp(s)' <=> BelievedUp(s)
    BY <1>3, <2>1, ReadingKeepsBelief
  <2>3. events' \in Seq(Events)
    BY <2>1
  <2> QED
    BY <1>1, <2>1, <2>2, <2>3 DEF EventsInv, EventsMatchTable
<1>4. CASE \/ \E c \in Conns :
                 \/ Open(c) \/ Unsolicited(c) \/ AnswerFeatures(c)
                 \/ \E k \in Calls : AnswerStats(c, k)
           \/ \E s \in SwitchIds : SendToCrashed(s) \/ \E k \in Calls : SendTrx(k, s)
           \/ UNCHANGED vars
  <2>1. UNCHANGED <<switches, view, events>>
    BY <1>4 DEF Open, Unsolicited, AnswerFeatures, AnswerStats, Write, SendToCrashed,
                SendTrx, vars
  <2> QED
    BY <1>1, <2>1, QuietKeepsEvents
<1> QED
  BY <1>2, <1>3, <1>4 DEF Next

\* openflow.ml, client_handler: whoever has read every event knows exactly the switches in
\* the table, unless a switch has the identifier 0, which is reported gone for every
\* message without an event counterpart.
THEOREM EventsTellTheTable ==
  ASSUME Zero \notin SwitchIds
  PROVE  Spec => []EventsMatchTable
<1>1. EventsInv /\ [Next]_vars => EventsInv'
  BY EventsInvStep
<1>2. EventsInv => EventsMatchTable
  BY DEF EventsInv
<1> QED
  BY EventsInvAtFirst, <1>1, <1>2, PTL DEF Spec

---------------------------------------------------------------------------
(* Statistics calls. *)

(* Identifiers count the calls of a connection, so that they have no bound here. *)
AnyMessages ==
  [kind : {"Hello", "EchoRequest", "FeaturesReply", "Unparsable", "Eof"}]
    \cup [kind : {"Event", "Other"}, xid : Nat, for : Calls \cup {NoCall}]
    \cup [kind : {"StatsReply"}, xid : Nat, rows : {0, 1}, for : Calls]

AnyRequests == [kind : {"Features"}] \cup [kind : {"Stats"}, xid : Nat, for : Calls]

AnyCallStates ==
  [state : {"idle", "eof"}] \cup [state : {"pending"}, on : Conns, xid : Nat]
    \cup [state : {"answered"}, by : Calls \cup {NoCall}]

CallsTypeOK ==
  /\ inbox \in [Conns -> Seq(AnyMessages)]
  /\ owed \in [Conns -> SUBSET AnyRequests]
  /\ switches \in [SwitchIds -> Conns \cup {NoConn}]
  /\ txns \in [Conns -> SUBSET [xid : Nat, call : Calls]]
  /\ xidCell \in [Conns -> Nat]
  /\ call \in [Calls -> AnyCallStates]

(* The counter has passed the identifiers of the transactions, which are above those
   the controller uses on its own. *)
XidsAreTaken ==
  \A c \in Conns :
    /\ FirstXid <= xidCell[c]
    /\ \A x \in txns[c] : FirstXid < x.xid /\ x.xid <= xidCell[c]

(* A call makes one transaction. *)
CallsMakeOneTransaction ==
  \A c, d \in Conns : \A x \in txns[c], y \in txns[d] :
    x.call = y.call => c = d /\ x = y

(* The transaction with this identifier, if there is one, is of this call; and no
   later one will have the identifier. *)
Names(c, xid, k) ==
  /\ xid <= xidCell[c]
  /\ \A x \in txns[c] : x.xid = xid => x.call = k

RequestNames(c, r) == r.kind = "Stats" => Names(c, r.xid, r.for)

MessageNames(c, m) ==
  m.kind \in {"Event", "Other", "StatsReply"} => Names(c, m.xid, m.for)

TrafficNamesCalls ==
  \A c \in Conns :
    /\ \A r \in owed[c] : RequestNames(c, r)
    /\ \A i \in 1..Len(inbox[c]) : MessageNames(c, inbox[c][i])

CallsInv ==
  /\ CallsTypeOK /\ XidsAreTaken /\ CallsMakeOneTransaction /\ TrafficNamesCalls
  /\ TransactionsArePending /\ CallGetsItsAnswer

---------------------------------------------------------------------------
(* Steps that leave the transactions alone. *)

LEMMA TrafficKeeps ==
  ASSUME CallsInv, UNCHANGED <<txns, xidCell, call>>,
         switches' \in [SwitchIds -> Conns \cup {NoConn}],
         inbox' \in [Conns -> Seq(AnyMessages)], owed' \in [Conns -> SUBSET AnyRequests],
         \A c \in Conns : \A r \in owed'[c] : r \in owed[c] \/ RequestNames(c, r),
         \A c \in Conns : \A i \in 1..Len(inbox'[c]) : MessageNames(c, inbox'[c][i])
  PROVE  CallsInv'
<1>1. CallsTypeOK'
  BY DEF CallsInv, CallsTypeOK
<1>2. XidsAreTaken' /\ CallsMakeOneTransaction'
  BY DEF CallsInv, XidsAreTaken, CallsMakeOneTransaction
<1>3. TransactionsArePending' /\ CallGetsItsAnswer'
  BY DEF CallsInv, TransactionsArePending, CallGetsItsAnswer
<1>4. \A c, xid, k : Names(c, xid, k)' <=> Names(c, xid, k)
  BY DEF Names
<1>5. TrafficNamesCalls'
  BY <1>4 DEF CallsInv, TrafficNamesCalls, RequestNames, MessageNames
<1> QED
  BY <1>1, <1>2, <1>3, <1>5 DEF CallsInv

LEMMA SameTrafficKeeps ==
  ASSUME CallsInv, UNCHANGED <<inbox, owed, switches, txns, xidCell, call>>
  PROVE  CallsInv'
<1>1. /\ switches' \in [SwitchIds -> Conns \cup {NoConn}]
      /\ inbox' \in [Conns -> Seq(AnyMessages)] /\ owed' \in [Conns -> SUBSET AnyRequests]
  BY DEF CallsInv, CallsTypeOK
<1>2. \A c \in Conns : \A i \in 1..Len(inbox'[c]) : MessageNames(c, inbox'[c][i])
  BY DEF CallsInv, TrafficNamesCalls
<1> QED
  BY <1>1, <1>2, TrafficKeeps

\* What is left of an inbox.
LEMMA TakeLeaves ==
  ASSUME CallsInv, NEW c \in Conns, NEW kinds, Take(c, kinds)
  PROVE  /\ inbox' \in [Conns -> Seq(AnyMessages)]
         /\ \A d \in Conns : \A i \in 1..Len(inbox'[d]) : MessageNames(d, inbox'[d][i])
<1>1. inbox[c] \in Seq(AnyMessages) /\ inbox[c] # <<>>
      /\ inbox \in [Conns -> Seq(AnyMessages)]
      /\ inbox' = [inbox EXCEPT ![c] = Tail(@)]
  BY DEF Take, CallsInv, CallsTypeOK
<1>2. /\ Tail(inbox[c]) \in Seq(AnyMessages)
      /\ Len(Tail(inbox[c])) = Len(inbox[c]) - 1 /\ Len(inbox[c]) \in Nat
      /\ \A i \in 1..Len(Tail(inbox[c])) : Tail(inbox[c])[i] = inbox[c][i + 1]
  BY <1>1
<1>3. \A d \in Conns : \A i \in 1..Len(inbox[d]) : MessageNames(d, inbox[d][i])
  BY DEF CallsInv, TrafficNamesCalls
<1>4. \A i \in 1..Len(inbox'[c]) : MessageNames(c, inbox'[c][i])
  <2> SUFFICES ASSUME NEW i \in 1..Len(Tail(inbox[c]))
               PROVE  MessageNames(c, Tail(inbox[c])[i])
    BY <1>1
  <2>1. i + 1 \in 1..Len(inbox[c])
    BY <1>2
  <2> QED
    BY <1>2, <1>3, <2>1
<1> QED
  BY <1>1, <1>2, <1>3, <1>4

LEMMA TakeKeeps ==
  ASSUME CallsInv, NEW c \in Conns, NEW kinds, Take(c, kinds),
         UNCHANGED <<owed, txns, xidCell, call>>,
         switches' \in [SwitchIds -> Conns \cup {NoConn}]
  PROVE  CallsInv'
<1>1. owed \in [Conns -> SUBSET AnyRequests]
  BY DEF CallsInv, CallsTypeOK
<1> QED
  BY <1>1, TakeLeaves, TrafficKeeps

\* A switch writes a message that names its call.
LEMMA WriteKeeps ==
  ASSUME CallsInv, NEW c \in Conns, NEW m \in AnyMessages, Write(c, m), MessageNames(c, m),
         owed' \in [Conns -> SUBSET AnyRequests],
         \A d \in Conns : owed'[d] \subseteq owed[d]
  PROVE  CallsInv'
<1>1. /\ inbox \in [Conns -> Seq(AnyMessages)]
      /\ inbox' = [inbox EXCEPT ![c] = Append(@, m)]
      /\ UNCHANGED <<txns, xidCell, call>>
      /\ switches' \in [SwitchIds -> Conns \cup {NoConn}]
  BY DEF Write, trxVars, CallsInv, CallsTypeOK
<1>2. /\ inbox' \in [Conns -> Seq(AnyMessages)]
      /\ Len(inbox'[c]) = Len(inbox[c]) + 1 /\ Len(inbox[c]) \in Nat
      /\ inbox'[c][Len(inbox[c]) + 1] = m
      /\ \A i \in 1..Len(inbox[c]) : inbox'[c][i] = inbox[c][i]
  BY <1>1
<1>3. \A d \in Conns : \A i \in 1..Len(inbox[d]) : MessageNames(d, inbox[d][i])
  BY DEF CallsInv, TrafficNamesCalls
<1>4. \A i \in 1..Len(inbox'[c]) : MessageNames(c, inbox'[c][i])
  <2> SUFFICES ASSUME NEW i \in 1..(Len(inbox[c]) + 1)
               PROVE  MessageNames(c, inbox'[c][i])
    BY <1>2
  <2>1. CASE i = Len(inbox[c]) + 1
    BY <1>2, <2>1
  <2>2. CASE i # Len(inbox[c]) + 1
    <3>1. i \in 1..Len(inbox[c])
      BY <1>2, <2>2
    <3> QED
      BY <1>2, <1>3, <3>1
  <2> QED
    BY <2>1, <2>2
<1>5. \A d \in Conns : \A i \in 1..Len(inbox'[d]) : MessageNames(d, inbox'[d][i])
  BY <1>1, <1>3, <1>4
<1>6. \A d \in Conns : \A r \in owed'[d] : r \in owed[d] \/ RequestNames(d, r)
  OBVIOUS
<1> QED
  BY <1>1, <1>2, <1>5, <1>6, TrafficKeeps

---------------------------------------------------------------------------
(* The end of a transaction. *)

\* Whoever is answered is named by the message: identifiers of transactions are not
\* those of other messages, and no two calls have one identifier between them.
LEMMA MatchingIsOfCall ==
  ASSUME CallsInv, NEW c \in Conns, NEW m \in AnyMessages, MessageNames(c, m),
         NEW x \in Matching(c, m)
  PROVE  x \in txns[c] /\ m.for = x.call
<1>1. x \in txns[c] /\ x.xid = XidOf(m)
  BY DEF Matching
<1>2. FirstXid < x.xid /\ FirstXid \in Nat
  BY <1>1, FirstXidIsNat DEF CallsInv, XidsAreTaken
<1>3. x.xid # 0
  <2>1. x.xid \in Nat
    BY <1>1 DEF CallsInv, CallsTypeOK
  <2> QED
    BY <1>2, <2>1
<1>4. m.kind \in {"Event", "Other", "StatsReply"} /\ XidOf(m) = m.xid
  BY <1>1, <1>3 DEF XidOf
<1> QED
  BY <1>1, <1>4 DEF MessageNames, Names

LEMMA EndKeeps ==
  ASSUME CallsInv, NEW c \in Conns, NEW m \in AnyMessages, MessageNames(c, m),
         EndTransaction(c, m), UNCHANGED <<owed, switches, xidCell>>,
         inbox' \in [Conns -> Seq(AnyMessages)],
         \A d \in Conns : \A i \in 1..Len(inbox'[d]) : MessageNames(d, inbox'[d][i])
  PROVE  CallsInv'
<1> DEFINE Ends(k) == \E x \in Matching(c, m) : x.call = k
<1>1. /\ CallsTypeOK /\ XidsAreTaken /\ CallsMakeOneTransaction /\ TrafficNamesCalls
      /\ TransactionsArePending /\ CallGetsItsAnswer
  BY DEF CallsInv
<1>2. /\ txns \in [Conns -> SUBSET [xid : Nat, call : Calls]]
      /\ txns' = [txns EXCEPT ![c] = @ \ Matching(c, m)]
  BY <1>1 DEF CallsTypeOK, EndTransaction
<1>3. /\ txns'[c] = txns[c] \ Matching(c, m)
      /\ \A d \in Conns : txns'[d] \subseteq txns[d]
      /\ \A d \in Conns : d # c => txns'[d] = txns[d]
      /\ txns' \in [Conns -> SUBSET [xid : Nat, call : Calls]]
  BY <1>2
<1>4. \A k \in Calls : /\ Ends(k) => call'[k] = [state |-> "answered", by |-> k]
                       /\ ~Ends(k) => call'[k] = call[k]
  <2>1. \A k \in Calls :
          call'[k] = IF Ends(k) THEN [state |-> "answered", by |-> m.for] ELSE call[k]
    BY DEF EndTransaction
  <2>2. \A k \in Calls : Ends(k) => m.for = k
    BY MatchingIsOfCall
  <2> QED
    BY <2>1, <2>2
<1> HIDE DEF Ends
<1>5. CallsTypeOK'
  <2>1. \A k \in Calls : call'[k] \in AnyCallStates
    <3>1. \A k \in Calls : [state |-> "answered", by |-> k] \in AnyCallStates
      BY DEF AnyCallStates
    <3>2. \A k \in Calls : call[k] \in AnyCallStates
      BY <1>1 DEF CallsTypeOK
    <3> QED
      BY <1>4, <3>1, <3>2
  <2>2. call' = [k \in Calls |-> call'[k]]
    BY DEF EndTransaction
  <2>3. call' \in [Calls -> AnyCallStates]
    BY <2>1, <2>2
  <2> QED
    BY <1>1, <1>3, <2>3 DEF CallsTypeOK
<1>6. XidsAreTaken'
  BY <1>1, <1>3 DEF XidsAreTaken
<1>7. CallsMakeOneTransaction'
  BY <1>1, <1>3 DEF CallsMakeOneTransaction
<1>8. TrafficNamesCalls'
  <2>1. \A d \in Conns : \A xid, k : Names(d, xid, k) => Names(d, xid, k)'
    BY <1>3 DEF Names
  <2>2. \A d \in Conns : \A r \in owed'[d] : RequestNames(d, r)'
    BY <1>1, <2>1 DEF TrafficNamesCalls, RequestNames
  <2>3. (\A d \in Conns : \A i \in 1..Len(inbox[d]) : MessageNames(d, inbox[d][i]))'
    BY <2>1 DEF MessageNames
  <2> QED
    BY <2>2, <2>3 DEF TrafficNamesCalls
<1>9. TransactionsArePending'
  <2>1. ASSUME NEW d \in Conns, NEW y \in txns'[d]
        PROVE  call'[y.call] = call[y.call] /\ y \in txns[d] /\ y.call \in Calls
    <3>1. y \in txns[d] /\ y.call \in Calls
      BY <1>2, <1>3
    <3>2. ~Ends(y.call)
      <4> SUFFICES ASSUME NEW x \in Matching(c, m), x.call = y.call PROVE FALSE
        BY DEF Ends
      <4>1. x \in txns[c]
        BY DEF Matching
      <4>2. c = d /\ x = y
        BY <1>1, <3>1, <4>1 DEF CallsMakeOneTransaction
      <4> QED
        BY <1>3, <4>2
    <3> QED
      BY <1>4, <3>1, <3>2
  <2>2. ASSUME NEW k \in Calls, call'[k].state = "pending"
        PROVE  [xid |-> call'[k].xid, call |-> k] \in txns'[call'[k].on]
    <3>1. ~Ends(k) /\ call'[k] = call[k]
      <4>1. [state |-> "answered", by |-> k].state # "pending"
        OBVIOUS
      <4> QED
        BY <1>4, <2>2, <4>1
    <3>2. call[k].on \in Conns /\ [xid |-> call[k].xid, call |-> k] \in txns[call[k].on]
      BY <1>1, <2>2, <3>1 DEF CallsTypeOK, AnyCallStates, TransactionsArePending
    <3> DEFINE t == [xid |-> call[k].xid, call |-> k]
    <3>3. t.call = k /\ t \notin Matching(c, m)
      BY <3>1 DEF Ends
    <3>4. t \in txns[call[k].on]
      BY <3>2
    <3> HIDE DEF t
    <3>5. t \in txns'[call[k].on]
      BY <1>3, <3>2, <3>3, <3>4
    <3> QED
      BY <3>1, <3>5 DEF t
  <2> QED
    BY <1>1, <2>1, <2>2 DEF TransactionsArePending
<1>10. CallGetsItsAnswer'
  <2> SUFFICES ASSUME NEW k \in Calls, call'[k].state = "answered"
               PROVE  call'[k].by = k
    BY DEF CallGetsItsAnswer
  <2>1. CASE Ends(k)
    <3>1. call'[k] = [state |-> "answered", by |-> k]
      BY <1>4, <2>1
    <3> QED
      BY <3>1
  <2>2. CASE ~Ends(k)
    BY <1>1, <1>4, <2>2 DEF CallGetsItsAnswer
  <2> QED
    BY <2>1, <2>2
<1> QED
  BY <1>5, <1>6, <1>7, <1>8, <1>9, <1>10 DEF CallsInv

---------------------------------------------------------------------------
(* A call. *)

\* The call ends at once, and no transaction is made.
LEMMA UnknownSwitchKeeps ==
  ASSUME CallsInv, NEW k \in Calls, call[k].state = "idle",
         call' = [call EXCEPT ![k] = [state |-> "eof"]],
         UNCHANGED <<inbox, owed, switches, txns, xidCell>>
  PROVE  CallsInv'
<1> DEFINE Eof == [state |-> "eof"]
<1>1. /\ CallsTypeOK /\ XidsAreTaken /\ CallsMakeOneTransaction /\ TrafficNamesCalls
      /\ TransactionsArePending /\ CallGetsItsAnswer
  BY DEF CallsInv
<1>2. /\ Eof \in AnyCallStates /\ Eof.state = "eof"
  BY DEF AnyCallStates
<1>3. call \in [Calls -> AnyCallStates] /\ call' = [call EXCEPT ![k] = Eof]
  BY <1>1 DEF CallsTypeOK
<1> HIDE DEF Eof
<1>4. call' \in [Calls -> AnyCallStates] /\ call'[k] = Eof
      /\ \A j \in Calls : j # k => call'[j] = call[j]
  BY <1>2, <1>3
<1>5. CallsTypeOK'
  BY <1>1, <1>4 DEF CallsTypeOK
<1>6. XidsAreTaken' /\ CallsMakeOneTransaction'
  BY <1>1 DEF XidsAreTaken, CallsMakeOneTransaction
<1>7. TrafficNamesCalls'
  BY <1>1 DEF TrafficNamesCalls, RequestNames, MessageNames, Names
<1>8. TransactionsArePending'
  BY <1>1, <1>2, <1>4 DEF TransactionsArePending, Eof
<1>9. CallGetsItsAnswer'
  BY <1>1, <1>2, <1>4 DEF CallGetsItsAnswer
<1> QED
  BY <1>5, <1>6, <1>7, <1>8, <1>9 DEF CallsInv

\* A call that has not been made has no transaction, and nothing names its identifier.
LEMMA NewTransactionKeeps ==
  ASSUME CallsInv, NEW k \in Calls, NEW c \in Conns, call[k].state = "idle",
         NEW state \in {[state |-> "eof"], [state |-> "pending", on |-> c, xid |-> NextXid(c)]},
         call' = [call EXCEPT ![k] = state],
         xidCell' = [xidCell EXCEPT ![c] = NextXid(c)],
         txns' = [txns EXCEPT ![c] = @ \cup {[xid |-> NextXid(c), call |-> k]}],
         \/ owed' = owed
         \/ owed' = [owed EXCEPT ![c] =
                       @ \cup {[kind |-> "Stats", xid |-> NextXid(c), for |-> k]}],
         UNCHANGED <<inbox, switches>>
  PROVE  CallsInv'
<1>0. PICK n \in Nat : n = NextXid(c)
  BY DEF CallsInv, CallsTypeOK, NextXid
<1> DEFINE t == [xid |-> n, call |-> k]
           q == [kind |-> "Stats", xid |-> n, for |-> k]
<1>1. /\ CallsTypeOK /\ XidsAreTaken /\ CallsMakeOneTransaction /\ TrafficNamesCalls
      /\ TransactionsArePending /\ CallGetsItsAnswer
  BY DEF CallsInv
<1>2. xidCell[c] < n /\ FirstXid < n /\ FirstXid \in Nat
  BY <1>0, <1>1, FirstXidIsNat DEF CallsTypeOK, XidsAreTaken, NextXid
<1>3. /\ t.xid = n /\ t.call = k /\ t \in [xid : Nat, call : Calls]
      /\ q.xid = n /\ q.for = k /\ q \in AnyRequests
  BY <1>2 DEF AnyRequests
<1>4. state \in AnyCallStates /\ state.state \in {"eof", "pending"}
  BY <1>0 DEF AnyCallStates
<1>5. /\ call \in [Calls -> AnyCallStates] /\ call' = [call EXCEPT ![k] = state]
      /\ xidCell \in [Conns -> Nat]
      /\ txns \in [Conns -> SUBSET [xid : Nat, call : Calls]]
      /\ txns' = [txns EXCEPT ![c] = @ \cup {t}]
      /\ owed \in [Conns -> SUBSET AnyRequests]
      /\ owed' = owed \/ owed' = [owed EXCEPT ![c] = @ \cup {q}]
  BY <1>0, <1>1 DEF CallsTypeOK
<1>6. /\ state = [state |-> "eof"] \/ state = [state |-> "pending", on |-> c, xid |-> t.xid]
      /\ state.state = "pending" => state.on = c /\ state.xid = t.xid
      /\ t = [xid |-> t.xid, call |-> k]
  BY <1>0
<1> HIDE DEF t, q
<1>7. /\ call' \in [Calls -> AnyCallStates] /\ call'[k] = state
      /\ \A j \in Calls : j # k => call'[j] = call[j]
  BY <1>4, <1>5
<1>8. /\ txns' \in [Conns -> SUBSET [xid : Nat, call : Calls]]
      /\ txns'[c] = txns[c] \cup {t}
      /\ \A d \in Conns : d # c => txns'[d] = txns[d]
  BY <1>3, <1>5
<1>9. /\ xidCell' \in [Conns -> Nat] /\ xidCell'[c] = n
      /\ \A d \in Conns : d # c => xidCell'[d] = xidCell[d]
  BY <1>0, <1>5
<1>10. /\ owed' \in [Conns -> SUBSET AnyRequests]
       /\ \A d \in Conns : \A r \in owed'[d] : r \in owed[d] \/ (d = c /\ r = q)
  BY <1>3, <1>5
<1>11. \A d \in Conns : \A x \in txns[d] : x.call \in Calls /\ x.call # k
  <2> SUFFICES ASSUME NEW d \in Conns, NEW x \in txns[d] PROVE x.call \in Calls /\ x.call # k
    OBVIOUS
  <2>1. x.call \in Calls
    BY <1>5
  <2>2. call[x.call].state \in {"pending", "eof"}
    <3>1. \/ call[x.call] = [state |-> "pending", on |-> d, xid |-> x.xid]
          \/ call[x.call] = [state |-> "eof"]
      BY <1>1 DEF TransactionsArePending
    <3> QED
      BY <3>1
  <2> QED
    BY <2>1, <2>2
<1>12. CallsTypeOK'
  BY <1>1, <1>7, <1>8, <1>9, <1>10 DEF CallsTypeOK
<1>13. XidsAreTaken'
  <2>1. \A x \in txns[c] : FirstXid < x.xid /\ x.xid <= n
    <3>1. \A x \in txns[c] : FirstXid < x.xid /\ x.xid <= xidCell[c] /\ x.xid \in Nat
      BY <1>1, <1>5 DEF XidsAreTaken
    <3>2. xidCell[c] \in Nat
      BY <1>5
    <3> QED
      BY <1>2, <3>1, <3>2
  <2>2. FirstXid <= xidCell'[c] /\ \A x \in txns'[c] : FirstXid < x.xid /\ x.xid <= xidCell'[c]
    BY <1>2, <1>3, <1>8, <1>9, <2>1
  <2> QED
    BY <1>1, <1>8, <1>9, <2>2 DEF XidsAreTaken
<1>14. CallsMakeOneTransaction'
  <2> SUFFICES ASSUME NEW d \in Conns, NEW e \in Conns, NEW x \in txns'[d],
                      NEW y \in txns'[e], x.call = y.call
               PROVE  d = e /\ x = y
    BY DEF CallsMakeOneTransaction
  <2>1. x \in txns[d] \/ (d = c /\ x = t)
    BY <1>8
  <2>2. y \in txns[e] \/ (e = c /\ y = t)
    BY <1>8
  <2> QED
    BY <1>1, <1>3, <1>11, <2>1, <2>2 DEF CallsMakeOneTransaction
<1>15. TrafficNamesCalls'
  <2>1. ASSUME NEW d \in Conns, NEW xid \in Nat, NEW j, Names(d, xid, j)
        PROVE  Names(d, xid, j)'
    <3>1. xid <= xidCell[d] /\ \A x \in txns[d] : x.xid = xid => x.call = j
      BY <2>1 DEF Names
    <3>2. CASE d = c
      <4>1. xidCell[c] \in Nat /\ xid <= n /\ xid # t.xid
        BY <1>2, <1>3, <1>5, <3>1, <3>2
      <4> QED
        BY <1>8, <1>9, <3>1, <3>2, <4>1 DEF Names
    <3>3. CASE d # c
      BY <1>8, <1>9, <3>1, <3>3 DEF Names
    <3> QED
      BY <3>2, <3>3
  <2>2. Names(c, q.xid, q.for)'
    <3>1. \A x \in txns[c] : x.xid \in Nat /\ x.xid <= xidCell[c]
      BY <1>1, <1>5 DEF XidsAreTaken
    <3>2. \A x \in txns[c] : x.xid # q.xid
      BY <1>2, <1>3, <1>5, <3>1
    <3> QED
      BY <1>2, <1>3, <1>8, <1>9, <3>2 DEF Names
  <2>3. ASSUME NEW d \in Conns, NEW r \in owed'[d] PROVE RequestNames(d, r)'
    <3>1. CASE r \in owed[d]
      <4>1. r \in AnyRequests /\ RequestNames(d, r)
        BY <1>1, <1>5, <3>1 DEF TrafficNamesCalls
      <4>2. r.kind = "Stats" => r.xid \in Nat
        BY <4>1 DEF AnyRequests
      <4> QED
        BY <2>1, <4>1, <4>2 DEF RequestNames
    <3>2. CASE d = c /\ r = q
      BY <2>2, <3>2 DEF RequestNames
    <3> QED
      BY <1>10, <3>1, <3>2
  <2>4. ASSUME NEW d \in Conns, NEW i \in 1..Len(inbox[d]) PROVE MessageNames(d, inbox[d][i])'
    <3>1. inbox[d][i] \in AnyMessages /\ MessageNames(d, inbox[d][i])
      BY <1>1 DEF CallsTypeOK, TrafficNamesCalls
    <3>2. inbox[d][i].kind \in {"Event", "Other", "StatsReply"} => inbox[d][i].xid \in Nat
      BY <3>1 DEF AnyMessages
    <3> QED
      BY <2>1, <3>1, <3>2 DEF MessageNames
  <2> QED
    BY <2>3, <2>4 DEF TrafficNamesCalls
<1>16. TransactionsArePending'
  <2>1. ASSUME NEW d \in Conns, NEW x \in txns'[d]
        PROVE  call'[x.call] \in {[state |-> "pending", on |-> d, xid |-> x.xid],
                                  [state |-> "eof"]}
    <3>1. CASE x \in txns[d]
      BY <1>1, <1>7, <1>11, <3>1 DEF TransactionsArePending
    <3>2. CASE d = c /\ x = t
      BY <1>3, <1>6, <1>7, <3>2
    <3> QED
      BY <1>8, <3>1, <3>2
  <2>2. ASSUME NEW j \in Calls, call'[j].state = "pending"
        PROVE  [xid |-> call'[j].xid, call |-> j] \in txns'[call'[j].on]
    <3>1. CASE j = k
      BY <1>6, <1>7, <1>8, <2>2, <3>1
    <3>2. CASE j # k
      <4>1. call'[j] = call[j] /\ call[j].on \in Conns
        BY <1>5, <1>7, <2>2, <3>2 DEF AnyCallStates
      <4>2. [xid |-> call[j].xid, call |-> j] \in txns[call[j].on]
        BY <1>1, <2>2, <4>1 DEF TransactionsArePending
      <4> QED
        BY <1>8, <4>1, <4>2
    <3> QED
      BY <3>1, <3>2
  <2> QED
    BY <2>1, <2>2 DEF TransactionsArePending
<1>17. CallGetsItsAnswer'
  BY <1>1, <1>4, <1>7 DEF CallGetsItsAnswer
<1> QED
  BY <1>12, <1>13, <1>14, <1>15, <1>16, <1>17 DEF CallsInv

LEMMA SendTrxKeeps ==
  ASSUME CallsInv, NEW k \in Calls, NEW s \in SwitchIds, SendTrx(k, s)
  PROVE  CallsInv'
<1> DEFINE c == switches[s]
<1>1. call[k].state = "idle" /\ UNCHANGED <<inbox, switches>>
  BY DEF SendTrx
<1>2. c \in Conns \cup {NoConn}
  BY DEF CallsInv, CallsTypeOK
<1>3. CASE c = NoConn
  <2>1. call' = [call EXCEPT ![k] = [state |-> "eof"]] /\ UNCHANGED <<owed, txns, xidCell>>
    BY <1>3 DEF SendTrx
  <2> QED
    BY <1>1, <2>1, UnknownSwitchKeeps
<1>4. CASE c # NoConn /\ ~Writable(s)
  <2>1. /\ call' = [call EXCEPT ![k] = [state |-> "eof"]]
        /\ xidCell' = [xidCell EXCEPT ![c] = NextXid(c)]
        /\ txns' = [txns EXCEPT ![c] = @ \cup {[xid |-> NextXid(c), call |-> k]}]
        /\ owed' = owed
    BY <1>4 DEF SendTrx
  <2> QED
    BY <1>1, <1>2, <1>4, <2>1, NewTransactionKeeps
<1>5. CASE c # NoConn /\ Writable(s)
  <2>1. /\ call' = [call EXCEPT ![k] = [state |-> "pending", on |-> c, xid |-> NextXid(c)]]
        /\ xidCell' = [xidCell EXCEPT ![c] = NextXid(c)]
        /\ txns' = [txns EXCEPT ![c] = @ \cup {[xid |-> NextXid(c), call |-> k]}]
        /\ owed' = [owed EXCEPT ![c] =
                      @ \cup {[kind |-> "Stats", xid |-> NextXid(c), for |-> k]}]
    BY <1>5 DEF SendTrx
  <2> QED
    BY <1>1, <1>2, <1>5, <2>1, NewTransactionKeeps
<1> QED
  BY <1>3, <1>4, <1>5

---------------------------------------------------------------------------
(* The switches and the handlers. *)

\* What a switch sends of itself has an identifier below those of transactions.
LEMMA UnsolicitedKeeps ==
  ASSUME CallsInv, NEW c \in Conns, Unsolicited(c)
  PROVE  CallsInv'
<1>1. PICK m \in [kind : {"Hello", "EchoRequest", "Unparsable", "Eof"}]
              \cup [kind : {"Event", "Other"}, xid : LowXids, for : {NoCall}] : Write(c, m)
  BY DEF Unsolicited
<1>2. m \in AnyMessages
  BY FirstXidIsNat, LowXidsAreLow DEF AnyMessages
<1>3. MessageNames(c, m)
  <2> SUFFICES ASSUME m.kind \in {"Event", "Other", "StatsReply"} PROVE Names(c, m.xid, m.for)
    BY DEF MessageNames
  <2>1. m.xid \in 0..FirstXid
    BY LowXidsAreLow
  <2>2. FirstXid <= xidCell[c] /\ xidCell[c] \in Nat
    BY DEF CallsInv, XidsAreTaken, CallsTypeOK
  <2>3. \A x \in txns[c] : x.xid \in Nat /\ FirstXid < x.xid
    BY DEF CallsInv, XidsAreTaken, CallsTypeOK
  <2> QED
    BY <2>1, <2>2, <2>3, FirstXidIsNat DEF Names
<1>4. owed' = owed /\ owed \in [Conns -> SUBSET AnyRequests]
  BY DEF Unsolicited, CallsInv, CallsTypeOK
<1> QED
  BY <1>1, <1>2, <1>3, <1>4, WriteKeeps

LEMMA AnswerFeaturesKeeps ==
  ASSUME CallsInv, NEW c \in Conns, AnswerFeatures(c)
  PROVE  CallsInv'
<1> DEFINE m == [kind |-> "FeaturesReply"]
<1>1. PICK r \in owed[c] : Write(c, m) /\ owed' = [owed EXCEPT ![c] = @ \ {r}]
  BY DEF AnswerFeatures
<1>2. m \in AnyMessages /\ MessageNames(c, m)
  BY DEF AnyMessages, MessageNames
<1>3. owed \in [Conns -> SUBSET AnyRequests]
  BY DEF CallsInv, CallsTypeOK
<1>4. owed' \in [Conns -> SUBSET AnyRequests] /\ \A d \in Conns : owed'[d] \subseteq owed[d]
  BY <1>1, <1>3
<1> QED
  BY <1>1, <1>2, <1>4, WriteKeeps

LEMMA AnswerStatsKeeps ==
  ASSUME CallsInv, NEW c \in Conns, NEW k \in Calls, AnswerStats(c, k)
  PROVE  CallsInv'
<1>1. PICK r \in owed[c] :
        /\ r.kind = "Stats"
        /\ \E m \in [kind : {"StatsReply"}, xid : {r.xid}, rows : {0, 1}, for : {r.for}]
                      \cup [kind : {"Other"}, xid : {r.xid}, for : {r.for}] : Write(c, m)
        /\ owed' \in {owed, [owed EXCEPT ![c] = @ \ {r}]}
  BY DEF AnswerStats
<1>2. PICK m \in [kind : {"StatsReply"}, xid : {r.xid}, rows : {0, 1}, for : {r.for}]
                   \cup [kind : {"Other"}, xid : {r.xid}, for : {r.for}] : Write(c, m)
  BY <1>1
<1>3. owed \in [Conns -> SUBSET AnyRequests] /\ RequestNames(c, r)
  BY DEF CallsInv, CallsTypeOK, TrafficNamesCalls
<1>4. r.xid \in Nat /\ r.for \in Calls
  BY <1>1, <1>3 DEF AnyRequests
<1>5. m \in AnyMessages /\ m.xid = r.xid /\ m.for = r.for
  BY <1>4 DEF AnyMessages
<1>6. MessageNames(c, m)
  BY <1>1, <1>3, <1>5 DEF RequestNames, MessageNames
<1>7. owed' \in [Conns -> SUBSET AnyRequests] /\ \A d \in Conns : owed'[d] \subseteq owed[d]
  BY <1>1, <1>3
<1> QED
  BY <1>2, <1>5, <1>6, <1>7, WriteKeeps

LEMMA HandleCallsKeeps ==
  ASSUME CallsInv, NEW c \in Conns, Handle(c)
  PROVE  CallsInv'
<1>1. switches \in [SwitchIds -> Conns \cup {NoConn}]
      /\ owed \in [Conns -> SUBSET AnyRequests]
  BY DEF CallsInv, CallsTypeOK
<1>2. CASE HandleUnparsable(c)
  BY <1>1, <1>2, TakeKeeps DEF HandleUnparsable, trxVars
<1>3. CASE HandleEchoRequest(c)
  BY <1>1, <1>3, TakeKeeps DEF HandleEchoRequest, trxVars
<1>4. CASE HandleInitial(c)
  <2> DEFINE f == [kind |-> "Features"]
  <2>1. /\ UNCHANGED <<switches, txns, xidCell, call>>
        /\ \E kinds : Take(c, kinds)
        /\ owed' = owed \/ owed' = [owed EXCEPT ![c] = @ \cup {f}]
    BY <1>4 DEF HandleInitial, trxVars
  <2>2. f \in AnyRequests /\ \A d : RequestNames(d, f)
    BY DEF AnyRequests, RequestNames
  <2> HIDE DEF f
  <2>3. /\ owed' \in [Conns -> SUBSET AnyRequests]
        /\ \A d \in Conns : \A r \in owed'[d] : r \in owed[d] \/ r = f
    BY <1>1, <2>1, <2>2
  <2>4. \A d \in Conns : \A r \in owed'[d] : r \in owed[d] \/ RequestNames(d, r)
    BY <2>2, <2>3
  <2>5. /\ inbox' \in [Conns -> Seq(AnyMessages)]
        /\ \A d \in Conns : \A i \in 1..Len(inbox'[d]) : MessageNames(d, inbox'[d][i])
    BY <2>1, TakeLeaves
  <2> QED
    BY <1>1, <2>1, <2>3, <2>4, <2>5, TrafficKeeps
<1>5. CASE Register(c)
  <2>1. /\ Take(c, {"FeaturesReply"}) /\ UNCHANGED <<owed, txns, xidCell, call>>
        /\ switches' = switches \/ switches' = [switches EXCEPT ![peer[c]] = c]
    BY <1>5 DEF Register, trxVars
  <2>2. switches' \in [SwitchIds -> Conns \cup {NoConn}]
    BY <1>1, <2>1
  <2> QED
    BY <2>1, <2>2, TakeKeeps
<1>6. CASE DropEarly(c)
  BY <1>1, <1>6, TakeKeeps DEF DropEarly, trxVars
<1>7. CASE Disconnect(c)
  <2>1. /\ Take(c, {"Eof"}) /\ UNCHANGED <<owed, txns, xidCell, call>>
        /\ switches' = [switches EXCEPT ![peer[c]] = NoConn]
    BY <1>7 DEF Disconnect, trxVars
  <2>2. switches' \in [SwitchIds -> Conns \cup {NoConn}]
    BY <1>1, <2>1
  <2> QED
    BY <2>1, <2>2, TakeKeeps
<1>8. CASE HandleConnected(c)
  <2> DEFINE m == Head(inbox[c])
  <2>1. /\ UNCHANGED <<owed, switches, xidCell>>
        /\ Take(c, {"Hello", "FeaturesReply", "Event", "Other", "StatsReply"})
        /\ UNCHANGED <<txns, call>> \/ EndTransaction(c, m)
    BY <1>8 DEF HandleConnected
  <2>2. m \in AnyMessages /\ MessageNames(c, m)
    <3>1. inbox[c] \in Seq(AnyMessages) /\ inbox[c] # <<>>
      BY <2>1 DEF Take, CallsInv, CallsTypeOK
    <3>2. 1 \in 1..Len(inbox[c]) /\ m = inbox[c][1] /\ m \in AnyMessages
      BY <3>1
    <3> QED
      BY <3>2 DEF CallsInv, TrafficNamesCalls
  <2>3. /\ inbox' \in [Conns -> Seq(AnyMessages)]
        /\ \A d \in Conns : \A i \in 1..Len(inbox'[d]) : MessageNames(d, inbox'[d][i])
    BY <2>1, TakeLeaves
  <2>4. CASE UNCHANGED <<txns, call>>
    BY <1>1, <2>1, <2>4, TakeKeeps
  <2>5. CASE EndTransaction(c, m)
    <3> HIDE DEF m
    <3> QED
      BY <2>1, <2>2, <2>3, <2>5, EndKeeps
  <2> QED
    BY <2>1, <2>4, <2>5
<1> QED
  BY <1>2, <1>3, <1>4, <1>5, <1>6, <1>7, <1>8 DEF Handle

---------------------------------------------------------------------------

LEMMA CallsInvAtFirst == Init => CallsInv
<1> SUFFICES ASSUME Init PROVE CallsInv
  OBVIOUS
<1>1. /\ inbox = [c \in Conns |-> <<>>] /\ owed = [c \in Conns |-> {}]
      /\ switches = [s \in SwitchIds |-> NoConn] /\ txns = [c \in Conns |-> {}]
      /\ xidCell = [c \in Conns |-> FirstXid]
      /\ call = [k \in Calls |-> [state |-> "idle"]]
  BY DEF Init
<1>2. CallsTypeOK
  <2>1. [state |-> "idle"] \in AnyCallStates
    BY DEF AnyCallStates
  <2>2. call \in [Calls -> AnyCallStates]
    BY <1>1, <2>1
  <2> QED
    BY <1>1, <2>2, FirstXidIsNat DEF CallsTypeOK
<1>3. XidsAreTaken /\ CallsMakeOneTransaction
  BY <1>1, FirstXidIsNat DEF XidsAreTaken, CallsMakeOneTransaction
<1>4. TrafficNamesCalls
  BY <1>1 DEF TrafficNamesCalls
<1>5. TransactionsArePending /\ CallGetsItsAnswer
  <2>1. \A k \in Calls : call[k].state = "idle"
    BY <1>1
  <2> QED
    BY <1>1, <2>1 DEF TransactionsArePending, CallGetsItsAnswer
<1> QED
  BY <1>2, <1>3, <1>4, <1>5 DEF CallsInv

LEMMA CallsInvStep == CallsInv /\ [Next]_vars => CallsInv'
<1> SUFFICES ASSUME CallsInv, [Next]_vars PROVE CallsInv'
  OBVIOUS
<1>1. ASSUME NEW c \in Conns, Open(c) PROVE CallsInv'
  BY <1>1, SameTrafficKeeps DEF Open, trxVars
<1>2. ASSUME NEW c \in Conns,
             Unsolicited(c) \/ AnswerFeatures(c) \/ \E k \in Calls : AnswerStats(c, k)
      PROVE  CallsInv'
  BY <1>2, UnsolicitedKeeps, AnswerFeaturesKeeps, AnswerStatsKeeps
<1>3. ASSUME NEW c \in Conns, Handle(c) PROVE CallsInv'
  BY <1>3, HandleCallsKeeps
<1>4. CASE DeliverEvent \/ \E s \in SwitchIds : SendToCrashed(s)
  BY <1>4, SameTrafficKeeps DEF DeliverEvent, SendToCrashed, connVars, trxVars
<1>5. CASE \E s \in SwitchIds, k \in Calls : SendTrx(k, s)
  BY <1>5, SendTrxKeeps
<1>6. CASE UNCHANGED vars
  BY <1>6, SameTrafficKeeps DEF vars
<1> QED
  BY <1>1, <1>2, <1>3, <1>4, <1>5, <1>6 DEF Next

\* openflow.ml, rpc_handler and client_handler: the Ivar of a transaction in the table is
\* empty, so filling it never raises, and a call that waits has its transaction there.
THEOREM IvarsAreFilledOnce == Spec => []TransactionsArePending
<1>1. CallsInv => TransactionsArePending
  BY DEF CallsInv
<1> QED
  BY CallsInvAtFirst, CallsInvStep, <1>1, PTL DEF Spec

\* openflow.ml, client_handler: a statistics call is given the switch's answer to its own
\* request, whatever the controller sends under other identifiers and in whatever order
\* the answers come.
THEOREM CallsGetTheirOwnAnswers == Spec => []CallGetsItsAnswer
<1>1. CallsInv => CallGetsItsAnswer
  BY DEF CallsInv
<1> QED
  BY CallsInvAtFirst, CallsInvStep, <1>1, PTL DEF Spec

---------------------------------------------------------------------------
(* Types.  The identifiers on their way are bounded by the counters, and a counter
   by the number of calls that have been made. *)

Made == {k \in Calls : call[k].state # "idle"}

XidsAreFew == \A c \in Conns : xidCell[c] <= FirstXid + Cardinality(Made)

\* Only SwitchDown names the identifier 0 of what is no switch.
Reports ==
  [kind : {"SwitchUp"}, sw : SwitchIds] \cup [kind : {"SwitchDown"}, sw : SwitchIds \cup {Zero}]
    \cup [kind : {"Network"}]

ReportsTypeOK ==
  /\ listening \in BOOLEAN /\ rpcListening \in BOOLEAN /\ rpcOpen \in BOOLEAN
  /\ events \in Seq(Reports) /\ view \subseteq SwitchIds

TypeInv == TableInv /\ CallsInv /\ XidsAreFew /\ ReportsTypeOK

LEMMA MadeIsFinite == IsFiniteSet(Made) /\ Cardinality(Made) \in 0..Cardinality(Calls)
<1>1. Made \in SUBSET Calls
  BY DEF Made
<1> QED
  BY <1>1, CallsAreFinite, FS_Subset, FS_CardinalityType

LEMMA TypeInvIsEnough == TypeInv => TypeOK
<1> SUFFICES ASSUME TypeInv PROVE TypeOK
  OBVIOUS
<1> DEFINE low(x) == x \in Nat /\ \E c \in Conns : x <= xidCell[c]
<1>1. \A x : low(x) => x \in Xids
  <2> SUFFICES ASSUME NEW x \in Nat, NEW c \in Conns, x <= xidCell[c] PROVE x \in Xids
    OBVIOUS
  <2>1. xidCell[c] \in Nat /\ xidCell[c] <= FirstXid + Cardinality(Made)
    BY DEF TypeInv, CallsInv, CallsTypeOK, XidsAreFew
  <2>2. Cardinality(Calls) \in Nat
    BY CallsAreFinite, FS_CardinalityType
  <2> QED
    BY <2>1, <2>2, MadeIsFinite, FirstXidIsNat DEF Xids
<1>2. ASSUME NEW c \in Conns PROVE inbox[c] \in Seq(Messages)
  <2>1. inbox[c] \in Seq(AnyMessages)
    BY DEF TypeInv, CallsInv, CallsTypeOK
  <2>2. ASSUME NEW i \in 1..Len(inbox[c]) PROVE inbox[c][i] \in Messages
    <3>1. inbox[c][i] \in AnyMessages /\ MessageNames(c, inbox[c][i])
      BY <2>1 DEF TypeInv, CallsInv, TrafficNamesCalls
    <3>2. inbox[c][i].kind \in {"Event", "Other", "StatsReply"} => inbox[c][i].xid \in Xids
      BY <1>1, <3>1 DEF MessageNames, Names, AnyMessages
    <3> QED
      BY <3>1, <3>2 DEF AnyMessages, Messages
  <2> QED
    BY <2>1, <2>2
<1>3. ASSUME NEW c \in Conns PROVE owed[c] \in SUBSET Requests
  <2> SUFFICES ASSUME NEW r \in owed[c] PROVE r \in Requests
    OBVIOUS
  <2>1. r \in AnyRequests /\ RequestNames(c, r)
    BY DEF TypeInv, CallsInv, CallsTypeOK, TrafficNamesCalls
  <2>2. r.kind = "Stats" => r.xid \in Xids
    BY <1>1, <2>1 DEF RequestNames, Names, AnyRequests
  <2> QED
    BY <2>1, <2>2 DEF AnyRequests, Requests
<1>4. ASSUME NEW c \in Conns PROVE txns[c] \in SUBSET [xid : Xids, call : Calls]
  <2> SUFFICES ASSUME NEW x \in txns[c] PROVE x \in [xid : Xids, call : Calls]
    OBVIOUS
  <2>1. x \in [xid : Nat, call : Calls] /\ x.xid <= xidCell[c]
    BY DEF TypeInv, CallsInv, CallsTypeOK, XidsAreTaken
  <2> QED
    BY <1>1, <2>1
<1>5. ASSUME NEW k \in Calls PROVE call[k] \in CallStates
  <2>1. call[k] \in AnyCallStates
    BY DEF TypeInv, CallsInv, CallsTypeOK
  <2>2. ASSUME call[k].state = "pending" PROVE call[k].xid \in Xids
    <3>1. call[k].on \in Conns /\ call[k].xid \in Nat
      BY <2>1, <2>2 DEF AnyCallStates
    <3>2. [xid |-> call[k].xid, call |-> k] \in txns[call[k].on]
      BY <2>2 DEF TypeInv, CallsInv, TransactionsArePending
    <3> HIDE DEF low
    <3>3. [xid |-> call[k].xid, call |-> k].xid \in Xids
      BY <1>4, <3>1, <3>2
    <3> QED
      BY <3>3
  <2> QED
    BY <2>1, <2>2 DEF AnyCallStates, CallStates
<1>6. \A c \in Conns : xidCell[c] \in Xids
  BY <1>1 DEF TypeInv, CallsInv, CallsTypeOK
<1>7. events \in Seq(Events)
  BY DEF TypeInv, ReportsTypeOK, Reports, Events
<1> QED
  BY <1>2, <1>3, <1>4, <1>5, <1>6, <1>7
  DEF TypeOK, TypeInv, TableInv, TableTypeOK, CallsInv, CallsTypeOK, ReportsTypeOK

\* A call that is made stays made.
LEMMA FewXidsStay ==
  ASSUME XidsAreFew, xidCell' = xidCell, \A k \in Calls : call'[k].state = "idle" => call[k].state = "idle",
         xidCell \in [Conns -> Nat]
  PROVE  XidsAreFew'
<1>1. Made \in SUBSET Made'
  BY DEF Made
<1>2. IsFiniteSet(Made')
  <2>1. Made' \in SUBSET Calls
    BY DEF Made
  <2> QED
    BY <2>1, CallsAreFinite, FS_Subset
<1>3. Cardinality(Made) <= Cardinality(Made') /\ Cardinality(Made') \in Nat
  BY <1>1, <1>2, FS_Subset, FS_CardinalityType
<1>4. ASSUME NEW c \in Conns PROVE xidCell'[c] <= FirstXid + Cardinality(Made')
  <2>1. xidCell[c] <= FirstXid + Cardinality(Made) /\ xidCell[c] \in Nat
    BY DEF XidsAreFew
  <2> QED
    BY <1>3, <2>1, MadeIsFinite, FirstXidIsNat
<1> QED
  BY <1>4 DEF XidsAreFew

LEMMA SendTrxIsFew ==
  ASSUME TypeInv, NEW k \in Calls, NEW s \in SwitchIds, SendTrx(k, s)
  PROVE  XidsAreFew'
<1> DEFINE c == switches[s]
<1>1. /\ call \in [Calls -> AnyCallStates] /\ xidCell \in [Conns -> Nat]
      /\ c \in Conns \cup {NoConn}
  BY DEF TypeInv, CallsInv, CallsTypeOK
<1>2. call[k].state = "idle"
  BY DEF SendTrx
<1>3. \E v : v.state # "idle" /\ call' = [call EXCEPT ![k] = v]
  <2>1. \/ call' = [call EXCEPT ![k] = [state |-> "eof"]]
        \/ call' = [call EXCEPT ![k] = [state |-> "pending", on |-> c, xid |-> NextXid(c)]]
    BY DEF SendTrx
  <2> QED
    BY <2>1
<1>4. /\ call'[k].state # "idle"
      /\ \A j \in Calls : j # k => call'[j] = call[j]
      /\ \A d \in Conns : xidCell'[d] <= xidCell[d] + 1 /\ xidCell'[d] \in Nat
  <2>1. xidCell' = xidCell \/ xidCell' = [xidCell EXCEPT ![c] = xidCell[c] + 1]
    BY DEF SendTrx, NextXid
  <2> QED
    BY <1>1, <1>3, <2>1
<1>5. Made' = Made \cup {k} /\ k \notin Made
  BY <1>2, <1>4 DEF Made
<1>6. Cardinality(Made') = Cardinality(Made) + 1
  BY <1>5, MadeIsFinite, FS_AddElement
<1>7. ASSUME NEW d \in Conns PROVE xidCell'[d] <= FirstXid + Cardinality(Made')
  <2>1. xidCell[d] <= FirstXid + Cardinality(Made) /\ xidCell[d] \in Nat
    BY <1>1 DEF TypeInv, XidsAreFew
  <2> QED
    BY <1>4, <1>6, <2>1, MadeIsFinite, FirstXidIsNat
<1> QED
  BY <1>7 DEF XidsAreFew

LEMMA HandleIsTyped ==
  ASSUME TypeInv, NEW c \in Conns, Handle(c)
  PROVE  ReportsTypeOK' /\ XidsAreFew'
<1>1. /\ listening \in BOOLEAN /\ rpcListening \in BOOLEAN /\ rpcOpen \in BOOLEAN
      /\ events \in Seq(Reports) /\ view \subseteq SwitchIds
  BY DEF TypeInv, ReportsTypeOK
<1>2. /\ peer[c] \in SwitchIds /\ call \in [Calls -> AnyCallStates]
      /\ xidCell \in [Conns -> Nat] /\ txns \in [Conns -> SUBSET [xid : Nat, call : Calls]]
  BY DEF TypeInv, TableInv, TableTypeOK, CallsInv, CallsTypeOK
<1>3. ASSUME UNCHANGED <<events, xidCell, call, view, rpcListening, rpcOpen>>,
             listening' \in BOOLEAN
      PROVE  ReportsTypeOK' /\ XidsAreFew'
  BY <1>1, <1>2, <1>3, FewXidsStay DEF TypeInv, ReportsTypeOK
<1>4. ASSUME NEW e \in Reports, events' = Append(events, e),
             UNCHANGED <<view, rpcListening, rpcOpen, listening>>
      PROVE  ReportsTypeOK'
  BY <1>1, <1>4 DEF ReportsTypeOK
<1>5. CASE HandleUnparsable(c) \/ HandleEchoRequest(c) \/ HandleInitial(c) \/ DropEarly(c)
  BY <1>1, <1>3, <1>5
  DEF HandleUnparsable, HandleEchoRequest, HandleInitial, DropEarly, Raise, trxVars, rpcVars
<1>6. CASE Register(c)
  <2>1. [kind |-> "SwitchUp", sw |-> peer[c]] \in Reports
    BY <1>2 DEF Reports
  <2>2. UNCHANGED <<xidCell, call, view, rpcListening, rpcOpen>>
    BY <1>6 DEF Register, trxVars, rpcVars
  <2>3. XidsAreFew'
    BY <1>2, <2>2, FewXidsStay DEF TypeInv
  <2>4. CASE switches[peer[c]] = NoConn
    BY <1>4, <1>6, <2>1, <2>2, <2>3, <2>4 DEF Register
  <2>5. CASE switches[peer[c]] # NoConn
    BY <1>3, <1>6, <2>2, <2>5 DEF Register, Raise
  <2> QED
    BY <2>4, <2>5
<1>7. CASE Disconnect(c)
  <2>1. [kind |-> "SwitchDown", sw |-> peer[c]] \in Reports
    BY <1>2 DEF Reports
  <2>2. /\ UNCHANGED <<xidCell, call, view, rpcListening, rpcOpen, listening>>
        /\ events' = Append(events, [kind |-> "SwitchDown", sw |-> peer[c]])
    BY <1>7 DEF Disconnect, trxVars, rpcVars
  <2>3. XidsAreFew'
    BY <1>2, <2>2, FewXidsStay DEF TypeInv
  <2> QED
    BY <1>4, <2>1, <2>2, <2>3
<1>8. CASE HandleConnected(c)
  <2> DEFINE m == Head(inbox[c])
  <2>1. UNCHANGED <<xidCell, view, rpcListening, rpcOpen>>
    BY <1>8 DEF HandleConnected, rpcVars
  <2>2. CASE EventRaises(m)
    BY <1>3, <1>8, <2>1, <2>2 DEF HandleConnected, Raise
  <2>3. CASE ~EventRaises(m)
    <3>1. events' = Append(events, EventOf(m)) /\ EndTransaction(c, m) /\ listening' = listening
      BY <1>8, <2>3 DEF HandleConnected
    <3>2. EventOf(m) \in Reports
      BY DEF EventOf, Reports
    <3>3. ASSUME NEW k \in Calls, call'[k].state = "idle" PROVE call[k].state = "idle"
      BY <3>1, <3>3 DEF EndTransaction
    <3>4. XidsAreFew'
      BY <1>2, <2>1, <3>3, FewXidsStay DEF TypeInv
    <3> QED
      BY <1>4, <2>1, <3>1, <3>2, <3>4
  <2> QED
    BY <2>2, <2>3
<1> QED
  BY <1>5, <1>6, <1>7, <1>8 DEF Handle

LEMMA TypeInvStep == TypeInv /\ [Next]_vars => TypeInv'
<1> SUFFICES ASSUME TypeInv, [Next]_vars PROVE TypeInv'
  OBVIOUS
<1>1. TableInv' /\ CallsInv'
  BY TableInvStep, CallsInvStep DEF TypeInv
<1> SUFFICES ReportsTypeOK' /\ XidsAreFew'
  BY <1>1 DEF TypeInv
<1>2. /\ listening \in BOOLEAN /\ rpcListening \in BOOLEAN /\ rpcOpen \in BOOLEAN
      /\ events \in Seq(Reports) /\ view \subseteq SwitchIds /\ xidCell \in [Conns -> Nat]
  BY DEF TypeInv, ReportsTypeOK, CallsInv, CallsTypeOK
<1>3. ASSUME UNCHANGED <<xidCell, call>> PROVE XidsAreFew'
  BY <1>2, <1>3, FewXidsStay DEF TypeInv
<1>4. ASSUME UNCHANGED <<listening, xidCell, call, events, view, rpcListening, rpcOpen>>
      PROVE  ReportsTypeOK' /\ XidsAreFew'
  BY <1>2, <1>3, <1>4 DEF ReportsTypeOK
<1>5. ASSUME NEW c \in Conns,
             \/ Open(c) \/ Unsolicited(c) \/ AnswerFeatures(c)
             \/ \E k \in Calls : AnswerStats(c, k)
      PROVE  ReportsTypeOK' /\ XidsAreFew'
  BY <1>4, <1>5
  DEF Open, Unsolicited, AnswerFeatures, AnswerStats, Write, trxVars, rpcVars
<1>6. CASE DeliverEvent
  <2>1. /\ events # <<>> /\ events' = Tail(events)
        /\ view' = CASE Head(events).kind = "SwitchUp"   -> view \cup {Head(events).sw}
                     [] Head(events).kind = "SwitchDown" -> view \ {Head(events).sw}
                     [] OTHER                            -> view
        /\ UNCHANGED <<listening, xidCell, call, rpcListening, rpcOpen>>
    BY <1>6 DEF DeliverEvent, trxVars, rpcVars
  <2>2. Head(events) \in Reports /\ Tail(events) \in Seq(Reports)
    BY <1>2, <2>1
  <2>3. view' \subseteq SwitchIds
    BY <1>2, <2>1, <2>2 DEF Reports
  <2> QED
    BY <1>2, <1>3, <2>1, <2>2, <2>3 DEF ReportsTypeOK
<1>7. ASSUME NEW s \in SwitchIds, SendToCrashed(s)
      PROVE  ReportsTypeOK' /\ XidsAreFew'
  <2>1. UNCHANGED <<listening, xidCell, call, events, view>> /\ rpcListening' = FALSE /\ rpcOpen' = FALSE
    BY <1>7 DEF SendToCrashed, trxVars
  <2> QED
    BY <1>2, <1>3, <2>1 DEF ReportsTypeOK
<1>8. ASSUME NEW s \in SwitchIds, NEW k \in Calls, SendTrx(k, s)
      PROVE  ReportsTypeOK' /\ XidsAreFew'
  <2>1. /\ UNCHANGED <<listening, events, view, rpcOpen>>
        /\ rpcListening' = rpcListening \/ rpcListening' = FALSE
    BY <1>8 DEF SendTrx
  <2> QED
    BY <1>2, <1>8, <2>1, SendTrxIsFew DEF ReportsTypeOK
<1>9. CASE UNCHANGED vars
  BY <1>4, <1>9 DEF vars
<1> QED
  BY <1>5, <1>6, <1>7, <1>8, <1>9, HandleIsTyped DEF Next

\* openflow.ml: every variable keeps its type; in particular the counter of each
\* connection stays within the calls that were made, the events name switches that
\* exist, and every message and transaction carries an identifier that was given out.
THEOREM TypeCorrect == Spec => []TypeOK
<1>1. Init => TypeInv
  <2> SUFFICES ASSUME Init PROVE XidsAreFew /\ ReportsTypeOK
    BY TableInvAtFirst, CallsInvAtFirst DEF TypeInv
  <2>1. XidsAreFew
    BY MadeIsFinite, FirstXidIsNat DEF Init, XidsAreFew
  <2> QED
    BY <2>1 DEF Init, ReportsTypeOK
<1> QED
  BY <1>1, TypeInvStep, TypeInvIsEnough, PTL DEF Spec

====
