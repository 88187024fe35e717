---- MODULE ApplicationProofs ----
(* What is proved of the Python applications.  Those that keep state of the network: the
   learning switch's policy is that of its tables, for any switches, ports, addresses and
   bounds; the lists of the firewall and the policy it
   has sent, for any connections, labels and number of overlapping cleaning runs; the
   graph that Topology draws and the routes that Routing finds in it, for any switches,
   hosts, ports and cables.  Those that build predicates and policies: Packet.matches
   and the conversions of packets to payloads and back, the repeater and the port
   counter, and the load balancer. *)
EXTENDS LearningSwitch, Firewall, Discovery, SwitchInventory, LoadBalancer, PacketMatches,
        FiniteSetTheorems, TLAPS

(* The learning switch. *)

LEMMA NothingIsEmpty == DOMAIN Nothing = {}
  BY DEF Nothing

\* What update keeps and what it sets, whether or not it raises.
LEMMA UpdateSets ==
  ASSUME NEW t, NEW tab, Update(t, tab)
  PROVE  topo' = t /\ table' = tab
  BY DEF Update

SameSwitches == DOMAIN topo = DOMAIN table

\* Every handler enters a switch in both dictionaries or in neither.
LEMMA HandlerKeepsSwitches ==
  ASSUME SameSwitches, NEW e, Handle(e)
  PROVE  SameSwitches'
<1>1. ASSUME NEW s, NEW ps, SwitchUp(s, ps) PROVE SameSwitches'
  BY <1>1, UpdateSets DEF SwitchUp, SameSwitches, With
<1>2. ASSUME NEW s, SwitchDown(s) PROVE SameSwitches'
  BY <1>2, UpdateSets DEF SwitchDown, SameSwitches, Without
<1>3. ASSUME NEW s, NEW p, PortUp(s, p) PROVE SameSwitches'
  <2>1. CASE s \in DOMAIN topo
    <3>1. topo' = With(topo, s, Append(topo[s], p)) /\ table' = table
      BY <1>3, <2>1, UpdateSets DEF PortUp
    <3> QED
      BY <2>1, <3>1 DEF SameSwitches, With
  <2>2. CASE s \notin DOMAIN topo
    <3>1. topo' = With(topo, s, <<p>>) /\ table' = With(table, s, Nothing)
      BY <1>3, <2>2, UpdateSets DEF PortUp
    <3> QED
      BY <3>1 DEF SameSwitches, With
  <2> QED
    BY <2>1, <2>2
<1>4. ASSUME NEW s, NEW p, PortDown(s, p) PROVE SameSwitches'
  <2>1. CASE s \notin DOMAIN topo
    BY <1>4, <2>1, UpdateSets DEF PortDown, SameSwitches
  <2>2. CASE s \in DOMAIN topo /\ \E i \in DOMAIN topo[s] : topo[s][i] = p
    BY <1>4, <2>2, UpdateSets DEF PortDown, SameSwitches, With
  <2>3. CASE s \in DOMAIN topo /\ ~\E i \in DOMAIN topo[s] : topo[s][i] = p
    BY <1>4, <2>3 DEF PortDown, SameSwitches
  <2> QED
    BY <2>1, <2>2, <2>3
<1>5. ASSUME NEW s, NEW p, NEW mac, PacketIn(s, p, mac) PROVE SameSwitches'
  <2> DEFINE t == IF s \in DOMAIN topo THEN topo ELSE With(topo, s, <<>>)
             tab == IF s \in DOMAIN topo THEN table ELSE With(table, s, Nothing)
  <2>1. DOMAIN t = DOMAIN table \cup {s} /\ DOMAIN tab = DOMAIN table \cup {s}
    BY DEF SameSwitches, With
  <2>2. topo' = t /\ (table' = tab \/ table' = With(tab, s, With(tab[s], mac, p)))
    BY <1>5, UpdateSets DEF PacketIn
  <2> HIDE DEF t, tab
  <2> QED
    BY <2>1, <2>2 DEF SameSwitches, With
<1> QED
  BY <1>1, <1>2, <1>3, <1>4, <1>5 DEF Handle

\* handle_current_switches enters the switches that it reaches, and either the policy of
\* what it leaves behind was sent or it could not be.
LEMMA CurrentSwitchesStop ==
  ASSUME HandleCurrentSwitches
  PROVE  \E done : /\ topo' = Announced(done) /\ table' = Cleared(done)
                   /\ \/ ~Sendable(Announced(done))
                      \/ done = {} /\ policySent' = policySent
                      \/ policySent' = [topo |-> Announced(done), table |-> Cleared(done)]
<1>1. PICK order \in [1..Cardinality(DOMAIN answer) -> DOMAIN answer] :
        LET told(n) == {order[i] : i \in 1..n}
            sent(n) == \A k \in 1..n : Sendable(Announced(told(k)))
        IN \E last \in {n \in 0..Len(order) : sent(n) /\ (n # Len(order) => ~sent(n + 1))} :
             LET done == IF last = Len(order) THEN told(last) ELSE told(last + 1)
             IN /\ topo' = Announced(done) /\ table' = Cleared(done)
                /\ policySent' =
                     IF last = 0 THEN policySent
                     ELSE [topo |-> Announced(told(last)), table |-> Cleared(told(last))]
                /\ unsure' = unsure \cup (DOMAIN answer \ done)
  BY DEF HandleCurrentSwitches
<1> DEFINE told(n) == {order[i] : i \in 1..n}
           good(n) == Sendable(Announced(told(n)))
<1>2. PICK last \in 0..Len(order) :
        /\ \A k \in 1..last : good(k)
        /\ last # Len(order) => ~\A k \in 1..(last + 1) : good(k)
        /\ LET done == IF last = Len(order) THEN told(last) ELSE told(last + 1)
           IN topo' = Announced(done) /\ table' = Cleared(done)
        /\ policySent' =
             IF last = 0 THEN policySent
             ELSE [topo |-> Announced(told(last)), table |-> Cleared(told(last))]
  BY <1>1
<1>3. told(0) = {}
  OBVIOUS
<1> HIDE DEF told
<1>4. CASE last = Len(order)
  BY <1>2, <1>3, <1>4
<1>5. CASE last # Len(order)
  <2>1. ~good(last + 1)
    <3> HIDE DEF good
    <3>1. last \in Int /\ 0 <= last
      OBVIOUS
    <3> QED
      BY <1>2, <1>5, <3>1
  <2>2. topo' = Announced(told(last + 1)) /\ table' = Cleared(told(last + 1))
    BY <1>2, <1>5
  <2> QED
    BY <2>1, <2>2
<1> QED
  BY <1>4, <1>5

LEMMA SameSwitchesStep == SameSwitches /\ [LearningNext]_learningVars => SameSwitches'
<1> SUFFICES ASSUME SameSwitches, [LearningNext]_learningVars PROVE SameSwitches'
  OBVIOUS
<1>1. CASE HandleNext
  BY <1>1, HandlerKeepsSwitches DEF HandleNext
<1>2. CASE HandleCurrentSwitches
  BY <1>2, CurrentSwitchesStop DEF Announced, Cleared, SameSwitches
<1>3. CASE CurrentSwitches \/ NetworkNext \/ UNCHANGED learningVars
  <2>1. UNCHANGED app
    BY <1>3 DEF CurrentSwitches, NetworkNext, Connect, Disconnect, AddPort, DeletePort,
                SendPacket, Report, learningVars
  <2> QED
    BY <2>1 DEF app, SameSwitches
<1> QED
  BY <1>1, <1>2, <1>3 DEF LearningNext

---------------------------------------------------------------------------
(* The policy that was sent. *)

SentInv == SameSwitches /\ SentMatchesTables

\* A handler that ends with update has sent everything, unless it raised, and then
\* there is nothing that could be sent.
LEMMA UpdateSends ==
  ASSUME NEW t, NEW tab, Update(t, tab)
  PROVE  SentMatchesTables'
<1>1. topo' = t /\ table' = tab
  BY DEF Update
<1>2. CASE Sendable(t)
  <2>1. policySent' = [topo |-> t, table |-> tab]
    BY <1>2 DEF Update
  <2> QED
    BY <1>1, <2>1 DEF SentMatchesTables
<1>3. CASE ~Sendable(t)
  <2>1. ~Sendable(topo')
    BY <1>1, <1>3
  <2> QED
    BY <2>1 DEF SentMatchesTables
<1> QED
  BY <1>2, <1>3

LEMMA SameTablesMatch ==
  ASSUME SentMatchesTables, UNCHANGED <<topo, table, policySent>>
  PROVE  SentMatchesTables'
  BY DEF SentMatchesTables, Sendable

\* A switch that learn makes up has no ports, so that there is nothing to flood.
LEMMA MadeUpSwitchMatches ==
  ASSUME SentInv, NEW s, s \notin DOMAIN topo, policySent' = policySent,
         topo' = With(topo, s, <<>>), table' = With(table, s, Nothing)
  PROVE  SentMatchesTables'
<1>1. DOMAIN topo = DOMAIN table
  BY DEF SentInv, SameSwitches
<1>2. /\ DOMAIN topo' = DOMAIN topo \cup {s} /\ topo'[s] = <<>> /\ table'[s] = Nothing
      /\ \A t \in DOMAIN topo : topo'[t] = topo[t] /\ table'[t] = table[t]
  BY <1>1 DEF With
<1>3. Sendable(topo') => Sendable(topo)
  BY <1>2 DEF Sendable
<1> QED
  BY <1>2, <1>3 DEF SentInv, SentMatchesTables

LEMMA PacketInMatches ==
  ASSUME SentInv, NEW s, NEW p, NEW mac, PacketIn(s, p, mac)
  PROVE  SentMatchesTables'
<1>1. CASE ~Seen(mac, s)
  BY <1>1, UpdateSends DEF PacketIn
<1>2. CASE Seen(mac, s) /\ s \in DOMAIN topo
  <2>1. UNCHANGED <<topo, table, policySent>>
    BY <1>2 DEF PacketIn
  <2> QED
    BY <2>1, SameTablesMatch DEF SentInv
<1>3. CASE Seen(mac, s) /\ s \notin DOMAIN topo
  <2>1. /\ topo' = With(topo, s, <<>>) /\ table' = With(table, s, Nothing)
        /\ policySent' = policySent
    BY <1>3 DEF PacketIn
  <2> QED
    BY <1>3, <2>1, MadeUpSwitchMatches
<1> QED
  BY <1>1, <1>2, <1>3

LEMMA HandlerMatches ==
  ASSUME SentInv, NEW e, Handle(e)
  PROVE  SentMatchesTables'
<1>1. ASSUME NEW s, NEW ps, SwitchUp(s, ps) PROVE SentMatchesTables'
  BY <1>1, UpdateSends DEF SwitchUp
<1>2. ASSUME NEW s, SwitchDown(s) PROVE SentMatchesTables'
  BY <1>2, UpdateSends DEF SwitchDown
<1>3. ASSUME NEW s, NEW p, PortUp(s, p) PROVE SentMatchesTables'
  BY <1>3, UpdateSends DEF PortUp
<1>4. ASSUME NEW s, NEW p, PortDown(s, p) PROVE SentMatchesTables'
  <2>1. (\E t, tab : Update(t, tab)) \/ UNCHANGED <<topo, table, policySent>>
    BY <1>4 DEF PortDown
  <2> QED
    BY <2>1, UpdateSends, SameTablesMatch DEF SentInv
<1> QED
  BY <1>1, <1>2, <1>3, <1>4, PacketInMatches DEF Handle

\* switch_up of one switch after the other: the last one that could be sent is the
\* last of all, or else one was handled that could not.
LEMMA CurrentSwitchesMatch ==
  ASSUME SentInv, HandleCurrentSwitches
  PROVE  SentMatchesTables'
<1>1. PICK done : /\ topo' = Announced(done) /\ table' = Cleared(done)
                  /\ \/ ~Sendable(Announced(done))
                     \/ done = {} /\ policySent' = policySent
                     \/ policySent' = [topo |-> Announced(done), table |-> Cleared(done)]
  BY CurrentSwitchesStop
<1>2. CASE ~Sendable(Announced(done))
  <2>1. ~Sendable(topo')
    BY <1>1, <1>2
  <2> QED
    BY <2>1 DEF SentMatchesTables
<1>3. CASE done = {} /\ policySent' = policySent
  <2>1. /\ DOMAIN topo' = DOMAIN topo
        /\ \A s \in DOMAIN topo : topo'[s] = topo[s] /\ table'[s] = table[s]
    BY <1>1, <1>3 DEF Announced, Cleared, SentInv, SameSwitches
  <2>2. Sendable(topo') => Sendable(topo)
    BY <2>1 DEF Sendable
  <2> QED
    BY <1>3, <2>1, <2>2 DEF SentInv, SentMatchesTables
<1>4. CASE policySent' = [topo |-> Announced(done), table |-> Cleared(done)]
  <2>1. policySent' = [topo |-> topo', table |-> table']
    BY <1>1, <1>4
  <2> QED
    BY <2>1 DEF SentMatchesTables
<1> QED
  BY <1>1, <1>2, <1>3, <1>4

LEMMA SentInvStep == SentInv /\ [LearningNext]_learningVars => SentInv'
<1> SUFFICES ASSUME SentInv, [LearningNext]_learningVars PROVE SentInv'
  OBVIOUS
<1>1. SameSwitches'
  BY SameSwitchesStep DEF SentInv
<1>2. CASE HandleNext
  <2>1. Handle(Head(queue))
    BY <1>2 DEF HandleNext
  <2> QED
    BY <1>1, <2>1, HandlerMatches DEF SentInv
<1>3. CASE HandleCurrentSwitches
  BY <1>1, <1>3, CurrentSwitchesMatch DEF SentInv
<1>4. CASE CurrentSwitches \/ NetworkNext \/ UNCHANGED learningVars
  <2>1. UNCHANGED app
    BY <1>4 DEF CurrentSwitches, NetworkNext, Connect, Disconnect, AddPort, DeletePort,
                SendPacket, Report, learningVars
  <2>2. UNCHANGED <<topo, table, policySent>>
    BY <2>1 DEF app
  <2> QED
    BY <1>1, <2>2, SameTablesMatch DEF SentInv
<1> QED
  BY <1>2, <1>3, <1>4 DEF LearningNext

\* learning.py: the policy that was sent last is that of the topo and the table of this
\* moment, for any network and any order of events, unless no policy of them can be
\* sent; every handler tells the controller what it has changed.
THEOREM SentIsCurrent == LearningSpec => []SentMatchesTables
<1>1. LearningInit => SentInv
  <2> SUFFICES ASSUME LearningInit PROVE SentMatchesTables
    BY DEF LearningInit, SentInv, SameSwitches
  <2>1. topo = Nothing /\ policySent.topo = Nothing
    BY DEF LearningInit
  <2> QED
    BY <2>1, NothingIsEmpty DEF SentMatchesTables
<1>2. SentInv => SentMatchesTables
  BY DEF SentInv
<1> QED
  BY <1>1, <1>2, SentInvStep, PTL DEF LearningSpec

---------------------------------------------------------------------------
(* The firewall. *)

\* The labels in the allowed list have been taken, so that a new object is none of
\* them: what add_pending and allow compare does not change under the list.
FirewallTypeOK ==
  /\ lbl \in 0..MaxLabel
  /\ allowed \in Seq(1..lbl)
  /\ conn \in [Labels -> Conns \cup {AnyConn}]

Chain ==
  [phase : {"idle", "asking", "next"}, todo : Seq(Labels), asked : Labels \cup {0},
   clean : BOOLEAN]

ChainsOK == chains \in [Chains -> Chain]

FirewallInv == FirewallTypeOK /\ ChainsOK /\ AllowedOnce /\ SentIsAllowed

---------------------------------------------------------------------------
(* list.remove. *)

\* The list without the object at a place n.
WithoutPlace(q, n) == [i \in 1..(Len(q) - 1) |-> IF i < n THEN q[i] ELSE q[i + 1]]

LEMMA WithoutPlaceIsPart ==
  ASSUME NEW S, NEW q \in Seq(S), q # <<>>, NEW n
  PROVE  /\ WithoutPlace(q, n) \in Seq(S)
         /\ DOMAIN WithoutPlace(q, n) = 1..(Len(q) - 1)
         /\ \A i \in DOMAIN WithoutPlace(q, n) :
              \E j \in DOMAIN q : WithoutPlace(q, n)[i] = q[j]
<1>1. Len(q) \in Nat /\ DOMAIN q = 1..Len(q) /\ Len(q) - 1 \in Nat
  OBVIOUS
<1>2. \A i \in 1..(Len(q) - 1) : i \in DOMAIN q /\ i + 1 \in DOMAIN q
  BY <1>1
<1>3. \A i \in 1..(Len(q) - 1) : WithoutPlace(q, n)[i] \in {q[i], q[i + 1]}
  BY DEF WithoutPlace
<1>4. \A i \in DOMAIN q : q[i] \in S
  OBVIOUS
<1>5. WithoutPlace(q, n) \in [1..(Len(q) - 1) -> S]
  BY <1>2, <1>3, <1>4 DEF WithoutPlace
<1>6. WithoutPlace(q, n) \in Seq(S)
  BY <1>1, <1>5
<1> QED
  BY <1>2, <1>3, <1>5, <1>6

\* What is left is in the list, in any case.
LEMMA RemovedIsPart ==
  ASSUME NEW S, NEW q \in Seq(S), q # <<>>, NEW l
  PROVE  /\ Without1(q, l) \in Seq(S)
         /\ \A i \in DOMAIN Without1(q, l) : \E j \in DOMAIN q : Without1(q, l)[i] = q[j]
<1>1. PICK n : Without1(q, l) = WithoutPlace(q, n)
  BY DEF Without1, WithoutPlace
<1> QED
  BY <1>1, WithoutPlaceIsPart

\* If the connections of the list differ, so do those of what is left.
LEMMA RemovedIsDistinct ==
  ASSUME NEW S, NEW q \in Seq(S), NEW l, NEW m \in DOMAIN q, conn[q[m]] = conn[l],
         \A i, j \in DOMAIN q : i # j => conn[q[i]] # conn[q[j]]
  PROVE  \A i, j \in DOMAIN Without1(q, l) :
           i # j => conn[Without1(q, l)[i]] # conn[Without1(q, l)[j]]
<1>1. Len(q) \in Nat /\ DOMAIN q = 1..Len(q) /\ q # <<>>
  OBVIOUS
<1>2. \A o \in DOMAIN q : o < m => conn[q[o]] # conn[l]
  <2> SUFFICES ASSUME NEW o \in DOMAIN q, o < m PROVE conn[q[o]] # conn[l]
    OBVIOUS
  <2>1. o # m
    BY <1>1
  <2> QED
    BY <2>1
<1>3. PICK n \in DOMAIN q : Without1(q, l) = WithoutPlace(q, n)
  <2> DEFINE first(n) == conn[q[n]] = conn[l] /\ \A j \in DOMAIN q : j < n => conn[q[j]] # conn[l]
             n0 == CHOOSE n \in DOMAIN q : first(n)
  <2>1. n0 \in DOMAIN q
    <3>1. first(m)
      BY <1>2
    <3> HIDE DEF first
    <3> QED
      BY <3>1
  <2>2. Without1(q, l) = WithoutPlace(q, n0)
    BY DEF Without1, WithoutPlace
  <2> HIDE DEF n0
  <2> QED
    BY <2>1, <2>2
<1>4. n \in Nat /\ DOMAIN Without1(q, l) = 1..(Len(q) - 1)
  BY <1>1, <1>3, WithoutPlaceIsPart
<1> SUFFICES ASSUME NEW i \in DOMAIN Without1(q, l), NEW j \in DOMAIN Without1(q, l), i # j
             PROVE  conn[Without1(q, l)[i]] # conn[Without1(q, l)[j]]
  OBVIOUS
<1>5. i \in 1..(Len(q) - 1) /\ j \in 1..(Len(q) - 1)
  BY <1>4
<1> DEFINE at(k) == IF k < n THEN k ELSE k + 1
<1>6. at(i) \in DOMAIN q /\ at(j) \in DOMAIN q /\ at(i) # at(j)
  BY <1>1, <1>4, <1>5
<1>7. Without1(q, l)[i] = q[at(i)] /\ Without1(q, l)[j] = q[at(j)]
  BY <1>3, <1>5 DEF WithoutPlace
<1> HIDE DEF at
<1> QED
  BY <1>6, <1>7

---------------------------------------------------------------------------
(* Allowing. *)

\* allow: the new object is the last of the list, and the others keep theirs.
LEMMA AllowAppends ==
  ASSUME FirewallTypeOK, NEW c \in Conns, NEW l \in (lbl + 1)..MaxLabel, Allow(c, l),
         lbl' \in l..MaxLabel
  PROVE  /\ FirewallTypeOK'
         /\ DOMAIN allowed' = DOMAIN allowed \cup {Len(allowed) + 1}
         /\ conn'[allowed'[Len(allowed) + 1]] = c
         /\ Len(allowed) + 1 \notin DOMAIN allowed
         /\ \A i \in DOMAIN allowed : /\ allowed'[i] = allowed[i]
                                      /\ conn'[allowed'[i]] = conn[allowed[i]]
<1>1. /\ lbl \in Nat /\ MaxLabel \in Nat /\ l \in Labels /\ lbl < l /\ l <= lbl'
      /\ lbl' \in 0..MaxLabel
  BY FirewallBounds DEF FirewallTypeOK, Labels
<1>2. allowed' = Append(allowed, l) /\ conn' = [conn EXCEPT ![l] = c]
  BY DEF Allow
<1>3. allowed \in Seq(1..lbl') /\ l \in 1..lbl'
  BY <1>1 DEF FirewallTypeOK
<1>4. allowed' \in Seq(1..lbl')
  BY <1>2, <1>3
<1>5. conn' \in [Labels -> Conns \cup {AnyConn}]
  BY <1>1, <1>2 DEF FirewallTypeOK
<1>6. /\ DOMAIN allowed' = DOMAIN allowed \cup {Len(allowed) + 1}
      /\ Len(allowed) + 1 \notin DOMAIN allowed
      /\ allowed'[Len(allowed) + 1] = l
      /\ \A i \in DOMAIN allowed : allowed'[i] = allowed[i] /\ allowed[i] \in 1..lbl
  BY <1>2 DEF FirewallTypeOK
<1>7. \A i \in DOMAIN allowed : allowed[i] \in Labels /\ allowed[i] # l
  BY <1>1, <1>6 DEF Labels, FirewallTypeOK
<1> QED
  BY <1>1, <1>2, <1>4, <1>5, <1>6, <1>7 DEF FirewallTypeOK

\* A connection that has been answered was pending, so that it was not allowed.
LEMMA AnsweredKeeps ==
  ASSUME FirewallInv, NEW c \in Conns, Answered(c)
  PROVE  FirewallInv'
<1>1. /\ lbl + 2 \in (lbl + 1)..MaxLabel /\ lbl' \in (lbl + 2)..MaxLabel
      /\ Allow(c, lbl + 2)
  BY FirewallBounds DEF Answered, Take, FirewallInv, FirewallTypeOK
<1>2. /\ FirewallTypeOK'
      /\ DOMAIN allowed' = DOMAIN allowed \cup {Len(allowed) + 1}
      /\ conn'[allowed'[Len(allowed) + 1]] = c
      /\ Len(allowed) + 1 \notin DOMAIN allowed
      /\ \A i \in DOMAIN allowed : conn'[allowed'[i]] = conn[allowed[i]]
  BY <1>1, AllowAppends DEF FirewallInv
<1>3. /\ fwVersion' = fwVersion /\ fwVersion # 1 /\ c \in pending /\ pending' = pending \ {c}
      /\ UNCHANGED cleaning /\ installing' = Granted(allowed', conn')
  BY DEF Answered
<1>4. c \notin AllowedConns
  BY <1>3 DEF FirewallInv, AllowedOnce
<1>5. AllowedConns' = AllowedConns \cup {c}
  BY <1>2 DEF AllowedConns
<1>6. AllowedOnce'
  <2>1. pending' \cap AllowedConns' = {}
    BY <1>3, <1>5 DEF FirewallInv, AllowedOnce
  <2>2. ASSUME NEW i \in DOMAIN allowed', NEW j \in DOMAIN allowed', i # j
        PROVE  conn'[allowed'[i]] # conn'[allowed'[j]]
    BY <2>2, <1>2, <1>3, <1>4 DEF FirewallInv, AllowedOnce, AllowedConns
  <2> QED
    BY <2>1, <2>2 DEF AllowedOnce
<1>7. SentIsAllowed'
  BY <1>3 DEF SentIsAllowed, GlobalPolicy
<1>8. ChainsOK'
  BY <1>3 DEF cleaning, FirewallInv, ChainsOK
<1> QED
  BY <1>2, <1>6, <1>7, <1>8 DEF FirewallInv

LEMMA AllowAtOnceKeeps ==
  ASSUME FirewallInv, NEW c \in Conns, AllowAtOnce(c)
  PROVE  FirewallInv'
<1>1. /\ lbl + 1 \in (lbl + 1)..MaxLabel /\ lbl' \in (lbl + 1)..MaxLabel
      /\ Allow(c, lbl + 1)
  BY FirewallBounds DEF AllowAtOnce, Take, FirewallInv, FirewallTypeOK
<1>2. FirewallTypeOK'
  BY <1>1, AllowAppends DEF FirewallInv
<1>3. /\ fwVersion' = 1 /\ UNCHANGED cleaning /\ installing' = Granted(allowed', conn')
  BY DEF AllowAtOnce
<1> QED
  BY <1>2, <1>3 DEF FirewallInv, AllowedOnce, SentIsAllowed, GlobalPolicy, cleaning, ChainsOK

---------------------------------------------------------------------------
(* Steps that leave the list alone. *)

LEMMA SameListKeeps ==
  ASSUME FirewallInv, UNCHANGED <<fwVersion, tables, chains, aborted>>,
         pending' \cap AllowedConns \subseteq pending,
         lbl' \in lbl..MaxLabel
  PROVE  FirewallInv'
<1>1. FirewallTypeOK'
  BY FirewallBounds DEF FirewallInv, FirewallTypeOK, tables
<1>2. ChainsOK'
  BY DEF FirewallInv, ChainsOK
<1>3. AllowedConns' = AllowedConns /\ GlobalPolicy' = GlobalPolicy
  BY DEF AllowedConns, GlobalPolicy, Granted, tables
<1>4. AllowedOnce'
  BY <1>3 DEF FirewallInv, AllowedOnce, tables
<1>5. SentIsAllowed'
  BY <1>3 DEF FirewallInv, SentIsAllowed, tables
<1> QED
  BY <1>1, <1>2, <1>4, <1>5 DEF FirewallInv

LEMMA PacketsAndTimeKeep ==
  ASSUME FirewallInv, NEW c \in Conns, AddPending(c) \/ Unanswered(c) \/ Expire(c)
  PROVE  FirewallInv'
<1>1. lbl' \in lbl..MaxLabel
  BY FirewallBounds DEF AddPending, Unanswered, Expire, Take, FirewallInv, FirewallTypeOK
<1>2. UNCHANGED <<fwVersion, tables, chains, aborted>>
  BY DEF AddPending, Unanswered, Expire, cleaning
<1>3. pending' \cap AllowedConns \subseteq pending
  BY DEF AddPending, Unanswered, Expire, waitingList
<1> QED
  BY <1>1, <1>2, <1>3, SameListKeeps

LEMMA ConnectedKeeps ==
  ASSUME FirewallInv, FirewallConnected
  PROVE  FirewallInv'
<1>1. /\ UNCHANGED <<fwVersion, lbl, allowed, conn, waitingList, cleaning>>
      /\ installing' = GlobalPolicy
  BY DEF FirewallConnected
<1>2. AllowedConns' = AllowedConns /\ GlobalPolicy' = GlobalPolicy
  BY <1>1 DEF AllowedConns, GlobalPolicy, Granted
<1> QED
  BY <1>1, <1>2 DEF FirewallInv, FirewallTypeOK, ChainsOK, AllowedOnce, SentIsAllowed,
                    waitingList, cleaning

---------------------------------------------------------------------------
(* Cleaning. *)

\* clean_next: what is asked is a label, and fewer are left.
LEMMA AskingIsChain ==
  ASSUME NEW todo \in Seq(Labels), todo # <<>>, NEW b \in BOOLEAN
  PROVE  Asking(todo, b) \in Chain
<1>1. Len(todo) \in Nat /\ Len(todo) > 0 /\ todo[Len(todo)] \in Labels
  OBVIOUS
<1>2. SubSeq(todo, 1, Len(todo) - 1) \in Seq(Labels)
  BY <1>1
<1> QED
  BY <1>1, <1>2 DEF Asking, Chain

LEMMA IdleIsChain == Idle \in Chain
  BY DEF Idle, Chain

\* A run that starts was idle, and has closed nothing yet.
LEMMA RunCleanKeeps ==
  ASSUME FirewallInv, NEW k \in Chains, RunClean(k)
  PROVE  FirewallInv'
<1>1. /\ UNCHANGED <<fwVersion, lbl, tables, last_count, aborted>>
      /\ pending' = pending \ expired
      /\ chains[k] = Idle
      /\ chains' = chains \/ chains' = [chains EXCEPT ![k] = Asking(allowed, FALSE)]
  BY DEF RunClean
<1>2. FirewallTypeOK'
  BY <1>1 DEF FirewallInv, FirewallTypeOK, tables
<1>3. AllowedConns' = AllowedConns /\ GlobalPolicy' = GlobalPolicy
  BY <1>1 DEF AllowedConns, GlobalPolicy, Granted, tables
<1>4. AllowedOnce'
  BY <1>1, <1>3 DEF FirewallInv, AllowedOnce, tables
<1>5. ChainsOK'
  <2>1. allowed # <<>> => Asking(allowed, FALSE) \in Chain
    <3>1. allowed \in Seq(Labels)
      BY FirewallBounds DEF FirewallInv, FirewallTypeOK, Labels
    <3> QED
      BY <3>1, AskingIsChain
  <2> QED
    BY <1>1, <2>1 DEF FirewallInv, ChainsOK, RunClean
<1>6. SentIsAllowed'
  <2>1. \A m \in Chains : chains[m].phase # "idle" => chains'[m] = chains[m]
    <3> SUFFICES ASSUME NEW m \in Chains, chains[m].phase # "idle" PROVE chains'[m] = chains[m]
      OBVIOUS
    <3>1. m # k
      BY <1>1 DEF Idle
    <3> QED
      BY <1>1, <3>1 DEF FirewallInv, ChainsOK
  <2> QED
    BY <1>1, <1>3, <2>1 DEF FirewallInv, SentIsAllowed, tables
<1> QED
  BY <1>2, <1>4, <1>5, <1>6 DEF FirewallInv

\* An answer: the run stops, or it goes on and remembers whether it has removed one.
LEMMA CleanCallbackKeeps ==
  ASSUME FirewallInv, NEW k \in Chains, NEW n, CleanCallback(k, n)
  PROVE  FirewallInv'
<1> DEFINE l == chains[k].asked
           next == [chains[k] EXCEPT !.phase = "next", !.clean = @ \/ n = last_count[l]]
<1>1. UNCHANGED <<fwVersion, lbl, conn, installing, waitingList>> /\ chains[k].phase = "asking"
  BY DEF CleanCallback
<1>5. /\ next \in Chain /\ next.phase = "next"
      /\ next.clean = (chains[k].clean \/ n = last_count[l])
  BY DEF FirewallInv, ChainsOK, Chain
<1> HIDE DEF next
<1>2. CASE Abort(k)
  <2>1. allowed' = allowed /\ chains' = [chains EXCEPT ![k] = Idle] /\ aborted'
    BY <1>2 DEF Abort
  <2>2. AllowedConns' = AllowedConns /\ GlobalPolicy' = GlobalPolicy
    BY <1>1, <2>1 DEF AllowedConns, GlobalPolicy, Granted
  <2>3. FirewallTypeOK' /\ AllowedOnce' /\ SentIsAllowed'
    BY <1>1, <2>1, <2>2
       DEF FirewallInv, FirewallTypeOK, AllowedOnce, SentIsAllowed, waitingList
  <2>4. ChainsOK'
    BY <2>1, IdleIsChain DEF FirewallInv, ChainsOK
  <2> QED
    BY <2>3, <2>4 DEF FirewallInv
<1>3. CASE /\ last_count[l] = n /\ conn[l] \in AllowedConns
           /\ allowed' = Without1(allowed, l)
           /\ chains' = [chains EXCEPT ![k] = next]
           /\ UNCHANGED <<last_count, aborted>>
  <2>1. PICK m \in DOMAIN allowed : conn[allowed[m]] = conn[l]
    BY <1>3 DEF AllowedConns
  <2>2. allowed \in Seq(1..lbl) /\ allowed # <<>>
    BY <2>1 DEF FirewallInv, FirewallTypeOK
  <2>3. /\ allowed' \in Seq(1..lbl)
        /\ \A i \in DOMAIN allowed' : \E j \in DOMAIN allowed : allowed'[i] = allowed[j]
    BY <1>3, <2>2, RemovedIsPart
  <2>4. AllowedConns' \subseteq AllowedConns /\ GlobalPolicy' \subseteq GlobalPolicy
    BY <1>1, <2>3 DEF AllowedConns, GlobalPolicy, Granted
  <2>5. FirewallTypeOK'
    BY <1>1, <2>3 DEF FirewallInv, FirewallTypeOK
  <2>6. AllowedOnce'
    <3> SUFFICES ASSUME fwVersion # 1
                 PROVE  /\ pending' \cap AllowedConns' = {}
                        /\ \A i, j \in DOMAIN allowed' :
                             i # j => conn'[allowed'[i]] # conn'[allowed'[j]]
      BY <1>1 DEF AllowedOnce
    <3>1. pending' \cap AllowedConns' = {}
      BY <1>1, <2>4 DEF FirewallInv, AllowedOnce, waitingList
    <3>2. \A i, j \in DOMAIN allowed : i # j => conn[allowed[i]] # conn[allowed[j]]
      BY DEF FirewallInv, AllowedOnce
    <3>3. \A i, j \in DOMAIN allowed' : i # j => conn[allowed'[i]] # conn[allowed'[j]]
      BY <1>3, <2>1, <2>2, <3>2, RemovedIsDistinct
    <3> QED
      BY <1>1, <3>1, <3>3
  <2>7. ChainsOK'
    BY <1>3, <1>5 DEF FirewallInv, ChainsOK
  <2>8. chains'[k].phase = "next" /\ chains'[k].clean
    BY <1>3, <1>5 DEF FirewallInv, ChainsOK
  <2>9. SentIsAllowed'
    BY <1>1, <2>4, <2>8 DEF FirewallInv, SentIsAllowed
  <2> QED
    BY <2>5, <2>6, <2>7, <2>9 DEF FirewallInv
<1>4. CASE /\ last_count[l] < n
           /\ chains' = [chains EXCEPT ![k] = next]
           /\ UNCHANGED <<allowed, aborted>>
  <2>1. AllowedConns' = AllowedConns /\ GlobalPolicy' = GlobalPolicy
    BY <1>1, <1>4 DEF AllowedConns, GlobalPolicy, Granted
  <2>2. FirewallTypeOK' /\ AllowedOnce'
    BY <1>1, <1>4, <2>1 DEF FirewallInv, FirewallTypeOK, AllowedOnce, waitingList
  <2>3. ChainsOK'
    BY <1>4, <1>5 DEF FirewallInv, ChainsOK
  <2>4. /\ chains'[k].phase = "next" /\ (chains[k].clean => chains'[k].clean)
        /\ \A m \in Chains : m # k => chains'[m] = chains[m]
    BY <1>4, <1>5 DEF FirewallInv, ChainsOK
  <2>5. SentIsAllowed'
    BY <1>1, <1>4, <2>1, <2>4 DEF FirewallInv, SentIsAllowed
  <2> QED
    BY <2>2, <2>3, <2>5 DEF FirewallInv
<1> QED
  BY <1>2, <1>3, <1>4 DEF CleanCallback, next

\* A run that has removed one ends with the policy of the list as it is then.
LEMMA CleanNextCallbackKeeps ==
  ASSUME FirewallInv, NEW k \in Chains, CleanNextCallback(k)
  PROVE  FirewallInv'
<1>1. UNCHANGED <<fwVersion, lbl, allowed, conn, waitingList, last_count, aborted>>
  BY DEF CleanNextCallback
<1>2. AllowedConns' = AllowedConns /\ GlobalPolicy' = GlobalPolicy
  BY <1>1 DEF AllowedConns, GlobalPolicy, Granted
<1>3. FirewallTypeOK' /\ AllowedOnce'
  BY <1>1, <1>2 DEF FirewallInv, FirewallTypeOK, AllowedOnce, waitingList
<1>4. CASE chains[k].todo # <<>>
  <2>1. /\ chains' = [chains EXCEPT ![k] = Asking(chains[k].todo, chains[k].clean)]
        /\ installing' = installing
    BY <1>4 DEF CleanNextCallback
  <2>2. ChainsOK'
    <3>1. Asking(chains[k].todo, chains[k].clean) \in Chain
      BY <1>4, AskingIsChain DEF FirewallInv, ChainsOK, Chain
    <3> QED
      BY <2>1, <3>1 DEF FirewallInv, ChainsOK
  <2>3. /\ chains'[k].phase = "asking" /\ chains'[k].clean = chains[k].clean
        /\ \A m \in Chains : m # k => chains'[m] = chains[m]
    BY <2>1 DEF FirewallInv, ChainsOK, Asking
  <2>4. SentIsAllowed'
    BY <1>1, <1>2, <2>1, <2>3 DEF FirewallInv, SentIsAllowed
  <2> QED
    BY <1>3, <2>2, <2>4 DEF FirewallInv
<1>5. CASE chains[k].todo = <<>>
  <2>1. /\ chains' = [chains EXCEPT ![k] = Idle]
        /\ installing' = IF chains[k].clean THEN GlobalPolicy ELSE installing
    BY <1>5 DEF CleanNextCallback
  <2>2. ChainsOK'
    BY <2>1, IdleIsChain DEF FirewallInv, ChainsOK
  <2>3. \A m \in Chains : m # k => chains'[m] = chains[m]
    BY <2>1 DEF FirewallInv, ChainsOK
  <2>4. SentIsAllowed'
    BY <1>1, <1>2, <2>1, <2>3 DEF FirewallInv, SentIsAllowed
  <2> QED
    BY <1>3, <2>2, <2>4 DEF FirewallInv
<1> QED
  BY <1>4, <1>5

---------------------------------------------------------------------------

LEMMA FirewallInvAtFirst == FirewallInit => FirewallInv
<1> SUFFICES ASSUME FirewallInit PROVE FirewallInv
  OBVIOUS
<1>1. FirewallTypeOK
  BY FirewallBounds DEF FirewallInit, FirewallTypeOK
<1>2. ChainsOK
  BY IdleIsChain DEF FirewallInit, ChainsOK
<1>3. AllowedOnce /\ SentIsAllowed
  BY DEF FirewallInit, AllowedOnce, SentIsAllowed, AllowedConns, GlobalPolicy, Granted
<1> QED
  BY <1>1, <1>2, <1>3 DEF FirewallInv

LEMMA FirewallInvStep == FirewallInv /\ [FirewallNext]_firewallVars => FirewallInv'
<1> SUFFICES ASSUME FirewallInv, [FirewallNext]_firewallVars PROVE FirewallInv'
  OBVIOUS
<1>1. CASE FirewallConnected
  BY <1>1, ConnectedKeeps
<1>2. ASSUME NEW c \in Conns,
             AllowAtOnce(c) \/ AddPending(c) \/ Answered(c) \/ Unanswered(c) \/ Expire(c)
      PROVE  FirewallInv'
  BY <1>2, AllowAtOnceKeeps, AnsweredKeeps, PacketsAndTimeKeep
<1>3. ASSUME NEW k \in Chains,
             RunClean(k) \/ CleanNextCallback(k) \/ \E n \in 0..MaxBytes : CleanCallback(k, n)
      PROVE  FirewallInv'
  BY <1>3, RunCleanKeeps, CleanNextCallbackKeeps, CleanCallbackKeeps
<1>4. CASE UNCHANGED firewallVars
  BY <1>4 DEF firewallVars, tables, waitingList, cleaning, FirewallInv, FirewallTypeOK,
              ChainsOK, AllowedOnce, SentIsAllowed, AllowedConns, GlobalPolicy, Granted
<1> QED
  BY <1>1, <1>2, <1>3, <1>4 DEF FirewallNext

LEMMA FirewallInductive == FirewallSpec => []FirewallInv
  BY FirewallInvAtFirst, FirewallInvStep, PTL DEF FirewallSpec

\* firewall.py, versions 2 and 3: a connection is pending, or allowed by one object, or
\* neither, whatever packets cross and whatever cleaning runs overlap.
THEOREM ConnectionsAreAllowedOnce == FirewallSpec => []AllowedOnce
<1>1. FirewallInv => AllowedOnce
  BY DEF FirewallInv
<1> QED
  BY <1>1, FirewallInductive, PTL

\* firewall.py: the policy that was sent last lets every allowed connection through, and
\* what it lets through beyond them a cleaning run is about to close, unless an exception
\* has ended one.
THEOREM SentPolicyFollowsList == FirewallSpec => []SentIsAllowed
<1>1. FirewallInv => SentIsAllowed
  BY DEF FirewallInv
<1> QED
  BY <1>1, FirewallInductive, PTL

---------------------------------------------------------------------------
(* Topology discovery and routing. *)

\* What the graph needs of the rest: packets come from hosts to switches, and a host
\* that has an edge is a node, so that it is not attached again.
GraphOK ==
  /\ world \in World
  /\ arps \subseteq Hosts \X Dpids \X LinkPorts
  /\ \A x \in DOMAIN edges : \A h \in Hosts : h \in {x[1], x[2]} => h \in nodes

GraphInv == GraphOK /\ LabelsAreALink /\ OneAttachment

\* Steps that draw and erase nothing; packets may be sent.
LEMMA SameGraphKeeps ==
  ASSUME GraphInv, UNCHANGED <<edges, world>>, nodes \cap Hosts \subseteq nodes',
         arps' \subseteq Hosts \X Dpids \X LinkPorts
  PROVE  GraphInv'
<1>1. GraphOK'
  BY DEF GraphInv, GraphOK
<1>2. LabelsAreALink' /\ OneAttachment'
  BY DEF GraphInv, LabelsAreALink, OneAttachment, Cable
<1> QED
  BY <1>1, <1>2 DEF GraphInv

---------------------------------------------------------------------------
(* topology.py *)

\* A cable has two ends, each of which knows the other.
LEMMA CableIsTwoWay ==
  ASSUME world \in World, NEW x \in DOMAIN Cable, Cable[x] \notin Hosts
  PROVE  x \in Ends /\ Cable[x] \in Ends /\ Cable[x] \in DOMAIN Cable /\ Cable[Cable[x]] = x
<1>1. Cable \in Wiring
  BY DEF World, Cable
<1>2. PICK es \in SUBSET Ends : Cable \in [es -> Ends \cup Hosts]
  BY <1>1 DEF Wiring
<1>3. Cable[x] \in DOMAIN Cable /\ Cable[Cable[x]] = x
  BY <1>1 DEF Wiring
<1> QED
  BY <1>2, <1>3

\* A probe draws both edges or none, with the two ends of its cable.
LEMMA ProbeKeeps ==
  ASSUME GraphInv, NEW x, ProbeArrives(x), x \in DOMAIN Cable
  PROVE  GraphInv'
<1> DEFINE y == Cable[x]
           there == Joined(edges, y[1], x[1], y[2])
<1>1. /\ y \notin Hosts /\ world' = world /\ arps' = arps
      /\ edges' = Joined(there, x[1], y[1], x[2]) /\ nodes' = nodes \cup {y[1], x[1]}
  BY DEF ProbeArrives, HandleProbe, fabric
<1>2. /\ x \in Dpids \X LinkPorts /\ y \in Dpids \X LinkPorts
      /\ y \in DOMAIN Cable /\ Cable[y] = x
  BY <1>1, CableIsTwoWay DEF GraphInv, GraphOK, Ends
<1>3. PICK s \in Dpids, t \in Dpids, p \in LinkPorts, q \in LinkPorts :
        /\ x = <<s, p>> /\ y = <<t, q>>
  BY <1>2
<1>4. Cable' = Cable
  BY <1>1 DEF Cable
<1> HIDE DEF y
<1>5. /\ DOMAIN edges' = DOMAIN edges \cup {<<t, s>>, <<s, t>>}
      /\ \A e \in DOMAIN edges : edges'[e] = edges[e]
      /\ <<t, s>> \notin DOMAIN edges => edges'[<<t, s>>] = q
      /\ <<s, t>> \notin DOMAIN edges /\ s # t => edges'[<<s, t>>] = p
  <2>1. there = Joined(edges, t, s, q) /\ edges' = Joined(there, s, t, p)
    BY <1>1, <1>3
  <2>2. <<s, t>> = <<t, s>> => s = t
    OBVIOUS
  <2> HIDE DEF there
  <2>3. /\ DOMAIN there = DOMAIN edges \cup {<<t, s>>}
        /\ \A e \in DOMAIN edges : there[e] = edges[e]
        /\ <<t, s>> \notin DOMAIN edges => there[<<t, s>>] = q
    BY <2>1 DEF Joined
  <2>4. /\ DOMAIN edges' = DOMAIN there \cup {<<s, t>>}
        /\ \A e \in DOMAIN there : edges'[e] = there[e]
        /\ <<s, t>> \notin DOMAIN there => edges'[<<s, t>>] = p
    BY <2>1 DEF Joined
  <2> QED
    BY <2>2, <2>3, <2>4
<1>6. GraphOK'
  <2>1. ASSUME NEW h \in Hosts PROVE h \notin {s, t}
    BY <2>1, DiscoveryBounds
  <2>2. \A e \in {<<t, s>>, <<s, t>>} : \A h \in Hosts : h \notin {e[1], e[2]}
    BY <2>1
  <2> QED
    BY <1>1, <1>5, <2>2 DEF GraphInv, GraphOK
<1>7. LabelsAreALink'
  <2> SUFFICES ASSUME NEW u \in Dpids, NEW v \in Dpids, u # v, <<u, v>> \in DOMAIN edges'
               PROVE  /\ <<v, u>> \in DOMAIN edges'
                      /\ <<u, edges'[<<u, v>>]>> \in DOMAIN Cable
                      /\ Cable[<<u, edges'[<<u, v>>]>>] = <<v, edges'[<<v, u>>]>>
    BY <1>4 DEF LabelsAreALink
  <2>1. CASE <<u, v>> \in DOMAIN edges
    BY <2>1, <1>5 DEF GraphInv, LabelsAreALink
  <2>2. CASE <<u, v>> \notin DOMAIN edges
    <3>1. <<v, u>> \notin DOMAIN edges
      BY <2>2 DEF GraphInv, LabelsAreALink
    <3>2. (u = s /\ v = t) \/ (u = t /\ v = s)
      BY <2>2, <1>5
    <3>3. Cable[<<s, p>>] = <<t, q>> /\ Cable[<<t, q>>] = <<s, p>>
          /\ <<s, p>> \in DOMAIN Cable /\ <<t, q>> \in DOMAIN Cable
      BY <1>2, <1>3 DEF y
    <3>4. edges'[<<t, s>>] = q /\ edges'[<<s, t>>] = p
      BY <2>2, <3>1, <3>2, <1>5
    <3> QED
      BY <1>5, <3>2, <3>3, <3>4
  <2> QED
    BY <2>1, <2>2
<1>8. OneAttachment'
  <2>1. ASSUME NEW h \in Hosts, NEW u \in Dpids
        PROVE  /\ <<u, h>> \in DOMAIN edges' <=> <<u, h>> \in DOMAIN edges
               /\ <<h, u>> \in DOMAIN edges' <=> <<h, u>> \in DOMAIN edges
    <3>1. h \notin {s, t}
      BY <2>1, DiscoveryBounds
    <3> QED
      BY <1>5, <3>1
  <2> SUFFICES ASSUME NEW h \in Hosts, NEW u \in Dpids, NEW v \in Dpids
               PROVE  /\ (<<u, h>> \in DOMAIN edges') <=> (<<h, u>> \in DOMAIN edges')
                      /\ {<<u, h>>, <<v, h>>} \subseteq DOMAIN edges' => u = v
    BY DEF OneAttachment
  <2>2. /\ (<<u, h>> \in DOMAIN edges) <=> (<<h, u>> \in DOMAIN edges)
        /\ <<u, h>> \in DOMAIN edges /\ <<v, h>> \in DOMAIN edges => u = v
    BY DEF GraphInv, OneAttachment
  <2> QED
    BY <2>1, <2>2
<1> QED
  BY <1>6, <1>7, <1>8 DEF GraphInv

\* A host that is attached was no node, so that it had no edge.
LEMMA SniffKeeps ==
  ASSUME GraphInv, NEW h \in Hosts, NEW s \in Dpids, NEW p, HandleSniff(h, s, p),
         world' = world, arps' \subseteq Hosts \X Dpids \X LinkPorts
  PROVE  GraphInv'
<1>1. CASE edges' = edges
  BY <1>1, SameGraphKeeps DEF HandleSniff
<1>2. CASE edges' # edges
  <2> DEFINE there == Joined(edges, s, h, p)
  <2>1. h \notin nodes /\ nodes' = nodes \cup {h} /\ edges' = Joined(there, h, s, 0)
    BY <1>2 DEF HandleSniff, HostKnown
  <2>2. h \notin Dpids /\ s \notin Hosts
    BY DiscoveryBounds
  <2>3. \A u : <<u, h>> \notin DOMAIN edges /\ <<h, u>> \notin DOMAIN edges
    BY <2>1 DEF GraphInv, GraphOK
  <2>4. /\ DOMAIN edges' = DOMAIN edges \cup {<<s, h>>, <<h, s>>}
        /\ \A e \in DOMAIN edges : edges'[e] = edges[e]
    <3>1. /\ DOMAIN there = DOMAIN edges \cup {<<s, h>>}
          /\ \A e \in DOMAIN edges : there[e] = edges[e]
      BY DEF Joined
    <3> HIDE DEF there
    <3>2. /\ DOMAIN edges' = DOMAIN there \cup {<<h, s>>}
          /\ \A e \in DOMAIN there : edges'[e] = there[e]
      BY <2>1 DEF Joined
    <3> QED
      BY <3>1, <3>2
  <2> HIDE DEF there
  <2>5. GraphOK'
    <3>1. \A e \in {<<s, h>>, <<h, s>>} : \A k \in Hosts : k \in {e[1], e[2]} => k = h
      BY <2>2
    <3> QED
      BY <2>1, <2>4, <3>1 DEF GraphInv, GraphOK
  <2>6. LabelsAreALink'
    <3>1. \A u, v \in Dpids : <<u, v>> \in DOMAIN edges' <=> <<u, v>> \in DOMAIN edges
      BY <2>2, <2>4
    <3>2. Cable' = Cable
      BY DEF Cable
    <3> QED
      BY <3>1, <3>2, <2>4 DEF GraphInv, LabelsAreALink
  <2>7. OneAttachment'
    <3> SUFFICES ASSUME NEW k \in Hosts, NEW u \in Dpids, NEW t \in Dpids
                 PROVE  /\ (<<u, k>> \in DOMAIN edges') <=> (<<k, u>> \in DOMAIN edges')
                        /\ {<<u, k>>, <<t, k>>} \subseteq DOMAIN edges' => u = t
      BY DEF OneAttachment
    <3>1. CASE k = h
      <4>1. \A w \in Dpids : /\ <<w, h>> \in DOMAIN edges' <=> w = s
                             /\ <<h, w>> \in DOMAIN edges' <=> w = s
        BY <2>2, <2>3, <2>4
      <4> QED
        BY <3>1, <4>1
    <3>2. CASE k # h
      <4>1. \A w \in Dpids : /\ <<w, k>> \in DOMAIN edges' <=> <<w, k>> \in DOMAIN edges
                             /\ <<k, w>> \in DOMAIN edges' <=> <<k, w>> \in DOMAIN edges
        BY <3>2, <2>2, <2>4
      <4>2. /\ (<<u, k>> \in DOMAIN edges) <=> (<<k, u>> \in DOMAIN edges)
            /\ <<u, k>> \in DOMAIN edges /\ <<t, k>> \in DOMAIN edges => u = t
        BY DEF GraphInv, OneAttachment
      <4> QED
        BY <4>1, <4>2
    <3> QED
      BY <3>1, <3>2
  <2> QED
    BY <2>5, <2>6, <2>7 DEF GraphInv
<1> QED
  BY <1>1, <1>2

LEMMA ArpKeeps ==
  ASSUME GraphInv, NEW a, ArpArrives(a)
  PROVE  GraphInv'
<1>1. a \in Hosts \X Dpids \X LinkPorts /\ world' = world /\ HandleSniff(a[1], a[2], a[3])
  BY DEF ArpArrives, GraphInv, GraphOK, fabric
<1>2. Flooded(a[1], a[2], a[3]) \subseteq Hosts \X Dpids \X LinkPorts
  <2>1. ASSUME NEW x \in DOMAIN Cable, Cable[x] \notin Hosts
        PROVE  <<a[1], Cable[x][1], Cable[x][2]>> \in Hosts \X Dpids \X LinkPorts
    <3>1. Cable[x] \in Ends
      BY <2>1, CableIsTwoWay DEF GraphInv, GraphOK
    <3> QED
      BY <1>1, <3>1 DEF Ends
  <2> QED
    BY <2>1 DEF Flooded
<1>3. arps' \subseteq Hosts \X Dpids \X LinkPorts
  BY <1>2 DEF ArpArrives, GraphInv, GraphOK
<1> QED
  BY <1>1, <1>3, SniffKeeps

LEMMA HostSendsKeeps ==
  ASSUME GraphInv, NEW h \in Hosts, HostSends(h)
  PROVE  GraphInv'
<1>1. UNCHANGED <<nodes, edges, world>>
  BY DEF HostSends, discovered, fabric
<1>2. DOMAIN Cable \subseteq Dpids \X LinkPorts
  BY DEF GraphInv, GraphOK, World, Cable, Wiring, Ends
<1>3. arps' \subseteq Hosts \X Dpids \X LinkPorts
  <2>1. \A x \in DOMAIN Cable : <<h, x[1], x[2]>> \in Hosts \X Dpids \X LinkPorts
    BY <1>2
  <2> QED
    BY <2>1 DEF HostSends, GraphInv, GraphOK
<1> QED
  BY <1>1, <1>3, SameGraphKeeps

\* A switch that leaves takes its edges along, both of each pair.
LEMMA SwitchLeavesKeeps ==
  ASSUME GraphInv, NEW s \in Dpids, SwitchLeaves(s)
  PROVE  GraphInv'
<1>1. /\ nodes' = nodes \ {s} /\ edges' = Removed(edges, s) /\ world' = world /\ arps' = arps
  BY DEF SwitchLeaves, traffic
<1>2. /\ DOMAIN edges' = {x \in DOMAIN edges : s \notin {x[1], x[2]}}
      /\ \A x \in DOMAIN edges' : edges'[x] = edges[x]
  BY <1>1 DEF Removed
<1>3. GraphOK'
  BY <1>1, <1>2, DiscoveryBounds DEF GraphInv, GraphOK
<1>4. \A u, v : <<u, v>> \in DOMAIN edges' <=> <<u, v>> \in DOMAIN edges /\ s \notin {u, v}
  BY <1>2
<1>5. LabelsAreALink'
  <2>1. Cable' = Cable
    BY <1>1 DEF Cable
  <2> QED
    BY <1>2, <1>4, <2>1 DEF GraphInv, LabelsAreALink
<1>6. OneAttachment'
  <2> SUFFICES ASSUME NEW h \in Hosts, NEW u \in Dpids, NEW v \in Dpids
               PROVE  /\ (<<u, h>> \in DOMAIN edges') <=> (<<h, u>> \in DOMAIN edges')
                      /\ {<<u, h>>, <<v, h>>} \subseteq DOMAIN edges' => u = v
    BY DEF OneAttachment
  <2> QED
    BY <1>4 DEF GraphInv, OneAttachment
<1> QED
  BY <1>3, <1>5, <1>6 DEF GraphInv

---------------------------------------------------------------------------

LEMMA GraphInvAtFirst == DiscoveryInit => GraphInv
  BY DiscoveryBounds
     DEF DiscoveryInit, GraphInv, GraphOK, LabelsAreALink, OneAttachment

LEMMA GraphInvStep == GraphInv /\ [DiscoveryNext]_discoveryVars => GraphInv'
<1> SUFFICES ASSUME GraphInv, [DiscoveryNext]_discoveryVars PROVE GraphInv'
  OBVIOUS
<1> USE DEF discovered, traffic, fabric, timers
<1>1. CASE TopologyConnected \/ RoutingConnected \/ RunProbe \/ HostDiscovery \/ UpdateWeights
           \/ WeightsDone \/ \E x \in weighing : UpdateCallback(x)
  <2>1. UNCHANGED <<nodes, edges, world, arps>>
    BY <1>1 DEF TopologyConnected, RoutingConnected, RunProbe, HostDiscovery, UpdateWeights,
                WeightsDone, UpdateCallback
  <2> QED
    BY <2>1, SameGraphKeeps DEF GraphInv, GraphOK
<1>2. CASE AddCurrentSwitches \/ \E s \in Dpids : SwitchConnects(s)
  <2>1. UNCHANGED <<edges, world, arps>> /\ nodes \subseteq nodes'
    BY <1>2 DEF AddCurrentSwitches, SwitchConnects, AddSwitches
  <2> QED
    BY <2>1, SameGraphKeeps DEF GraphInv, GraphOK
<1>3. CASE \E s \in Dpids : SwitchLeaves(s)
  BY <1>3, SwitchLeavesKeeps
<1>4. CASE \E x \in DOMAIN Cable : ProbeArrives(x)
  BY <1>4, ProbeKeeps
<1>5. CASE \E a \in arps : ArpArrives(a)
  BY <1>5, ArpKeeps
<1>6. CASE \E h \in Hosts : HostSends(h)
  BY <1>6, HostSendsKeeps
<1>7. CASE UNCHANGED discoveryVars
  <2>1. UNCHANGED <<nodes, edges, world, arps>>
    BY <1>7 DEF discoveryVars
  <2> QED
    BY <2>1, SameGraphKeeps DEF GraphInv, GraphOK
<1> QED
  BY <1>1, <1>2, <1>3, <1>4, <1>5, <1>6, <1>7 DEF DiscoveryNext

LEMMA GraphStays == DiscoverySpec => []GraphInv
  BY GraphInvAtFirst, GraphInvStep, PTL DEF DiscoverySpec

\* topology.py, handle_probe: two switches are joined by the two ends of one cable, for
\* any cables and however probes and departures mix.
THEOREM LabelsAreOfOneLink == DiscoverySpec => []LabelsAreALink
<1>1. GraphInv => LabelsAreALink
  BY DEF GraphInv
<1> QED
  BY GraphStays, <1>1, PTL

\* topology.py, handle_sniff: a host is attached to one switch at most, whatever floods.
THEOREM HostsAttachOnce == DiscoverySpec => []OneAttachment
<1>1. GraphInv => OneAttachment
  BY DEF GraphInv
<1> QED
  BY GraphStays, <1>1, PTL

---------------------------------------------------------------------------
(* routing.py *)

\* Whoever goes takes all its edges along, so that a switch which is no node has none
\* and its departure changes no route.
EdgesJoinNodes ==
  /\ edges = [x \in DOMAIN edges |-> edges[x]]
  /\ refs \subseteq nodes
  /\ \A x \in DOMAIN edges : x[1] \in nodes /\ x[2] \in nodes

\* What was sent is a policy for the graph as it is, but for changes that wait.
RoutesAreCurrent == clean /\ ~forgotten => routes \in RoutingPolicies(edges)

RoutingInv == GraphInv /\ EdgesJoinNodes /\ RoutesAreCurrent

LEMMA JoinedIsAFunction ==
  ASSUME NEW es, es = [x \in DOMAIN es |-> es[x]], NEW u, NEW v, NEW label
  PROVE  Joined(es, u, v, label) = [x \in DOMAIN Joined(es, u, v, label) |->
                                      Joined(es, u, v, label)[x]]
  BY DEF Joined

\* The policies for a graph depend on the graph and on the version of the program.
LEMMA SamePolicies ==
  ASSUME edges' = edges, world' = world
  PROVE  RoutingPolicies(edges)' = RoutingPolicies(edges)
<1>1. \A x, y : Paths(edges, x, y)' = Paths(edges, x, y)
  BY DEF Paths
<1>2. Pairs(edges)' = Pairs(edges)
  BY <1>1 DEF Pairs
<1>3. \A x, y : Chosen(edges, x, y)' = Chosen(edges, x, y)
  BY <1>1 DEF Chosen
<1>4. \A x, y : BuildPath(edges, x, y)' = BuildPath(edges, x, y)
  BY DEF BuildPath
<1>5. \A f : \A y \in Pairs(edges) : BuildPath(edges, f[y], y[2])' = BuildPath(edges, f[y], y[2])
  BY <1>4
<1>6. {f \in [Pairs(edges) -> UNION {Chosen(edges, y[1], y[2]) : y \in Pairs(edges)}] :
         \A y \in Pairs(edges) : f[y] \in Chosen(edges, y[1], y[2])}' =
      {f \in [Pairs(edges) -> UNION {Chosen(edges, y[1], y[2]) : y \in Pairs(edges)}] :
         \A y \in Pairs(edges) : f[y] \in Chosen(edges, y[1], y[2])}
  BY <1>2, <1>3
<1>7. \A f : [y \in Pairs(edges) |-> BuildPath(edges, f[y], y[2])]' =
            [y \in Pairs(edges) |-> BuildPath(edges, f[y], y[2])]
  BY <1>2, <1>5
<1> QED
  BY <1>6, <1>7 DEF RoutingPolicies

LEMMA SameRoutesKeep ==
  ASSUME RoutesAreCurrent, UNCHANGED <<routes, edges, world>>,
         clean' => clean, ~forgotten' => ~forgotten
  PROVE  RoutesAreCurrent'
<1>1. RoutingPolicies(edges)' = RoutingPolicies(edges)
  BY SamePolicies
<1> QED
  BY <1>1 DEF RoutesAreCurrent

LEMMA SoilKeepsRoutes ==
  ASSUME RoutesAreCurrent, NEW changed \in BOOLEAN, Soil(changed), world' = world,
         ~changed => edges' = edges
  PROVE  RoutesAreCurrent'
<1>1. clean' = (clean /\ ~changed) /\ UNCHANGED <<routes, forgotten>>
  BY DEF Soil, sentPolicies
<1>2. CASE changed
  BY <1>1, <1>2 DEF RoutesAreCurrent
<1>3. CASE ~changed
  BY <1>1, <1>3, SameRoutesKeep
<1> QED
  BY <1>2, <1>3

LEMMA NotifyKeepsRoutes ==
  ASSUME RoutesAreCurrent, NEW changed \in BOOLEAN, Notify(changed), world' = world,
         clean /\ ~changed => edges' = edges
  PROVE  RoutesAreCurrent'
<1>1. CASE clean /\ ~changed
  <2>1. UNCHANGED <<clean, routes, forgotten, edges, world>>
    BY <1>1 DEF Notify, sentPolicies
  <2> QED
    BY <2>1, SamePolicies DEF RoutesAreCurrent
<1>2. CASE ~(clean /\ ~changed)
  <2>1. routes' \in RoutingPolicies(edges')
    BY <1>2 DEF Notify
  <2>2. RoutingPolicies(edges)' = RoutingPolicies(edges')
    BY DEF RoutingPolicies, Pairs, Paths, Chosen, BuildPath
  <2> QED
    BY <2>1, <2>2 DEF RoutesAreCurrent
<1> QED
  BY <1>1, <1>2

LEMMA SameNodesKeep ==
  ASSUME EdgesJoinNodes, UNCHANGED <<nodes, refs, edges>>
  PROVE  EdgesJoinNodes'
  BY DEF EdgesJoinNodes

LEMMA ProbeKeepsRoutes ==
  ASSUME RoutingInv, NEW x \in DOMAIN Cable, ProbeArrives(x)
  PROVE  EdgesJoinNodes' /\ RoutesAreCurrent'
<1> DEFINE y == Cable[x]
           there == Joined(edges, y[1], x[1], y[2])
<1>1. /\ world' = world /\ refs' = refs /\ nodes' = nodes \cup {y[1], x[1]}
      /\ edges' = Joined(there, x[1], y[1], x[2])
      /\ Soil(edges' # edges)
  BY DEF ProbeArrives, HandleProbe, fabric
<1>2. DOMAIN edges' \subseteq DOMAIN edges \cup {<<y[1], x[1]>>, <<x[1], y[1]>>}
  BY <1>1 DEF Joined
<1>3. EdgesJoinNodes'
  <2>1. there = [z \in DOMAIN there |-> there[z]]
    BY JoinedIsAFunction DEF RoutingInv, EdgesJoinNodes
  <2> HIDE DEF there
  <2>2. edges' = [z \in DOMAIN edges' |-> edges'[z]]
    BY <1>1, <2>1, JoinedIsAFunction
  <2> QED
    BY <1>1, <1>2, <2>2 DEF RoutingInv, EdgesJoinNodes
<1> HIDE DEF there
<1>4. RoutesAreCurrent'
  BY <1>1, SoilKeepsRoutes DEF RoutingInv
<1> QED
  BY <1>3, <1>4

LEMMA ArpKeepsRoutes ==
  ASSUME RoutingInv, NEW a, ArpArrives(a)
  PROVE  EdgesJoinNodes' /\ RoutesAreCurrent'
<1> DEFINE h == a[1]
           s == a[2]
           p == a[3]
<1>1. world' = world /\ refs' = refs /\ HandleSniff(h, s, p)
  BY DEF ArpArrives, fabric
<1>2. CASE HostKnown(h, s) \/ s \notin refs
  <2>1. UNCHANGED <<nodes, refs, edges, clean, routes, forgotten, world>>
    BY <1>1, <1>2 DEF HandleSniff, sentPolicies
  <2> QED
    BY <2>1, SameNodesKeep, SameRoutesKeep DEF RoutingInv
<1>3. CASE ~(HostKnown(h, s) \/ s \notin refs)
  <2>1. s \in nodes
    BY <1>3 DEF RoutingInv, EdgesJoinNodes
  <2>2. CASE \E v \in Nodes : <<s, v>> \in DOMAIN edges /\ edges[<<s, v>>] = p
    <3>1. nodes' = nodes \cup {h} /\ edges' = edges /\ Soil(TRUE)
      BY <1>1, <1>3, <2>2 DEF HandleSniff
    <3> QED
      BY <1>1, <3>1, SoilKeepsRoutes DEF RoutingInv, EdgesJoinNodes
  <2>3. CASE ~\E v \in Nodes : <<s, v>> \in DOMAIN edges /\ edges[<<s, v>>] = p
    <3>1. /\ nodes' = nodes \cup {h} /\ Notify(TRUE)
          /\ edges' = Joined(Joined(edges, s, h, p), h, s, 0)
      BY <1>1, <1>3, <2>3 DEF HandleSniff
    <3>2. DOMAIN edges' \subseteq DOMAIN edges \cup {<<s, h>>, <<h, s>>}
      BY <3>1 DEF Joined
    <3>3. edges' = [z \in DOMAIN edges' |-> edges'[z]]
      <4> DEFINE there == Joined(edges, s, h, p)
      <4>1. there = [z \in DOMAIN there |-> there[z]]
        BY JoinedIsAFunction DEF RoutingInv, EdgesJoinNodes
      <4>2. edges' = Joined(there, h, s, 0)
        BY <3>1
      <4> HIDE DEF there
      <4> QED
        BY <4>1, <4>2, JoinedIsAFunction
    <3>4. EdgesJoinNodes'
      BY <1>1, <2>1, <3>1, <3>2, <3>3 DEF RoutingInv, EdgesJoinNodes
    <3> QED
      BY <1>1, <3>1, <3>4, NotifyKeepsRoutes DEF RoutingInv
  <2> QED
    BY <2>2, <2>3
<1> QED
  BY <1>2, <1>3

\* A switch that is no node has no edges to take along, and nobody is notified.
LEMMA SwitchLeavesKeepsRoutes ==
  ASSUME RoutingInv, NEW s \in Dpids, SwitchLeaves(s)
  PROVE  EdgesJoinNodes' /\ RoutesAreCurrent'
<1>1. /\ nodes' = nodes \ {s} /\ refs' = refs \ {s} /\ edges' = Removed(edges, s)
      /\ world' = world /\ Notify(s \in nodes)
  BY DEF SwitchLeaves
<1>2. EdgesJoinNodes'
  BY <1>1 DEF RoutingInv, EdgesJoinNodes, Removed
<1>3. ASSUME s \notin nodes PROVE edges' = edges
  <2>1. edges = [x \in DOMAIN edges |-> edges[x]]
    BY DEF RoutingInv, EdgesJoinNodes
  <2>2. {x \in DOMAIN edges : s \notin {x[1], x[2]}} = DOMAIN edges
    BY <1>3 DEF RoutingInv, EdgesJoinNodes
  <2> QED
    BY <1>1, <2>1, <2>2 DEF Removed
<1>4. RoutesAreCurrent'
  <2> DEFINE changed == s \in nodes
  <2>1. changed \in BOOLEAN /\ Notify(changed) /\ (clean /\ ~changed => edges' = edges)
    BY <1>1, <1>3
  <2> HIDE DEF changed
  <2> QED
    BY <1>1, <2>1, NotifyKeepsRoutes DEF RoutingInv
<1> QED
  BY <1>2, <1>4

LEMMA RoutingInvStep == RoutingInv /\ [DiscoveryNext]_discoveryVars => RoutingInv'
<1> SUFFICES ASSUME RoutingInv, [DiscoveryNext]_discoveryVars
             PROVE  EdgesJoinNodes' /\ RoutesAreCurrent'
  BY GraphInvStep DEF RoutingInv
<1> USE DEF discovered, sentPolicies, fabric
<1>1. CASE TopologyConnected \/ RunProbe \/ UpdateWeights \/ (\E h \in Hosts : HostSends(h))
           \/ RoutingConnected
  <2>1. /\ UNCHANGED <<nodes, refs, edges, clean, world>>
        /\ UNCHANGED <<routes, forgotten>> \/ forgotten' = TRUE
    BY <1>1 DEF TopologyConnected, RunProbe, UpdateWeights, HostSends, RoutingConnected
  <2>2. RoutesAreCurrent'
    BY <2>1, SameRoutesKeep DEF RoutingInv, RoutesAreCurrent
  <2> QED
    BY <2>1, <2>2, SameNodesKeep DEF RoutingInv
<1>2. CASE HostDiscovery \/ WeightsDone
  <2>1. UNCHANGED <<nodes, refs, edges, world>> /\ Notify(FALSE)
    BY <1>2 DEF HostDiscovery, WeightsDone
  <2> QED
    BY <2>1, SameNodesKeep, NotifyKeepsRoutes DEF RoutingInv
<1>3. CASE \E x \in weighing : UpdateCallback(x)
  <2>1. /\ UNCHANGED <<nodes, refs, edges, world>>
        /\ Soil(TRUE) \/ UNCHANGED <<clean, routes, forgotten>>
    BY <1>3 DEF UpdateCallback
  <2>2. Soil(TRUE) => RoutesAreCurrent'
    BY <2>1, SoilKeepsRoutes DEF RoutingInv
  <2>3. UNCHANGED <<clean, routes, forgotten>> => RoutesAreCurrent'
    BY <2>1, SameRoutesKeep DEF RoutingInv
  <2> QED
    BY <2>1, <2>2, <2>3, SameNodesKeep DEF RoutingInv
<1>4. CASE AddCurrentSwitches \/ \E s \in Dpids : SwitchConnects(s)
  <2>1. PICK ss : AddSwitches(ss) /\ world' = world
    BY <1>4 DEF AddCurrentSwitches, SwitchConnects
  <2>2. EdgesJoinNodes' /\ edges' = edges /\ Soil(ss \ nodes # {})
    BY <2>1 DEF AddSwitches, RoutingInv, EdgesJoinNodes
  <2> QED
    BY <2>1, <2>2, SoilKeepsRoutes DEF RoutingInv
<1>5. CASE UNCHANGED discoveryVars
  <2>1. UNCHANGED <<nodes, refs, edges, clean, routes, forgotten, world>>
    BY <1>5 DEF discoveryVars
  <2> QED
    BY <2>1, SameNodesKeep, SameRoutesKeep DEF RoutingInv
<1> QED
  BY <1>1, <1>2, <1>3, <1>4, <1>5, ProbeKeepsRoutes, ArpKeepsRoutes, SwitchLeavesKeepsRoutes
     DEF DiscoveryNext

\* A path of the graph is one of cables: the port that a switch is told to send to is
\* the label of an edge, and so the end of the cable to the next switch.
LEMMA CurrentRoutesReach == RoutingInv => RoutesReach
<1> SUFFICES ASSUME RoutingInv, clean, ~forgotten, NEW x \in Pairs(edges)
             PROVE  /\ x \in DOMAIN routes
                    /\ LET path == routes[x]
                           last == path[Len(path)]
                       IN /\ <<x[1], path[1][1]>> \in DOMAIN edges
                          /\ \A i \in 1..(Len(path) - 1) :
                               /\ path[i] \in DOMAIN Cable
                               /\ \E p \in LinkPorts : Cable[path[i]] = <<path[i + 1][1], p>>
                          /\ <<last[1], x[2]>> \in DOMAIN edges
                          /\ edges[<<last[1], x[2]>>] = last[2]
  BY DEF RoutesReach
<1>1. PICK q \in Paths(edges, x[1], x[2]) :
        x \in DOMAIN routes /\ routes[x] = BuildPath(edges, q, x[2])
  <2>1. routes \in RoutingPolicies(edges)
    BY DEF RoutingInv, RoutesAreCurrent
  <2>2. PICK pick : /\ \A y \in Pairs(edges) : pick[y] \in Chosen(edges, y[1], y[2])
                    /\ routes = [y \in Pairs(edges) |-> BuildPath(edges, pick[y], y[2])]
    BY <2>1 DEF RoutingPolicies
  <2>3. pick[x] \in Paths(edges, x[1], x[2])
    BY <2>2 DEF Chosen
  <2> QED
    BY <2>2, <2>3
<1>2. PICK n \in Nat \ {0} : q \in [1..n -> Dpids]
  <2>1. Cardinality(Dpids) \in Nat
    BY DiscoveryBounds, FS_CardinalityType
  <2> QED
    BY <2>1 DEF Paths
<1>3. /\ Len(q) = n /\ <<x[1], q[1]>> \in DOMAIN edges /\ <<q[n], x[2]>> \in DOMAIN edges
      /\ \A i \in 1..(n - 1) : <<q[i], q[i + 1]>> \in DOMAIN edges
      /\ \A i, j \in 1..n : i # j => q[i] # q[j]
  <2>1. Len(q) = n /\ DOMAIN q = 1..n
    BY <1>2
  <2> QED
    BY <2>1 DEF Paths
<1> DEFINE label(i) == edges[<<q[i], IF i = n THEN x[2] ELSE q[i + 1]>>]
<1>4. /\ routes[x] = [i \in 1..n |-> <<q[i], label(i)>>]
      /\ Len(routes[x]) = n
  <2>1. routes[x] = [i \in 1..n |-> <<q[i], label(i)>>]
    BY <1>1, <1>2, <1>3 DEF BuildPath
  <2> QED
    BY <2>1, <1>2
<1>5. ASSUME NEW i \in 1..(n - 1)
      PROVE  /\ <<q[i], label(i)>> \in DOMAIN Cable
             /\ \E p \in LinkPorts : Cable[<<q[i], label(i)>>] = <<q[i + 1], p>>
  <2> DEFINE u == q[i]
             v == q[i + 1]
  <2>1. i \in 1..n /\ i + 1 \in 1..n /\ i # n /\ i # i + 1
    BY <1>2
  <2>2. u \in Dpids /\ v \in Dpids /\ u # v /\ <<u, v>> \in DOMAIN edges
    BY <1>2, <1>3, <2>1
  <2>3. label(i) = edges[<<u, v>>]
    BY <2>1
  <2> HIDE DEF u, v, label
  <2>4. /\ <<v, u>> \in DOMAIN edges
        /\ <<u, label(i)>> \in DOMAIN Cable
        /\ Cable[<<u, label(i)>>] = <<v, edges[<<v, u>>]>>
    BY <2>2, <2>3 DEF RoutingInv, GraphInv, LabelsAreALink
  <2>5. <<v, edges[<<v, u>>]>> \in DOMAIN Cable
    BY <2>2, <2>4 DEF RoutingInv, GraphInv, LabelsAreALink
  <2>6. DOMAIN Cable \subseteq Dpids \X LinkPorts
    BY DEF RoutingInv, GraphInv, GraphOK, World, Cable, Wiring, Ends
  <2> QED
    BY <2>4, <2>5, <2>6 DEF u, v
<1>6. ASSUME NEW i \in 1..n PROVE routes[x][i] = <<q[i], label(i)>>
  BY <1>4
<1>7. routes[x][n] = <<q[n], edges[<<q[n], x[2]>>]>> /\ 1 \in 1..n /\ n \in 1..n
  BY <1>2, <1>6
<1> HIDE DEF label
<1>8. ASSUME NEW i \in 1..(n - 1)
      PROVE  /\ routes[x][i] \in DOMAIN Cable
             /\ \E p \in LinkPorts : Cable[routes[x][i]] = <<routes[x][i + 1][1], p>>
  <2>1. i \in 1..n /\ i + 1 \in 1..n
    BY <1>2
  <2>2. routes[x][i] = <<q[i], label(i)>> /\ routes[x][i + 1][1] = q[i + 1]
    BY <1>6, <2>1
  <2> QED
    BY <1>5, <2>2
<1>9. routes[x][1][1] = q[1] /\ routes[x][n][1] = q[n]
      /\ edges[<<routes[x][n][1], x[2]>>] = routes[x][n][2]
  BY <1>6, <1>7
<1> QED
  BY <1>1, <1>3, <1>4, <1>8, <1>9

\* routing.py: when nothing waits for a notify, every pair of hosts that the graph
\* connects has a route over cables, from the switch of the one to the port of the other.
THEOREM RoutesLeadToHosts == DiscoverySpec => []RoutesReach
<1>1. DiscoveryInit => RoutingInv
  <2> SUFFICES ASSUME DiscoveryInit PROVE EdgesJoinNodes /\ RoutesAreCurrent
    BY GraphInvAtFirst DEF RoutingInv
  <2>1. edges = <<>> /\ routes = <<>> /\ nodes = {} /\ refs = {}
    BY DEF DiscoveryInit
  <2>2. DOMAIN edges = {}
    BY <2>1
  <2>3. Pairs(edges) = {}
    BY <2>2 DEF Pairs, Paths
  <2>4. routes = [y \in Pairs(edges) |-> BuildPath(edges, <<>>[y], y[2])]
    BY <2>1, <2>3
  <2>5. \A y \in Pairs(edges) : <<>>[y] \in Chosen(edges, y[1], y[2])
    BY <2>3
  <2>6. <<>> \in [Pairs(edges) -> UNION {Chosen(edges, y[1], y[2]) : y \in Pairs(edges)}]
    BY <2>3
  <2>7. routes \in RoutingPolicies(edges)
    BY <2>4, <2>5, <2>6 DEF RoutingPolicies
  <2> QED
    BY <2>1, <2>2, <2>7 DEF EdgesJoinNodes, RoutesAreCurrent
<1> QED
  BY <1>1, RoutingInvStep, CurrentRoutesReach, PTL DEF DiscoverySpec

---------------------------------------------------------------------------
(* Powers of two. *)

\* Numbers are their own ranks.
Identity(n) == n
PowerBody(g, n) == IF n = 0 THEN 1 ELSE 2 * g[n - 1]
Powers == INSTANCE Recursion WITH Domain <- Nat, Rank <- Identity, Body <- PowerBody

\* pow2 satisfies its recursive definition.
LEMMA PowersOfTwo == pow2[0] = 1 /\ \A n \in Nat : pow2[n + 1] = 2 * pow2[n]
<1>1. Powers!Descends
  <2> SUFFICES ASSUME NEW n \in Nat, NEW g, NEW h,
                      \A m \in Nat : Identity(m) < Identity(n) => g[m] = h[m]
               PROVE  PowerBody(g, n) = PowerBody(h, n)
    BY DEF Powers!Descends, Identity
  <2>1. n # 0 => n - 1 \in Nat /\ n - 1 < n
    OBVIOUS
  <2> QED
    BY <2>1 DEF PowerBody, Identity
<1>2. pow2 = Powers!f
  BY DEF pow2, Powers!f, PowerBody
<1>3. \A n \in Nat : pow2[n] = PowerBody(pow2, n)
  BY <1>1, <1>2, Powers!UnfoldsAt
<1>4. pow2[0] = 1
  BY <1>3 DEF PowerBody
<1>5. ASSUME NEW n \in Nat PROVE pow2[n + 1] = 2 * pow2[n]
  <2>1. n + 1 \in Nat /\ n + 1 # 0 /\ (n + 1) - 1 = n
    OBVIOUS
  <2> QED
    BY <1>3, <2>1 DEF PowerBody
<1> QED
  BY <1>4, <1>5

\* A power of two is a positive natural number.
LEMMA PowersArePositive == \A n \in Nat : pow2[n] \in Nat \ {0}
<1> DEFINE S == {n \in Nat : pow2[n] \in Nat \ {0}}
<1>1. 0 \in S
  BY PowersOfTwo
<1>2. ASSUME NEW n \in Nat, n \in S PROVE n + 1 \in S
  BY <1>2, PowersOfTwo
<1> HIDE DEF S
<1>3. Nat \subseteq S
  BY <1>1, <1>2, Powers!NatInduces
<1> QED
  BY <1>3 DEF S

\* Exponents add.
LEMMA PowersAdd == ASSUME NEW m \in Nat PROVE \A n \in Nat : pow2[m + n] = pow2[m] * pow2[n]
<1> DEFINE S == {n \in Nat : pow2[m + n] = pow2[m] * pow2[n]}
<1>1. 0 \in S
  BY PowersOfTwo, PowersArePositive
<1>2. ASSUME NEW n \in Nat, n \in S PROVE n + 1 \in S
  <2>1. pow2[m + n] = pow2[m] * pow2[n]
    BY <1>2
  <2>2. pow2[m + (n + 1)] = 2 * pow2[m + n]
    <3>1. m + n \in Nat /\ m + (n + 1) = (m + n) + 1
      OBVIOUS
    <3> QED
      BY <3>1, PowersOfTwo
  <2>3. pow2[n + 1] = 2 * pow2[n] /\ pow2[n] \in Nat /\ pow2[m] \in Nat
    BY PowersOfTwo, PowersArePositive
  <2> DEFINE a == pow2[m]
             b == pow2[n]
  <2>4. a \in Nat /\ b \in Nat /\ pow2[m + (n + 1)] = 2 * (a * b) /\ pow2[n + 1] = 2 * b
    BY <2>1, <2>2, <2>3
  <2> HIDE DEF a, b
  <2>5. 2 * (a * b) = a * (2 * b)
    BY <2>4
  <2> QED
    BY <2>4, <2>5 DEF a
<1> HIDE DEF S
<1>3. Nat \subseteq S
  BY <1>1, <1>2, Powers!NatInduces
<1> QED
  BY <1>3 DEF S

---------------------------------------------------------------------------
(* Packet.matches. *)

\* The mask of NetUtils keeps one bit more than the prefix; there is none above it.
LEMMA QuotientIsSmall ==
  ASSUME NEW x \in Nat, NEW d \in Nat \ {0}, NEW e \in Nat, x < d * e
  PROVE  x \div d \in Nat /\ x \div d < e
  OBVIOUS

LEMMA MaskedIsPrefix ==
  ASSUME NEW x \in 0..(pow2[Width] - 1), NEW m \in 0..Width
  PROVE  /\ x \div pow2[Width - m] \in Nat
         /\ Masked(x, m) = (x \div pow2[Width - m]) * pow2[Width - m]
<1> DEFINE d == pow2[Width - m]
           e == pow2[m]
           q == x \div d
<1>1. Width \in Nat /\ m \in Nat /\ Width - m \in Nat /\ m + (Width - m) = Width
  BY PacketsAreTyped
<1>2. d \in Nat \ {0} /\ e \in Nat \ {0} /\ pow2[Width] = e * d /\ pow2[m + 1] = 2 * e
  <2>1. d \in Nat \ {0} /\ e \in Nat \ {0}
    BY <1>1, PowersArePositive
  <2>2. pow2[m + (Width - m)] = pow2[m] * pow2[Width - m]
    BY <1>1, PowersAdd
  <2>3. pow2[m + 1] = 2 * pow2[m]
    BY <1>1, PowersOfTwo
  <2> QED
    BY <1>1, <2>1, <2>2, <2>3
<1>3. x \in Nat /\ x < d * e
  <2>1. e * d = d * e /\ e * d \in Nat
    BY <1>2
  <2> QED
    BY <1>2, <2>1
<1> HIDE DEF d, e
<1>4. q \in Nat /\ q < e
  BY <1>2, <1>3, QuotientIsSmall
<1> HIDE DEF q
<1>5. q % (2 * e) = q
  BY <1>2, <1>4
<1> QED
  BY <1>2, <1>4, <1>5 DEF Masked, d, q

\* The addresses of a network in Python's sense are those that the prefix is one of.
LEMMA NetworksAgree ==
  ASSUME NEW ip \in 0..(pow2[Width] - 1), NEW net \in 0..(pow2[Width] - 1),
         NEW m \in 0..Width
  PROVE  IpInNetwork(ip, net, m) <=> IpLessEq(ip, net, m)
<1> DEFINE d == pow2[Width - m]
           a == ip \div d
           b == net \div d
<1>1. d \in Nat \ {0}
  <2>1. Width - m \in Nat
    BY PacketsAreTyped
  <2> QED
    BY <2>1, PowersArePositive
<1>2. a \in Nat /\ b \in Nat /\ Masked(ip, m) = a * d /\ Masked(net, m) = b * d
  BY MaskedIsPrefix
<1> HIDE DEF a, b, d
<1>3. a * d = b * d <=> a = b
  BY <1>1, <1>2
<1> QED
  BY <1>2, <1>3 DEF IpInNetwork, IpLessEq, a, b, d

\* What the two readers make of a predicate, but for the packets that raise.
Agree(p) ==
  /\ p.raises \subseteq Packets
  /\ \A k \in Packets \ p.raises : k \in p.yes <=> k \in p.meant

\* A test of a field is of the packets that have one of the values.
LEMMA FieldEqIs ==
  ASSUME NEW h, NEW vs
  PROVE  LET equal == {k \in Packets : k[h] \in vs}
         IN FieldEq(h, vs) = [yes |-> equal, raises |-> {}, meant |-> equal]
<1> DEFINE tests == {Test(h, v) : v \in vs}
           equal == {k \in Packets : k[h] \in vs}
<1>1. FieldEq(h, vs) =
        [yes |-> UNION {t.yes : t \in tests}, raises |-> {}, meant |-> UNION {t.meant : t \in tests}]
  BY DEF FieldEq
<1>2. \A v : Test(h, v).yes = {k \in Packets : k[h] = v} /\ Test(h, v).meant = {k \in Packets : k[h] = v}
  BY DEF Test
<1>3. UNION {t.yes : t \in tests} = equal /\ UNION {t.meant : t \in tests} = equal
  BY <1>2
<1> QED
  BY <1>1, <1>3

LEMMA TestsAgree == \A p \in BasePreds : Agree(p)
<1>1. Agree(Id) /\ Agree(Drop)
  BY DEF Agree, Id, Drop
<1>2. \A h, vs : Agree(FieldEq(h, vs)) /\ Agree(FieldNotEq(h, vs))
  BY FieldEqIs DEF Agree, FieldNotEq, Not, No
<1>3. ASSUME NEW t \in AddressTests PROVE Agree(IP4Eq(t[1], t[2], t[3]))
  <2> DEFINE m == MaskOf(t[3])
  <2>1. m \in 0..Width /\ t[2] \in 0..(pow2[Width] - 1)
    BY PacketsAreTyped, TestsAreTyped DEF MaskOf
  <2>2. ASSUME NEW k \in Packets, k[t[1]] # None
        PROVE  IpInNetwork(k[t[1]], t[2], m) <=> IpLessEq(k[t[1]], t[2], m)
    <3>1. k[t[1]] \in 0..(pow2[Width] - 1)
      BY <2>2, PacketsAreTyped, TestsAreTyped
    <3> HIDE DEF m
    <3> QED
      BY <2>1, <3>1, NetworksAgree
  <2> QED
    BY <2>2 DEF Agree, IP4Eq, AddressMatches
<1> QED
  BY <1>1, <1>2, <1>3 DEF BasePreds

LEMMA OperatorsAgree ==
  ASSUME NEW p, NEW q, Agree(p), Agree(q)
  PROVE  Agree(Not(p)) /\ Agree(And(p, q)) /\ Agree(Or(p, q))
<1>1. Agree(Not(p))
  BY DEF Agree, Not, No
<1>2. Agree(And(p, q))
  BY DEF Agree, And
<1>3. Agree(Or(p, q))
  BY DEF Agree, Or, No
<1> QED
  BY <1>1, <1>2, <1>3

MatchInv == Agree(predicate) /\ inspected \in Packets

LEMMA MatchInvStep == MatchInv /\ [MatchNext]_matchVars => MatchInv'
<1> SUFFICES ASSUME MatchInv, [MatchNext]_matchVars PROVE MatchInv'
  OBVIOUS
<1>1. ASSUME NEW p, Build(p), Agree(p) PROVE MatchInv'
  BY <1>1 DEF Build, MatchInv
<1>2. CASE Invert
  BY <1>1, <1>2, OperatorsAgree DEF Invert, MatchInv
<1>3. ASSUME NEW p \in BasePreds, Conjoin(p) \/ Disjoin(p) PROVE MatchInv'
  <2>1. Agree(p) /\ Agree(predicate)
    BY TestsAgree DEF MatchInv
  <2>2. /\ Agree(And(predicate, p)) /\ Agree(And(p, predicate))
        /\ Agree(Or(predicate, p)) /\ Agree(Or(p, predicate))
    BY <2>1, OperatorsAgree
  <2> QED
    BY <1>1, <1>3, <2>2 DEF Conjoin, Disjoin
<1>4. CASE UNCHANGED matchVars
  BY <1>4 DEF matchVars, MatchInv
<1> QED
  BY <1>2, <1>3, <1>4 DEF MatchNext

\* packet.py, Packet.matches: of every predicate that the operators make of tests of
\* fields and of networks it says what the controller's semantics says of the JSON.
THEOREM PythonAgrees == MatchSpec => []MatchesAgrees
<1>1. MatchInit => MatchInv
  BY TestsAgree, TestsAreTyped DEF MatchInit, MatchInv
<1>2. MatchInv => MatchesAgrees
  BY DEF MatchInv, Agree, MatchesAgrees
<1> QED
  BY <1>1, <1>2, MatchInvStep, PTL DEF MatchSpec

---------------------------------------------------------------------------
(* packet.py: payloads. *)

\* What a payload gives a header that just one of its protocols has, or none.
LEMMA HeaderOf ==
  ASSUME NEW s, NEW port, NEW payload, NEW h \in Headers
  PROVE  /\ (\A i \in DOMAIN payload : h \notin DOMAIN Gives(payload[i])) =>
              FromPayload(s, port, payload)[h] = NewPacket(s, port)[h]
         /\ \A i \in DOMAIN payload :
              /\ h \in DOMAIN Gives(payload[i])
              /\ \A j \in DOMAIN payload : h \in DOMAIN Gives(payload[j]) => j <= i /\ (i <= j => i = j)
              => FromPayload(s, port, payload)[h] = Gives(payload[i])[h]
<1> DEFINE givers(g) == {i \in DOMAIN payload : g \in DOMAIN Gives(payload[i])}
           last(g) == CHOOSE i \in givers(g) : \A j \in givers(g) : j <= i
           value(g) == IF givers(g) = {} THEN NewPacket(s, port)[g] ELSE Gives(payload[last(g)])[g]
<1>1. FromPayload(s, port, payload) = [g \in Headers |-> value(g)]
  BY DEF FromPayload
<1>2. FromPayload(s, port, payload)[h] = value(h)
  BY <1>1
<1>3. ASSUME \A i \in DOMAIN payload : h \notin DOMAIN Gives(payload[i])
      PROVE  value(h) = NewPacket(s, port)[h]
  BY <1>3
<1>4. ASSUME NEW i \in DOMAIN payload, h \in DOMAIN Gives(payload[i]),
             \A j \in DOMAIN payload : h \in DOMAIN Gives(payload[j]) => j <= i /\ (i <= j => i = j)
      PROVE  value(h) = Gives(payload[i])[h]
  <2>1. i \in givers(h) /\ \A j \in givers(h) : j <= i
    BY <1>4
  <2>2. last(h) \in givers(h) /\ i <= last(h)
    BY <2>1
  <2>3. last(h) = i
    BY <1>4, <2>2
  <2> QED
    BY <2>1, <2>3
<1> QED
  BY <1>2, <1>3, <1>4

\* The protocols that to_payload puts together, in their places.
LEMMA ToPayloadIs ==
  ASSUME NEW k, NEW S, NEW others \in Seq(S)
  PROVE  LET n == IF k["ethtype"] = Arp THEN 2 ELSE 1
         IN /\ DOMAIN ToPayload(k, others) = 1..(n + Len(others))
            /\ ToPayload(k, others)[1] = [name |-> "ethernet", src |-> k["ethsrc"],
                                          dst |-> k["ethdst"], type |-> k["ethtype"]]
            /\ k["ethtype"] = Arp =>
                 ToPayload(k, others)[2] = [name |-> "arp", opcode |-> k["ipproto"],
                                            src |-> k["ip4src"], dst |-> k["ip4dst"]]
            /\ \A i \in (n + 1)..(n + Len(others)) : ToPayload(k, others)[i] = others[i - n]
<1> DEFINE e == [name |-> "ethernet", src |-> k["ethsrc"], dst |-> k["ethdst"], type |-> k["ethtype"]]
           a == [name |-> "arp", opcode |-> k["ipproto"], src |-> k["ip4src"], dst |-> k["ip4dst"]]
           front == <<e>> \o (IF k["ethtype"] = Arp THEN <<a>> ELSE <<>>)
           T == S \cup {e, a}
<1>1. ToPayload(k, others) = front \o others
  BY DEF ToPayload
<1>2. e \in T /\ a \in T /\ others \in Seq(T) /\ Len(others) \in Nat
  OBVIOUS
<1>3. /\ front \in Seq(T) /\ front[1] = e
      /\ k["ethtype"] = Arp => Len(front) = 2 /\ front[2] = a
      /\ k["ethtype"] # Arp => Len(front) = 1
  <2> HIDE DEF e, a, T
  <2>1. CASE k["ethtype"] = Arp
    BY <1>2, <2>1
  <2>2. CASE k["ethtype"] # Arp
    BY <1>2, <2>2
  <2> QED
    BY <2>1, <2>2
<1> HIDE DEF e, a, front, T
<1>4. Len(front) = IF k["ethtype"] = Arp THEN 2 ELSE 1
  BY <1>3
<1>5. /\ DOMAIN (front \o others) = 1..(Len(front) + Len(others))
      /\ \A i \in 1..Len(front) : (front \o others)[i] = front[i]
      /\ \A i \in (Len(front) + 1)..(Len(front) + Len(others)) :
           (front \o others)[i] = others[i - Len(front)]
  BY <1>2, <1>3
<1> QED
  BY <1>1, <1>3, <1>4, <1>5 DEF e, a

\* What a packet keeps of k when it is sent on and comes in at a port of a switch.
SentOn(k, s, port) ==
  [h \in Headers |->
     IF h = "switch" THEN s ELSE IF h = "location" THEN port
     ELSE IF h \in TransportPorts \cup {"vlanpcp"} THEN None ELSE k[h]]

\* packet.py: what to_payload makes of a packet, from_payload reads as the same packet
\* elsewhere, whatever unknown headers follow; only the transport ports and a VLAN
\* priority without a VLAN are lost.
THEOREM PayloadsSurvive ==
  ASSUME NEW k, CanSerialise(k), NEW s, NEW port, NEW S, NEW others \in Seq(S),
         \A i \in DOMAIN others : DOMAIN Gives(others[i]) = {}
  PROVE  FromPayload(s, port, ToPayload(k, others)) = SentOn(k, s, port)
<1> DEFINE P == ToPayload(k, others)
           F == FromPayload(s, port, P)
           isArp == k["ethtype"] = Arp
           n == IF isArp THEN 2 ELSE 1
<1>1. /\ DOMAIN P = 1..(n + Len(others)) /\ Len(others) \in Nat
      /\ P[1] = [name |-> "ethernet", src |-> k["ethsrc"], dst |-> k["ethdst"], type |-> k["ethtype"]]
      /\ isArp => P[2] = [name |-> "arp", opcode |-> k["ipproto"], src |-> k["ip4src"], dst |-> k["ip4dst"]]
      /\ \A i \in (n + 1)..(n + Len(others)) : P[i] = others[i - n]
  BY ToPayloadIs
<1> HIDE DEF P
<1>2. Gives(P[1]) = [ethsrc |-> k["ethsrc"], ethdst |-> k["ethdst"], ethtype |-> k["ethtype"]]
  BY <1>1 DEF Gives, CanSerialise
<1>3. isArp => Gives(P[2]) = [ip4src |-> k["ip4src"], ip4dst |-> k["ip4dst"], ipproto |-> k["ipproto"]]
  BY <1>1 DEF Gives
<1>4. \A i \in DOMAIN P : i = 1 \/ (i = 2 /\ isArp) \/ DOMAIN Gives(P[i]) = {}
  <2> SUFFICES ASSUME NEW i \in DOMAIN P, i # 1, ~ (i = 2 /\ isArp) PROVE DOMAIN Gives(P[i]) = {}
    OBVIOUS
  <2>1. i \in (n + 1)..(n + Len(others)) /\ i - n \in 1..Len(others)
    BY <1>1
  <2> QED
    BY <1>1, <2>1
<1>5. 1 \in DOMAIN P /\ (isArp => 2 \in DOMAIN P)
  BY <1>1
<1>6. DOMAIN Gives(P[1]) = {"ethsrc", "ethdst", "ethtype"}
  BY <1>2
<1>7. isArp => DOMAIN Gives(P[2]) = {"ip4src", "ip4dst", "ipproto"}
  BY <1>3
<1> HIDE DEF isArp, n
<1>8. ASSUME NEW h \in {"ethsrc", "ethdst", "ethtype"} PROVE F[h] = k[h]
  <2>1. h \in Headers /\ \A j \in DOMAIN P : h \in DOMAIN Gives(P[j]) => j = 1
    BY <1>4, <1>7 DEF Headers, PlainHeaders, TransportPorts
  <2>2. F[h] = Gives(P[1])[h]
    BY <1>5, <1>6, <2>1, HeaderOf
  <2> QED
    BY <1>2, <2>2
<1>9. ASSUME NEW h \in {"ip4src", "ip4dst", "ipproto"}, isArp PROVE F[h] = k[h]
  <2>1. h \in Headers /\ \A j \in DOMAIN P : h \in DOMAIN Gives(P[j]) => j = 2
    BY <1>4, <1>6 DEF Headers, PlainHeaders, Addresses
  <2>2. F[h] = Gives(P[2])[h]
    BY <1>5, <1>7, <1>9, <2>1, HeaderOf
  <2> QED
    BY <1>3, <1>9, <2>2
<1>10. ASSUME NEW h \in Headers, h \notin {"ethsrc", "ethdst", "ethtype"},
              isArp => h \notin {"ip4src", "ip4dst", "ipproto"}
       PROVE  F[h] = NewPacket(s, port)[h]
  <2>1. \A j \in DOMAIN P : h \notin DOMAIN Gives(P[j])
    BY <1>4, <1>6, <1>7, <1>10
  <2> QED
    BY <2>1, HeaderOf
<1>11. ~ isArp => k["ip4src"] = None /\ k["ip4dst"] = None /\ k["ipproto"] = None
  BY DEF CanSerialise, isArp
<1>12. k["vlan"] = None
  BY DEF CanSerialise
<1>13. ASSUME NEW h \in Headers PROVE F[h] = SentOn(k, s, port)[h]
  <2>1. SentOn(k, s, port)[h] = IF h = "switch" THEN s ELSE IF h = "location" THEN port
                                ELSE IF h \in TransportPorts \cup {"vlanpcp"} THEN None ELSE k[h]
    BY DEF SentOn
  <2>2. NewPacket(s, port)[h] = IF h = "switch" THEN s ELSE IF h = "location" THEN port ELSE None
    BY DEF NewPacket
  <2>3. CASE h \in {"ethsrc", "ethdst", "ethtype"}
    BY <1>8, <2>1, <2>3 DEF TransportPorts
  <2>4. CASE h \in {"ip4src", "ip4dst", "ipproto"}
    BY <1>9, <1>10, <1>11, <2>1, <2>2, <2>4 DEF TransportPorts
  <2>5. CASE h \in {"switch", "location"} \cup TransportPorts \cup {"vlanpcp", "vlan"}
    BY <1>10, <1>12, <2>1, <2>2, <2>5 DEF TransportPorts
  <2> QED
    BY <2>3, <2>4, <2>5 DEF Headers, PlainHeaders, Addresses
<1>14. F = [h \in Headers |-> F[h]]
  BY DEF FromPayload
<1>15. SentOn(k, s, port) = [h \in Headers |-> SentOn(k, s, port)[h]]
  BY DEF SentOn
<1> HIDE DEF F
<1>16. F = SentOn(k, s, port)
  BY <1>13, <1>14, <1>15
<1> QED
  BY <1>16 DEF F, P

\* topology.py, send_arp: an ARP packet that was read can be sent on, and is read where it
\* comes in as the same packet: the flooded copies name the host that sent it.
THEOREM ArpsSurvive ==
  ASSUME NEW s, NEW port, NEW t, NEW there, NEW src, NEW dst, NEW ip, NEW target, NEW opcode,
         None \notin {src, dst, ip, target, opcode}, opcode \notin {Tcp, Udp}
  PROVE  LET k == FromPayload(s, port, <<[name |-> "ethernet", src |-> src, dst |-> dst, type |-> Arp],
                                         [name |-> "arp", opcode |-> opcode, src |-> ip, dst |-> target]>>)
         IN /\ CanSerialise(k) /\ k["ethtype"] = Arp /\ k["ethsrc"] = src
            /\ FromPayload(t, there, ToPayload(k, <<>>)) = [k EXCEPT !["switch"] = t, !["location"] = there]
<1> DEFINE e == [name |-> "ethernet", src |-> src, dst |-> dst, type |-> Arp]
           a == [name |-> "arp", opcode |-> opcode, src |-> ip, dst |-> target]
           P == <<e, a>>
           k == FromPayload(s, port, P)
<1>1. DOMAIN P = {1, 2} /\ P[1] = e /\ P[2] = a
  OBVIOUS
<1>2. Gives(e) = [ethsrc |-> src, ethdst |-> dst, ethtype |-> Arp]
  BY NumbersDiffer DEF Gives
<1>3. Gives(a) = [ip4src |-> ip, ip4dst |-> target, ipproto |-> opcode]
  BY DEF Gives
<1>4. DOMAIN Gives(P[1]) = {"ethsrc", "ethdst", "ethtype"} /\ DOMAIN Gives(P[2]) = {"ip4src", "ip4dst", "ipproto"}
  BY <1>1, <1>2, <1>3
<1>5. Gives(P[1]) = Gives(e) /\ Gives(P[2]) = Gives(a)
  BY <1>1
<1>6. DOMAIN P = {1, 2}
  BY <1>1
<1> HIDE DEF P, e, a
<1>7. ASSUME NEW h \in {"ethsrc", "ethdst", "ethtype"} PROVE k[h] = Gives(e)[h]
  <2>1. h \in Headers /\ \A j \in DOMAIN P : h \in DOMAIN Gives(P[j]) => j = 1
    BY <1>4, <1>6 DEF Headers, PlainHeaders
  <2>2. k[h] = Gives(P[1])[h]
    BY <1>4, <1>6, <2>1, HeaderOf
  <2> QED
    BY <1>5, <2>2
<1>8. ASSUME NEW h \in {"ip4src", "ip4dst", "ipproto"} PROVE k[h] = Gives(a)[h]
  <2>1. h \in Headers /\ \A j \in DOMAIN P : h \in DOMAIN Gives(P[j]) => j = 2
    BY <1>4, <1>6 DEF Headers, PlainHeaders, Addresses
  <2>2. k[h] = Gives(P[2])[h]
    BY <1>4, <1>6, <2>1, HeaderOf
  <2> QED
    BY <1>5, <2>2
<1>9. ASSUME NEW h \in TransportPorts \cup {"vlan", "vlanpcp"} PROVE k[h] = None
  <2>1. h \in Headers /\ h \notin {"switch", "location"}
    BY DEF Headers, PlainHeaders, TransportPorts
  <2>2. \A j \in DOMAIN P : h \notin DOMAIN Gives(P[j])
    BY <1>4, <1>6 DEF TransportPorts
  <2>3. k[h] = NewPacket(s, port)[h]
    BY <2>1, <2>2, HeaderOf
  <2> QED
    BY <2>1, <2>3 DEF NewPacket
<1>10. k = [h \in Headers |-> k[h]]
  BY DEF FromPayload
<1> HIDE DEF k
<1>11. /\ k["ethsrc"] = src /\ k["ethdst"] = dst /\ k["ethtype"] = Arp
       /\ k["ip4src"] = ip /\ k["ip4dst"] = target /\ k["ipproto"] = opcode
       /\ k["vlan"] = None /\ k["tcpsrcport"] = None /\ k["tcpdstport"] = None
  BY <1>2, <1>3, <1>7, <1>8, <1>9 DEF TransportPorts
<1>12. CanSerialise(k)
  BY <1>11, NumbersDiffer DEF CanSerialise
<1>13. FromPayload(t, there, ToPayload(k, <<>>)) = SentOn(k, t, there)
  <2>1. <<>> \in Seq({}) /\ DOMAIN <<>> = {}
    OBVIOUS
  <2> QED
    BY <1>12, <2>1, PayloadsSurvive
<1>14. SentOn(k, t, there) = [k EXCEPT !["switch"] = t, !["location"] = there]
  <2>1. \A h \in Headers : SentOn(k, t, there)[h] =
          IF h = "switch" THEN t ELSE IF h = "location" THEN there ELSE k[h]
    BY <1>9 DEF SentOn
  <2>2. SentOn(k, t, there) = [h \in Headers |-> SentOn(k, t, there)[h]]
    BY DEF SentOn
  <2>3. [k EXCEPT !["switch"] = t, !["location"] = there] =
          [h \in Headers |-> IF h = "switch" THEN t ELSE IF h = "location" THEN there ELSE k[h]]
    BY <1>10
  <2> QED
    BY <2>1, <2>2, <2>3
<1> QED
  BY <1>11, <1>12, <1>13, <1>14 DEF k, P, e, a

---------------------------------------------------------------------------
(* Where policies send a packet. *)

Passes(p, k) == k \in p.meant

\* A filter before a policy lets it act on the packets that pass.
LEMMA SentIfPasses ==
  ASSUME NEW p, p.meant \subseteq Packets, NEW q, NEW k \in Packets
  PROVE  Sent(Seq2(Filter(p), q), k) = IF Passes(p, k) THEN Sent(q, k) ELSE {}
<1>1. ASSUME NEW i \in Packets PROVE [i EXCEPT !["location"] = i["location"]] = i
  <2>1. i = [h \in Headers |-> i[h]]
    BY PacketsAreTyped
  <2> QED
    BY <2>1
<1>2. ASSUME NEW x \in Filter(p) PROVE x[1] \in p.meant /\ [x[1] EXCEPT !["location"] = x[2]] = x[1]
  BY <1>1 DEF Filter
<1>3. \A z : z \in Seq2(Filter(p), q) <=>
                \E x \in Filter(p) : z \in {x[1]} \X Sent(q, x[1])
  <2> DEFINE at(x) == [x[1] EXCEPT !["location"] = x[2]]
  <2>1. Seq2(Filter(p), q) = UNION {{x[1]} \X Sent(q, at(x)) : x \in Filter(p)}
    BY DEF Seq2
  <2>2. \A x \in Filter(p) : at(x) = x[1]
    BY <1>2, Zenon
  <2> HIDE DEF at
  <2> QED
    BY <2>1, <2>2
<1>4. k \in p.meant => <<k, k["location"]>> \in Filter(p)
  BY DEF Filter
<1>5. \A l : <<k, l>> \in Seq2(Filter(p), q) <=> k \in p.meant /\ l \in Sent(q, k)
  <2>1. \A x \in Filter(p) : \A l :
          <<k, l>> \in {x[1]} \X Sent(q, x[1]) <=> x[1] = k /\ l \in Sent(q, k)
    OBVIOUS
  <2>2. \A l : <<k, l>> \in Seq2(Filter(p), q) <=>
                \E x \in Filter(p) : x[1] = k /\ l \in Sent(q, k)
    BY <1>3, <2>1
  <2>3. (\E x \in Filter(p) : x[1] = k) <=> k \in p.meant
    BY <1>2, <1>4
  <2> QED
    BY <2>2, <2>3
<1>6. \A l : l \in Sent(Seq2(Filter(p), q), k) <=> <<k, l>> \in Seq2(Filter(p), q)
  BY <1>3 DEF Sent
<1> QED
  BY <1>5, <1>6 DEF Passes

LEMMA SentToPorts ==
  ASSUME NEW ps, NEW k \in Packets
  PROVE  Sent(SetPort(ps), k) = ps /\ Sent(SendToController, k) = {Controller}
<1>1. ASSUME NEW S PROVE Sent(Packets \X S, k) = S
  <2>1. \A l : l \in Sent(Packets \X S, k) <=> <<k, l>> \in Packets \X S
    BY DEF Sent
  <2> QED
    BY <2>1
<1> QED
  BY <1>1 DEF SetPort, SendToController

LEMMA SentByAny ==
  ASSUME NEW pols, NEW k
  PROVE  Sent(Union(pols), k) = UNION {Sent(p, k) : p \in pols}
  BY DEF Sent, Union

\* The filters that the applications write.
LEMMA FiltersPass ==
  /\ \A h, vs : /\ FieldEq(h, vs).meant \subseteq Packets
               /\ \A k \in Packets : Passes(FieldEq(h, vs), k) <=> k[h] \in vs
  /\ \A p, q : /\ p.meant \subseteq Packets => And(p, q).meant \subseteq Packets
              /\ \A k \in Packets : Passes(And(p, q), k) <=> Passes(p, k) /\ Passes(q, k)
  /\ \A p : /\ Not(p).meant \subseteq Packets
           /\ \A k \in Packets : Passes(Not(p), k) <=> ~Passes(p, k)
  BY FieldEqIs DEF And, Not, Passes

---------------------------------------------------------------------------
(* repeater.py and port_count.py. *)

\* Of the SwitchRefs of its switch, those that know the port where it is floods a packet.
LEMMA SentByFlood ==
  ASSUME NEW known, NEW k \in Packets
  PROVE  Sent(Flood(known), k) =
           (UNION {Range(ref.ports) :
                     ref \in {r \in known : r.id = k["switch"] /\ k["location"] \in Range(r.ports)}})
             \ {k["location"]}
<1> DEFINE p == k["location"]
<1>1. ASSUME NEW ps, NEW port
      PROVE  Sent(FloodPort(ps, port), k) = IF p = port THEN Range(ps) \ {p} ELSE {}
  <2> DEFINE filter == PortEq({port})
             pol == SetPort(Range(ps) \ {port})
  <2>1. filter.meant \subseteq Packets /\ (Passes(filter, k) <=> p = port)
    BY FiltersPass DEF PortEq
  <2>2. Sent(pol, k) = Range(ps) \ {port}
    BY SentToPorts
  <2>3. FloodPort(ps, port) = Seq2(Filter(filter), pol)
    BY DEF FloodPort, Others
  <2> HIDE DEF filter, pol, p
  <2>4. Sent(FloodPort(ps, port), k) = IF Passes(filter, k) THEN Sent(pol, k) ELSE {}
    BY <2>1, <2>3, SentIfPasses
  <2> QED
    BY <2>1, <2>2, <2>4
<1>2. ASSUME NEW ref
      PROVE  Sent(Union({FloodPort(ref.ports, port) : port \in Range(ref.ports)}), k) =
               IF p \in Range(ref.ports) THEN Range(ref.ports) \ {p} ELSE {}
  <2> DEFINE pols == {FloodPort(ref.ports, port) : port \in Range(ref.ports)}
  <2>1. Sent(Union(pols), k) = UNION {Sent(q, k) : q \in pols}
    BY SentByAny
  <2>2. \A q \in pols : \E port \in Range(ref.ports) :
          Sent(q, k) = IF p = port THEN Range(ref.ports) \ {p} ELSE {}
    BY <1>1
  <2>3. p \in Range(ref.ports) =>
          \E q \in pols : Sent(q, k) = Range(ref.ports) \ {p}
    BY <1>1
  <2> HIDE DEF pols, p
  <2>4. ASSUME p \in Range(ref.ports) PROVE Sent(Union(pols), k) = Range(ref.ports) \ {p}
    <3>1. \A q \in pols : Sent(q, k) \subseteq Range(ref.ports) \ {p}
      BY <2>2
    <3> QED
      BY <2>1, <2>3, <2>4, <3>1
  <2>5. ASSUME p \notin Range(ref.ports) PROVE Sent(Union(pols), k) = {}
    <3>1. \A q \in pols : Sent(q, k) = {}
      BY <2>2, <2>5
    <3> QED
      BY <2>1, <3>1
  <2> QED
    BY <2>4, <2>5 DEF pols
<1>3. ASSUME NEW ref
      PROVE  Sent(FloodSwitch(ref), k) =
               IF k["switch"] = ref.id /\ p \in Range(ref.ports) THEN Range(ref.ports) \ {p} ELSE {}
  <2> DEFINE pol == Union({FloodPort(ref.ports, port) : port \in Range(ref.ports)})
  <2>1. Sent(FloodSwitch(ref), k) = IF k["switch"] = ref.id THEN Sent(pol, k) ELSE {}
    <3> HIDE DEF pol
    <3> QED
      BY SentIfPasses, FiltersPass DEF FloodSwitch, pol
  <2> QED
    BY <1>2, <2>1
<1>4. Sent(Flood(known), k) = UNION {Sent(FloodSwitch(ref), k) : ref \in known}
  <2>1. Sent(Flood(known), k) = UNION {Sent(q, k) : q \in {FloodSwitch(ref) : ref \in known}}
    BY SentByAny DEF Flood
  <2> QED
    BY <2>1
<1>5. \A l : l \in Sent(Flood(known), k) <=> \E ref \in known : l \in Sent(FloodSwitch(ref), k)
  BY <1>4
<1> HIDE DEF p
<1>6. \A l : l \in Sent(Flood(known), k) <=>
        \E ref \in known : /\ ref.id = k["switch"] /\ p \in Range(ref.ports)
                         /\ l \in Range(ref.ports) /\ l # p
  BY <1>3, <1>5
<1> DEFINE listed == {r \in known : r.id = k["switch"] /\ p \in Range(r.ports)}
<1>7. \A l : l \in Sent(Flood(known), k) <=>
        l # p /\ \E ref \in listed : l \in Range(ref.ports)
  BY <1>6
<1> HIDE DEF listed
<1>8. Sent(Flood(known), k) = (UNION {Range(ref.ports) : ref \in listed}) \ {p}
  BY <1>7
<1> QED
  BY <1>8 DEF p, listed

FloodInv == CanFlood(inventory) => flooding = Flood(inventory)

LEMMA AnnounceKeepsFloodInv ==
  ASSUME NEW known, Announce(known) PROVE FloodInv'
<1>1. inventory' = known /\ (CanFlood(known) => flooding' = Flood(known))
  BY DEF Announce
<1>2. CanFlood(inventory)' = CanFlood(known) /\ Flood(inventory)' = Flood(known)
  BY <1>1 DEF CanFlood, Flood, FloodSwitch, FloodPort, Others
<1> QED
  BY <1>1, <1>2 DEF FloodInv

LEMMA SameInventoryKeeps ==
  ASSUME FloodInv, UNCHANGED <<inventory, flooding>> PROVE FloodInv'
<1>1. CanFlood(inventory)' = CanFlood(inventory) /\ Flood(inventory)' = Flood(inventory)
  BY DEF CanFlood, Flood, FloodSwitch, FloodPort, Others
<1> QED
  BY <1>1 DEF FloodInv

\* Of the SwitchRefs that connected() adds, the last either was sent with the others or
\* cannot be sent.
LEMMA HandleInventoryKeeps ==
  ASSUME FloodInv, HandleInventory PROVE FloodInv'
<1>1. PICK order \in [1..Cardinality(DOMAIN portsTold) -> DOMAIN portsTold] :
        \E last \in 0..Len(order) :
          LET after(n) ==
                LET ss == {order[i] : i \in 1..n}
                IN {ref \in inventory : program = "repeater" => ref.id \notin ss}
                     \cup {Ref(s, portsTold[s]) : s \in ss}
          IN /\ \A n \in 1..last : CanFlood(after(n))
             /\ flooding' = IF last = 0 THEN flooding ELSE Flood(after(last))
             /\ IF last = Len(order) THEN inventory' = after(last)
                ELSE ~CanFlood(after(last + 1)) /\ inventory' = after(last + 1)
  BY DEF HandleInventory
<1> DEFINE after(n) ==
             LET ss == {order[i] : i \in 1..n}
             IN {ref \in inventory : program = "repeater" => ref.id \notin ss}
                  \cup {Ref(s, portsTold[s]) : s \in ss}
<1>2. PICK last \in 0..Len(order) :
        /\ flooding' = IF last = 0 THEN flooding ELSE Flood(after(last))
        /\ IF last = Len(order) THEN inventory' = after(last)
           ELSE ~CanFlood(after(last + 1)) /\ inventory' = after(last + 1)
  BY <1>1
<1>3. after(0) = inventory
  OBVIOUS
<1> HIDE DEF after
<1>4. CASE last = 0 /\ last = Len(order)
  BY <1>2, <1>3, <1>4, SameInventoryKeeps
<1>5. CASE last # 0 /\ last = Len(order)
  <2>1. inventory' = after(last) /\ flooding' = Flood(after(last))
    BY <1>2, <1>5
  <2>2. Flood(inventory)' = Flood(after(last))
    BY <2>1 DEF Flood, FloodSwitch, FloodPort, Others
  <2> QED
    BY <2>1, <2>2 DEF FloodInv
<1>6. CASE last # Len(order)
  <2>1. inventory' = after(last + 1) /\ ~CanFlood(after(last + 1))
    BY <1>2, <1>6
  <2>2. CanFlood(inventory)' = CanFlood(after(last + 1))
    BY <2>1 DEF CanFlood, Others
  <2> QED
    BY <2>1, <2>2 DEF FloodInv
<1> QED
  BY <1>4, <1>5, <1>6

LEMMA FloodInvStep == FloodInv /\ [InventoryNext]_inventoryVars => FloodInv'
<1> SUFFICES ASSUME FloodInv, [InventoryNext]_inventoryVars PROVE FloodInv'
  OBVIOUS
<1>1. CASE HandleInventory
  BY <1>1, HandleInventoryKeeps
<1>2. ASSUME NEW s, (\E ps : InventoryUp(s, ps)) \/ InventoryDown(s) PROVE FloodInv'
  BY <1>2, AnnounceKeepsFloodInv, SameInventoryKeeps DEF InventoryUp, InventoryDown, Raise
<1>3. ASSUME NEW s, NEW p, InventoryPortUp(s, p) \/ InventoryPortDown(s, p) PROVE FloodInv'
  BY <1>3, AnnounceKeepsFloodInv, SameInventoryKeeps
     DEF InventoryPortUp, InventoryPortDown, Raise
<1>4. CASE UNCHANGED inventoryVars
  BY <1>4, SameInventoryKeeps DEF inventoryVars
<1> QED
  BY <1>1, <1>2, <1>3, <1>4 DEF InventoryNext, ToldUp, ToldDown, ToldPortUp, ToldPortDown

\* repeater.py, port_count.py: as long as a policy can be sent at all, it floods each
\* packet to the other ports that the program knows of its switch and nowhere else, for
\* any switches, ports and order of events.
THEOREM FloodsReachOthers == InventorySpec => []FloodReachesOthers
<1>1. InventoryInit => FloodInv
  <2>1. Flood({}) = drop
    BY DEF Flood, Union, drop, Filter, Drop
  <2> QED
    BY <2>1 DEF InventoryInit, FloodInv
<1>2. FloodInv => FloodReachesOthers
  BY SentByFlood DEF FloodInv, FloodReachesOthers
<1> QED
  BY <1>1, <1>2, FloodInvStep, PTL DEF InventorySpec

---------------------------------------------------------------------------
(* load_balancer.py: the turn of the servers. *)

Load(i) == {s \in DOMAIN connections : connections[s] = ServerPorts[i]}

\* Each server has had as many turns as the others, those before the next one more.
InTurn ==
  /\ next_server_index \in 0..(Len(ServerPorts) - 1)
  /\ IsFiniteSet(DOMAIN connections)
  /\ \E n \in Nat : \A i \in DOMAIN ServerPorts :
       Cardinality(Load(i)) = n + (IF i <= next_server_index THEN 1 ELSE 0)

LEMMA SameTurnKeeps ==
  ASSUME InTurn, UNCHANGED <<connections, next_server_index>> PROVE InTurn'
<1>1. \A i : Load(i)' = Load(i)
  BY DEF Load
<1> QED
  BY <1>1 DEF InTurn

LEMMA NewConnectionKeepsTurn ==
  ASSUME InTurn, NEW src, NewConnection(src) PROVE InTurn'
<1>1. CASE src \in DOMAIN connections
  BY <1>1, SameTurnKeeps DEF NewConnection
<1>2. CASE src \notin DOMAIN connections
  <2> DEFINE N == Len(ServerPorts)
  <2>0. N \in Nat \ {0} /\ DOMAIN ServerPorts = 1..N
    BY ServersAreApart
  <2>1. PICK j \in 1..N : j = next_server_index + 1 /\ next_server_index \in Nat
    BY <2>0 DEF InTurn
  <2>2. /\ DOMAIN connections' = DOMAIN connections \cup {src}
        /\ connections'[src] = ServerPorts[j]
        /\ \A s \in DOMAIN connections : connections'[s] = connections[s]
        /\ next_server_index' = j % N
    BY <1>2, <2>1 DEF NewConnection, Turn
  <2>3. PICK n \in Nat : \A i \in 1..N :
          Cardinality(Load(i)) = n + (IF i <= next_server_index THEN 1 ELSE 0)
    BY <2>0 DEF InTurn
  <2>4. ASSUME NEW i \in 1..N PROVE IsFiniteSet(Load(i))
    BY FS_Subset DEF InTurn, Load
  <2>5. ASSUME NEW i \in 1..N, i # j PROVE Load(i)' = Load(i)
    <3>1. ServerPorts[i] # ServerPorts[j]
      BY <2>0, <2>5, ServersAreApart
    <3> QED
      BY <1>2, <2>2, <3>1 DEF Load
  <2>6. Load(j)' = Load(j) \cup {src} /\ src \notin Load(j)
    BY <1>2, <2>2 DEF Load
  <2>7. Cardinality(Load(j))' = Cardinality(Load(j)) + 1
    BY <2>1, <2>4, <2>6, FS_AddElement
  <2>8. ASSUME NEW i \in 1..N PROVE Cardinality(Load(i))' = n + (IF i <= j THEN 1 ELSE 0)
    <3>1. CASE i = j
      BY <2>1, <2>3, <2>7, <3>1
    <3>2. CASE i # j
      BY <2>1, <2>3, <2>5, <3>2
    <3> QED
      BY <3>1, <3>2
  <2>9. IsFiniteSet(DOMAIN connections')
    BY <2>2, FS_AddElement DEF InTurn
  <2> HIDE DEF N
  <2>10. CASE j < N
    <3>1. next_server_index' = j /\ j \in 0..(N - 1)
      BY <2>0, <2>2, <2>10
    <3> QED
      BY <2>0, <2>8, <2>9, <3>1 DEF InTurn, N
  <2>11. CASE j = N
    <3>1. next_server_index' = 0 /\ 0 \in 0..(N - 1)
      BY <2>0, <2>2, <2>11
    <3>2. \A i \in 1..N : Cardinality(Load(i))' = (n + 1) + (IF i <= 0 THEN 1 ELSE 0)
      BY <2>0, <2>8, <2>11
    <3>3. n + 1 \in Nat
      OBVIOUS
    <3> QED
      BY <2>0, <2>9, <3>1, <3>2, <3>3 DEF InTurn, N
  <2> QED
    BY <2>0, <2>10, <2>11
<1> QED
  BY <1>1, <1>2

LEMMA InTurnStep == InTurn /\ [BalancerNext]_balancerVars => InTurn'
<1> SUFFICES ASSUME InTurn, [BalancerNext]_balancerVars PROVE InTurn'
  OBVIOUS
<1>1. CASE BalancerConnected
  BY <1>1, SameTurnKeeps DEF BalancerConnected
<1>2. ASSUME NEW src, BalancerPacketIn(src) PROVE InTurn'
  BY <1>2, NewConnectionKeepsTurn DEF BalancerPacketIn
<1>3. CASE UNCHANGED balancerVars
  BY <1>3, SameTurnKeeps DEF balancerVars
<1> QED
  BY <1>1, <1>2, <1>3 DEF BalancerNext

\* load_balancer.py: the connections of two servers differ by one at most, for any
\* number of servers and of connections.
THEOREM ServersAreBalanced == BalancerSpec => []Balanced
<1>1. BalancerInit => InTurn
  <2> SUFFICES ASSUME BalancerInit PROVE InTurn
    OBVIOUS
  <2>1. DOMAIN connections = {} /\ next_server_index = 0
    BY DEF BalancerInit
  <2>2. \A i : Load(i) = {}
    BY <2>1 DEF Load
  <2>3. \A i \in DOMAIN ServerPorts : Cardinality(Load(i)) = 0 + (IF i <= 0 THEN 1 ELSE 0)
    <3>1. \A i \in DOMAIN ServerPorts : i \in Nat /\ i > 0
      BY ServersAreApart
    <3>2. Cardinality({}) = 0
      BY FS_EmptySet
    <3> QED
      BY <2>2, <3>1, <3>2
  <2> QED
    BY <2>1, <2>3, ServersAreApart, FS_EmptySet DEF InTurn
<1>2. InTurn => Balanced
  <2> SUFFICES ASSUME InTurn, NEW i \in DOMAIN ServerPorts, NEW j \in DOMAIN ServerPorts
               PROVE  Cardinality(Load(i)) <= Cardinality(Load(j)) + 1
    BY DEF Balanced, Load
  <2> QED
    BY ServersAreApart DEF InTurn
<1> QED
  BY <1>1, <1>2, InTurnStep, PTL DEF BalancerSpec

---------------------------------------------------------------------------
(* load_balancer.py: the policy. *)

\* A filter of two tests before an output.
LEMMA SentByTwoTests ==
  ASSUME NEW g, NEW us, NEW h, NEW vs, NEW pol, NEW k \in Packets
  PROVE  /\ Sent(Seq2(Filter(And(FieldEq(g, us), FieldEq(h, vs))), pol), k) =
              IF k[g] \in us /\ k[h] \in vs THEN Sent(pol, k) ELSE {}
         /\ Sent(Seq2(Filter(And(FieldEq(g, us), Not(FieldEq(h, vs)))), pol), k) =
              IF k[g] \in us /\ k[h] \notin vs THEN Sent(pol, k) ELSE {}
<1> DEFINE p == FieldEq(g, us)
           q == FieldEq(h, vs)
<1>1. /\ And(p, q).meant \subseteq Packets /\ And(p, Not(q)).meant \subseteq Packets
      /\ Passes(And(p, q), k) <=> k[g] \in us /\ k[h] \in vs
      /\ Passes(And(p, Not(q)), k) <=> k[g] \in us /\ k[h] \notin vs
  BY FiltersPass
<1> HIDE DEF p, q
<1>2. Sent(Seq2(Filter(And(p, q)), pol), k) = IF Passes(And(p, q), k) THEN Sent(pol, k) ELSE {}
  BY <1>1, SentIfPasses
<1>3. Sent(Seq2(Filter(And(p, Not(q))), pol), k) =
        IF Passes(And(p, Not(q)), k) THEN Sent(pol, k) ELSE {}
  BY <1>1, SentIfPasses
<1> QED
  BY <1>1, <1>2, <1>3 DEF p, q

LEMMA SentIfEqual ==
  ASSUME NEW h, NEW v, NEW pol, NEW k \in Packets, k[h] = v
  PROVE  Sent(Seq2(Filter(FieldEq(h, {v})), pol), k) = Sent(pol, k)
<1> DEFINE p == FieldEq(h, {v})
<1>1. p.meant \subseteq Packets /\ Passes(p, k)
  BY FiltersPass
<1> HIDE DEF p
<1> QED
  BY <1>1, SentIfPasses DEF p

\* There and back.
LEMMA SentByRoute ==
  ASSUME NEW conns, NEW src, NEW k \in Packets, k["ipproto"] = Tcp
  PROVE  Sent(Route(conns, src), k) =
           (IF k["location"] = ClientPort /\ k["tcpsrcport"] = src THEN {conns[src]} ELSE {})
             \cup
           (IF k["location"] = conns[src] /\ k["tcpdstport"] = src THEN {ClientPort} ELSE {})
<1> DEFINE server == conns[src]
           there == Seq2(Filter(And(PortEq({ClientPort}), FieldEq("tcpsrcport", {src}))),
                         SetPort({server}))
           back == Seq2(Filter(And(PortEq({server}), FieldEq("tcpdstport", {src}))),
                        SetPort({ClientPort}))
<1>1. Sent(there, k) =
        IF k["location"] \in {ClientPort} /\ k["tcpsrcport"] \in {src} THEN {server} ELSE {}
  BY SentByTwoTests, SentToPorts DEF PortEq
<1>2. Sent(back, k) =
        IF k["location"] \in {server} /\ k["tcpdstport"] \in {src} THEN {ClientPort} ELSE {}
  BY SentByTwoTests, SentToPorts DEF PortEq
<1>3. Route(conns, src) = Seq2(Filter(FieldEq("ipproto", {Tcp})), Union({there, back}))
  BY DEF Route
<1> HIDE DEF there, back
<1>4. Sent(Route(conns, src), k) = Sent(Union({there, back}), k)
  BY <1>3, SentIfEqual
<1>5. Sent(Union({there, back}), k) = UNION {Sent(p, k) : p \in {there, back}}
  BY SentByAny
<1>6. Sent(Route(conns, src), k) = Sent(there, k) \cup Sent(back, k)
  BY <1>4, <1>5
<1> QED
  BY <1>1, <1>2, <1>6

LEMMA SentByBalancer ==
  ASSUME NEW conns, NEW k \in Packets, k["ethtype"] = Ip
  PROVE  \A l : l \in Sent(BalancerPolicy(conns), k) <=>
                  \/ \E src \in DOMAIN conns : l \in Sent(Route(conns, src), k)
                  \/ /\ k["location"] = ClientPort /\ k["tcpsrcport"] \notin DOMAIN conns
                     /\ l = Controller
<1> DEFINE routed == Union({Route(conns, src) : src \in DOMAIN conns})
<1>1. Sent(ToController(conns), k) =
        IF k["location"] \in {ClientPort} /\ k["tcpsrcport"] \notin DOMAIN conns
        THEN {Controller} ELSE {}
  BY SentByTwoTests, SentToPorts DEF PortEq, ToController
<1>2. Sent(routed, k) = UNION {Sent(p, k) : p \in {Route(conns, src) : src \in DOMAIN conns}}
  BY SentByAny
<1>3. \A l : l \in Sent(routed, k) <=> \E src \in DOMAIN conns : l \in Sent(Route(conns, src), k)
  BY <1>2
<1>4. BalancerPolicy(conns) =
        Seq2(Filter(FieldEq("ethtype", {Ip})), Union({routed, ToController(conns)}))
  BY DEF BalancerPolicy
<1> HIDE DEF routed
<1>5. Sent(BalancerPolicy(conns), k) = Sent(Union({routed, ToController(conns)}), k)
  BY <1>4, SentIfEqual
<1>6. Sent(Union({routed, ToController(conns)}), k) =
        UNION {Sent(p, k) : p \in {routed, ToController(conns)}}
  BY SentByAny
<1>7. Sent(BalancerPolicy(conns), k) = Sent(routed, k) \cup Sent(ToController(conns), k)
  BY <1>5, <1>6
<1> QED
  BY <1>1, <1>3, <1>7

LEMMA SentOutOfOnePort == ASSUME NEW p PROVE SentOut(PacketOut({p})) = {p}
<1> DEFINE a == [header |-> "location", value |-> p]
<1>1. PacketOut({p}) = {a}
  BY DEF PacketOut
<1>2. a.header = "location" /\ a.value = p
  OBVIOUS
<1> HIDE DEF a
<1>3. {b \in {a} : b.header = "location"} = {a}
  BY <1>2
<1> QED
  BY <1>1, <1>2, <1>3 DEF SentOut

\* The policy that is out was built from the connections as they are, the packet that
\* was sent on belongs to one of them, and no server is where the client is.
PolicyIsCurrent ==
  /\ next_server_index \in 0..(Len(ServerPorts) - 1)
  /\ \A src \in DOMAIN connections : connections[src] # ClientPort
  /\ balancing = drop \/ balancing = BalancerPolicy(connections)
  /\ released.actions # {} =>
       released.src \in DOMAIN connections /\ SentOut(released.actions) = {connections[released.src]}

LEMMA PacketInKeepsPolicy ==
  ASSUME NEW src, PolicyIsCurrent, NewConnection(src), balancing' = BalancerPolicy(connections'),
         released' = [src |-> src, actions |-> PacketOut({connections'[src]})]
  PROVE  PolicyIsCurrent'
<1>1. Len(ServerPorts) \in Nat \ {0} /\ DOMAIN ServerPorts = 1..Len(ServerPorts)
  BY ServersAreApart
<1>2. next_server_index' \in 0..(Len(ServerPorts) - 1)
  BY <1>1 DEF PolicyIsCurrent, NewConnection, Turn
<1>3. src \in DOMAIN connections' /\ \A s \in DOMAIN connections' : connections'[s] # ClientPort
  <2>1. CASE src \in DOMAIN connections
    BY <2>1 DEF PolicyIsCurrent, NewConnection
  <2>2. CASE src \notin DOMAIN connections
    <3>1. ServerPorts[next_server_index + 1] # ClientPort
      BY <1>1, ServersAreApart DEF PolicyIsCurrent
    <3> QED
      BY <2>2, <3>1 DEF PolicyIsCurrent, NewConnection
  <2> QED
    BY <2>1, <2>2
<1>4. SentOut(PacketOut({connections'[src]})) = {connections'[src]}
  BY SentOutOfOnePort
<1>5. BalancerPolicy(connections)' = BalancerPolicy(connections')
  BY DEF BalancerPolicy, Route, ToController
<1> QED
  BY <1>2, <1>3, <1>4, <1>5 DEF PolicyIsCurrent

LEMMA PolicyIsCurrentStep == PolicyIsCurrent /\ [BalancerNext]_balancerVars => PolicyIsCurrent'
<1> SUFFICES ASSUME PolicyIsCurrent, [BalancerNext]_balancerVars PROVE PolicyIsCurrent'
  OBVIOUS
<1>1. ASSUME connections' = connections
      PROVE  BalancerPolicy(connections)' = BalancerPolicy(connections)
  BY <1>1 DEF BalancerPolicy, Route, ToController
<1>2. CASE BalancerConnected
  BY <1>1, <1>2 DEF BalancerConnected, PolicyIsCurrent
<1>3. ASSUME NEW src, BalancerPacketIn(src) PROVE PolicyIsCurrent'
  BY <1>3, PacketInKeepsPolicy DEF BalancerPacketIn
<1>4. CASE UNCHANGED balancerVars
  BY <1>1, <1>4 DEF balancerVars, PolicyIsCurrent
<1> QED
  BY <1>2, <1>3, <1>4 DEF BalancerNext

LEMMA CurrentPolicyDelivers == PolicyIsCurrent => OneDestination
<1> SUFFICES ASSUME PolicyIsCurrent, balancing = BalancerPolicy(connections),
                    NEW k \in Packets, k["ethtype"] = Ip, k["ipproto"] = Tcp
             PROVE  /\ k["location"] = ClientPort =>
                         Sent(balancing, k) =
                           {IF k["tcpsrcport"] \in DOMAIN connections
                            THEN connections[k["tcpsrcport"]] ELSE Controller}
                    /\ \A src \in DOMAIN connections :
                         k["location"] = connections[src] /\ k["tcpdstport"] = src =>
                           Sent(balancing, k) = {ClientPort}
  BY DEF OneDestination, PolicyIsCurrent
<1> DEFINE there(src) == k["location"] = ClientPort /\ k["tcpsrcport"] = src
           back(src) == k["location"] = connections[src] /\ k["tcpdstport"] = src
<1>1. \A l : l \in Sent(balancing, k) <=>
        \/ \E src \in DOMAIN connections :
             (there(src) /\ l = connections[src]) \/ (back(src) /\ l = ClientPort)
        \/ /\ k["location"] = ClientPort /\ k["tcpsrcport"] \notin DOMAIN connections
           /\ l = Controller
  <2>1. ASSUME NEW src \in DOMAIN connections, NEW l
        PROVE  l \in Sent(Route(connections, src), k) <=>
                 (there(src) /\ l = connections[src]) \/ (back(src) /\ l = ClientPort)
    <3>1. Sent(Route(connections, src), k) =
            (IF there(src) THEN {connections[src]} ELSE {})
              \cup (IF back(src) THEN {ClientPort} ELSE {})
      BY SentByRoute
    <3> HIDE DEF there, back
    <3> QED
      BY <3>1
  <2> HIDE DEF there, back
  <2> QED
    BY <2>1, SentByBalancer
<1>2. ASSUME k["location"] = ClientPort
      PROVE  Sent(balancing, k) =
               {IF k["tcpsrcport"] \in DOMAIN connections
                THEN connections[k["tcpsrcport"]] ELSE Controller}
  <2>1. \A src \in DOMAIN connections : ~back(src)
    BY <1>2 DEF PolicyIsCurrent
  <2>2. CASE k["tcpsrcport"] \in DOMAIN connections
    <3>1. \A src : there(src) <=> src = k["tcpsrcport"]
      BY <1>2
    <3> HIDE DEF there, back
    <3>2. \A l : l \in Sent(balancing, k) <=> l = connections[k["tcpsrcport"]]
      BY <1>1, <2>1, <2>2, <3>1
    <3>3. Sent(balancing, k) = {connections[k["tcpsrcport"]]}
      BY <3>2
    <3> QED
      BY <2>2, <3>3
  <2>3. CASE k["tcpsrcport"] \notin DOMAIN connections
    <3>1. \A src \in DOMAIN connections : ~there(src)
      BY <2>3
    <3> HIDE DEF there, back
    <3>2. \A l : l \in Sent(balancing, k) <=> l = Controller
      BY <1>1, <1>2, <2>1, <2>3, <3>1
    <3>3. Sent(balancing, k) = {Controller}
      BY <3>2
    <3> QED
      BY <2>3, <3>3
  <2> QED
    BY <2>2, <2>3
<1>3. ASSUME NEW src \in DOMAIN connections, back(src) PROVE Sent(balancing, k) = {ClientPort}
  <2>1. k["location"] # ClientPort
    BY <1>3 DEF PolicyIsCurrent
  <2> QED
    BY <1>1, <1>3, <2>1
<1> QED
  BY <1>2, <1>3

\* load_balancer.py: a packet of the client goes to its own server, or to the controller
\* if it has none yet, and the answers back, for any connections.
THEOREM ConnectionsStay == BalancerSpec => []OneDestination
<1>1. BalancerInit => PolicyIsCurrent
  BY ServersAreApart DEF BalancerInit, PolicyIsCurrent
<1> QED
  BY <1>1, PolicyIsCurrentStep, CurrentPolicyDelivers, PTL DEF BalancerSpec
====
