---- MODULE Firewall ----
(* The stateful firewall, lang/python/frenetic/examples/firewall.py.  A connection
   from a trusted host is pending until the other side answers (at once allowed in
   version 1), then allowed; version 3 asks every few seconds how much each allowed
   connection has been used and takes out those that were not, one query at a time
   while packets come in.

   An Allowed object is known by its query label; conn says which connection it is,
   which is all that __eq__ compares.  Every policy that is sent is the connections
   and labels of the allowed list it was computed from. *)
EXTENDS Naturals, Sequences, FiniteSets

CONSTANTS
  Conns,      \* connections between a trusted and an untrusted host
  Versions,   \* the versions of the program that are considered
  Chains,     \* bound: runs of the cleaning that overlap
  MaxLabel,   \* bound: query labels
  MaxBytes    \* bound: what a query answers

ASSUME FirewallBounds == MaxLabel \in Nat /\ MaxBytes \in Nat

VARIABLES
  fwVersion,  \* state.version
  allowed,    \* state.allowed, a sequence of labels
  pending,    \* state.pending: connections
  expired,    \* those of them that are older than clean_delay
  lbl,        \* the number of labels taken
  conn,       \* the connection of each Allowed object, by its label
  last_count, \* and the answer to its last query
  chains,     \* the cleaning runs
  installing, \* the connections and labels of the last self.update
  aborted     \* history: whether an exception ended a cleaning run

tables == <<allowed, conn, installing>>
waitingList == <<pending, expired>>
cleaning == <<last_count, chains, aborted>>
firewallVars == <<fwVersion, lbl, tables, waitingList, cleaning>>

Labels == 1..MaxLabel
Idle == [phase |-> "idle", todo |-> <<>>, asked |-> 0, clean |-> FALSE]

\* global_policy of a list of allowed connections.
Granted(q, conns) == {<<conns[q[i]], q[i]>> : i \in DOMAIN q}
GlobalPolicy == Granted(allowed, conn)

AllowedConns == {conn[allowed[i]] : i \in DOMAIN allowed}

\* The connection of a label that no object has: it says nothing.
AnyConn == CHOOSE c \in Conns : TRUE

FirewallInit ==
  /\ fwVersion \in Versions
  /\ allowed = <<>> /\ pending = {} /\ expired = {} /\ lbl = 0
  /\ conn = [l \in Labels |-> AnyConn]
  /\ last_count = [l \in Labels |-> 0]
  /\ chains = [k \in Chains |-> Idle]
  /\ installing = {} /\ aborted = FALSE

---------------------------------------------------------------------------
(* Packets.  The labels are taken by next_query_label whether or not the object
   that gets them is kept. *)

Take(n) == lbl + n <= MaxLabel /\ lbl' = lbl + n

\* allow: the new object at the end of the list.
Allow(c, l) ==
  /\ conn' = [conn EXCEPT ![l] = c]
  /\ allowed' = Append(allowed, l)

\* Version 1: every packet_in of the connection appends, with the policy still on its
\* way a second one too.
AllowAtOnce(c) ==
  /\ fwVersion = 1 /\ Take(1)
  /\ Allow(c, lbl + 1)
  /\ installing' = Granted(allowed', conn')
  /\ UNCHANGED <<fwVersion, waitingList, cleaning>>

\* Mutant: without a look at the list of the allowed.
AddPendingAnyway(c) ==
  /\ fwVersion # 1 /\ Take(1)
  /\ pending' = pending \cup {c}
  /\ UNCHANGED <<fwVersion, expired, tables, cleaning>>

\* add_pending keeps the entry of an equal one, and its age.
AddPending(c) ==
  /\ fwVersion # 1 /\ Take(1)
  /\ pending' = IF c \in AllowedConns THEN pending ELSE pending \cup {c}
  /\ UNCHANGED <<fwVersion, expired, tables, cleaning>>

\* Mutant: the policy is left for the next cleaning.
AnsweredQuietly(c) ==
  /\ fwVersion # 1 /\ Take(2)
  /\ c \in pending
  /\ pending' = pending \ {c} /\ expired' = expired \ {c}
  /\ Allow(c, lbl + 2)
  /\ UNCHANGED <<fwVersion, installing, cleaning>>

\* The answer from outside: the packet takes two labels, the second is kept.
Answered(c) ==
  /\ fwVersion # 1 /\ Take(2)
  /\ c \in pending
  /\ pending' = pending \ {c} /\ expired' = expired \ {c}
  /\ Allow(c, lbl + 2)
  /\ installing' = Granted(allowed', conn')
  /\ UNCHANGED <<fwVersion, cleaning>>

\* A packet that nobody waits for is dropped.
Unanswered(c) ==
  /\ fwVersion # 1 /\ Take(2)
  /\ c \notin pending
  /\ UNCHANGED <<fwVersion, tables, waitingList, cleaning>>

---------------------------------------------------------------------------
(* Version 3: cleaning. *)

\* time.time() passes time_created + clean_delay.
Expire(c) ==
  /\ fwVersion = 3 /\ c \in pending \ expired
  /\ expired' = expired \cup {c}
  /\ UNCHANGED <<fwVersion, lbl, tables, pending, cleaning>>

\* clean_next: the last object of the list is queried.
Asking(todo, clean) ==
  [phase |-> "asking", todo |-> SubSeq(todo, 1, Len(todo) - 1),
   asked |-> todo[Len(todo)], clean |-> clean]

\* run_clean starts a run, whether or not the one before has ended, and drops the
\* pending connections that are too old.
RunClean(k) ==
  /\ fwVersion = 3
  /\ chains[k] = Idle
  /\ chains' = IF allowed = <<>> THEN chains ELSE [chains EXCEPT ![k] = Asking(allowed, FALSE)]
  /\ pending' = pending \ expired /\ expired' = {}
  /\ UNCHANGED <<fwVersion, lbl, tables, last_count, aborted>>

\* list.remove: the first that equals the object.
Without1(q, l) ==
  LET at == CHOOSE i \in DOMAIN q : conn[q[i]] = conn[l] /\
                     \A j \in DOMAIN q : j < i => conn[q[j]] # conn[l]
  IN [i \in 1..(Len(q) - 1) |-> IF i < at THEN q[i] ELSE q[i + 1]]

Abort(k) ==
  /\ chains' = [chains EXCEPT ![k] = Idle] /\ aborted' = TRUE
  /\ UNCHANGED <<allowed, last_count>>

\* clean_callback with an answer of n bytes.  The controller counts for the policy
\* that is installed now, so that n may be less than the last time: the assertion
\* fails.  So does list.remove when another run has removed the connection.
CleanCallback(k, n) ==
  LET l == chains[k].asked
      next == [chains[k] EXCEPT !.phase = "next", !.clean = @ \/ n = last_count[l]]
  IN /\ chains[k].phase = "asking"
     /\ \/ last_count[l] > n /\ Abort(k)
        \/ last_count[l] = n /\ conn[l] \notin AllowedConns /\ Abort(k)
        \/ /\ last_count[l] = n /\ conn[l] \in AllowedConns
           /\ allowed' = Without1(allowed, l)
           /\ chains' = [chains EXCEPT ![k] = next]
           /\ UNCHANGED <<last_count, aborted>>
        \/ /\ last_count[l] < n
           /\ last_count' = [last_count EXCEPT ![l] = n]
           /\ chains' = [chains EXCEPT ![k] = next]
           /\ UNCHANGED <<allowed, aborted>>
     /\ UNCHANGED <<fwVersion, lbl, conn, installing, waitingList>>

\* clean_next_callback, in a later turn of the event loop.
CleanNextCallback(k) ==
  /\ chains[k].phase = "next"
  /\ IF chains[k].todo # <<>>
       THEN /\ chains' = [chains EXCEPT ![k] = Asking(chains[k].todo, chains[k].clean)]
            /\ UNCHANGED installing
       ELSE /\ chains' = [chains EXCEPT ![k] = Idle]
            /\ installing' = IF chains[k].clean THEN GlobalPolicy ELSE installing
  /\ UNCHANGED <<fwVersion, lbl, allowed, conn, waitingList, last_count, aborted>>

\* connected(): again after each crash of the controller.
FirewallConnected ==
  /\ installing' = GlobalPolicy
  /\ UNCHANGED <<fwVersion, lbl, allowed, conn, waitingList, cleaning>>

FirewallNext ==
  \/ FirewallConnected
  \/ \E c \in Conns :
       AllowAtOnce(c) \/ AddPending(c) \/ Answered(c) \/ Unanswered(c) \/ Expire(c)
  \/ \E k \in Chains :
       RunClean(k) \/ CleanNextCallback(k) \/ \E n \in 0..MaxBytes : CleanCallback(k, n)

FirewallSpec == FirewallInit /\ [][FirewallNext]_firewallVars

---------------------------------------------------------------------------
(* Properties. *)

\* Once a connection has to be answered before it is allowed, it is never both
\* pending and allowed, nor allowed twice, whatever packets cross and whatever
\* cleaning runs overlap.
AllowedOnce ==
  fwVersion # 1 =>
    /\ pending \cap AllowedConns = {}
    /\ \A i, j \in DOMAIN allowed : i # j => conn[allowed[i]] # conn[allowed[j]]

\* The policy that was sent last lets every allowed connection through; what it lets
\* through beyond them, a cleaning run under way is about to close, unless an
\* exception has ended one.
SentIsAllowed ==
  /\ GlobalPolicy \subseteq installing
  /\ \/ aborted
     \/ installing \subseteq GlobalPolicy
     \/ \E k \in Chains : chains[k].phase # "idle" /\ chains[k].clean

====
