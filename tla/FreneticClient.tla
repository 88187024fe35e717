---- MODULE FreneticClient ----
(* Applications and the HTTP front end of the controller.  An application
   (lang/python/frenetic/__init__.py) keeps one GET /<client>/event outstanding,
   handles the event of each answer and polls again; it POSTs its policy when it
   connects and when an event makes it change its mind.  The front end
   (async/Frenetic_Http_Controller.ml) keeps a pipe of events and a node of the
   dataflow graph (async/Frenetic_DynGraph.ml) per client, and hands the union of
   the nodes to the controller.  Either process may crash and be started again. *)
EXTENDS Naturals, FiniteSets, SequencesExt

CONSTANTS
  Clients,    \* client identifiers, each used by one application
  MaxEvents,  \* bound: events of the network
  Budgets     \* bounds: what may happen in a behaviour, see Budget

\* The applications that run, the events of the network, the policies each
\* application goes through, the crashes of the controller and of each application.
Budget ==
  [apps : SUBSET Clients, events : 0..MaxEvents, versions : Nat \ {0}, crashes : Nat,
   exits : Nat]

ASSUME ClientBounds ==
  /\ IsFiniteSet(Clients) /\ MaxEvents \in Nat
  /\ \A b \in Budgets : b \in Budget

VARIABLES
  up,         \* whether the controller runs
  node,       \* the policy at each client's node of the graph; Drop at first
  known,      \* the clients in the table of clients
  pipe,       \* the events written for a client that it has not fetched
  stale,      \* readers of a pipe whose application is gone; they read first
  waiting,    \* readers of a pipe whose application waits for the answer
  polPipe,    \* policies on their way to Controller.update
  installed,  \* the policy of the last Controller.update
  event,      \* the number of the network's last event
  crashes,    \* how often the controller has crashed
  budget      \* the bounds of this behaviour

VARIABLES
  loop,       \* where each application is
  sent,       \* GET /event requests on their way to the controller
  answers,    \* events on their way to the application
  failures,   \* failures (599) of GET /event on their way to the application
  updates,    \* policies on their way to the controller, in no order
  version,    \* the policy the application wants
  handled,    \* history: the events the application was told of, in order
  lost,       \* history: the events a crash of the application swallowed
  exits       \* how often each application has crashed

graph == <<node, known, polPipe, installed>>
feed == <<pipe, stale, waiting>>
polls == <<sent, answers, failures>>
wishes == <<updates, version>>
history == <<handled, lost>>
faults == <<crashes, exits, budget>>
vars == <<up, event, loop, graph, feed, polls, wishes, history, faults>>

NoPolicy == 0
Loops == {"down", "connecting", "connected", "refused", "retry", "running", "raised"}

Zero == [c \in Clients |-> 0]

Init ==
  /\ up = FALSE /\ node = [c \in Clients |-> NoPolicy] /\ known = {}
  /\ pipe = [c \in Clients |-> <<>>] /\ stale = Zero /\ waiting = Zero
  /\ polPipe = <<>> /\ installed = {} /\ event = 0 /\ crashes = 0
  /\ loop = [c \in Clients |-> "down"]
  /\ sent = Zero /\ answers = [c \in Clients |-> {}] /\ failures = Zero
  /\ updates = [c \in Clients |-> <<>>] /\ version = [c \in Clients |-> 1]
  /\ handled = [c \in Clients |-> <<>>] /\ lost = [c \in Clients |-> {}]
  /\ exits = Zero /\ budget \in Budgets

---------------------------------------------------------------------------
(* The application. *)

Start(c) ==
  /\ c \in budget.apps
  /\ loop[c] = "down"
  /\ loop' = [loop EXCEPT ![c] = "connecting"]
  /\ UNCHANGED <<up, event, graph, feed, polls, wishes, history, faults>>

\* GET /version: answered while the controller runs, 599 otherwise.
VersionReply(c) ==
  /\ loop[c] = "connecting"
  /\ loop' = [loop EXCEPT ![c] = IF up THEN "connected" ELSE "refused"]
  /\ UNCHANGED <<up, event, graph, feed, polls, wishes, history, faults>>

\* Mutant: only the first poll is made.
SendPollAtFirst(c) ==
  sent' = IF loop[c] = "connected" THEN [sent EXCEPT ![c] = @ + 1] ELSE sent

SendPoll(c) == sent' = [sent EXCEPT ![c] = @ + 1]

\* Mutant: connecting polls twice.
HandleConnectTwice(c) ==
  /\ loop[c] = "connected"
  /\ loop' = [loop EXCEPT ![c] = "running"]
  /\ sent' = [sent EXCEPT ![c] = @ + 2]
  /\ updates' = [updates EXCEPT ![c] = Append(@, version[c])]
  /\ UNCHANGED <<up, event, graph, feed, answers, failures, version, history, faults>>

\* The poll goes out before connected() sends the policy.
HandleConnect(c) ==
  /\ loop[c] = "connected"
  /\ loop' = [loop EXCEPT ![c] = "running"]
  /\ SendPoll(c)
  /\ updates' = [updates EXCEPT ![c] = Append(@, version[c])]
  /\ UNCHANGED <<up, event, graph, feed, answers, failures, version, history, faults>>

HandleConnectError(c) ==
  /\ loop[c] = "refused"
  /\ loop' = [loop EXCEPT ![c] = "retry"]
  /\ UNCHANGED <<up, event, graph, feed, polls, wishes, history, faults>>

\* The timeout of one second, or of five after a failed poll.
Retry(c) ==
  /\ loop[c] = "retry"
  /\ loop' = [loop EXCEPT ![c] = "connecting"]
  /\ UNCHANGED <<up, event, graph, feed, polls, wishes, history, faults>>

\* The callback may change the policy, and an exception of it ends the loop.
HandleEvent(c) ==
  \E e \in answers[c] :
    /\ answers' = [answers EXCEPT ![c] = @ \ {e}]
    /\ handled' = [handled EXCEPT ![c] = Append(@, e)]
    /\ \/ SendPoll(c) /\ UNCHANGED <<loop, wishes>>
       \/ /\ version[c] < budget.versions
          /\ version' = [version EXCEPT ![c] = @ + 1]
          /\ updates' = [updates EXCEPT ![c] = Append(@, version'[c])]
          /\ SendPoll(c) /\ UNCHANGED loop
       \/ /\ loop' = [loop EXCEPT ![c] = "raised"]
          /\ UNCHANGED <<sent, wishes>>
    /\ UNCHANGED <<up, event, graph, feed, failures, lost, faults>>

HandleFailure(c) ==
  /\ failures[c] > 0
  /\ failures' = [failures EXCEPT ![c] = @ - 1]
  /\ loop' = [loop EXCEPT ![c] = "retry"]
  /\ UNCHANGED <<up, event, graph, feed, sent, answers, wishes, history, faults>>

\* get_client: a client is created by whichever request of it comes first.
GetClient(c) == known' = known \cup {c}

\* The environment: an application crashes and the connections of the process close.
\* Its reader stays in Pipe.read, an answer on its way is lost, and so may be the
\* policies it was sending.  A poll on its way is lost or is late: then it comes to
\* the front end as any other, and nobody waits for its answer.
AppCrash(c) ==
  /\ loop[c] # "down" /\ exits[c] < budget.exits
  /\ exits' = [exits EXCEPT ![c] = @ + 1]
  /\ loop' = [loop EXCEPT ![c] = "down"]
  /\ version' = [version EXCEPT ![c] = 1]
  /\ sent' = [sent EXCEPT ![c] = 0]
  /\ failures' = [failures EXCEPT ![c] = 0]
  /\ answers' = [answers EXCEPT ![c] = {}]
  /\ lost' = [lost EXCEPT ![c] = @ \cup answers[c]]
  /\ waiting' = [waiting EXCEPT ![c] = 0]
  /\ \E late \in 0..sent[c] :
       /\ stale' = [stale EXCEPT ![c] = @ + waiting[c] + late]
       /\ \/ late = 0 /\ UNCHANGED known
          \/ late > 0 /\ up /\ GetClient(c)
  /\ \E arriving \in {updates[c], <<>>} : updates' = [updates EXCEPT ![c] = arriving]
  /\ UNCHANGED <<up, event, node, polPipe, installed, pipe, handled, crashes, budget>>

---------------------------------------------------------------------------
(* The front end. *)

PollArrives(c) ==
  /\ up /\ sent[c] > 0
  /\ sent' = [sent EXCEPT ![c] = @ - 1]
  /\ GetClient(c)
  /\ waiting' = [waiting EXCEPT ![c] = @ + 1]
  /\ UNCHANGED <<up, event, loop, node, polPipe, installed, pipe, stale, answers, failures,
                 wishes, history, faults>>

PollFails(c) ==
  /\ ~up /\ sent[c] > 0
  /\ sent' = [sent EXCEPT ![c] = @ - 1]
  /\ failures' = [failures EXCEPT ![c] = @ + 1]
  /\ UNCHANGED <<up, event, loop, graph, feed, answers, wishes, history, faults>>

\* Mutant: the event stays in the pipe.
Unread(events) == events

AfterRead(events) == Tail(events)

\* Pipe.read answers the readers in the order in which they came: those of a dead
\* process first, whose event goes into a closed connection.
Serve(c) ==
  /\ pipe[c] # <<>>
  /\ pipe' = [pipe EXCEPT ![c] = AfterRead(@)]
  /\ \/ /\ stale[c] > 0
        /\ stale' = [stale EXCEPT ![c] = @ - 1]
        /\ lost' = [lost EXCEPT ![c] = @ \cup {Head(pipe[c])}]
        /\ UNCHANGED <<waiting, answers>>
     \/ /\ stale[c] = 0 /\ waiting[c] > 0
        /\ waiting' = [waiting EXCEPT ![c] = @ - 1]
        /\ answers' = [answers EXCEPT ![c] = @ \cup {Head(pipe[c])}]
        /\ UNCHANGED <<stale, lost>>
  /\ UNCHANGED <<up, event, loop, graph, sent, failures, wishes, handled, faults>>

\* propogate_events: the clients of this moment get the event.
NetworkEvent ==
  /\ up /\ event < budget.events
  /\ event' = event + 1
  /\ pipe' = [c \in Clients |-> IF c \in known THEN Append(pipe[c], event + 1) ELSE pipe[c]]
  /\ UNCHANGED <<up, loop, graph, stale, waiting, polls, wishes, history, faults>>

\* Mutant: one node replaces the others.
UnionsOfOne(nodes, ks) ==
  LET speakers == {k \in ks : nodes[k] # NoPolicy}
  IN {<<c, nodes[c]>> : c \in {k \in speakers : k = CHOOSE l \in speakers : TRUE}}

\* unions: the join of what the nodes say now.
Unions(nodes, ks) == {<<c, nodes[c]>> : c \in {k \in ks : nodes[k] # NoPolicy}}

\* push: the node takes the policy and the join of all nodes goes down the pipe.
UpdateArrives(c) ==
  /\ up
  /\ \E i \in 1..Len(updates[c]) :
       /\ updates' = [updates EXCEPT ![c] = RemoveAt(@, i)]
       /\ node' = [node EXCEPT ![c] = updates[c][i]]
       /\ GetClient(c)
       /\ polPipe' = Append(polPipe, Unions(node', known'))
  /\ UNCHANGED <<up, event, loop, installed, feed, polls, version, history, faults>>

UpdateFails(c) ==
  /\ ~up /\ updates[c] # <<>>
  /\ updates' = [updates EXCEPT ![c] = Tail(@)]
  /\ UNCHANGED <<up, event, loop, graph, feed, polls, version, history, faults>>

Install ==
  /\ polPipe # <<>>
  /\ installed' = Head(polPipe)
  /\ polPipe' = Tail(polPipe)
  /\ UNCHANGED <<up, event, loop, node, known, feed, polls, wishes, history, faults>>

\* The environment: all state of the front end is in memory; the waiting polls fail with 599.
ControllerCrash ==
  /\ up /\ crashes < budget.crashes
  /\ crashes' = crashes + 1
  /\ up' = FALSE
  /\ node' = [c \in Clients |-> NoPolicy] /\ known' = {}
  /\ polPipe' = <<>> /\ installed' = {}
  /\ pipe' = [c \in Clients |-> <<>>] /\ stale' = Zero /\ waiting' = Zero
  /\ failures' = [c \in Clients |-> failures[c] + waiting[c]]
  /\ UNCHANGED <<event, loop, sent, answers, wishes, history, exits, budget>>

ControllerStart ==
  /\ ~up
  /\ up' = TRUE
  /\ UNCHANGED <<event, loop, graph, feed, polls, wishes, history, faults>>

---------------------------------------------------------------------------

AppNext(c) ==
  \/ Start(c) \/ VersionReply(c) \/ HandleConnect(c) \/ HandleConnectError(c) \/ Retry(c)
  \/ HandleEvent(c) \/ HandleFailure(c) \/ AppCrash(c)

FrontNext(c) ==
  \/ PollArrives(c) \/ PollFails(c) \/ Serve(c) \/ UpdateArrives(c) \/ UpdateFails(c)

Next ==
  \/ \E c \in Clients : AppNext(c) \/ FrontNext(c)
  \/ NetworkEvent \/ Install \/ ControllerCrash \/ ControllerStart

Spec == Init /\ [][Next]_vars

(* What of an application one fairness condition is enough for: no two of these
   steps are ready at once, and one that is ready stays so until its loop, or the
   controller, has stopped. *)
Connecting(c) == VersionReply(c) \/ HandleConnect(c) \/ HandleConnectError(c) \/ Retry(c)
Polling(c) == PollArrives(c) \/ PollFails(c) \/ HandleEvent(c) \/ HandleFailure(c)
Updating(c) == UpdateArrives(c) \/ UpdateFails(c)

(* Both event loops run what is ready and TCP delivers or fails.  Nobody need
   start a process, and nothing need happen in the network. *)
ClientFairness ==
  /\ \A c \in Clients :
       WF_vars(Connecting(c)) /\ WF_vars(Polling(c)) /\ WF_vars(Serve(c))
         /\ WF_vars(Updating(c))
  /\ WF_vars(Install)

FairSpec == Spec /\ ClientFairness

---------------------------------------------------------------------------
(* Properties. *)

\* A running application has exactly one poll in one of the places a poll can be,
\* and any other has none: __poll_event is never called twice for one answer.
OnePoll ==
  \A c \in Clients :
    sent[c] + waiting[c] + failures[c] + Cardinality(answers[c])
      = IF loop[c] = "running" THEN 1 ELSE 0

\* A crash of an application costs it at most one event: the one on its way, or the
\* one that the reader it left in Pipe.read swallows.
OneLostPerExit == \A c \in Clients : Cardinality(lost[c]) <= exits[c]

\* __handle_event tells the application of the network's events in their order, and
\* of none twice, whatever crashes.
Feed == INSTANCE EventFeed WITH Events <- 1..MaxEvents
ImplementsFeed == Feed!Spec

\* An event in the pipe of a running application reaches it, unless one of the two
\* processes stops first or a reader of an earlier process takes it.
EventsAreHandled ==
  \A c \in Clients : \A e \in 1..MaxEvents :
    (loop[c] = "running" /\ e \in {pipe[c][i] : i \in 1..Len(pipe[c])}) ~>
      (\/ e \in {handled[c][i] : i \in 1..Len(handled[c])} \cup lost[c]
       \/ ~up \/ loop[c] \in {"raised", "down"})

\* An application that lost the controller has a policy in the network again, joined
\* with those of the others, once the controller is back and stays.
PolicyReturns ==
  \A c \in Clients :
    (up /\ loop[c] = "retry") ~>
      ((\E v \in 1..version[c] : <<c, v>> \in installed) \/ ~up \/ loop[c] = "down")

====
