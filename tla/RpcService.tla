---- MODULE RpcService ----
(* What the plug-in promises its callers: a call to send, send_batch,
   switch_features or get_switches is carried out by the OpenFlow process once,
   atomically, at some moment between the call and its return, and returns the
   answer to that very request.  Calls of different tasks are carried out in
   any order.  When the OpenFlow process is gone a call may end in an
   exception, or never end. *)
EXTENDS RpcProtocol

CONSTANTS Tasks,   \* asynchronous computations of the controller process
          NoRequest, NoReply

VARIABLES switches,  \* identifiers in the OpenFlow process's table of switches
          wire,      \* messages written to each switch and not yet received
          running,   \* the OpenFlow process has not died
          phase,     \* "idle", "invoked" or "answered"
          req,       \* the request of the current call
          reply      \* the answer to the current or last call, once it is carried out

vars == <<switches, wire, running, phase, req, reply>>

Init ==
  /\ switches = {}
  /\ wire = [s \in SwitchIds |-> <<>>]
  /\ running = TRUE
  /\ phase = [t \in Tasks |-> "idle"]
  /\ req = [t \in Tasks |-> NoRequest]
  /\ reply = [t \in Tasks |-> NoReply]

Invoke(t, r) ==
  /\ phase[t] = "idle"
  /\ phase' = [phase EXCEPT ![t] = "invoked"]
  /\ req' = [req EXCEPT ![t] = r]
  /\ reply' = [reply EXCEPT ![t] = NoReply]
  /\ UNCHANGED <<switches, wire, running>>

Execute(t) ==
  /\ running
  /\ phase[t] = "invoked"
  /\ phase' = [phase EXCEPT ![t] = "answered"]
  /\ reply' = [reply EXCEPT ![t] = ReplyTo(req[t], switches)]
  /\ wire' = WireAfter(req[t], switches, wire)
  /\ UNCHANGED <<switches, running, req>>

Return(t) ==
  /\ phase[t] = "answered"
  /\ phase' = [phase EXCEPT ![t] = "idle"]
  /\ req' = [req EXCEPT ![t] = NoRequest]
  /\ UNCHANGED <<switches, wire, running, reply>>

Raise(t) ==
  /\ ~running
  /\ phase[t] = "invoked"
  /\ phase' = [phase EXCEPT ![t] = "idle"]
  /\ req' = [req EXCEPT ![t] = NoRequest]
  /\ UNCHANGED <<switches, wire, running, reply>>

SwitchConnects(s) ==
  /\ running
  /\ s \notin switches
  /\ switches' = switches \cup {s}
  /\ UNCHANGED <<wire, running, phase, req, reply>>

SwitchDisconnects(s) ==
  /\ s \in switches
  /\ switches' = switches \ {s}
  /\ wire' = [wire EXCEPT ![s] = <<>>]
  /\ UNCHANGED <<running, phase, req, reply>>

SwitchReceives(s) ==
  /\ wire[s] # <<>>
  /\ wire' = [wire EXCEPT ![s] = Tail(@)]
  /\ UNCHANGED <<switches, running, phase, req, reply>>

Die ==
  /\ running
  /\ running' = FALSE
  /\ switches' = {}
  /\ wire' = [s \in SwitchIds |-> <<>>]
  /\ UNCHANGED <<phase, req, reply>>

Next ==
  \/ \E t \in Tasks :
       \/ \E r \in Requests : Invoke(t, r)
       \/ Execute(t)
       \/ Return(t)
       \/ Raise(t)
  \/ \E s \in SwitchIds :
       SwitchConnects(s) \/ SwitchDisconnects(s) \/ SwitchReceives(s)
  \/ Die

Spec == Init /\ [][Next]_vars
====
