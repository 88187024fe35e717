---- MODULE MCOpenFlowServer ----
(* Small instances of OpenFlowServer for TLC. *)
EXTENDS OpenFlowServer

CONSTANTS s1, s2, c1, c2, c3, k1, k2

Silent(k) == call'[k].state \in {"idle", "eof"}

\* Bounds: the third connection is opened when the first has come to an end, and no
\* call has reached a switch then; two calls reach switches only where c1 and c2 are
\* connections of one switch.
MCBound ==
  /\ conn'[c3] # "Unopened" =>
       conn'[c1] \in {"Closed", "Crashed"} /\ Silent(k1) /\ Silent(k2)
  /\ peer[c1] # peer[c2] => Silent(k2)

\* The names of the switches do not matter, and c3 has no calls to be fair to.
MCSpec ==
  /\ Init /\ peer[c1] = s1 /\ peer[c3] = s1
  /\ [][Next /\ MCBound]_vars
  /\ WF_vars(DeliverEvent) /\ Fair(c1) /\ Fair(c2)
====
