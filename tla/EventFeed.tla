---- MODULE EventFeed ----
(* What an application can rely on when the controller tells it of the network's
   events: the order in which they happened, and none of them twice.  It may miss
   any of them.  FreneticClient is shown to implement this. *)
EXTENDS Naturals, Sequences

CONSTANTS
  Clients,
  Events  \* numbers

VARIABLE handled  \* the events each client has been told of, by their numbers

Init == handled = [c \in Clients |-> <<>>]

Deliver(c, e) ==
  /\ \A i \in 1..Len(handled[c]) : handled[c][i] < e
  /\ handled' = [handled EXCEPT ![c] = Append(@, e)]

Next == \E c \in Clients, e \in Events : Deliver(c, e)

Spec == Init /\ [][Next]_handled

====
