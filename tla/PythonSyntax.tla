---- MODULE PythonSyntax ----
(* The Python bindings' syntax, lang/python/frenetic/syntax.py, and what the
   controller makes of its JSON (lib/Frenetic_NetKAT_Json.ml); and Packet.matches of
   lang/python/frenetic/packet.py, which applications use to apply a predicate to a
   packet themselves.

   A predicate is what its two readers make of it: the packets of which Packet.matches
   says yes, those for which it raises, and those that pass the test that the
   controller parses.  Policies are only ever sent, and those of the applications
   modify no header but the location: a policy is a set of pairs of a packet and a
   location it is sent to.  Header values are numbers, header names those of the JSON;
   an address has Width bits instead of 32. *)
EXTENDS Naturals, Sequences, Powers

CONSTANTS
  Width,
  None,    \* Python's: the value of a header that is not there, or no mask
  Packets  \* the packets of the network: header -> value, or None

\* The classes of headers, by the names that their JSON has.
PlainHeaders ==
  {"switch", "location", "ethsrc", "ethdst", "vlan", "vlanpcp", "ethtype", "ipproto"}
Addresses == {"ip4src", "ip4dst"}
TransportPorts == {"tcpsrcport", "tcpdstport"}

\* The headers that get_header_value finds in a packet.
Headers == PlainHeaders \cup Addresses \cup TransportPorts

ASSUME PacketsAreTyped ==
  /\ Width \in Nat /\ None \notin Nat
  /\ \A k \in Packets :
       /\ k = [h \in Headers |-> k[h]]
       /\ \A h \in Addresses : k[h] = None \/ k[h] \in 0..(pow2[Width] - 1)

---------------------------------------------------------------------------
(* Predicates. *)

Id == [yes |-> Packets, raises |-> {}, meant |-> Packets]
Drop == [yes |-> {}, raises |-> {}, meant |-> {}]

No(p) == Packets \ (p.yes \cup p.raises)

Not(p) == [yes |-> No(p), raises |-> p.raises, meant |-> Packets \ p.meant]

\* The second is looked at only where the first settles nothing.
And(p, q) ==
  [yes |-> p.yes \cap q.yes, raises |-> p.raises \cup (p.yes \cap q.raises),
   meant |-> p.meant \cap q.meant]
Or(p, q) ==
  [yes |-> p.yes \cup (No(p) \cap q.yes), raises |-> p.raises \cup (No(p) \cap q.raises),
   meant |-> p.meant \cup q.meant]

\* A test of a header that is not there fails.
Test(header, v) ==
  LET equal == {k \in Packets : k[header] = v}
  IN [yes |-> equal, raises |-> {}, meant |-> equal]

\* Any of the values, of which there may be none.
FieldEq(header, vs) ==
  LET tests == {Test(header, v) : v \in vs}
  IN [yes |-> UNION {t.yes : t \in tests}, raises |-> {},
      meant |-> UNION {t.meant : t \in tests}]
FieldNotEq(header, vs) == Not(FieldEq(header, vs))

\* PortEq, which raises IndexError for no port at all: vs is not empty.
PortEq(vs) == FieldEq("location", vs)

\* Mutant: the shift is by the mask.
MaskedLow(x, mask) == ((x \div pow2[mask]) % pow2[mask + 1]) * pow2[mask]

\* x & (all_ones << (32 - mask)), where all_ones has one bit more than the mask.
Masked(x, mask) == ((x \div pow2[Width - mask]) % pow2[mask + 1]) * pow2[Width - mask]

IpInNetwork(ip, net, mask) == Masked(net, mask) = Masked(ip, mask)

\* Ip.less_eq for an address of a packet.
IpLessEq(ip, net, mask) == ip \div pow2[Width - mask] = net \div pow2[Width - mask]

\* Packet.matches for an address: one without a mask has full width, in the JSON too.
MaskOf(mask) == IF mask = None THEN Width ELSE mask
AddressMatches(k, header, value, mask) == IpInNetwork(k[header], value, MaskOf(mask))

\* A test of an address of a packet without addresses raises AttributeError.
IP4Eq(header, value, mask) ==
  LET there == {k \in Packets : k[header] # None}
  IN [yes |-> {k \in there : AddressMatches(k, header, value, mask)},
      raises |-> Packets \ there,
      meant |-> {k \in there : IpLessEq(k[header], value, MaskOf(mask))}]

---------------------------------------------------------------------------
(* Policies. *)

\* The pipe to the controller: no port has this number.
Controller == 0

\* Where the policy sends a packet.
Sent(policy, k) == {x[2] : x \in {y \in policy : y[1] = k}}

Filter(p) == {<<k, k["location"]>> : k \in p.meant}
drop == Filter(Drop)
Seq2(p, q) ==
  UNION {{x[1]} \X Sent(q, [x[1] EXCEPT !["location"] = x[2]]) : x \in p}
Union(pols) == UNION pols

\* One copy per port; to_json takes the first of no actions when there is no port.
CanSetPort(ps) == ps # {}
SetPort(ps) == Packets \X ps

SendToController == Packets \X {Controller}

\* pkt_out puts one modification of the location per port for a SetPort.
PacketOut(ps) == {[header |-> "location", value |-> p] : p \in ps}

\* actions_from_policies makes an output of each location.
SentOut(actions) == {a.value : a \in {b \in actions : b.header = "location"}}

====
