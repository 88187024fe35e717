---- MODULE PacketMatches ----
(* An application that builds predicates with the operators &, | and ~ of
   lang/python/frenetic/syntax.py and applies them to the packet it reads out of a
   payload: what Packet.matches says, against what the switches do with the same
   predicate. *)
EXTENDS PythonPackets

CONSTANTS
  Received,      \* the packet_ins: <<switch, port, payload>>
  FieldTests,    \* the tests it starts from: <<header, set of values>>
  AddressTests,  \* <<header, address, mask or None>>
  MaxGrowth      \* bound: operators of a predicate

ASSUME TestsAreTyped ==
  /\ \A x \in Received : FromPayload(x[1], x[2], x[3]) \in Packets
  /\ \A t \in FieldTests : t[1] \in PlainHeaders \cup TransportPorts
  /\ \A t \in AddressTests :
       /\ t[1] \in Addresses
       /\ t[2] \in 0..(pow2[Width] - 1) /\ (t[3] = None \/ t[3] \in 0..Width)

VARIABLES predicate, inspected, growth

matchVars == <<predicate, inspected, growth>>

BasePreds ==
  {Id, Drop} \cup {FieldEq(t[1], t[2]) : t \in FieldTests}
             \cup {FieldNotEq(t[1], t[2]) : t \in FieldTests}
             \cup {IP4Eq(t[1], t[2], t[3]) : t \in AddressTests}

MatchInit ==
  /\ predicate \in BasePreds /\ growth = 0
  /\ \E x \in Received : inspected = FromPayload(x[1], x[2], x[3])

Build(p) ==
  /\ growth < MaxGrowth /\ growth' = growth + 1
  /\ predicate' = p
  /\ UNCHANGED inspected

Conjoin(p) == Build(And(predicate, p)) \/ Build(And(p, predicate))
Disjoin(p) == Build(Or(predicate, p)) \/ Build(Or(p, predicate))
Invert == Build(Not(predicate))

MatchNext == Invert \/ \E p \in BasePreds : Conjoin(p) \/ Disjoin(p)

MatchSpec == MatchInit /\ [][MatchNext]_matchVars

\* Packet.matches says of a packet what the network's semantics says of the JSON of
\* the predicate, unless it raises: for a test of an address that the packet lacks.
MatchesAgrees ==
  inspected \in predicate.raises \/ (inspected \in predicate.yes <=> inspected \in predicate.meant)

====
