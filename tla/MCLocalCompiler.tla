---- MODULE MCLocalCompiler ----
(* Small policies of the shapes that are hard to compile: predicates on masked
   fields and on fields that later modifications set, unions that forward
   differently modified copies, iteration, pipes, and tests of several switches. *)
EXTENDS FlowTables

MCSwitches == {Const(1), Const(2)}
MCIp == Const(1)
MCArp == Const(2)
MCTcp == Const(1)
MCUdp == Const(3)

Ports == {Const(1), Const(2)}
Addresses == {Const(1), Const(2)}

(* With two bits, 2 and 3 are -2 and -1 as signed numbers. *)
MCValues ==
  [f \in Fields |->
     {[kind |-> "mask", bits |-> n, len |-> 2] :
        n \in CASE f = "IPProto" -> {1, -1} [] f = "TCPDstPort" -> {1} [] OTHER -> {1, -2}}
     \cup IF f = "Location" THEN {[kind |-> "pipe", bits |-> 0, len |-> 0]}
          ELSE IF f = "IP4Dst"
          THEN {[kind |-> "mask", bits |-> n, len |-> 1] : n \in {0, -2}} ELSE {}]

Packet(sw, loc, src, typ, dst, proto, tp) ==
  [f \in Fields |-> CASE f = "Switch" -> sw [] f = "Location" -> loc
                      [] f = "EthSrc" -> src [] f = "EthType" -> typ
                      [] f = "IP4Dst" -> dst [] f = "IPProto" -> proto
                      [] f = "TCPDstPort" -> tp]

(* TCP packets to either address, a UDP packet to another port, an ARP packet and one of
   another type, at every place and with every source. *)
MCPackets ==
  {Packet(sw, loc, src, x[1], x[2], x[3], x[4]) :
     sw \in MCSwitches, loc \in Ports \cup {Pipe(0)}, src \in Addresses,
     x \in {<<MCIp, Const(1), MCTcp, Const(1)>>, <<MCIp, Const(2), MCTcp, Const(1)>>,
            <<MCIp, Const(2), MCUdp, Const(2)>>, <<MCArp, Const(2), Absent, Absent>>,
            <<Const(3), Absent, Absent, Absent>>}}

RankedAs(fields) == [f \in Fields |-> CHOOSE i \in DOMAIN fields : fields[i] = f]

(* Field.all is in the order of the constructors of Field.t. *)
MCDefaultOrder ==
  RankedAs(<<"Switch", "Location", "EthType", "IPProto", "EthSrc", "IP4Dst", "TCPDstPort">>)
MCOrders ==
  {MCDefaultOrder,
   RankedAs(<<"Switch", "EthType", "IP4Dst", "EthSrc", "TCPDstPort", "IPProto", "Location">>),
   RankedAs(<<"IP4Dst", "TCPDstPort", "IPProto", "EthType", "EthSrc", "Location", "Switch">>),
   RankedAs(<<"IPProto", "EthType", "Location", "Switch", "TCPDstPort", "IP4Dst", "EthSrc">>)}

If(f, v) == Filter(Test(f, v))
Unless(f, v) == Filter(Neg(Test(f, v)))
Fwd(n) == Mod("Location", Const(n))
SetSrc(n) == Mod("EthSrc", Const(n))
IsIp == If("EthType", MCIp)
SetDst(n) == Then(If("IPProto", MCTcp), Mod("IP4Dst", Const(n)))
ToController == Mod("Location", Pipe(0))

MCParts == {
  If("EthSrc", Const(1)),
  Then(If("IP4Dst", Mask(2, 1)), Fwd(2)),
  Then(SetSrc(2), Fwd(1)),
  Then(Unless("Location", Const(1)), ToController)}

MCPolicies == {
  Filter(True),
  Union(Then(If("IP4Dst", Const(1)), Fwd(1)), Then(If("IP4Dst", Mask(0, 1)), Fwd(2))),
  Union(Then(If("EthSrc", Const(1)), Then(IsIp, Fwd(1))),
        Then(If("IP4Dst", Const(2)), Fwd(2))),
  Union(Then(SetSrc(2), Fwd(2)), Fwd(1)),
  Union(Then(SetSrc(2), Fwd(2)), Then(SetSrc(1), Fwd(1))),
  Union(SetSrc(1), Filter(Or(Test("Location", Const(2)), Test("EthType", MCArp)))),
  Union(SetDst(1), Then(SetDst(2), Fwd(2))),
  Then(SetDst(1), Then(If("IP4Dst", Const(1)), Union(Fwd(1), ToController))),
  Union(Then(If("Switch", Const(1)), Fwd(1)),
        Then(If("Switch", Const(2)), Then(Unless("EthSrc", Const(2)), Fwd(2)))),
  Star(Union(Then(If("Location", Const(1)), Fwd(2)),
             Then(If("EthSrc", Const(1)), Then(SetSrc(2), Fwd(1))))),
  Filter(Or(And(Test("EthSrc", Const(1)), Test("Location", Const(1))),
            And(Test("EthSrc", Const(2)), Test("Location", Const(2))))),
  Union(Then(If("Switch", Const(2)), Fwd(1)), Then(If("IP4Dst", Mask(2, 1)), SetSrc(1))),
  Union(Then(If("TCPDstPort", Const(1)), Fwd(1)), Then(If("IPProto", MCUdp), Fwd(2))),
  Then(Filter(Or(Neg(Test("IPProto", MCTcp)), Test("IP4Dst", Const(2)))),
       Then(Unless("TCPDstPort", Const(1)), Fwd(1)))}

(* One address is also sent where every other one is. *)
MCDefaultRoute == {
  Union(Then(If("IP4Dst", Const(2)), Fwd(1)), Then(If("IP4Dst", Mask(0, 0)), Fwd(2)))}
MCValuesOfRoute == [MCValues EXCEPT !["IP4Dst"] = @ \cup {Mask(0, 0)}]
====
