---- MODULE PythonPackets ----
(* lang/python/frenetic/packet.py: the packet that an application reads out of the
   payload of a packet_in, and the payload that it makes of a packet to send.

   A payload is the list of the protocols that ryu finds in the frame, the outermost
   first, each a record tagged with its protocol_name.  The frames are those that ryu
   parses to the end. *)
EXTENDS PythonSyntax

CONSTANTS
  Ip, Arp, VlanType,  \* EtherTypes 0x800, 0x806 and 0x8100
  Tcp, Udp            \* protocols 6 and 17

ASSUME NumbersDiffer ==
  /\ Ip # Arp /\ Ip # VlanType /\ Arp # VlanType
  /\ None \notin {Ip, Arp, VlanType, Tcp, Udp}

\* Packet(dpid, port_id).
NewPacket(dpid, port) ==
  [h \in Headers |-> IF h = "switch" THEN dpid ELSE IF h = "location" THEN port ELSE None]

\* The headers that from_payload takes from a protocol.  Behind a VLAN tag the type is
\* that of the inner packet, and ARP has the names that OpenFlow 1.0 gives its fields.
Gives(p) ==
  CASE p.name = "ethernet" /\ p.type # VlanType ->
         [ethsrc |-> p.src, ethdst |-> p.dst, ethtype |-> p.type]
    [] p.name = "ethernet" /\ p.type = VlanType -> [ethsrc |-> p.src, ethdst |-> p.dst]
    [] p.name = "vlan" -> [vlan |-> p.vid, vlanpcp |-> p.pcp, ethtype |-> p.type]
    [] p.name = "ipv4" -> [ip4src |-> p.src, ip4dst |-> p.dst, ipproto |-> p.proto]
    [] p.name \in {"tcp", "udp"} -> [tcpsrcport |-> p.src, tcpdstport |-> p.dst]
    [] p.name = "arp" -> [ip4src |-> p.src, ip4dst |-> p.dst, ipproto |-> p.opcode]
    [] OTHER -> <<>>

\* from_payload: where several protocols give a header the last of them counts.
FromPayload(dpid, port, payload) ==
  LET givers(h) == {i \in DOMAIN payload : h \in DOMAIN Gives(payload[i])}
      last(h) == CHOOSE i \in givers(h) : \A j \in givers(h) : j <= i
  IN [h \in Headers |-> IF givers(h) = {} THEN NewPacket(dpid, port)[h]
                        ELSE Gives(payload[last(h)])[h]]

\* to_payload refuses a packet that lacks what its type needs.  One with a VLAN tag or of
\* type Ip it cannot build: the names vlan, ipv4 and ip4Dst are not defined there.
CanSerialise(k) ==
  LET has(hs) == \A h \in hs : k[h] # None
      hasSome(hs) == \E h \in hs : k[h] # None
      ip == {"ip4src", "ip4dst", "ipproto"}
      tp == {"tcpsrcport", "tcpdstport"}
      isIp == k["ethtype"] \in {Ip, Arp} \/ hasSome(ip)
      isTp == k["ipproto"] \in {Tcp, Udp} \/ hasSome(tp)
  IN /\ has({"ethsrc", "ethdst", "ethtype"}) /\ k["ethtype"] # VlanType
     /\ isIp => has(ip) /\ k["ethtype"] \in {Ip, Arp}
     /\ isIp /\ isTp => has(tp) /\ k["ipproto"] \in {Tcp, Udp}
     /\ k["vlan"] = None /\ k["ethtype"] # Ip

\* others: the headers that the caller passes and those from_payload did not know.
ToPayload(k, others) ==
  LET ethernet ==
        [name |-> "ethernet", src |-> k["ethsrc"], dst |-> k["ethdst"], type |-> k["ethtype"]]
      arp == [name |-> "arp", opcode |-> k["ipproto"], src |-> k["ip4src"], dst |-> k["ip4dst"]]
  IN <<ethernet>> \o (IF k["ethtype"] = Arp THEN <<arp>> ELSE <<>>) \o others

====
