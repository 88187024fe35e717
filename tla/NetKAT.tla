---- MODULE NetKAT ----
(* NetKAT policies and their meaning: lib/Frenetic_NetKAT.ml and
   lib/Frenetic_NetKAT_Semantics.ml.

   A header value (the type header_val) is a pair of a field and a value.
   Every value a field is tested for is a prefix of an integer, or the name of a
   pipe: Const n is a prefix of full width, since compare and subset_eq treat
   two constants as two prefixes of 64 bits, and of_hv makes only constants of
   one field and only prefixes of another.

   Seven fields stand for the twenty of the source: the switch, the location (which a
   policy sets to forward a packet), a plain field, a masked field and the protocol, which
   a packet has if its EthType says so, and a port, which it has if its protocol does. *)
EXTENDS Integers, FiniteSets, Powers

CONSTANTS
  Width,     \* bits of a value
  Values,    \* the values policies name for each field
  MaxDepth   \* bound: how deep predicates and policies are nested

Fields == {"Switch", "Location", "EthSrc", "EthType", "IPProto", "IP4Dst", "TCPDstPort"}

(* An address is an Int32: the first bit is a sign. *)
Signed(n) == IF n < pow2[Width - 1] THEN n ELSE n - pow2[Width]

Mask(n, m) == [kind |-> "mask", bits |-> Signed(n), len |-> m]
Const(n) == Mask(n, Width)
Pipe(n) == [kind |-> "pipe", bits |-> n, len |-> 0]

(* The value of a header that the packet does not have. *)
Absent == [kind |-> "absent", bits |-> 0, len |-> 0]

IsSingle(v) == v.kind = "pipe" \/ v.len = Width

Tests == UNION {{f} \X Values[f] : f \in Fields}
Modifications == {hv \in Tests : IsSingle(hv[2])}

(* A packet has a single value of each header, or none. *)
AllPackets == [Fields -> {hv[2] : hv \in Modifications} \cup {Absent}]
PacketCount == Cardinality(AllPackets)
Headers == Tests \cup (Fields \X ({hv[2] : hv \in Modifications} \cup {Absent}))

ASSUME ValuesAreTyped ==
  /\ Width \in Nat \ {0} /\ MaxDepth \in Nat
  /\ \A f \in Fields : IsFiniteSet(Values[f])
  /\ \A hv \in Tests : LET v == hv[2] IN
       \/ \E n \in 0..(pow2[Width] - 1), m \in 0..Width : v = Mask(n, m)
       \/ v.kind = "pipe" /\ v = Pipe(v.bits) /\ v.bits \in Nat

(* A logical shift. *)
Prefix(v, m) == (v.bits % pow2[Width]) \div pow2[Width - m]

(* Ip.less_eq, and equality of other values: every value of a is one of b. *)
LessEq(a, b) ==
  IF a.kind = "mask" /\ b.kind = "mask"
  THEN a.len >= b.len /\ Prefix(a, b.len) = Prefix(b, b.len)
  ELSE a.kind = b.kind /\ a.bits = b.bits

Holds(hv, pkt) == LessEq(pkt[hv[1]], hv[2])

----
(* Predicates. *)
True == [op |-> "true"]
False == [op |-> "false"]
Test(f, v) == [op |-> "test", hv |-> <<f, v>>]
And(a, b) == [op |-> "and", left |-> a, right |-> b]
Or(a, b) == [op |-> "or", left |-> a, right |-> b]
Neg(a) == [op |-> "neg", arg |-> a]

AtomicPreds == [op : {"true", "false"}] \cup [op : {"test"}, hv : Tests]
PredsOver(S) ==
  AtomicPreds \cup [op : {"and", "or"}, left : S, right : S] \cup [op : {"neg"}, arg : S]
predsUpTo[n \in Nat] == IF n = 0 THEN AtomicPreds ELSE PredsOver(predsUpTo[n - 1])
Preds == predsUpTo[MaxDepth]

EvalPred(pkt, pr) ==
  LET eval[q \in Preds] ==
        CASE q.op = "true"  -> TRUE
          [] q.op = "false" -> FALSE
          [] q.op = "test"  -> Holds(q.hv, pkt)
          [] q.op = "and"   -> eval[q.left] /\ eval[q.right]
          [] q.op = "or"    -> eval[q.left] \/ eval[q.right]
          [] OTHER          -> ~eval[q.arg]
  IN eval[pr]

----
(* Policies. *)
Filter(pr) == [op |-> "filter", pred |-> pr]
Mod(f, v) == [op |-> "mod", hv |-> <<f, v>>]
Union(p, q) == [op |-> "union", left |-> p, right |-> q]
Then(p, q) == [op |-> "seq", left |-> p, right |-> q]
Star(p) == [op |-> "star", arg |-> p]

AtomicPols == [op : {"filter"}, pred : Preds] \cup [op : {"mod"}, hv : Modifications]
PolsOver(S) ==
  AtomicPols \cup [op : {"union", "seq"}, left : S, right : S] \cup [op : {"star"}, arg : S]
polsUpTo[n \in Nat] == IF n = 0 THEN AtomicPols ELSE PolsOver(polsUpTo[n - 1])
Pols == polsUpTo[MaxDepth]

(* Star: the packets that any number of rounds of f reaches from pkts. *)
Rounds(f, pkts) ==
  LET more(s) == s \cup UNION {f[k] : k \in s}
      round[n \in Nat] == IF n = 0 THEN pkts ELSE more(round[n - 1])
  IN round[CHOOSE n \in 0..PacketCount : round[n + 1] = round[n]]

(* eval: the packets that policy p makes of a packet. *)
Eval(p) ==
  LET eval[q \in Pols] ==
        CASE q.op = "filter" -> [k \in AllPackets |-> IF EvalPred(k, q.pred) THEN {k} ELSE {}]
          [] q.op = "mod" -> [k \in AllPackets |-> {[k EXCEPT ![q.hv[1]] = q.hv[2]]}]
          [] q.op = "union" -> [k \in AllPackets |-> eval[q.left][k] \cup eval[q.right][k]]
          [] q.op = "seq" -> [k \in AllPackets |-> UNION {eval[q.right][i] : i \in eval[q.left][k]}]
          [] OTHER -> [k \in AllPackets |-> Rounds(eval[q.arg], {k})]
  IN eval[p]
====
