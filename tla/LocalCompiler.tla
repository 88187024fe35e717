---- MODULE LocalCompiler ----
(* The local compiler of NetKAT, lib/Frenetic_NetKAT_Compiler.ml: from a policy
   to a diagram.  FlowTables has the rest, from a diagram to the flow table of
   each switch.

   The state is what async/Frenetic_NetKAT_Controller.ml keeps of the compiler:
   the global order of fields and the diagram of the current policy.  A client
   compiles a new policy, or builds on the diagram with the operations that
   Frenetic_NetKAT_Compiler.mli exports. *)
EXTENDS Fdd

CONSTANTS
  Packets,        \* the packets policies are evaluated on
  Policies,       \* the policies clients push
  Parts,          \* the policies clients add to a diagram
  Orders,         \* the orders of fields the heuristic may choose
  DefaultOrder,   \* Field.all
  MaxOps          \* bound: the operations of a behaviour

(* An order gives each field a rank of its own.  No policy makes a packet that is
   not among the packets. *)
IsOrder(o) ==
  o \in [Fields -> Nat] /\ \A f, g \in Fields : o[f] = o[g] => f = g

ASSUME ConstantsAreTyped ==
  /\ \A o \in Orders \cup {DefaultOrder} : IsOrder(o)
  /\ Packets \subseteq AllPackets
  /\ \A p \in Policies \cup Parts :
       p \in Pols /\ \A pkt \in Packets : Eval(p)[pkt] \subseteq Packets

VARIABLES
  order,     \* the global order of fields
  diagram,   \* the diagram of the current policy
  means,     \* what that policy makes of each packet
  ops        \* operations so far

vars == <<order, diagram, means, ops>>

----
(* From policies to diagrams. *)
Negation == [par \in Actions |-> Negate(par)]

OfPred(o, pr) ==
  LET of[q \in Preds] ==
        CASE q.op = "true"  -> Id
          [] q.op = "false" -> Drop
          [] q.op = "test"  -> Atom(q.hv, One, Zero)
          [] q.op = "and"   -> Prod(o, of[q.left], of[q.right])
          [] q.op = "or"    -> Sum(o, of[q.left], of[q.right])
          [] OTHER          -> MapR(Negation, of[q.arg])
  IN of[pr]

(* Mutant of Follow: u tests the packet that came in. *)
FollowUnmodified(o, par, u) == Prod(o, MkLeaf(par), u)

(* What a leaf of t is followed by: for each of its sets of modifications, the
   part of u for packets just modified so. *)
follow[x \in Ranks \X Actions \X Diagrams] ==
  LET o == x[1]
      s == CHOOSE s \in x[2] : TRUE
  IN IF x[2] = {} THEN Drop
     ELSE Sum(o, Prod(o, MkLeaf({s}), RestrictTo(o, s, x[3])), follow[<<o, x[2] \ {s}, x[3]>>])

Follow(o, par, u) == follow[<<o, par, u>>]

SeqComp(o, t, u) ==
  IF IsLeaf(u) THEN Prod(o, t, u)
  ELSE MapCond(o, [par \in Actions |-> Follow(o, par, u)], t)

(* star': as many rounds as change the diagram, and no more than there are packets.
   Each adds the next power of t. *)
AddPower(o, r, power1) ==
  LET sum1 == Sum(o, r.sum, power1)
  IN [sum |-> sum1, power |-> power1, done |-> sum1 = r.sum]

StarComp(o, t) ==
  LET loop[n \in Nat] ==
        IF n = 0 THEN [sum |-> Id, power |-> Id, done |-> FALSE]
        ELSE LET r == loop[n - 1]
             IN IF r.done THEN r ELSE AddPower(o, r, SeqComp(o, r.power, t))
  IN loop[CHOOSE n \in 0..PacketCount : loop[n].done \/ n = PacketCount].sum

ofPol[x \in Ranks \X Pols] ==
  LET o == x[1]
      p == x[2]
      t == ofPol[<<o, p.left>>]
  IN CASE p.op = "filter" -> OfPred(o, p.pred)
       [] p.op = "mod"    -> MkLeaf({{p.hv}})
       [] p.op = "union"  -> Sum(o, t, ofPol[<<o, p.right>>])
       [] p.op = "seq"    -> IF t = Drop THEN Drop ELSE SeqComp(o, t, ofPol[<<o, p.right>>])
       [] OTHER           -> StarComp(o, ofPol[<<o, p.arg>>])

OfLocalPol(o, p) == ofPol[<<o, p>>]

----
(* Mutant: a field is harmful if no set of modifications leaves it alone. *)
HarmfulEverywhere(par) ==
  {hv \in UNION par : \A s \in par : hv[1] \in FieldsOf(s)}

(* dedup: a packet that already has a value which only some of the sets of
   modifications set gets an action of its own, in which none sets it. *)
Harmful(par) ==
  {hv \in UNION par : \E s \in par : hv[1] \notin FieldsOf(s)}

DedupLeaf(o, par) ==
  LET fold[S \in SUBSET Harmful(par)] ==
        IF S = {} THEN MkLeaf(par)
        ELSE LET hv == CHOOSE hv \in S : TRUE
                 u == fold[S \ {hv}]
             IN Cond(o, hv, MapR([r \in Actions |-> Demod(hv, r)], u), u)
  IN fold[Harmful(par)]

Dedup(o, u) == MapCond(o, [par \in Actions |-> DedupLeaf(o, par)], u)

----
(* What a set of modifications makes of a packet. *)
Modify(mods, pkt) ==
  [f \in Fields |-> IF \E hv \in mods : hv[1] = f
                    THEN (CHOOSE hv \in mods : hv[1] = f)[2] ELSE pkt[f]]

Init ==
  /\ order = DefaultOrder
  /\ diagram = OfPred(DefaultOrder, False)
  /\ means = [pkt \in Packets |-> {}]
  /\ ops = 0

(* What clients may still push, or build on the diagram with. *)
Pushed == {p \in Policies : ops < MaxOps}
Added == {p \in Parts : ops < MaxOps}

(* compile_local: choose an order of fields, then translate.  The heuristic scores
   the fields a policy tests: any order may come out.  The tables of hash-consing
   are cleared, so no diagram of another order survives. *)
CompileLocal(p) ==
  /\ ops' = ops + 1
  /\ order' \in Orders
  /\ diagram' = OfLocalPol(order', p)
  /\ means' = LET g == Eval(p) IN [pkt \in Packets |-> g[pkt]]

(* union and seq, with a part compiled under the same order (the cache is kept
   and the order is static), and star. *)
UnionWith(p) ==
  /\ ops' = ops + 1
  /\ diagram' = Sum(order, diagram, OfLocalPol(order, p))
  /\ means' = LET g == Eval(p) IN [pkt \in Packets |-> means[pkt] \cup g[pkt]]
  /\ UNCHANGED order

SeqWith(p) ==
  /\ ops' = ops + 1
  /\ diagram' = SeqComp(order, diagram, OfLocalPol(order, p))
  /\ means' = LET g == Eval(p)
              IN [pkt \in Packets |-> UNION {g[k] : k \in means[pkt]}]
  /\ UNCHANGED order

StarOf ==
  /\ ops < MaxOps
  /\ ops' = ops + 1
  /\ diagram' = StarComp(order, diagram)
  /\ means' = [pkt \in Packets |-> Rounds(means, {pkt})]
  /\ UNCHANGED order

Next ==
  \/ \E p \in Pushed : CompileLocal(p)
  \/ \E p \in Added : UnionWith(p)
  \/ \E p \in Added : SeqWith(p)
  \/ StarOf

Spec == Init /\ [][Next]_vars

----
(* The diagram means what the policy means, whatever operations it was built
   with: interpreting it on a packet gives the packets the reference semantics
   gives (lib/Frenetic_NetKAT_Compiler.mli:125: eval is the packet being run
   through the policy the diagram represents). *)
DiagramMeansPolicy ==
  \A pkt \in Packets :
    LET u == EvalToAction(order, pkt, diagram)
    IN IsLeaf(u) /\ {Modify(s, pkt) : s \in u.leaf} = means[pkt]

Ordered(o, u) ==
  LET ordered[v \in Diagrams] ==
        IsLeaf(v) \/
        /\ ordered[v.tru] /\ ordered[v.fls]
        /\ v.tru # v.fls
        /\ IsLeaf(v.fls) \/ TestLess(o, v.test, v.fls.test)
        /\ IsLeaf(v.tru) \/ o[v.test[1]] < o[v.tru.test[1]]
  IN ordered[u]

(* Diagrams are ordered and reduced, also after dedup has put tests on top of
   leaves: apply and restrict rely on it (they stop looking for a field at the
   first later one), and so does to_pattern, which has room for one test of a
   field. *)
DiagramIsOrdered == Ordered(order, diagram) /\ Ordered(order, Dedup(order, diagram))
====
