---- MODULE Fdd ----
(* Forwarding decision diagrams: lib/Frenetic_Vlr.ml and lib/Frenetic_Fdd.ml.

   A diagram is a leaf, which holds an action, or a branch on a test.  The
   source represents a diagram by the number hash-consing gave it; here it is
   the diagram itself, so that `equal' is equality.  Operations that compare
   fields take the current order of fields o, a rank for every field: it is a
   global, mutable array in the source.

   An action (Par) is a set of sets of modifications (Seq), each of which has one
   value for a field. *)
EXTENDS NetKAT

----
(* The order of fields, of values and of tests. *)
Ranks == [Fields -> Nat]

(* of_hv extends an address to 64 bits, the sign as well, and the shift is
   arithmetic: the bits of a prefix of length 0 are the sign. *)
Shifted(v, m) == v.bits \div pow2[Width - m]

(* subset_eq: every value of a is one of b. *)
SubsetEq(a, b) ==
  IF a.kind = "mask" /\ b.kind = "mask"
  THEN a.len >= b.len /\ Shifted(a, b.len) = Shifted(b, b.len)
  ELSE a.kind = b.kind /\ a.bits = b.bits

(* Value.compare a b < 0, of two prefixes whose shorter length is m: the more
   specific of nested prefixes is first. *)
MaskLess(a, b, m) ==
  \/ Shifted(a, m) < Shifted(b, m)
  \/ Shifted(a, m) = Shifted(b, m) /\ a.len > b.len

ValueLess(a, b) ==
  \/ a.kind = "mask" /\ b.kind = "pipe"
  \/ a.kind = "pipe" /\ b.kind = "pipe" /\ a.bits < b.bits
  \/ a.kind = "mask" /\ b.kind = "mask"
       /\ MaskLess(a, b, IF a.len < b.len THEN a.len ELSE b.len)

TestLess(o, x, y) ==
  \/ o[x[1]] < o[y[1]]
  \/ x[1] = y[1] /\ ValueLess(x[2], y[2])

----
(* Actions. *)
Functional(hvs) == \A x, y \in hvs : x[1] = y[1] => x = y

Seqs == {s \in SUBSET Modifications : Functional(s)}
Actions == SUBSET Seqs

One == {{}}
Zero == {}

FieldsOf(hvs) == {hv[1] : hv \in hvs}

(* Sequential composition: modifications to the right win. *)
Merge(s, t) == {hv \in s : hv[1] \notin FieldsOf(t)} \cup t

(* Action.sum and Action.prod. *)
Combine(op, a, b) ==
  IF op = "sum" THEN a \cup b ELSE {Merge(st[1], st[2]) : st \in a \X b}

Unit(op) == IF op = "sum" THEN Zero ELSE One

Negate(par) == IF par = Zero THEN One ELSE Zero

(* A modification to the value that was tested does nothing. *)
Demod(hv, par) == {seq \ {hv} : seq \in par}

----
(* Diagrams: a test is below another at most as often as there are tests. *)
MkLeaf(par) == [leaf |-> par]
IsLeaf(u) == "leaf" \in DOMAIN u

AllLeaves == [leaf : Actions]
DiagramsOver(S) == AllLeaves \cup [test : Tests, tru : S, fls : S]
diagramsUpTo[n \in Nat] == IF n = 0 THEN AllLeaves ELSE DiagramsOver(diagramsUpTo[n - 1])
Diagrams == diagramsUpTo[Cardinality(Tests)]

Drop == MkLeaf(Zero)
Id == MkLeaf(One)

MkBranch(hv, t, f) == IF t = f THEN t ELSE [test |-> hv, tru |-> t, fls |-> f]

Atom(hv, a, b) == MkBranch(hv, MkLeaf(a), MkLeaf(b))

(* map_r, for a function g on actions. *)
MapR(g, u) ==
  LET map[v \in Diagrams] ==
        IF IsLeaf(v) THEN MkLeaf(g[v.leaf]) ELSE MkBranch(v.test, map[v.tru], map[v.fls])
  IN map[u]

(* restrict: the part of u that applies to packets with the headers hvs.  Headers
   of fields before that of the test are done with: no test below has them. *)
restrict[x \in Ranks \X (SUBSET Headers) \X Diagrams] ==
  LET o == x[1]
      u == x[3]
      left == {hv \in x[2] : o[hv[1]] >= o[u.test[1]]}
      here == {hv \in left : hv[1] = u.test[1]}
  IN IF x[2] = {} \/ IsLeaf(u) THEN u
     ELSE IF here = {}
     THEN MkBranch(u.test, restrict[<<o, left, u.tru>>], restrict[<<o, left, u.fls>>])
     ELSE IF \E hv \in here : SubsetEq(hv[2], u.test[2])
     THEN restrict[<<o, left \ here, u.tru>>]
     ELSE restrict[<<o, left, u.fls>>]

RestrictTo(o, hvs, u) == restrict[<<o, hvs, u>>]

(* apply: combine two diagrams leaf by leaf.  The smaller of two tests goes on
   top, and what lies under its true branch is restricted to it. *)
FirstTest(o, u, v) == IF TestLess(o, v.test, u.test) THEN v.test ELSE u.test

Under(o, hv, u) ==
  IF ~TestLess(o, hv, u.test) THEN u.tru
  ELSE IF u.test[1] = hv[1] THEN RestrictTo(o, {hv}, u)
  ELSE u

Beside(o, hv, u) == IF TestLess(o, hv, u.test) THEN u ELSE u.fls

apply[x \in Ranks \X {"sum", "prod"} \X Diagrams \X Diagrams] ==
  LET o == x[1]
      op == x[2]
      u == x[3]
      v == x[4]
      hv == FirstTest(o, u, v)
  IN IF IsLeaf(u)
     THEN IF u.leaf = Unit(op) THEN v
          ELSE MapR([r \in Actions |-> Combine(op, u.leaf, r)], v)
     ELSE IF IsLeaf(v)
     THEN IF v.leaf = Unit(op) THEN u
          ELSE MapR([r \in Actions |-> Combine(op, r, v.leaf)], u)
     ELSE MkBranch(hv, apply[<<o, op, Under(o, hv, u), Under(o, hv, v)>>],
                       apply[<<o, op, Beside(o, hv, u), Beside(o, hv, v)>>])

Sum(o, x, y) == apply[<<o, "sum", x, y>>]
Prod(o, x, y) == apply[<<o, "prod", x, y>>]

(* Mutant: a branch is put on top of diagrams that test its field. *)
CondUnordered(o, hv, t, f) ==
  LET ok(u) == IsLeaf(u) \/ o[hv[1]] <= o[u.test[1]]
  IN IF ok(t) /\ ok(f) THEN MkBranch(hv, t, f)
     ELSE Sum(o, Prod(o, Atom(hv, One, Zero), t), Prod(o, Atom(hv, Zero, One), f))

(* cond: a branch, also where t and f test fields that come before its own. *)
Cond(o, hv, t, f) ==
  LET ok(u) == IsLeaf(u) \/ o[hv[1]] < o[u.test[1]]
  IN IF t = f THEN t
     ELSE IF ok(t) /\ ok(f) THEN MkBranch(hv, t, f)
     ELSE Sum(o, Prod(o, Atom(hv, One, Zero), t), Prod(o, Atom(hv, Zero, One), f))

(* map, with cond to put the branches together again. *)
MapCond(o, g, u) ==
  LET map[v \in Diagrams] ==
        IF IsLeaf(v) THEN g[v.leaf] ELSE Cond(o, v.test, map[v.tru], map[v.fls])
  IN map[u]

----
(* eval_to_action: the interpreter restricts u to all headers of the packet, and
   what is left has to be a leaf. *)
EvalToAction(o, pkt, u) == RestrictTo(o, {<<f, pkt[f]>> : f \in Fields}, u)
====
