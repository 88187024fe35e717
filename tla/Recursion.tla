---- MODULE Recursion ----
(* Functions defined by recursion over a set whose elements have ranks: that the
   definition has a solution, and so is an equation that holds of the function.  A
   module that defines such a function takes an instance, with its domain, a rank and
   the body of the definition, an operator of the function and its argument. *)
EXTENDS Naturals, WellFoundedInduction, TLAPS

CONSTANTS Domain, Rank(_), Body(_, _)

f[x \in Domain] == Body(f, x)

\* The body uses the function at arguments of smaller rank only.
Descends ==
  /\ \A x \in Domain : Rank(x) \in Nat
  /\ \A x \in Domain : \A g, h :
       (\A y \in Domain : Rank(y) < Rank(x) => g[y] = h[y]) => Body(g, x) = Body(h, x)

\* Induction, over a set instead of a predicate.
THEOREM NatInduces ==
  ASSUME NEW S, 0 \in S, \A n \in Nat : n \in S => n + 1 \in S
  PROVE  Nat \subseteq S
<1> DEFINE T == Nat \ S
<1> SUFFICES ASSUME T # {} PROVE FALSE
  OBVIOUS
<1>1. PICK x \in T : \A y \in T : ~ (<<y, x>> \in OpToRel(<, Nat))
  <2>1. T \subseteq Nat
    OBVIOUS
  <2> HIDE DEF T
  <2> QED
    BY ONLY <2>1, T # {}, NatLessThanWellFounded, WFMin
<1>2. x # 0 /\ x - 1 \in Nat /\ x - 1 \notin S
  OBVIOUS
<1>3. <<x - 1, x>> \in OpToRel(<, Nat)
  BY <1>2 DEF OpToRel
<1> QED
  BY <1>1, <1>2, <1>3

\* Induction over the ranks.
THEOREM RankInduces ==
  ASSUME \A x \in Domain : Rank(x) \in Nat,
         NEW S,
         \A x \in Domain : (\A y \in Domain : Rank(y) < Rank(x) => y \in S) => x \in S
  PROVE  Domain \subseteq S
<1> DEFINE T == {n \in Nat : \A x \in Domain : Rank(x) < n => x \in S}
<1>1. 0 \in T
  OBVIOUS
<1>2. ASSUME NEW n \in Nat, n \in T PROVE n + 1 \in T
  <2>1. ASSUME NEW x \in Domain, Rank(x) < n + 1 PROVE x \in S
    <3>1. ASSUME NEW y \in Domain, Rank(y) < Rank(x) PROVE y \in S
      BY <1>2, <2>1, <3>1
    <3> QED
      BY <3>1
  <2> QED
    BY <2>1
<1>3. ASSUME NEW x \in Domain PROVE x \in S
  <2>1. Nat \subseteq T
    <3> HIDE DEF T
    <3> QED
      BY <1>1, <1>2, NatInduces
  <2>2. Rank(x) + 1 \in T /\ Rank(x) < Rank(x) + 1
    BY <2>1
  <2> QED
    BY <2>2
<1> QED
  BY <1>3

\* A function is right up to rank n.
Solves(g, n) == \A x \in Domain : Rank(x) < n => g[x] = Body(g, x)

LEMMA SolutionsAgree ==
  ASSUME Descends, NEW n \in Nat, NEW g, NEW h, Solves(g, n), Solves(h, n)
  PROVE  \A x \in Domain : Rank(x) < n => g[x] = h[x]
<1> DEFINE S == {x \in Domain : Rank(x) < n => g[x] = h[x]}
<1>1. \A x \in Domain : Rank(x) \in Nat
  BY DEF Descends
<1>2. ASSUME NEW x \in Domain, \A y \in Domain : Rank(y) < Rank(x) => y \in S
      PROVE  x \in S
  <2> SUFFICES ASSUME Rank(x) < n PROVE g[x] = h[x]
    OBVIOUS
  <2>1. \A y \in Domain : Rank(y) < Rank(x) => g[y] = h[y]
    BY <1>1, <1>2
  <2>2. Body(g, x) = Body(h, x)
    BY <2>1 DEF Descends
  <2> QED
    BY <2>2 DEF Solves
<1> HIDE DEF S
<1>3. Domain \subseteq S
  BY <1>1, <1>2, RankInduces
<1> QED
  BY <1>3 DEF S

LEMMA SolutionsExist == ASSUME Descends PROVE \A n \in Nat : \E g : Solves(g, n)
<1> DEFINE S == {n \in Nat : \E g : Solves(g, n)}
<1>1. 0 \in S
  <2>1. \A x \in Domain : ~ (Rank(x) < 0)
    BY DEF Descends
  <2> QED
    BY <2>1 DEF Solves
<1>2. ASSUME NEW n \in Nat, n \in S PROVE n + 1 \in S
  <2>1. PICK g : Solves(g, n)
    BY <1>2
  <2> DEFINE h == [x \in Domain |-> IF Rank(x) < n THEN g[x] ELSE Body(g, x)]
  <2>2. ASSUME NEW x \in Domain, Rank(x) < n + 1 PROVE h[x] = Body(h, x)
    <3>1. h[x] = Body(g, x)
      BY <2>1 DEF Solves
    <3>2. \A y \in Domain : Rank(y) < Rank(x) => g[y] = h[y]
      BY <2>2 DEF Descends
    <3> HIDE DEF h
    <3>3. Body(g, x) = Body(h, x)
      BY <3>2 DEF Descends
    <3> QED
      BY <3>1, <3>3
  <2> HIDE DEF h
  <2>3. Solves(h, n + 1)
    BY <2>2 DEF Solves
  <2> QED
    BY <2>3
<1> HIDE DEF S
<1>3. Nat \subseteq S
  BY <1>1, <1>2, NatInduces
<1> QED
  BY <1>3 DEF S

\* The function is the one that is at x what the functions right up to x are there.
THEOREM Unfolds == ASSUME Descends PROVE f = [x \in Domain |-> Body(f, x)]
<1> DEFINE a(n) == CHOOSE g : Solves(g, n)
           F == [x \in Domain |-> a(Rank(x) + 1)[x]]
<1>1. \A n \in Nat : Solves(a(n), n)
  BY SolutionsExist
<1> HIDE DEF a
<1>2. ASSUME NEW x \in Domain PROVE F[x] = Body(F, x)
  <2> DEFINE n == Rank(x) + 1
  <2>1. Rank(x) \in Nat /\ n \in Nat /\ Rank(x) < n
    BY DEF Descends
  <2>2. Solves(a(n), n)
    BY <1>1, <2>1
  <2>3. a(n)[x] = Body(a(n), x)
    BY <2>1, <2>2 DEF Solves
  <2>4. ASSUME NEW y \in Domain, Rank(y) < Rank(x) PROVE a(n)[y] = F[y]
    <3> DEFINE m == Rank(y) + 1
    <3>1. Rank(y) \in Nat /\ m \in Nat /\ Rank(y) < m /\ m <= n
      BY <2>1, <2>4 DEF Descends
    <3>2. Solves(a(m), m)
      BY <1>1, <3>1
    <3>3. Solves(a(n), m)
      BY <2>1, <2>2, <3>1 DEF Solves, Descends
    <3>4. a(n)[y] = a(m)[y]
      <4> HIDE DEF m, n
      <4> QED
        BY <3>1, <3>2, <3>3, SolutionsAgree
    <3> QED
      BY <3>4
  <2>5. Body(a(n), x) = Body(F, x)
    <3> HIDE DEF F, n
    <3> QED
      BY <2>4 DEF Descends
  <2> QED
    BY <2>3, <2>5
<1>3. F = [x \in Domain |-> F[x]]
  OBVIOUS
<1> HIDE DEF F
<1>4. F = [x \in Domain |-> Body(F, x)]
  BY <1>2, <1>3
<1>5. \E g : g = [x \in Domain |-> Body(g, x)]
  BY <1>4
<1> QED
  BY <1>5 DEF f

\* What the equation says of each argument.
THEOREM UnfoldsAt == ASSUME Descends PROVE \A x \in Domain : f[x] = Body(f, x)
<1>1. f = [x \in Domain |-> Body(f, x)]
  BY Unfolds
<1> DEFINE g == f
<1>2. g = [x \in Domain |-> Body(f, x)]
  BY <1>1
<1> HIDE DEF g
<1>3. \A x \in Domain : g[x] = Body(f, x)
  BY <1>2
<1> QED
  BY <1>3 DEF g
====
