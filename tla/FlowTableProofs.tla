---- MODULE FlowTableProofs ----
(* What is proved of flow tables, for any policies, packets and orders of the fields:
   that the table of each switch, naive or optimised, does to packets what the policy
   says; that with dedup_flows no row sends a packet twice; and that the list of actions
   OpenFlow 1.0 has does what a row says where all its parts set the same fields.  The
   argument follows to_table from the outputs of a row to the rows of a diagram. *)
EXTENDS CompilerProofs, FlowTables, SequenceTheorems, FiniteSetTheorems

---------------------------------------------------------------------------
(* Lists of the elements of a set, in an order. *)

\* The elements of S before x.
Earlier(S, R, x) == {y \in S : <<y, x>> \in R}

IsStrictOrder(S, R) ==
  /\ \A x \in S : <<x, x>> \notin R
  /\ \A x, y, z \in S : <<x, y>> \in R /\ <<y, z>> \in R => <<x, z>> \in R
  /\ \A x, y \in S : x = y \/ <<x, y>> \in R \/ <<y, x>> \in R

\* The number of elements before an element is its place, and every place is taken.
LEMMA Ranked ==
  ASSUME NEW S, IsFiniteSet(S), NEW R, IsStrictOrder(S, R)
  PROVE  /\ \A x \in S : Cardinality(Earlier(S, R, x)) \in 0..(Cardinality(S) - 1)
         /\ \A x, y \in S : <<x, y>> \in R => Cardinality(Earlier(S, R, x)) < Cardinality(Earlier(S, R, y))
         /\ \A i \in 0..(Cardinality(S) - 1) : \E x \in S : Cardinality(Earlier(S, R, x)) = i
<1> DEFINE n == Cardinality(S)
           r == [x \in S |-> Cardinality(Earlier(S, R, x))]
           T == 0..(n - 1)
<1>0. n \in Nat
  BY FS_CardinalityType
<1>1. ASSUME NEW x \in S
      PROVE  IsFiniteSet(Earlier(S, R, x)) /\ Cardinality(Earlier(S, R, x)) \in T
  <2>1. Earlier(S, R, x) \in SUBSET (S \ {x})
    BY DEF Earlier, IsStrictOrder
  <2>2. IsFiniteSet(S \ {x}) /\ Cardinality(S \ {x}) = n - 1
    BY FS_RemoveElement
  <2>3. IsFiniteSet(Earlier(S, R, x)) /\ Cardinality(Earlier(S, R, x)) <= n - 1
    BY <2>1, <2>2, FS_Subset
  <2> QED
    BY <1>0, <2>3, FS_CardinalityType
<1>2. ASSUME NEW x \in S, NEW y \in S, <<x, y>> \in R
      PROVE  Cardinality(Earlier(S, R, x)) < Cardinality(Earlier(S, R, y))
  <2> DEFINE a == Earlier(S, R, x)
             b == Earlier(S, R, y)
  <2>1. x \notin a /\ a \cup {x} \in SUBSET b
    BY <1>2 DEF Earlier, IsStrictOrder
  <2>2. IsFiniteSet(a) /\ IsFiniteSet(b) /\ Cardinality(a) \in Nat /\ Cardinality(b) \in Nat
    BY <1>1, FS_CardinalityType
  <2> HIDE DEF a, b
  <2>3. Cardinality(a \cup {x}) = Cardinality(a) + 1
    BY <2>1, <2>2, FS_AddElement
  <2>4. Cardinality(a \cup {x}) <= Cardinality(b)
    BY <2>1, <2>2, FS_Subset
  <2> QED
    BY <2>2, <2>3, <2>4 DEF a, b
<1>3. r \in Injection(S, T)
  <2>1. r \in [S -> T]
    BY <1>1
  <2>2. \A x, y \in S : r[x] = r[y] => x = y
    <3>1. \A x, y \in S : x = y \/ <<x, y>> \in R \/ <<y, x>> \in R
      BY DEF IsStrictOrder
    <3>2. \A x \in S : Cardinality(Earlier(S, R, x)) \in Nat
      BY <1>1
    <3>3. \A x \in S : r[x] = Cardinality(Earlier(S, R, x))
      OBVIOUS
    <3>4. ASSUME NEW x \in S, NEW y \in S, r[x] = r[y] PROVE x = y
      <4>1. Cardinality(Earlier(S, R, x)) = Cardinality(Earlier(S, R, y))
        BY <3>3, <3>4
      <4>2. ~ (<<x, y>> \in R) /\ ~ (<<y, x>> \in R)
        <5>1. Cardinality(Earlier(S, R, x)) \in Nat
          BY <3>2
        <5>2. <<x, y>> \in R => Cardinality(Earlier(S, R, x)) < Cardinality(Earlier(S, R, y))
          BY <1>2
        <5>3. <<y, x>> \in R => Cardinality(Earlier(S, R, y)) < Cardinality(Earlier(S, R, x))
          BY <1>2
        <5> QED
          BY <4>1, <5>1, <5>2, <5>3
      <4> QED
        BY <3>1, <4>2
    <3> QED
      BY <3>4
  <2> HIDE DEF r, T
  <2> QED
    BY <2>1, <2>2 DEF Injection, IsInjective
<1>4. IsFiniteSet(T) /\ Cardinality(T) = n
  BY <1>0, FS_Interval
<1>5. r \in Surjection(S, T)
  <2> HIDE DEF r, T
  <2> QED
    BY <1>3, <1>4, FS_Injection
<1>6. \A i \in T : \E x \in S : r[x] = i
  <2> HIDE DEF r, T
  <2> QED
    BY <1>5 DEF Surjection
<1> QED
  BY <1>1, <1>2, <1>6

---------------------------------------------------------------------------
(* Modifications without names of pipes. *)

\* The modifications, and the pipe without a name that to_sdn puts for any.
Known == Modifications \cup {<<"Location", Pipe(0)>>}

\* The maps of such modifications.
KnownSeqs == {s \in SUBSET Known : Functional(s)}

\* Such a modification gives a field a single value.
LEMMA KnownIs ==
  ASSUME NEW x \in Known
  PROVE  x = <<x[1], x[2]>> /\ x[1] \in Fields /\ IsValue(x[2]) /\ IsSingle(x[2])
<1>1. CASE x \in Modifications
  BY <1>1, ModificationsAreTests, TestParts DEF Modifications
<1>2. CASE x = <<"Location", Pipe(0)>>
  <2>1. IsPipe(Pipe(0)) /\ IsSingle(Pipe(0)) /\ "Location" \in Fields
    BY DEF IsPipe, Pipe, IsSingle, Fields
  <2> QED
    BY <1>2, <2>1 DEF IsValue
<1> QED
  BY <1>1, <1>2 DEF Known

\* There are finitely many of them, so that a set of maps can be listed in order.
LEMMA KnownAreFinite ==
  /\ IsFiniteSet(Known)
  /\ IsFiniteSet(KnownSeqs)
  /\ \A s \in KnownSeqs : IsFiniteSet(s)
  /\ \A P \in SUBSET KnownSeqs : IsFiniteSet(P)
<1>1. IsFiniteSet(Modifications)
  BY ModificationsAreTests, SomeTestsAreFinite
<1>2. IsFiniteSet(Known)
  BY <1>1, FS_AddElement DEF Known
<1>3. IsFiniteSet(SUBSET Known)
  BY <1>2, FS_SUBSET
<1>4. KnownSeqs \in SUBSET (SUBSET Known)
  BY DEF KnownSeqs
<1>5. IsFiniteSet(KnownSeqs)
  BY <1>3, <1>4, FS_Subset
<1>6. \A s \in KnownSeqs : IsFiniteSet(s)
  BY <1>2, FS_Subset DEF KnownSeqs
<1>7. \A P \in SUBSET KnownSeqs : IsFiniteSet(P)
  BY <1>5, FS_Subset
<1> QED
  BY <1>2, <1>5, <1>6, <1>7

\* A single value is its interval.
LEMMA SinglesDiffer ==
  ASSUME NEW a, NEW b, IsValue(a), IsValue(b), IsSingle(a), IsSingle(b)
  PROVE  /\ Low(a) \in Int /\ Low(b) \in Int /\ High(a) = Low(a)
         /\ Low(a) = Low(b) => a = b
         /\ ValueLess(a, b) <=> Low(a) < Low(b)
<1>1. ASSUME NEW v, IsMask(v), IsSingle(v)
      PROVE  /\ v.kind = "mask" /\ v.len = Width /\ v.bits \in Int /\ Low(v) = v.bits /\ High(v) = v.bits
             /\ v.bits < 2 * pow2[Width]
             /\ \A w : IsMask(w) /\ IsSingle(w) /\ w.bits = v.bits => w = v
  <2>1. v.kind = "mask" /\ v.len = Width /\ v.bits \in Int /\ Size(v) \in Nat
    BY <1>1, MaskFields DEF IsSingle
  <2>2. pow2[Width - Width] = 1
    BY WidthIsPositive, PowersOfTwo
  <2>3. Size(v) = 1 /\ Shifted(v, Width) = v.bits
    <3>1. \A i \in Int : i \div 1 = i
      OBVIOUS
    <3> QED
      BY <2>1, <2>2, <3>1 DEF Size, Shifted
  <2>4. Low(v) = v.bits /\ High(v) = v.bits
    BY <2>1, <2>3 DEF Low, High
  <2>5. High(v) < 2 * pow2[Width]
    BY <1>1, MaskEnds
  <2>6. ASSUME NEW w, IsMask(w), IsSingle(w), w.bits = v.bits PROVE w = v
    <3>1. w.len = Width
      BY <2>6, MaskFields DEF IsSingle
    <3> QED
      BY <1>1, <2>1, <2>6, <3>1 DEF IsMask, Mask
  <2> QED
    BY <2>1, <2>4, <2>5, <2>6
<1>2. ASSUME NEW v, IsPipe(v)
      PROVE  /\ v.kind = "pipe" /\ v.bits \in Nat /\ Low(v) = 2 * pow2[Width] + v.bits /\ High(v) = Low(v)
             /\ \A w : IsPipe(w) /\ w.bits = v.bits => w = v
  BY <1>2, PipeFields, PipeEnds DEF IsPipe, Pipe
<1>3. pow2[Width] \in Nat
  BY WidthIsPositive, PowersArePositive
<1>4. ValueLess(a, b) <=> Before(a, b)
  BY ValuesAreIntervals
<1>5. CASE IsMask(a) /\ IsMask(b)
  BY <1>1, <1>4, <1>5 DEF Before
<1>6. CASE IsMask(a) /\ IsPipe(b)
  BY <1>1, <1>2, <1>3, <1>4, <1>6 DEF Before
<1>7. CASE IsPipe(a) /\ IsMask(b)
  BY <1>1, <1>2, <1>3, <1>4, <1>7 DEF Before
<1>8. CASE IsPipe(a) /\ IsPipe(b)
  BY <1>2, <1>3, <1>4, <1>8 DEF Before
<1> QED
  BY <1>5, <1>6, <1>7, <1>8 DEF IsValue

\* The order of the tests is strict and total on single values.
LEMMA KnownAreOrdered ==
  ASSUME NEW o, IsOrder(o)
  PROVE  /\ \A x \in Known : ~ TestLess(o, x, x)
         /\ \A x, y, z \in Known : TestLess(o, x, y) /\ TestLess(o, y, z) => TestLess(o, x, z)
         /\ \A x, y \in Known : x = y \/ TestLess(o, x, y) \/ TestLess(o, y, x)
<1>1. ASSUME NEW x \in Known, NEW y \in Known
      PROVE  /\ o[x[1]] \in Nat /\ o[y[1]] \in Nat /\ Low(x[2]) \in Int /\ Low(y[2]) \in Int
             /\ o[x[1]] = o[y[1]] => x[1] = y[1]
             /\ x[1] = y[1] /\ Low(x[2]) = Low(y[2]) => x = y
             /\ TestLess(o, x, y) <=> (o[x[1]] < o[y[1]] \/ (x[1] = y[1] /\ Low(x[2]) < Low(y[2])))
  <2>1. /\ x = <<x[1], x[2]>> /\ x[1] \in Fields /\ IsValue(x[2]) /\ IsSingle(x[2])
        /\ y = <<y[1], y[2]>> /\ y[1] \in Fields /\ IsValue(y[2]) /\ IsSingle(y[2])
    BY KnownIs
  <2>2. /\ Low(x[2]) \in Int /\ Low(y[2]) \in Int
        /\ Low(x[2]) = Low(y[2]) => x[2] = y[2]
        /\ ValueLess(x[2], y[2]) <=> Low(x[2]) < Low(y[2])
    BY <2>1, SinglesDiffer
  <2>3. o[x[1]] \in Nat /\ o[y[1]] \in Nat /\ (o[x[1]] = o[y[1]] => x[1] = y[1])
    BY <2>1 DEF IsOrder
  <2> QED
    BY <2>1, <2>2, <2>3 DEF TestLess
<1>2. ASSUME NEW x \in Known PROVE ~ TestLess(o, x, x)
  BY <1>1
<1>3. ASSUME NEW x \in Known, NEW y \in Known, NEW z \in Known, TestLess(o, x, y), TestLess(o, y, z)
      PROVE  TestLess(o, x, z)
  BY <1>1, <1>3
<1>4. ASSUME NEW x \in Known, NEW y \in Known PROVE x = y \/ TestLess(o, x, y) \/ TestLess(o, y, x)
  BY <1>1
<1> QED
  BY <1>2, <1>3, <1>4

\* An association list has the elements of the set, each once.
LEMMA AlistIs ==
  ASSUME NEW o, IsOrder(o), NEW s \in KnownSeqs
  PROVE  /\ Cardinality(s) \in Nat
         /\ Alist(o, s) = [i \in 1..Cardinality(s) |-> Alist(o, s)[i]]
         /\ \A i \in 1..Cardinality(s) : Alist(o, s)[i] \in s
         /\ \A x \in s : \E i \in 1..Cardinality(s) : Alist(o, s)[i] = x
<1> DEFINE n == Cardinality(s)
           R == {xy \in s \X s : o[xy[1][1]] < o[xy[2][1]]}
           rank(x) == Cardinality({y \in s : o[y[1]] < o[x[1]]})
           A == Alist(o, s)
<1>0. IsFiniteSet(s) /\ n \in Nat
  BY KnownAreFinite, FS_CardinalityType
<1>1. ASSUME NEW x \in s PROVE x[1] \in Fields /\ o[x[1]] \in Nat
  BY KnownIs DEF KnownSeqs, IsOrder
<1>2. ASSUME NEW x \in s, NEW y \in s, o[x[1]] = o[y[1]] PROVE x = y
  BY <1>1, <1>2 DEF KnownSeqs, Functional, IsOrder
<1>3. IsStrictOrder(s, R)
  <2>1. \A x, y \in s : <<x, y>> \in R <=> o[x[1]] < o[y[1]]
    OBVIOUS
  <2> HIDE DEF R
  <2> QED
    BY <1>1, <1>2, <2>1 DEF IsStrictOrder
<1>4. \A x \in s : Earlier(s, R, x) = {y \in s : o[y[1]] < o[x[1]]}
  BY DEF Earlier
<1>5. /\ \A x \in s : rank(x) \in 0..(n - 1)
      /\ \A x, y \in s : o[x[1]] < o[y[1]] => rank(x) < rank(y)
      /\ \A i \in 0..(n - 1) : \E x \in s : rank(x) = i
  <2>1. \A x, y \in s : o[x[1]] < o[y[1]] => <<x, y>> \in R
    OBVIOUS
  <2> HIDE DEF R
  <2>2. /\ \A x \in s : Cardinality(Earlier(s, R, x)) \in 0..(n - 1)
        /\ \A x, y \in s : <<x, y>> \in R => Cardinality(Earlier(s, R, x)) < Cardinality(Earlier(s, R, y))
        /\ \A i \in 0..(n - 1) : \E x \in s : Cardinality(Earlier(s, R, x)) = i
    BY <1>0, <1>3, Ranked
  <2>3. \A x \in s : rank(x) = Cardinality(Earlier(s, R, x))
    BY <1>4
  <2> HIDE DEF rank
  <2> QED
    BY <2>1, <2>2, <2>3
<1>6. A = [i \in 1..n |-> CHOOSE x \in s : rank(x) = i - 1]
  BY DEF Alist
<1> HIDE DEF rank, n, A
<1>7. ASSUME NEW i \in 1..n PROVE A[i] \in s /\ rank(A[i]) = i - 1
  <2>1. i - 1 \in 0..(n - 1)
    BY <1>0
  <2>2. \E x \in s : rank(x) = i - 1
    BY <1>5, <2>1
  <2> QED
    BY <1>6, <2>2
<1>8. ASSUME NEW x \in s PROVE \E i \in 1..n : A[i] = x
  <2> DEFINE i == rank(x) + 1
  <2>1. i \in 1..n /\ rank(x) = i - 1
    BY <1>0, <1>5
  <2> HIDE DEF i
  <2>2. A[i] \in s /\ rank(A[i]) = rank(x)
    BY <1>7, <2>1
  <2>3. o[A[i][1]] = o[x[1]]
    BY <1>1, <1>5, <2>2
  <2> QED
    BY <1>2, <2>1, <2>2, <2>3
<1> QED
  BY <1>0, <1>6, <1>7, <1>8 DEF n, A

\* Lists of modifications.
IsList(a, n) == a \in [1..n -> Known]

\* Of two lists that differ there is a first place where they do.
LEMMA FirstDifference ==
  ASSUME NEW a, NEW b, NEW n \in Nat, NEW m \in Nat, IsList(a, n), IsList(b, m), a # b
  PROVE  \E i \in Nat \ {0} :
           /\ \A j \in 1..(i - 1) : j \in 1..n /\ j \in 1..m /\ a[j] = b[j]
           /\ ~ (i \in 1..n /\ i \in 1..m /\ a[i] = b[i])
           /\ i \in 1..n \/ i \in 1..m
<1> DEFINE same(j) == j \in 1..n /\ j \in 1..m /\ a[j] = b[j]
           S == {i \in Nat : \A j \in 1..i : same(j)}
<1>1. 0 \in S
  OBVIOUS
<1>2. ~ (n + m + 1 \in S)
  <2>1. n + m + 1 \in 1..(n + m + 1) /\ n + m + 1 \notin 1..n
    OBVIOUS
  <2> QED
    BY <2>1
<1>3. PICK i \in Nat : i \in S /\ ~ (i + 1 \in S)
  <2> SUFFICES ASSUME \A i \in Nat : i \in S => i + 1 \in S PROVE FALSE
    OBVIOUS
  <2> HIDE DEF S
  <2>1. Nat \subseteq S
    BY <1>1, Levels!NatInduces
  <2> QED
    BY <1>2, <2>1
<1>4. \A j \in 1..i : same(j)
  BY <1>3
<1>5. ~ same(i + 1)
  <2>1. \A j \in 1..(i + 1) : j \in 1..i \/ j = i + 1
    OBVIOUS
  <2> HIDE DEF same
  <2> QED
    BY <1>3, <1>4, <2>1
<1>6. i + 1 \in 1..n \/ i + 1 \in 1..m
  <2> SUFFICES ASSUME ~ (i + 1 \in 1..n), ~ (i + 1 \in 1..m) PROVE FALSE
    OBVIOUS
  <2>1. n = i /\ m = i
    <3>1. i = 0 \/ i \in 1..i
      OBVIOUS
    <3>2. i <= n /\ i <= m
      BY <1>4, <3>1
    <3> QED
      BY <3>2
  <2>2. \A j \in 1..n : a[j] = b[j]
    BY <1>4, <2>1
  <2>3. a = [j \in 1..n |-> a[j]] /\ b = [j \in 1..n |-> b[j]]
    BY <2>1 DEF IsList
  <2>4. a = b
    BY <2>2, <2>3
  <2> QED
    BY <2>4
<1>7. i + 1 \in Nat \ {0} /\ (i + 1) - 1 = i
  OBVIOUS
<1> HIDE DEF S
<1> QED
  BY <1>4, <1>5, <1>6, <1>7

\* The order of lists is strict and total.
LEMMA ListsAreOrdered ==
  ASSUME NEW o, IsOrder(o), NEW a, NEW b, NEW n \in Nat, NEW m \in Nat, IsList(a, n), IsList(b, m)
  PROVE  /\ ~ AlistLess(o, a, a)
         /\ a = b \/ AlistLess(o, a, b) \/ AlistLess(o, b, a)
         /\ \A c, l : l \in Nat /\ IsList(c, l) /\ AlistLess(o, a, b) /\ AlistLess(o, b, c)
                        => AlistLess(o, a, c)
<1>1. ~ AlistLess(o, a, a)
  BY KnownAreOrdered DEF AlistLess, IsList
<1>2. ASSUME a # b PROVE AlistLess(o, a, b) \/ AlistLess(o, b, a)
  <2>1. PICK i \in Nat \ {0} :
           /\ \A j \in 1..(i - 1) : j \in 1..n /\ j \in 1..m /\ a[j] = b[j]
           /\ ~ (i \in 1..n /\ i \in 1..m /\ a[i] = b[i])
           /\ i \in 1..n \/ i \in 1..m
    BY <1>2, FirstDifference
  <2>2. CASE i \in 1..n /\ i \in 1..m
    <3>1. a[i] # b[i] /\ a[i] \in Known /\ b[i] \in Known
      BY <2>1, <2>2 DEF IsList
    <3>2. TestLess(o, a[i], b[i]) \/ TestLess(o, b[i], a[i])
      BY <3>1, KnownAreOrdered
    <3> QED
      BY <2>1, <2>2, <3>2 DEF AlistLess, IsList
  <2>3. CASE i \notin 1..n
    BY <2>1, <2>3 DEF AlistLess, IsList
  <2>4. CASE i \notin 1..m
    BY <2>1, <2>4 DEF AlistLess, IsList
  <2> QED
    BY <2>2, <2>3, <2>4
<1>3. ASSUME NEW c, NEW l \in Nat, IsList(c, l), AlistLess(o, a, b), AlistLess(o, b, c)
      PROVE  AlistLess(o, a, c)
  <2>1. PICK i \in 1..m : /\ \A j \in 1..(i - 1) : j \in 1..n /\ a[j] = b[j]
                          /\ i \in 1..n => TestLess(o, a[i], b[i])
    BY <1>3 DEF AlistLess, IsList
  <2>2. PICK p \in 1..l : /\ \A j \in 1..(p - 1) : j \in 1..m /\ b[j] = c[j]
                          /\ p \in 1..m => TestLess(o, b[p], c[p])
    BY <1>3 DEF AlistLess, IsList
  <2>3. CASE i < p
    <3>1. i \in 1..(p - 1) /\ i \in 1..l /\ \A j \in 1..(i - 1) : j \in 1..(p - 1)
      BY <2>3
    <3>2. b[i] = c[i] /\ \A j \in 1..(i - 1) : j \in 1..n /\ a[j] = c[j]
      BY <2>1, <2>2, <3>1
    <3> QED
      BY <1>3, <2>1, <3>1, <3>2 DEF AlistLess, IsList
  <2>4. CASE i = p
    <3>1. \A j \in 1..(p - 1) : j \in 1..n /\ a[j] = c[j]
      BY <2>1, <2>2, <2>4
    <3>2. p \in 1..n => TestLess(o, a[p], c[p])
      <4> SUFFICES ASSUME p \in 1..n PROVE TestLess(o, a[p], c[p])
        OBVIOUS
      <4>1. a[p] \in Known /\ b[p] \in Known /\ c[p] \in Known
        BY <1>3, <2>4 DEF IsList
      <4> QED
        BY <2>1, <2>2, <2>4, <4>1, KnownAreOrdered
    <3> QED
      BY <1>3, <3>1, <3>2 DEF AlistLess, IsList
  <2>5. CASE p < i
    <3>1. p \in 1..(i - 1) /\ p \in 1..m /\ \A j \in 1..(p - 1) : j \in 1..(i - 1)
      BY <2>5
    <3>2. a[p] = b[p] /\ \A j \in 1..(p - 1) : j \in 1..n /\ a[j] = c[j]
      BY <2>1, <2>2, <3>1
    <3> QED
      BY <1>3, <2>2, <3>1, <3>2 DEF AlistLess, IsList
  <2> QED
    BY <2>3, <2>4, <2>5
<1> QED
  BY <1>1, <1>2, <1>3

\* A list of a set of sets of modifications has each of them once.
LEMMA ParListIs ==
  ASSUME NEW o, IsOrder(o), NEW P \in SUBSET KnownSeqs
  PROVE  LET n == Cardinality(P)
             L == ParList(o, P)
         IN /\ n \in Nat /\ L = [i \in 1..n |-> L[i]]
            /\ \A i \in 1..n : L[i] \in P
            /\ \A s \in P : \E i \in 1..n : L[i] = s
            /\ \A i, j \in 1..n : i # j => L[i] # L[j]
<1> DEFINE n == Cardinality(P)
           L == ParList(o, P)
           less(s, t) == AlistLess(o, Alist(o, s), Alist(o, t))
           R == {st \in P \X P : less(st[1], st[2])}
           rank(s) == Cardinality({t \in P : less(t, s)})
<1>0. IsFiniteSet(P) /\ n \in Nat
  BY KnownAreFinite, FS_CardinalityType
<1>1. ASSUME NEW s \in P PROVE Cardinality(s) \in Nat /\ IsList(Alist(o, s), Cardinality(s))
  <2> DEFINE A == Alist(o, s)
             l == Cardinality(s)
  <2>1. l \in Nat /\ A = [i \in 1..l |-> A[i]] /\ \A i \in 1..l : A[i] \in s
    BY AlistIs
  <2>2. s \subseteq Known
    BY DEF KnownSeqs
  <2> HIDE DEF A, l
  <2>3. A \in [1..l -> Known]
    BY <2>1, <2>2
  <2> QED
    BY <2>1, <2>3 DEF IsList, A, l
<1>2. ASSUME NEW s \in P, NEW t \in P, Alist(o, s) = Alist(o, t) PROVE s = t
  <2>1. 1..Cardinality(s) = 1..Cardinality(t)
    BY <1>1, <1>2 DEF IsList
  <2>2. \A x : x \in s <=> \E i \in 1..Cardinality(s) : Alist(o, s)[i] = x
    BY AlistIs
  <2>3. \A x : x \in t <=> \E i \in 1..Cardinality(t) : Alist(o, t)[i] = x
    BY AlistIs
  <2> QED
    BY <1>2, <2>1, <2>2, <2>3
<1>3. /\ \A s \in P : ~ less(s, s)
      /\ \A s, t \in P : s = t \/ less(s, t) \/ less(t, s)
      /\ \A s, t, u \in P : less(s, t) /\ less(t, u) => less(s, u)
  BY <1>1, <1>2, ListsAreOrdered
<1> HIDE DEF less
<1>4. IsStrictOrder(P, R)
  BY <1>3 DEF IsStrictOrder
<1>5. /\ \A s \in P : rank(s) \in 0..(n - 1)
      /\ \A s, t \in P : less(s, t) => rank(s) < rank(t)
      /\ \A i \in 0..(n - 1) : \E s \in P : rank(s) = i
  <2>1. \A s, t \in P : less(s, t) => <<s, t>> \in R
    OBVIOUS
  <2>2. \A s \in P : rank(s) = Cardinality(Earlier(P, R, s))
    BY DEF Earlier
  <2> HIDE DEF R, rank
  <2>3. /\ \A x \in P : Cardinality(Earlier(P, R, x)) \in 0..(n - 1)
        /\ \A x, y \in P : <<x, y>> \in R => Cardinality(Earlier(P, R, x)) < Cardinality(Earlier(P, R, y))
        /\ \A i \in 0..(n - 1) : \E x \in P : Cardinality(Earlier(P, R, x)) = i
    BY <1>0, <1>4, Ranked
  <2> QED
    BY <2>1, <2>2, <2>3
<1>6. L = [i \in 1..n |-> CHOOSE s \in P : rank(s) = i - 1]
  BY DEF ParList, less
<1> HIDE DEF rank, n, L
<1>7. ASSUME NEW i \in 1..n PROVE L[i] \in P /\ rank(L[i]) = i - 1
  <2>1. i - 1 \in 0..(n - 1)
    BY <1>0
  <2>2. \E s \in P : rank(s) = i - 1
    BY <1>5, <2>1
  <2> QED
    BY <1>6, <2>2
<1>8. ASSUME NEW s \in P PROVE \E i \in 1..n : L[i] = s
  <2> DEFINE i == rank(s) + 1
  <2>1. i \in 1..n /\ rank(s) = i - 1
    BY <1>0, <1>5
  <2> HIDE DEF i
  <2>2. L[i] \in P /\ rank(L[i]) = rank(s)
    BY <1>7, <2>1
  <2>3. ~ less(L[i], s) /\ ~ less(s, L[i])
    BY <1>5, <2>2
  <2> QED
    BY <1>3, <2>1, <2>2, <2>3
<1>9. ASSUME NEW i \in 1..n, NEW j \in 1..n, L[i] = L[j] PROVE i = j
  BY <1>0, <1>7, <1>9
<1>10. L = [i \in 1..n |-> L[i]]
  BY <1>6
<1> QED
  BY <1>0, <1>7, <1>8, <1>9, <1>10 DEF n, L

Unpiped(par) == {Nameless(s) : s \in par}

\* What to_sdn makes of an action: an output for each set of modifications, in some order.
LEMMA ToSdnIs ==
  ASSUME NEW o, IsOrder(o), NEW inPort, NEW par, NEW P, P = Unpiped(par), P \subseteq KnownSeqs,
         NEW n, n = Cardinality(P)
  PROVE     /\ n \in Nat
            /\ \E L : /\ ToSdn(o, inPort, par) = [i \in 1..n |-> Output(inPort, L[i])]
                      /\ \A i \in 1..n : L[i] \in P
                      /\ \A s \in P : \E i \in 1..n : L[i] = s
                      /\ \A i, j \in 1..n : i # j => L[i] # L[j]
<1> DEFINE K == ParList(o, P)
           Z == [i \in 1..n |-> Output(inPort, K[i])]
           L == [i \in 1..n |-> K[n - i + 1]]
<1>1. P \in SUBSET KnownSeqs
  OBVIOUS
<1>2. ToSdn(o, inPort, par) = Reverse([i \in DOMAIN K |-> Output(inPort, K[i])])
  BY DEF ToSdn, Unpiped
<1>3. /\ n \in Nat /\ K = [i \in 1..n |-> K[i]]
      /\ \A i \in 1..n : K[i] \in P
      /\ \A s \in P : \E i \in 1..n : K[i] = s
      /\ \A i, j \in 1..n : i # j => K[i] # K[j]
  BY <1>1, ParListIs
<1> HIDE DEF K
<1>4. DOMAIN K = 1..n /\ [i \in DOMAIN K |-> Output(inPort, K[i])] = Z
  BY <1>3
<1>5. Len(Z) = n
  BY <1>3
<1>6. \A i \in 1..n : n - i + 1 \in 1..n /\ n - (n - i + 1) + 1 = i
  BY <1>3
<1>7. ToSdn(o, inPort, par) = [i \in 1..n |-> Output(inPort, L[i])]
  <2>1. Reverse(Z) = [i \in 1..n |-> Z[(n - i) + 1]]
    <3> HIDE DEF Z
    <3> QED
      BY <1>5 DEF Reverse
  <2>2. \A i \in 1..n : Z[(n - i) + 1] = Output(inPort, L[i])
    BY <1>6
  <2>3. [i \in 1..n |-> Z[(n - i) + 1]] = [i \in 1..n |-> Output(inPort, L[i])]
    <3> HIDE DEF Z, L
    <3> QED
      BY <2>2
  <2>4. ToSdn(o, inPort, par) = Reverse(Z)
    <3> HIDE DEF Z
    <3> QED
      BY <1>2, <1>4
  <2> HIDE DEF Z, L
  <2> QED
    BY <2>1, <2>3, <2>4
<1>8. \A i \in 1..n : L[i] \in P
  BY <1>3, <1>6
<1>9. \A s \in P : \E i \in 1..n : L[i] = s
  <2> TAKE s \in P
  <2>1. PICK i \in 1..n : K[i] = s
    BY <1>3
  <2>2. n - i + 1 \in 1..n /\ L[n - i + 1] = s
    BY <1>6, <2>1
  <2> QED
    BY <2>2
<1>10. \A i, j \in 1..n : i # j => L[i] # L[j]
  <2> TAKE i, j \in 1..n
  <2> HAVE i # j
  <2>1. n - i + 1 \in 1..n /\ n - j + 1 \in 1..n /\ n - i + 1 # n - j + 1
    BY <1>3
  <2> QED
    BY <1>3, <2>1
<1> HIDE DEF L
<1>11. \E M : /\ ToSdn(o, inPort, par) = [i \in 1..n |-> Output(inPort, M[i])]
              /\ \A i \in 1..n : M[i] \in P
              /\ \A s \in P : \E i \in 1..n : M[i] = s
              /\ \A i, j \in 1..n : i # j => M[i] # M[j]
  BY <1>7, <1>8, <1>9, <1>10
<1> QED
  BY <1>3, <1>11

---------------------------------------------------------------------------
(* Modifications that change nothing. *)

\* A packet passes a test of a single value when it has that value.
LEMMA PassesSingle ==
  ASSUME NEW hv \in Modifications, NEW k \in AllPackets, Passes(k, hv)
  PROVE  k[hv[1]] = hv[2]
<1> DEFINE a == k[hv[1]]
           b == hv[2]
<1>1. hv[1] \in Fields /\ IsValue(b) /\ IsSingle(b)
  BY ModificationsAreTests, TestParts DEF Modifications
<1>2. SubsetEq(a, b)
  BY DEF Passes
<1>3. a # Absent /\ a \in {x[2] : x \in Modifications} \cup {Absent}
  BY <1>1, <1>2, AbsentIsInNothing, PacketIs
<1>4. IsValue(a) /\ IsSingle(a)
  <2>1. PICK x \in Modifications : a = x[2]
    BY <1>3
  <2> QED
    BY <2>1, ModificationsAreTests, TestParts DEF Modifications
<1> HIDE DEF a, b
<1>5. Inside(a, b)
  BY <1>1, <1>2, <1>4, ValuesAreIntervals
<1>6. a = b
  BY <1>1, <1>4, <1>5, SinglesDiffer DEF Inside
<1> QED
  BY <1>6 DEF a, b

\* Modifications to values that the packet has can be left out.
LEMMA ModifyLess ==
  ASSUME NEW s \in Seqs, NEW T, NEW k \in AllPackets, \A hv \in s : hv \in T => Passes(k, hv)
  PROVE  s \ T \in Seqs /\ Modify(s \ T, k) = Modify(s, k)
<1> DEFINE t == s \ T
           i == Modify(t, k)
           j == Modify(s, k)
<1>1. t \in Seqs
  BY DEF Seqs, Functional
<1> HIDE DEF t
<1>2. /\ i \in AllPackets /\ j \in AllPackets
      /\ \A x \in t : x[1] \in Fields /\ i[x[1]] = x[2]
      /\ \A x \in s : x[1] \in Fields /\ j[x[1]] = x[2]
      /\ \A f \in Fields : f \notin FieldsOf(t) => i[f] = k[f]
      /\ \A f \in Fields : f \notin FieldsOf(s) => j[f] = k[f]
  BY <1>1, ModifyIs
<1>3. ASSUME NEW f \in Fields PROVE i[f] = j[f]
  <2>1. CASE f \in FieldsOf(t)
    <3>1. PICK x \in t : x[1] = f
      BY <2>1 DEF FieldsOf
    <3> QED
      BY <1>2, <3>1 DEF t
  <2>2. CASE f \in FieldsOf(s) /\ f \notin FieldsOf(t)
    <3>1. PICK x \in s : x[1] = f
      BY <2>2 DEF FieldsOf
    <3>2. x \in T /\ x \in Modifications
      BY <2>2, <3>1 DEF FieldsOf, t, Seqs
    <3>3. k[x[1]] = x[2]
      BY <3>2, PassesSingle
    <3> QED
      BY <1>2, <2>2, <3>1, <3>3
  <2>3. CASE f \notin FieldsOf(s)
    <3>1. f \notin FieldsOf(t)
      BY <2>3 DEF FieldsOf, t
    <3> QED
      BY <1>2, <2>3, <3>1
  <2> QED
    BY <2>1, <2>2, <2>3
<1>4. i = j
  <2> HIDE DEF i, j
  <2>1. i = [f \in Fields |-> i[f]] /\ j = [f \in Fields |-> j[f]]
    BY <1>2, PacketIs
  <2> QED
    BY <1>3, <2>1
<1> QED
  BY <1>1, <1>4 DEF t

---------------------------------------------------------------------------
(* What the actions of a row do to the packets that match it. *)

\* The packet passes all of the tests.
PassesAll(k, T) == \A hv \in T : Passes(k, hv)

\* A packet that came in by a port.
Arrived(k) == k \in AllPackets /\ k["Location"].kind = "mask"

\* What is sent for one set of modifications.
Sends(k, inPort, s) == Emit(k, Modify(Output(inPort, s).mods, k), Output(inPort, s).out)

\* to_sdn keeps what is not a pipe, and puts one pipe for all.
LEMMA NamelessIs ==
  ASSUME NEW s \in Seqs
  PROVE  /\ Nameless(s) \in KnownSeqs
         /\ \A hv : hv[1] # "Location" => (hv \in Nameless(s) <=> hv \in s)
         /\ \A v : <<"Location", v>> \in Nameless(s) <=>
              \/ <<"Location", v>> \in s /\ v.kind # "pipe"
              \/ v = Pipe(0) /\ \E w : <<"Location", w>> \in s /\ w.kind = "pipe"
<1> DEFINE P == <<"Location", Pipe(0)>>
<1>1. \A hv \in s : hv \in Modifications /\ hv = <<hv[1], hv[2]>> /\ hv[1] \in Fields
  BY SeqIs, ModificationsAreTests, TestParts
<1>2. \A x : x \in Nameless(s) <=>
        (x \in s /\ ~ IsPipeTest(x)) \/ (x = P /\ \E hv \in s : IsPipeTest(hv))
  BY DEF Nameless
<1>3. Nameless(s) \subseteq Known
  BY <1>1, <1>2 DEF Known
<1>4. Functional(Nameless(s))
  <2> SUFFICES ASSUME NEW x \in Nameless(s), NEW y \in Nameless(s), x[1] = y[1] PROVE x = y
    BY DEF Functional
  <2>1. Functional(s)
    BY SeqIs
  <2>2. CASE x \in s /\ ~ IsPipeTest(x) /\ y \in s /\ ~ IsPipeTest(y)
    BY <2>1, <2>2 DEF Functional
  <2>3. CASE x = P /\ y = P
    BY <2>3
  <2>4. CASE x \in s /\ ~ IsPipeTest(x) /\ y = P /\ \E hv \in s : IsPipeTest(hv)
    BY <2>1, <2>4 DEF Functional, IsPipeTest
  <2>5. CASE y \in s /\ ~ IsPipeTest(y) /\ x = P /\ \E hv \in s : IsPipeTest(hv)
    BY <2>1, <2>5 DEF Functional, IsPipeTest
  <2> QED
    BY <1>2, <2>2, <2>3, <2>4, <2>5
<1>5. ASSUME NEW hv, hv[1] # "Location" PROVE hv \in Nameless(s) <=> hv \in s
  BY <1>2, <1>5 DEF IsPipeTest
<1>6. ASSUME NEW v
      PROVE  <<"Location", v>> \in Nameless(s) <=>
              \/ <<"Location", v>> \in s /\ v.kind # "pipe"
              \/ v = Pipe(0) /\ \E w : <<"Location", w>> \in s /\ w.kind = "pipe"
  <2>1. IsPipeTest(<<"Location", v>>) <=> v.kind = "pipe"
    BY DEF IsPipeTest
  <2>2. (\E hv \in s : IsPipeTest(hv)) <=> \E w : <<"Location", w>> \in s /\ w.kind = "pipe"
    BY <1>1 DEF IsPipeTest
  <2>3. <<"Location", v>> = P <=> v = Pipe(0)
    OBVIOUS
  <2> HIDE DEF P
  <2> QED
    BY <1>2, <2>1, <2>2, <2>3
<1> QED
  BY <1>3, <1>4, <1>5, <1>6 DEF KnownSeqs

\* Where a set of modifications sends a packet to.
LEMMA OutputIs ==
  ASSUME NEW T \in SUBSET Tests, NEW s \in Seqs, s \cap T = {}
  PROVE  LET out == Output(InPortOf(T), Nameless(s))
         IN /\ out.mods = {hv \in s : hv[1] # "Location"}
            /\ "Location" \notin FieldsOf(s) => out.out = InPort
            /\ \A v : <<"Location", v>> \in s =>
                 /\ out.out = IF v.kind = "pipe" THEN Pipe(0) ELSE v
                 /\ out.out # InPort
<1> DEFINE a == Nameless(s)
           to == {hv[2] : hv \in {x \in a : x[1] = "Location"}}
           out == Output(InPortOf(T), a)
           in == InPortOf(T)
<1>0. \A hv \in s : hv \in Modifications /\ hv = <<hv[1], hv[2]>> /\ hv[1] \in Fields /\ IsValue(hv[2])
  BY SeqIs, ModificationsAreTests, TestParts
<1>1. /\ out.mods = {hv \in a : hv[1] # "Location"}
      /\ out.out = IF to \subseteq in THEN InPort ELSE CHOOSE v \in to : TRUE
  BY DEF Output
<1>2. out.mods = {hv \in s : hv[1] # "Location"}
  BY <1>1, NamelessIs
<1>3. \A x \in a : x = <<x[1], x[2]>>
  BY NamelessIs, KnownIs DEF KnownSeqs
<1>4. \A v : v \in to <=> <<"Location", v>> \in a
  BY <1>3
<1>5. ASSUME "Location" \notin FieldsOf(s) PROVE out.out = InPort
  <2>1. \A v : <<"Location", v>> \notin s
    BY <1>5 DEF FieldsOf
  <2>2. \A v : <<"Location", v>> \notin a
    BY <2>1, NamelessIs
  <2>3. to = {}
    <3> HIDE DEF to, a
    <3> QED
      BY <1>4, <2>2
  <2> QED
    BY <1>1, <2>3
<1>6. ASSUME NEW v, <<"Location", v>> \in s
      PROVE  /\ out.out = IF v.kind = "pipe" THEN Pipe(0) ELSE v
             /\ out.out # InPort
  <2> DEFINE w == IF v.kind = "pipe" THEN Pipe(0) ELSE v
  <2>1. \A u : <<"Location", u>> \in s => u = v
    BY <1>6, SeqIs DEF Functional
  <2>2. \A u : u \in to <=> u = w
    <3> HIDE DEF to
    <3>1. \A u : <<"Location", u>> \in a <=>
              \/ <<"Location", u>> \in s /\ u.kind # "pipe"
              \/ u = Pipe(0) /\ \E x : <<"Location", x>> \in s /\ x.kind = "pipe"
      BY NamelessIs
    <3>2. CASE v.kind = "pipe"
      BY <1>4, <1>6, <2>1, <3>1, <3>2
    <3>3. CASE v.kind # "pipe"
      BY <1>4, <1>6, <2>1, <3>1, <3>3
    <3> QED
      BY <3>2, <3>3
  <2>3. ASSUME NEW u \in in PROVE <<"Location", u>> \in T /\ u.kind = "mask"
    <3>1. PICK t \in T : t[1] = "Location" /\ t[2].kind = "mask" /\ u = t[2]
      BY DEF InPortOf
    <3>2. t = <<t[1], t[2]>>
      BY TestParts
    <3> QED
      BY <3>1, <3>2
  <2>4. w \notin in
    <3>1. CASE v.kind = "pipe"
      BY <2>3, <3>1 DEF Pipe
    <3>2. CASE v.kind # "pipe"
      BY <1>6, <2>3, <3>2
    <3> QED
      BY <3>1, <3>2
  <2>5. w # InPort
    <3>1. IsValue(v)
      BY <1>0, <1>6
    <3>2. w.kind = "pipe" \/ w.kind = "mask"
      BY <3>1, MaskFields, PipeFields DEF IsValue, Pipe
    <3> HIDE DEF w
    <3> QED
      BY <3>2 DEF InPort
  <2> HIDE DEF w, in, to
  <2>6. ~ (to \subseteq in) /\ (CHOOSE u \in to : TRUE) = w
    BY <2>2, <2>4
  <2> QED
    BY <1>1, <2>5, <2>6 DEF w
<1> QED
  BY <1>2, <1>5, <1>6

\* A packet that is sent is one that the policy makes, without the name of a pipe.
LEMMA SendsIs ==
  ASSUME NEW k, Arrived(k), NEW T \in SUBSET Tests, PassesAll(k, T), NEW s \in Seqs
  PROVE  Sends(k, InPortOf(T), Nameless(s \ T)) = Unnamed(Modify(s, k))
<1> DEFINE t == s \ T
           out == Output(InPortOf(T), Nameless(t))
           m == {hv \in t : hv[1] # "Location"}
           i == Modify(m, k)
           j == Modify(t, k)
<1>0. k \in AllPackets /\ k["Location"].kind = "mask"
  BY DEF Arrived
<1>1. t \in Seqs /\ j = Modify(s, k)
  BY <1>0, ModifyLess DEF PassesAll
<1>2. t \cap T = {}
  OBVIOUS
<1>3. m \in Seqs
  BY <1>1 DEF Seqs, Functional
<1> HIDE DEF t
<1>4. /\ out.mods = m
      /\ "Location" \notin FieldsOf(t) => out.out = InPort
      /\ \A v : <<"Location", v>> \in t =>
           /\ out.out = IF v.kind = "pipe" THEN Pipe(0) ELSE v
           /\ out.out # InPort
  BY <1>1, <1>2, OutputIs
<1> HIDE DEF out, m
<1>5. /\ i \in AllPackets /\ j \in AllPackets
      /\ \A x \in m : x[1] \in Fields /\ i[x[1]] = x[2]
      /\ \A x \in t : x[1] \in Fields /\ j[x[1]] = x[2]
      /\ \A f \in Fields : f \notin FieldsOf(m) => i[f] = k[f]
      /\ \A f \in Fields : f \notin FieldsOf(t) => j[f] = k[f]
  BY <1>0, <1>1, <1>3, ModifyIs
<1> HIDE DEF i, j
<1>6. \A f \in Fields : f # "Location" => i[f] = j[f]
  <2> SUFFICES ASSUME NEW f \in Fields, f # "Location" PROVE i[f] = j[f]
    OBVIOUS
  <2>1. CASE f \in FieldsOf(t)
    <3>1. PICK x \in t : x[1] = f
      BY <2>1 DEF FieldsOf
    <3>2. x \in m
      BY <3>1 DEF m
    <3> QED
      BY <1>5, <3>1, <3>2
  <2>2. CASE f \notin FieldsOf(t)
    <3>1. f \notin FieldsOf(m)
      BY <2>2 DEF FieldsOf, m
    <3> QED
      BY <1>5, <2>2, <3>1
  <2> QED
    BY <2>1, <2>2
<1>7. "Location" \in Fields
  BY DEF Fields
<1>8. i = [f \in Fields |-> i[f]] /\ j = [f \in Fields |-> j[f]]
  BY <1>5, PacketIs
<1> DEFINE l == IF out.out = InPort THEN k["Location"] ELSE out.out
           v == j["Location"]
           w == IF v.kind = "pipe" THEN Pipe(0) ELSE v
<1>9. l = w
  <2>1. CASE "Location" \notin FieldsOf(t)
    <3>1. out.out = InPort /\ v = k["Location"]
      BY <1>4, <1>5, <1>7, <2>1
    <3> QED
      BY <1>0, <3>1
  <2>2. CASE "Location" \in FieldsOf(t)
    <3>1. PICK x \in t : x[1] = "Location"
      BY <2>2 DEF FieldsOf
    <3>2. x = <<"Location", x[2]>>
      BY <1>1, <3>1, SeqIs, ModificationsAreTests, TestParts
    <3>3. x[2] = v
      BY <1>5, <3>1
    <3>4. <<"Location", v>> \in t
      BY <3>1, <3>2, <3>3
    <3> HIDE DEF v
    <3> QED
      BY <1>4, <3>4
  <2> QED
    BY <2>1, <2>2
<1>10. Sends(k, InPortOf(T), Nameless(t)) = [i EXCEPT !["Location"] = l]
  BY <1>4 DEF Sends, Emit, out, i
<1>11. Unnamed(j) = [j EXCEPT !["Location"] = w]
  BY DEF Unnamed
<1>12. [i EXCEPT !["Location"] = l] = [j EXCEPT !["Location"] = w]
  <2> HIDE DEF l, w
  <2>1. [i EXCEPT !["Location"] = l] = [f \in Fields |-> IF f = "Location" THEN l ELSE i[f]]
    BY <1>8
  <2>2. [j EXCEPT !["Location"] = w] = [f \in Fields |-> IF f = "Location" THEN w ELSE j[f]]
    BY <1>8
  <2> QED
    BY <1>6, <1>9, <2>1, <2>2
<1> QED
  BY <1>1, <1>10, <1>11, <1>12 DEF t, j

\* The entries of an action, in some order: one for each set of modifications, less what the
\* row has tested and without names of pipes.
Bare(T, par) == Unpiped(DemodAll(T, par))

\* An action has one output for each set of modifications, each once.
LEMMA ToActionIs ==
  ASSUME NEW o, IsOrder(o), NEW T \in SUBSET Tests, NEW par \in Actions,
         NEW n, n = Cardinality(Bare(T, par))
  PROVE  /\ n \in Nat
         /\ \E L : /\ ToAction(o, T, par) = [i \in 1..n |-> Output(InPortOf(T), L[i])]
                   /\ \A i \in 1..n : L[i] \in Bare(T, par)
                   /\ \A s \in Bare(T, par) : \E i \in 1..n : L[i] = s
                   /\ \A i, j \in 1..n : i # j => L[i] # L[j]
<1> DEFINE D == DemodAll(T, par)
<1>1. Bare(T, par) = Unpiped(D)
  BY DEF Bare
<1>2. \A s \in par : s \ T \in Seqs
  BY DEF Actions, Seqs, Functional
<1>3. Bare(T, par) \subseteq KnownSeqs
  <2>1. \A s \in par : Nameless(s \ T) \in KnownSeqs
    BY <1>2, NamelessIs
  <2> QED
    BY <2>1 DEF Bare, DemodAll, Unpiped
<1>4. ToAction(o, T, par) = ToSdn(o, InPortOf(T), D)
  BY DEF ToAction
<1> HIDE DEF D
<1> QED
  BY <1>1, <1>3, <1>4, ToSdnIs

\* The packets that the policy makes, as the controller and the ports see them.
SeenOf(par, k) == {Unnamed(j) : j \in Results(par, k)}

\* The action of a row sends what the policy makes of a packet that came to the row.
LEMMA RunParIs ==
  ASSUME NEW o, IsOrder(o), NEW k, Arrived(k), NEW T \in SUBSET Tests, PassesAll(k, T),
         NEW par \in Actions
  PROVE  RunPar(ToAction(o, T, par), k) = SeenOf(par, k)
<1> DEFINE B == Bare(T, par)
           n == Cardinality(B)
           in == InPortOf(T)
           action == ToAction(o, T, par)
<1>1. B = Bare(T, par) /\ n = Cardinality(B) /\ in = InPortOf(T) /\ action = ToAction(o, T, par)
  OBVIOUS
<1> HIDE DEF n, in, action, B
<1>2. PICK L : /\ action = [i \in 1..n |-> Output(in, L[i])]
               /\ \A i \in 1..n : L[i] \in B
               /\ \A s \in B : \E i \in 1..n : L[i] = s
               /\ \A i, j \in 1..n : i # j => L[i] # L[j]
  BY <1>1, ToActionIs
<1>3. RunPar(action, k) = {Sends(k, in, L[i]) : i \in 1..n}
  <2>1. RunPar(action, k) = {Emit(k, Modify(action[i].mods, k), action[i].out) : i \in 1..n}
    BY <1>2 DEF RunPar
  <2>2. \A i \in 1..n : Emit(k, Modify(action[i].mods, k), action[i].out) = Sends(k, in, L[i])
    BY <1>2 DEF Sends
  <2> QED
    BY <2>1, <2>2
<1>4. {Sends(k, in, L[i]) : i \in 1..n} = {Sends(k, in, s) : s \in B}
  BY <1>2
<1>5. \A s \in par : Sends(k, in, Nameless(s \ T)) = Unnamed(Modify(s, k))
  BY <1>1, SendsIs DEF Actions
<1>6. {Sends(k, in, s) : s \in B} = {Sends(k, in, Nameless(s \ T)) : s \in par}
  BY <1>1 DEF Bare, Unpiped, DemodAll
<1>7. {Sends(k, in, Nameless(s \ T)) : s \in par} = {Unnamed(Modify(s, k)) : s \in par}
  BY <1>5
<1>8. SeenOf(par, k) = {Unnamed(Modify(s, k)) : s \in par}
  BY DEF SeenOf, Results
<1> QED
  BY <1>1, <1>3, <1>4, <1>6, <1>7, <1>8

---------------------------------------------------------------------------
(* The tests of a diagram. *)

\* The tests of a diagram, as a body of the recursion of Recursion.
TestsBody(g, u) == IF IsLeaf(u) THEN {} ELSE {u.test} \cup g[u.tru] \cup g[u.fls]
TestSets == INSTANCE Recursion WITH Domain <- Diagrams, Rank <- Depth, Body <- TestsBody

\* The tests of a branch are its own and those of its two parts.
LEMMA TestsOfIs ==
  ASSUME NEW u \in Diagrams
  PROVE  /\ IsLeaf(u) => TestsOf(u) = {}
         /\ ~ IsLeaf(u) => TestsOf(u) = {u.test} \cup TestsOf(u.tru) \cup TestsOf(u.fls)
<1>1. TestSets!Descends
  <2>1. \A x \in Diagrams : Depth(x) \in Nat
    BY DiagramParts
  <2>2. ASSUME NEW x \in Diagrams, NEW g, NEW h,
               \A y \in Diagrams : Depth(y) < Depth(x) => g[y] = h[y]
        PROVE  TestsBody(g, x) = TestsBody(h, x)
    BY <2>2, DiagramParts DEF TestsBody
  <2> QED
    BY <2>1, <2>2 DEF TestSets!Descends
<1>2. \A x \in Diagrams : TestSets!f[x] = TestsBody(TestSets!f, x)
  BY <1>1, TestSets!UnfoldsAt
<1>3. \A v : TestsOf(v) = TestSets!f[v]
  BY DEF TestsOf, TestSets!f, TestsBody
<1> QED
  BY <1>2, <1>3, DiagramParts DEF TestsBody

\* The tests of a diagram are tests.
LEMMA TestsOfAreTests == \A u \in Diagrams : TestsOf(u) \subseteq Tests
<1> DEFINE S == {u \in Diagrams : TestsOf(u) \subseteq Tests}
<1>1. ASSUME NEW u \in Diagrams, IsLeaf(u) PROVE u \in S
  BY <1>1, TestsOfIs
<1>2. ASSUME NEW u \in Diagrams, ~ IsLeaf(u), u.tru \in S, u.fls \in S PROVE u \in S
  BY <1>2, TestsOfIs, DiagramParts
<1> HIDE DEF S
<1>3. Diagrams \subseteq S
  BY <1>1, <1>2, DiagramsInduce
<1> QED
  BY <1>3 DEF S

\* In an ordered diagram no test is of a field before that of the test at the top.
LEMMA TestsComeAfter ==
  ASSUME NEW o, IsOrder(o), NEW u, Good(o, u), NEW hv \in Tests
  PROVE  /\ Below(o, hv, u) => \A x \in TestsOf(u) : o[hv[1]] <= o[x[1]]
         /\ FieldBelow(o, hv, u) => \A x \in TestsOf(u) : o[hv[1]] < o[x[1]]
<1> DEFINE P(v) == \A h \in Tests :
                     /\ Below(o, h, v) => \A x \in TestsOf(v) : o[h[1]] <= o[x[1]]
                     /\ FieldBelow(o, h, v) => \A x \in TestsOf(v) : o[h[1]] < o[x[1]]
           S == {v \in Diagrams : Good(o, v) => P(v)}
<1>0. \A h, x \in Tests : o[h[1]] \in Nat /\ o[x[1]] \in Nat /\ (TestLess(o, h, x) => o[h[1]] <= o[x[1]])
  BY OrderRanks
<1>1. ASSUME NEW v \in Diagrams, IsLeaf(v) PROVE v \in S
  BY <1>1, TestsOfIs
<1>2. ASSUME NEW v \in Diagrams, ~ IsLeaf(v), v.tru \in S, v.fls \in S PROVE v \in S
  <2> SUFFICES ASSUME Good(o, v) PROVE P(v)
    OBVIOUS
  <2>1. /\ v.test \in Tests /\ Good(o, v.tru) /\ Good(o, v.fls)
        /\ Below(o, v.test, v.fls) /\ Below(o, v.test, v.tru)
    BY <1>2, GoodParts
  <2>2. P(v.tru) /\ P(v.fls)
    BY <1>2, <2>1
  <2>3. TestsOf(v) = {v.test} \cup TestsOf(v.tru) \cup TestsOf(v.fls)
    BY <1>2, TestsOfIs
  <2>4. \A x \in TestsOf(v) : x \in Tests /\ o[v.test[1]] <= o[x[1]]
    <3>1. \A x \in TestsOf(v) : x \in Tests
      BY TestsOfAreTests
    <3> QED
      BY <1>0, <2>1, <2>2, <2>3, <3>1
  <2>5. \A h \in Tests : /\ Below(o, h, v) => o[h[1]] <= o[v.test[1]]
                         /\ FieldBelow(o, h, v) => o[h[1]] < o[v.test[1]]
    BY <1>0, <1>2, <2>1 DEF Below, FieldBelow
  <2> QED
    BY <1>0, <2>1, <2>4, <2>5
<1> HIDE DEF S
<1>3. Diagrams \subseteq S
  BY <1>1, <1>2, DiagramsInduce
<1> QED
  BY <1>3 DEF S, Good

\* restrict leaves no test of the fields it was given, and adds none.
LEMMA RestrictTests ==
  ASSUME NEW o, IsOrder(o), NEW hvs \in HeaderSets, NEW u, Good(o, u)
  PROVE  \A x \in TestsOf(RestrictTo(o, hvs, u)) : x \in TestsOf(u) /\ x[1] \notin FieldsOf(hvs)
<1> DEFINE P(v) == \A s \in HeaderSets : \A x \in TestsOf(RestrictTo(o, s, v)) :
                      x \in TestsOf(v) /\ x[1] \notin FieldsOf(s)
           S == {v \in Diagrams : Good(o, v) => P(v)}
<1>0. o \in Ranks
  BY DEF IsOrder, Ranks
<1>1. ASSUME NEW v \in Diagrams, IsLeaf(v) PROVE v \in S
  <2>1. \A s \in HeaderSets : RestrictTo(o, s, v) = v
    BY <1>0, <1>1, RestrictIs
  <2>2. TestsOf(v) = {}
    BY <1>1, TestsOfIs
  <2> QED
    BY <2>1, <2>2
<1>2. ASSUME NEW v \in Diagrams, ~ IsLeaf(v), v.tru \in S, v.fls \in S PROVE v \in S
  <2> SUFFICES ASSUME Good(o, v), NEW s \in HeaderSets, NEW x \in TestsOf(RestrictTo(o, s, v))
               PROVE  x \in TestsOf(v) /\ x[1] \notin FieldsOf(s)
    OBVIOUS
  <2> DEFINE left == Left(o, s, v)
             here == Here(o, s, v)
  <2>1. /\ v.test \in Tests /\ Good(o, v.tru) /\ Good(o, v.fls) /\ v.tru \in Diagrams /\ v.fls \in Diagrams
        /\ Below(o, v.test, v.fls) /\ FieldBelow(o, v.test, v.tru)
    BY <1>2, GoodParts, DiagramParts
  <2>2. TestsOf(v) = {v.test} \cup TestsOf(v.tru) \cup TestsOf(v.fls)
    BY <1>2, TestsOfIs
  <2>3. left \in HeaderSets /\ left \ here \in HeaderSets
    BY DEF HeaderSets, Left, Here
  <2>4. \A y \in TestsOf(v.fls) : y \in Tests /\ o[v.test[1]] <= o[y[1]]
    BY <2>1, TestsComeAfter, TestsOfAreTests
  <2>5. \A y \in TestsOf(v.tru) : y \in Tests /\ o[v.test[1]] <= o[y[1]] /\ y[1] # v.test[1]
    <3>1. \A y \in TestsOf(v.tru) : y \in Tests /\ o[v.test[1]] < o[y[1]]
      BY <2>1, TestsComeAfter, TestsOfAreTests
    <3>2. \A y \in Tests : o[v.test[1]] \in Nat /\ o[y[1]] \in Nat
      BY <2>1, OrderRanks
    <3> QED
      BY <3>1, <3>2
  <2>6. \A w \in Tests : o[v.test[1]] <= o[w[1]] =>
          /\ w[1] \in FieldsOf(s) <=> w[1] \in FieldsOf(left)
          /\ w[1] # v.test[1] => (w[1] \in FieldsOf(s) <=> w[1] \in FieldsOf(left \ here))
    <3> SUFFICES ASSUME NEW w \in Tests, o[v.test[1]] <= o[w[1]]
                 PROVE  /\ w[1] \in FieldsOf(s) <=> w[1] \in FieldsOf(left)
                        /\ w[1] # v.test[1] => (w[1] \in FieldsOf(s) <=> w[1] \in FieldsOf(left \ here))
      OBVIOUS
    <3>1. /\ \A hv \in s : hv[1] = w[1] <=> (hv \in left /\ hv[1] = w[1])
          /\ w[1] # v.test[1] => \A hv \in s : hv[1] = w[1] <=> (hv \in left \ here /\ hv[1] = w[1])
      BY <1>2, LeftOut
    <3>2. left \subseteq s
      BY DEF Left
    <3> HIDE DEF left, here
    <3> QED
      BY <3>1, <3>2 DEF FieldsOf
  <2>7. CASE s = {}
    <3>1. RestrictTo(o, s, v) = v
      BY <1>0, <2>7, RestrictIs
    <3> QED
      BY <2>7, <3>1 DEF FieldsOf
  <2>8. CASE s # {} /\ here = {}
    <3> DEFINE t == RestrictTo(o, left, v.tru)
               f == RestrictTo(o, left, v.fls)
    <3>1. RestrictTo(o, s, v) = MkBranch(v.test, t, f)
      BY <1>0, <1>2, <2>8, RestrictIs
    <3>2. RestrictTo(o, s, v) \in Diagrams /\ t \in Diagrams /\ f \in Diagrams
      BY <1>0, <2>1, <2>3, RestrictStays
    <3>3. x = v.test \/ x \in TestsOf(t) \/ x \in TestsOf(f)
      <4> HIDE DEF t, f
      <4>1. CASE t = f
        BY <3>1, <4>1, MkBranchIs
      <4>2. CASE t # f
        BY <3>1, <3>2, <4>2, MkBranchIs, BranchesAreNoLeaves, TestsOfIs
      <4> QED
        BY <4>1, <4>2
    <3>4. CASE x = v.test
      <4>1. \A hv \in s : hv[1] = v.test[1] => hv \in here
        <5>1. o[v.test[1]] >= o[v.test[1]]
          BY <2>1, OrderRanks
        <5> QED
          BY <5>1 DEF Here, Left
      <4> QED
        BY <2>2, <2>8, <3>4, <4>1 DEF FieldsOf
    <3>5. CASE x \in TestsOf(t)
      <4>1. x \in TestsOf(v.tru) /\ x[1] \notin FieldsOf(left)
        BY <1>2, <2>1, <2>3, <3>5
      <4> QED
        BY <2>2, <2>5, <2>6, <4>1
    <3>6. CASE x \in TestsOf(f)
      <4>1. x \in TestsOf(v.fls) /\ x[1] \notin FieldsOf(left)
        BY <1>2, <2>1, <2>3, <3>6
      <4> QED
        BY <2>2, <2>4, <2>6, <4>1
    <3> QED
      BY <3>3, <3>4, <3>5, <3>6
  <2>9. CASE s # {} /\ \E hv \in here : SubsetEq(hv[2], v.test[2])
    <3>1. RestrictTo(o, s, v) = RestrictTo(o, left \ here, v.tru)
      BY <1>0, <1>2, <2>9, RestrictIs
    <3>2. x \in TestsOf(v.tru) /\ x[1] \notin FieldsOf(left \ here)
      BY <1>2, <2>1, <2>3, <3>1
    <3> QED
      BY <2>2, <2>5, <2>6, <3>2
  <2>10. CASE s # {} /\ here # {} /\ ~ \E hv \in here : SubsetEq(hv[2], v.test[2])
    <3>1. RestrictTo(o, s, v) = RestrictTo(o, left, v.fls)
      BY <1>0, <1>2, <2>10, RestrictIs
    <3>2. x \in TestsOf(v.fls) /\ x[1] \notin FieldsOf(left)
      BY <1>2, <2>1, <2>3, <3>1
    <3> QED
      BY <2>2, <2>4, <2>6, <3>2
  <2> QED
    BY <2>7, <2>8, <2>9, <2>10
<1> HIDE DEF S
<1>3. Diagrams \subseteq S
  BY <1>1, <1>2, DiagramsInduce
<1> QED
  BY <1>3 DEF S, Good

\* The diagram for a switch has no tests of switches, and for the packets at the switch
\* the values of the whole.
LEMMA ForSwitchIs ==
  ASSUME NEW o, IsOrder(o), NEW u, Good(o, u), NEW sw \in Switches
  PROVE  /\ ForSwitch(o, sw, u) \in Diagrams
         /\ TestsOf(ForSwitch(o, sw, u)) \subseteq TestsOf(u)
         /\ \A x \in TestsOf(ForSwitch(o, sw, u)) : x[1] # "Switch"
         /\ \A k \in AllPackets : k["Switch"] = sw => Val(ForSwitch(o, sw, u), k) = Val(u, k)
<1> DEFINE hvs == {<<"Switch", sw>>}
<1>1. hvs \in HeaderSets
  <2>1. sw \in {hv[2] : hv \in Modifications} /\ "Switch" \in Fields
    BY TablesAreTyped DEF Fields
  <2> QED
    BY <2>1 DEF HeaderSets, Headers
<1>2. ForSwitch(o, sw, u) = RestrictTo(o, hvs, u)
  BY DEF ForSwitch
<1>3. FieldsOf(hvs) = {"Switch"}
  BY DEF FieldsOf
<1>4. o \in Ranks /\ u \in Diagrams
  BY DEF IsOrder, Ranks, Good
<1>5. ASSUME NEW k \in AllPackets, k["Switch"] = sw PROVE SeesBelow(o, hvs, k, k, u)
  BY <1>5 DEF SeesBelow, Sees, Passes
<1> HIDE DEF hvs
<1> QED
  BY <1>1, <1>2, <1>3, <1>4, <1>5, RestrictStays, RestrictTests, RestrictVal

---------------------------------------------------------------------------
(* Rows of flow tables. *)

Deps == {<<"EthType", Ip>>, <<"EthType", Arp>>, <<"IPProto", Tcp>>, <<"IPProto", Udp>>}
Patterns == SUBSET (Tests \cup Deps)
RowActions == {ToAction(x[1], x[2], x[3]) : x \in Ranks \X (SUBSET Tests) \X Actions}
Rows == [pattern : Patterns, action : RowActions]

\* No row matches the packet.
Misses(table, k) == \A i \in DOMAIN table : ~ Matches(table[i].pattern, k)

\* An action for par, in a row whose tests the packet passes.
IsFor(o, par, k, action) == \E T \in SUBSET Tests : PassesAll(k, T) /\ action = ToAction(o, T, par)

\* The row is the first to match the packet.
IsFirst(table, k, i) ==
  /\ i \in DOMAIN table /\ Matches(table[i].pattern, k)
  /\ \A j \in 1..(i - 1) : ~ Matches(table[j].pattern, k)

\* The first row that matches has an action for par.
Serves(o, table, k, par) == \E i \in DOMAIN table : IsFirst(table, k, i) /\ IsFor(o, par, k, table[i].action)

\* Rows that are tried after others.
LEMMA TablesJoin ==
  ASSUME NEW s \in Seq(Rows), NEW t \in Seq(Rows)
  PROVE  /\ s \o t \in Seq(Rows)
         /\ IsRepresentable(s) /\ IsRepresentable(t) => IsRepresentable(s \o t)
         /\ \A k : Misses(s, k) /\ Misses(t, k) => Misses(s \o t, k)
         /\ \A o, k, par : Serves(o, s, k, par) => Serves(o, s \o t, k, par)
         /\ \A o, k, par : Misses(s, k) /\ Serves(o, t, k, par) => Serves(o, s \o t, k, par)
<1> DEFINE u == s \o t
           m == Len(s)
           n == Len(t)
<1>1. /\ u \in Seq(Rows) /\ m \in Nat /\ n \in Nat
      /\ DOMAIN s = 1..m /\ DOMAIN t = 1..n /\ DOMAIN u = 1..(m + n)
      /\ \A i \in 1..m : u[i] = s[i]
      /\ \A i \in 1..n : u[m + i] = t[i]
  OBVIOUS
<1> HIDE DEF u, m, n
<1>2. \A i \in 1..(m + n) : i \in 1..m \/ \E j \in 1..n : i = m + j
  <2> SUFFICES ASSUME NEW i \in 1..(m + n), i \notin 1..m PROVE \E j \in 1..n : i = m + j
    OBVIOUS
  <2>1. i - m \in 1..n /\ i = m + (i - m)
    BY <1>1
  <2> QED
    BY <2>1
<1>3. ASSUME IsRepresentable(s), IsRepresentable(t) PROVE IsRepresentable(u)
  <2>1. \A i \in 1..(m + n) : (i \in 1..m /\ u[i] = s[i]) \/ \E j \in 1..n : u[i] = t[j]
    BY <1>1, <1>2
  <2> QED
    BY <1>1, <1>3, <2>1 DEF IsRepresentable
<1>4. ASSUME NEW k, Misses(s, k), Misses(t, k) PROVE Misses(u, k)
  <2>1. \A i \in 1..(m + n) : (i \in 1..m /\ u[i] = s[i]) \/ \E j \in 1..n : u[i] = t[j]
    BY <1>1, <1>2
  <2> QED
    BY <1>1, <1>4, <2>1 DEF Misses
<1>5. ASSUME NEW o, NEW k, NEW par, Serves(o, s, k, par) PROVE Serves(o, u, k, par)
  <2>1. PICK i \in 1..m : IsFirst(s, k, i) /\ IsFor(o, par, k, s[i].action)
    BY <1>1, <1>5 DEF Serves
  <2>2. i \in 1..(m + n) /\ u[i] = s[i] /\ \A j \in 1..(i - 1) : j \in 1..m /\ u[j] = s[j]
    BY <1>1, <2>1
  <2>3. IsFirst(u, k, i)
    BY <1>1, <2>1, <2>2 DEF IsFirst
  <2> QED
    BY <1>1, <2>1, <2>2, <2>3 DEF Serves
<1>6. ASSUME NEW o, NEW k, NEW par, Misses(s, k), Serves(o, t, k, par) PROVE Serves(o, u, k, par)
  <2>1. PICK i \in 1..n : IsFirst(t, k, i) /\ IsFor(o, par, k, t[i].action)
    BY <1>1, <1>6 DEF Serves
  <2>2. m + i \in 1..(m + n) /\ u[m + i] = t[i]
    BY <1>1, <2>1
  <2>3. ASSUME NEW j \in 1..((m + i) - 1) PROVE ~ Matches(u[j].pattern, k)
    <3>1. CASE j \in 1..m
      BY <1>1, <1>6, <3>1 DEF Misses
    <3>2. CASE j \notin 1..m
      <4>1. j - m \in 1..(i - 1) /\ j - m \in 1..n /\ m + (j - m) = j
        BY <1>1, <3>2
      <4>2. u[j] = t[j - m]
        BY <1>1, <4>1
      <4> QED
        BY <2>1, <4>1, <4>2 DEF IsFirst
    <3> QED
      BY <3>1, <3>2
  <2>4. IsFirst(u, k, m + i)
    BY <1>1, <2>1, <2>2, <2>3 DEF IsFirst
  <2> QED
    BY <1>1, <2>1, <2>2, <2>4 DEF Serves
<1> QED
  BY <1>1, <1>3, <1>4, <1>5, <1>6 DEF u

\* Where some row matches there is a first one.
LEMMA FirstMatches ==
  ASSUME NEW table \in Seq(Rows), NEW k, NEW n \in DOMAIN table, Matches(table[n].pattern, k)
  PROVE  \E i \in DOMAIN table : IsFirst(table, k, i)
<1> DEFINE L == [j \in Nat |-> IF j \in DOMAIN table /\ Matches(table[j].pattern, k) THEN {0} ELSE {}]
           i == FirstLevel(L, 0)
<1>1. DOMAIN table \subseteq Nat /\ \A j \in DOMAIN table : \A l \in 1..(j - 1) : l \in DOMAIN table
  OBVIOUS
<1>2. \A j \in Nat : 0 \in L[j] <=> j \in DOMAIN table /\ Matches(table[j].pattern, k)
  OBVIOUS
<1> HIDE DEF L
<1>3. \A j \in Nat : 0 \in L[j] => i \in Nat /\ 0 \in L[i] /\ i <= j
  BY FirstLevelIs
<1> HIDE DEF i
<1>4. i \in Nat /\ 0 \in L[i]
  BY <1>1, <1>2, <1>3
<1>5. \A j \in 1..(i - 1) : ~ Matches(table[j].pattern, k)
  <2> SUFFICES ASSUME NEW j \in 1..(i - 1), Matches(table[j].pattern, k) PROVE FALSE
    OBVIOUS
  <2>1. j \in Nat /\ j \in DOMAIN table /\ j < i
    BY <1>1, <1>2, <1>4
  <2> QED
    BY <1>2, <1>3, <1>4, <2>1
<1> QED
  BY <1>2, <1>4, <1>5 DEF IsFirst

\* The patterns for one set of tests: the tests and what they depend on, with one for each
\* type and protocol that packets with the headers tested may have and no test above has.
AreFilled(pats, T, all) ==
  /\ pats \in Seq(Patterns)
  /\ \A i \in DOMAIN pats : T \subseteq pats[i] /\ pats[i] \subseteq T \cup Deps
  /\ \A type, proto :
       /\ Lacks(T, "IP4Dst", "EthType") => type \in {Ip, Arp} /\ <<"EthType", type>> \notin all
       /\ Lacks(T, "IPProto", "EthType") => type = Ip /\ <<"EthType", type>> \notin all
       /\ Lacks(T, "TCPDstPort", "IPProto") =>
            type = Ip /\ proto \in {Tcp, Udp} /\ <<"IPProto", proto>> \notin all
       => \E i \in DOMAIN pats : pats[i] \subseteq T \cup {<<"EthType", type>>, <<"IPProto", proto>>}

\* What to_sdn makes of a dependency: added where the tests have none on that field, and in
\* the place of the one that was folded into them.
Adds(T, f, v) == Merge(T, {<<f, v>>}) = T \cup {<<f, v>>}
Replaces(T, f, w, v) == Merge(T \cup {<<f, w>>}, {<<f, v>>}) = T \cup {<<f, v>>}

LEMMA MergeAdds ==
  ASSUME NEW T, NEW f, NEW v, NEW w, ~ HasField(T, f)
  PROVE  Adds(T, f, v) /\ Replaces(T, f, w, v)
<1>1. FieldsOf({<<f, v>>}) = {f}
  BY DEF FieldsOf
<1>2. \A hv \in T : hv[1] # f
  BY DEF HasField
<1>3. Merge(T, {<<f, v>>}) = T \cup {<<f, v>>}
  BY <1>1, <1>2 DEF Merge
<1>4. Merge(T \cup {<<f, w>>}, {<<f, v>>}) = T \cup {<<f, v>>}
  BY <1>1, <1>2 DEF Merge
<1> QED
  BY <1>3, <1>4 DEF Adds, Replaces

\* The patterns for two dependencies, of which tests above may have either.
AreUnseen(pats, all, pat, d, e) ==
  /\ pats \in Seq(Patterns)
  /\ \A i \in DOMAIN pats : pats[i] \in {Merge(pat, {d}), Merge(pat, {e})}
  /\ d \notin all => \E i \in DOMAIN pats : pats[i] = Merge(pat, {d})
  /\ e \notin all => \E i \in DOMAIN pats : pats[i] = Merge(pat, {e})

LEMMA UnseenAre ==
  ASSUME NEW all, NEW pat, NEW d, NEW e, Merge(pat, {d}) \in Patterns, Merge(pat, {e}) \in Patterns
  PROVE  AreUnseen(AddDependencyIfUnseen(all, pat, d) \o AddDependencyIfUnseen(all, pat, e),
                   all, pat, d, e)
<1> DEFINE pats == AddDependencyIfUnseen(all, pat, d) \o AddDependencyIfUnseen(all, pat, e)
           a == Merge(pat, {d})
           b == Merge(pat, {e})
<1> SUFFICES AreUnseen(pats, all, pat, d, e)
  OBVIOUS
<1>1. pats = (IF d \in all THEN <<>> ELSE <<a>>) \o (IF e \in all THEN <<>> ELSE <<b>>)
  BY DEF AddDependencyIfUnseen
<1>2. a \in Patterns /\ b \in Patterns
  OBVIOUS
<1> HIDE DEF pats, a, b
<1>3. CASE d \in all /\ e \in all
  <2>1. pats = <<>>
    BY <1>1, <1>3
  <2> QED
    BY <1>3, <2>1 DEF a, b, AreUnseen
<1>4. CASE d \notin all /\ e \in all
  <2>1. pats = <<a>>
    BY <1>1, <1>2, <1>4
  <2>2. pats \in Seq(Patterns) /\ DOMAIN pats = {1} /\ pats[1] = a
    BY <1>2, <2>1
  <2> QED
    BY <1>4, <2>2 DEF a, b, AreUnseen
<1>5. CASE d \in all /\ e \notin all
  <2>1. pats = <<b>>
    BY <1>1, <1>2, <1>5
  <2>2. pats \in Seq(Patterns) /\ DOMAIN pats = {1} /\ pats[1] = b
    BY <1>2, <2>1
  <2> QED
    BY <1>5, <2>2 DEF a, b, AreUnseen
<1>6. CASE d \notin all /\ e \notin all
  <2>1. pats = <<a>> \o <<b>> /\ <<a>> \in Seq(Patterns) /\ <<b>> \in Seq(Patterns)
    BY <1>1, <1>2, <1>6
  <2>2. DOMAIN pats = 1..2 /\ pats[1] = a /\ pats[2] = b
    BY <2>1
  <2>3. pats \in Seq(Patterns)
    BY <2>1
  <2> QED
    BY <1>6, <2>2, <2>3 DEF a, b, AreUnseen
<1> QED
  BY <1>3, <1>4, <1>5, <1>6

\* fill_in_dependencies makes such patterns.
LEMMA FillInIs == ASSUME NEW T \in SUBSET Tests, NEW all PROVE AreFilled(FillInDependencies(all, T), T, all)
<1> DEFINE pats == FillInDependencies(all, T)
           pat == Folded(all, T)
           ip == <<"EthType", Ip>>
           arp == <<"EthType", Arp>>
           tcp == <<"IPProto", Tcp>>
           udp == <<"IPProto", Udp>>
<1> SUFFICES AreFilled(pats, T, all)
  OBVIOUS
<1>0. \A S \in SUBSET Deps : T \cup S \in Patterns
  BY DEF Patterns
<1>1. CASE Lacks(T, "IP4Dst", "EthType")
  <2>1. ~ HasField(T, "EthType")
    BY <1>1 DEF Lacks
  <2>2. /\ Merge(T, {ip}) = T \cup {ip} /\ Merge(T, {arp}) = T \cup {arp}
        /\ Merge(T \cup {ip}, {ip}) = T \cup {ip} /\ Merge(T \cup {ip}, {arp}) = T \cup {arp}
    <3>1. /\ Adds(T, "EthType", Ip) /\ Adds(T, "EthType", Arp)
          /\ Replaces(T, "EthType", Ip, Ip) /\ Replaces(T, "EthType", Ip, Arp)
      BY <2>1, MergeAdds
    <3> QED
      BY <3>1 DEF Adds, Replaces
  <2>3. pat = T \/ pat = T \cup {ip}
    BY <2>2 DEF Folded
  <2>4. Merge(pat, {ip}) = T \cup {ip} /\ Merge(pat, {arp}) = T \cup {arp}
    <3> HIDE DEF pat
    <3> QED
      BY <2>2, <2>3
  <2>5. pats = AddDependencyIfUnseen(all, pat, ip) \o AddDependencyIfUnseen(all, pat, arp)
    BY <1>1 DEF FillInDependencies
  <2>6. T \cup {ip} \in Patterns /\ T \cup {arp} \in Patterns
    BY <1>0 DEF Deps
  <2> HIDE DEF pats, pat, ip, arp
  <2>7. /\ pats \in Seq(Patterns)
        /\ \A i \in DOMAIN pats : pats[i] \in {T \cup {ip}, T \cup {arp}}
        /\ ip \notin all => \E i \in DOMAIN pats : pats[i] = T \cup {ip}
        /\ arp \notin all => \E i \in DOMAIN pats : pats[i] = T \cup {arp}
    <3>1. Merge(pat, {ip}) \in Patterns /\ Merge(pat, {arp}) \in Patterns
      BY <2>4, <2>6
    <3>2. AreUnseen(AddDependencyIfUnseen(all, pat, ip) \o AddDependencyIfUnseen(all, pat, arp),
                    all, pat, ip, arp)
      BY <3>1, UnseenAre
    <3>3. AreUnseen(pats, all, pat, ip, arp)
      BY <2>5, <3>2
    <3> QED
      BY <2>4, <3>3 DEF AreUnseen
  <2> QED
    BY <1>1, <2>7 DEF AreFilled, Deps, ip, arp
<1>2. CASE ~ Lacks(T, "IP4Dst", "EthType") /\ Lacks(T, "IPProto", "EthType")
  <2>1. ~ HasField(T, "EthType") /\ HasField(T, "IPProto")
    BY <1>2 DEF Lacks
  <2>2. pat = T
    BY <2>1 DEF Folded, Lacks
  <2>3. Merge(pat, {ip}) = T \cup {ip}
    <3>1. Adds(T, "EthType", Ip)
      BY <2>1, MergeAdds
    <3> QED
      BY <2>2, <3>1 DEF Adds
  <2>4. pats = AddDependencyIfUnseen(all, pat, ip)
    BY <1>2 DEF FillInDependencies
  <2>5. T \cup {ip} \in Patterns
    BY <1>0 DEF Deps
  <2>6. ~ Lacks(T, "TCPDstPort", "IPProto")
    BY <2>1 DEF Lacks
  <2>7. CASE ip \in all
    <3>1. pats = <<>>
      BY <2>4, <2>7 DEF AddDependencyIfUnseen
    <3> QED
      BY <1>2, <2>7, <3>1 DEF AreFilled
  <2>8. CASE ip \notin all
    <3>1. pats = <<T \cup {ip}>>
      BY <2>3, <2>4, <2>8 DEF AddDependencyIfUnseen
    <3>2. pats \in Seq(Patterns) /\ DOMAIN pats = {1} /\ pats[1] = T \cup {ip}
      BY <2>5, <3>1
    <3> HIDE DEF pats
    <3> QED
      BY <1>2, <2>6, <3>2 DEF AreFilled, Deps
  <2> QED
    BY <2>7, <2>8
<1>3. CASE /\ ~ Lacks(T, "IP4Dst", "EthType") /\ ~ Lacks(T, "IPProto", "EthType")
           /\ Lacks(T, "TCPDstPort", "IPProto")
  <2>1. ~ HasField(T, "IPProto")
    BY <1>3 DEF Lacks
  <2>2. PICK S \in {T, T \cup {ip}} : pat = S
    <3>1. ~ HasField(T, "EthType") => Adds(T, "EthType", Ip)
      BY MergeAdds
    <3> QED
      BY <3>1 DEF Folded, Adds
  <2>3. ~ HasField(S, "IPProto")
    BY <2>1 DEF HasField
  <2>4. Merge(pat, {tcp}) = S \cup {tcp} /\ Merge(pat, {udp}) = S \cup {udp}
    <3>1. Adds(S, "IPProto", Tcp) /\ Adds(S, "IPProto", Udp)
      BY <2>3, MergeAdds
    <3> QED
      BY <2>2, <3>1 DEF Adds
  <2>5. pats = AddDependencyIfUnseen(all, pat, tcp) \o AddDependencyIfUnseen(all, pat, udp)
    BY <1>3 DEF FillInDependencies
  <2>6. S \cup {tcp} \in Patterns /\ S \cup {udp} \in Patterns
    BY <2>2 DEF Patterns, Deps
  <2> HIDE DEF pats, pat, tcp, udp
  <2>7. /\ pats \in Seq(Patterns)
        /\ \A i \in DOMAIN pats : pats[i] \in {S \cup {tcp}, S \cup {udp}}
        /\ tcp \notin all => \E i \in DOMAIN pats : pats[i] = S \cup {tcp}
        /\ udp \notin all => \E i \in DOMAIN pats : pats[i] = S \cup {udp}
    <3>1. Merge(pat, {tcp}) \in Patterns /\ Merge(pat, {udp}) \in Patterns
      BY <2>4, <2>6
    <3>2. AreUnseen(AddDependencyIfUnseen(all, pat, tcp) \o AddDependencyIfUnseen(all, pat, udp),
                    all, pat, tcp, udp)
      BY <3>1, UnseenAre
    <3>3. AreUnseen(pats, all, pat, tcp, udp)
      BY <2>5, <3>2
    <3> QED
      BY <2>4, <3>3 DEF AreUnseen
  <2>8. \A i \in DOMAIN pats : T \subseteq pats[i] /\ pats[i] \subseteq T \cup Deps
    BY <2>7 DEF Deps, tcp, udp
  <2>9. ASSUME NEW type, NEW proto, type = Ip, proto \in {Tcp, Udp}, <<"IPProto", proto>> \notin all
        PROVE  \E i \in DOMAIN pats : pats[i] \subseteq T \cup {<<"EthType", type>>, <<"IPProto", proto>>}
    <3>1. PICK i \in DOMAIN pats : pats[i] = S \cup {<<"IPProto", proto>>}
      BY <2>7, <2>9 DEF tcp, udp
    <3> QED
      BY <2>9, <3>1
  <2> QED
    BY <1>3, <2>7, <2>8, <2>9 DEF AreFilled
<1>4. CASE /\ ~ Lacks(T, "IP4Dst", "EthType") /\ ~ Lacks(T, "IPProto", "EthType")
           /\ ~ Lacks(T, "TCPDstPort", "IPProto")
  <2>1. pats = <<T>>
    BY <1>4 DEF FillInDependencies
  <2>2. T \in Patterns
    BY DEF Patterns
  <2>3. pats \in Seq(Patterns) /\ DOMAIN pats = {1} /\ pats[1] = T
    BY <2>1, <2>2
  <2> HIDE DEF pats
  <2> QED
    BY <1>4, <2>3 DEF AreFilled
<1> QED
  BY <1>1, <1>2, <1>3, <1>4

\* No test above is for the type or protocol of the packet that the tests depend on.
Unspoken(T, all, k) ==
  \A d \in Dependencies : Lacks(T, d[1], d[2]) => <<d[2], k[d[2]]>> \notin all

\* The rows of a leaf match no packet that fails one of the tests, and serve the others,
\* but for packets of a type that a row above was for.
LEMMA MkFlowsIs ==
  ASSUME NEW o \in Ranks, NEW T \in SUBSET Tests, NEW all, NEW par \in Actions,
         NEW rows, rows = MkFlows(o, T, all, par)
  PROVE  /\ rows \in Seq(Rows)
         /\ ~ HasField(T, "Switch") => IsRepresentable(rows)
         /\ SomeBits => \A k \in Packets :
              /\ ~ PassesAll(k, T) => Misses(rows, k)
              /\ PassesAll(k, T) /\ Unspoken(T, all, k)
                   => Serves(o, rows, k, par)
<1> DEFINE pats == FillInDependencies(all, T)
           act == ToAction(o, T, par)
<1>1. rows = [i \in DOMAIN pats |-> [pattern |-> pats[i], action |-> act]]
  BY DEF MkFlows
<1>2. act \in RowActions
  <2>1. <<o, T, par>> \in Ranks \X (SUBSET Tests) \X Actions
    OBVIOUS
  <2> QED
    BY <2>1 DEF RowActions
<1>3. AreFilled(pats, T, all)
  BY FillInIs
<1> HIDE DEF pats
<1>4. /\ pats \in Seq(Patterns)
      /\ \A i \in DOMAIN pats : T \subseteq pats[i] /\ pats[i] \subseteq T \cup Deps
  BY <1>3 DEF AreFilled
<1> HIDE DEF act
<1>5. /\ DOMAIN rows = DOMAIN pats
      /\ \A i \in DOMAIN rows : rows[i].pattern = pats[i] /\ rows[i].action = act
  BY <1>1
<1>6. rows \in Seq(Rows)
  <2>1. DOMAIN pats = 1..Len(pats) /\ Len(pats) \in Nat /\ \A i \in DOMAIN pats : pats[i] \in Patterns
    BY <1>4
  <2>2. \A i \in 1..Len(pats) : [pattern |-> pats[i], action |-> act] \in Rows
    BY <1>2, <2>1 DEF Rows
  <2>3. rows \in [1..Len(pats) -> Rows]
    BY <1>1, <2>1, <2>2
  <2> QED
    BY <2>1, <2>3
<1>7. ASSUME ~ HasField(T, "Switch") PROVE IsRepresentable(rows)
  BY <1>4, <1>5, <1>7 DEF IsRepresentable, Representable, HasField, Deps
<1>8. ASSUME SomeBits, NEW k \in Packets
      PROVE  /\ ~ PassesAll(k, T) => Misses(rows, k)
             /\ PassesAll(k, T) /\ Unspoken(T, all, k)
                   => Serves(o, rows, k, par)
  <2>1. k \in AllPackets
    BY ConstantsAreTyped
  <2>2. \A hv \in T : Holds(hv, k) <=> Passes(k, hv)
    BY <1>8, <2>1, HoldsIs
  <2>3. ASSUME ~ PassesAll(k, T) PROVE Misses(rows, k)
    BY <1>4, <1>5, <2>2, <2>3 DEF Misses, Matches, PassesAll
  <2>4. ASSUME PassesAll(k, T), Unspoken(T, all, k)
        PROVE  Serves(o, rows, k, par)
    <3>1. \E i \in DOMAIN rows : Matches(rows[i].pattern, k)
      <4> DEFINE type == k["EthType"]
                 proto == k["IPProto"]
      <4>1. ASSUME NEW f, HasField(T, f) PROVE k[f] # Absent
        <5>1. PICK hv \in T : hv[1] = f
          BY <4>1 DEF HasField
        <5> QED
          BY <2>4, <5>1, TestParts, AbsentIsInNothing DEF PassesAll, Passes
      <4>2. Lacks(T, "IP4Dst", "EthType") => type \in {Ip, Arp} /\ <<"EthType", type>> \notin all
        BY <2>4, <4>1, TablesAreTyped DEF Lacks, Unspoken, Dependencies
      <4>3. Lacks(T, "IPProto", "EthType") => type = Ip /\ <<"EthType", type>> \notin all
        BY <2>4, <4>1, TablesAreTyped DEF Lacks, Unspoken, Dependencies
      <4>4. Lacks(T, "TCPDstPort", "IPProto") =>
              type = Ip /\ proto \in {Tcp, Udp} /\ <<"IPProto", proto>> \notin all
        BY <2>4, <4>1, TablesAreTyped DEF Lacks, Unspoken, Dependencies
      <4>5. ASSUME NEW f \in Fields PROVE LessEq(k[f], k[f])
        <5>1. k[f] = Absent \/ IsValue(k[f])
          BY <2>1, PacketValues
        <5>2. k[f].kind = "mask" => k[f].len \in Int
          BY <5>1, MaskFields, AbsentFields, PipeFields DEF IsValue
        <5> QED
          BY <5>2 DEF LessEq
      <4>6. Holds(<<"EthType", type>>, k) /\ Holds(<<"IPProto", proto>>, k)
        BY <4>5 DEF Holds, Fields
      <4>7. PICK i \in DOMAIN pats : pats[i] \subseteq T \cup {<<"EthType", type>>, <<"IPProto", proto>>}
        <5> HIDE DEF type, proto
        <5> QED
          BY <1>3, <4>2, <4>3, <4>4 DEF AreFilled
      <4>8. \A hv \in T : Holds(hv, k)
        BY <2>2, <2>4 DEF PassesAll
      <4>9. Matches(pats[i], k)
        BY <4>6, <4>7, <4>8 DEF Matches
      <4> QED
        BY <1>5, <4>9
    <3>2. PICK i \in DOMAIN rows : IsFirst(rows, k, i)
      BY <1>6, <3>1, FirstMatches
    <3>3. IsFor(o, par, k, rows[i].action)
      BY <1>5, <2>4 DEF IsFor, act
    <3> QED
      BY <3>2, <3>3 DEF Serves
  <2> QED
    BY <2>3, <2>4
<1> QED
  BY <1>6, <1>7, <1>8

---------------------------------------------------------------------------
(* naive_to_table. *)

\* A packet that came in by a port is in no pipe.
LEMMA NoPipePasses ==
  ASSUME NEW k, Arrived(k), NEW hv \in Tests, IsPipeTest(hv)
  PROVE  ~ Passes(k, hv)
  BY DEF Arrived, IsPipeTest, Passes, SubsetEq

\* What naive_to_table is called with, and the depth it descends by.
RowDomain == Ranks \X (SUBSET Tests) \X (SUBSET Tests) \X Diagrams
RowRank(x) == Depth(x[4])

\* naive_to_table, as a body of the recursion of Recursion.
NaiveBody(g, x) ==
  LET o == x[1]
      u == x[4]
      all1 == x[3] \cup {u.test}
  IN IF IsLeaf(u) THEN MkFlows(o, x[2], x[3], u.leaf)
     ELSE IF IsPipeTest(u.test) THEN g[<<o, x[2], x[3], u.fls>>]
     ELSE g[<<o, x[2] \cup {u.test}, all1, u.tru>>] \o g[<<o, x[2], all1, u.fls>>]
Naives == INSTANCE Recursion WITH Domain <- RowDomain, Rank <- RowRank, Body <- NaiveBody

\* The recursion of the table is on the depth of the diagram.
LEMMA RowsDescend ==
  ASSUME NEW x \in RowDomain, NEW T \in SUBSET Tests, NEW all \in SUBSET Tests
  PROVE  /\ RowRank(x) \in Nat
         /\ ~ IsLeaf(x[4]) =>
              /\ <<x[1], T, all, x[4].tru>> \in RowDomain /\ <<x[1], T, all, x[4].fls>> \in RowDomain
              /\ RowRank(<<x[1], T, all, x[4].tru>>) < RowRank(x)
              /\ RowRank(<<x[1], T, all, x[4].fls>>) < RowRank(x)
<1>1. x[1] \in Ranks /\ x[4] \in Diagrams
  BY DEF RowDomain
<1> QED
  BY <1>1, DiagramParts DEF RowDomain, RowRank

\* naive_to_table calls itself on the parts of a diagram only.
LEMMA NaiveDescends == Naives!Descends
<1>1. \A x \in RowDomain : RowRank(x) \in Nat
  BY RowsDescend
<1>2. ASSUME NEW x \in RowDomain, NEW p, NEW r, \A y \in RowDomain : RowRank(y) < RowRank(x) => p[y] = r[y]
      PROVE  NaiveBody(p, x) = NaiveBody(r, x)
  <2>1. CASE IsLeaf(x[4])
    BY <2>1 DEF NaiveBody
  <2>2. CASE ~ IsLeaf(x[4])
    <3> DEFINE hv == x[4].test
               T == x[2]
               all == x[3]
    <3>1. T \in SUBSET Tests /\ all \in SUBSET Tests /\ hv \in Tests
      BY <2>2, DiagramParts DEF RowDomain
    <3>2. \A S, B \in SUBSET Tests : /\ p[<<x[1], S, B, x[4].tru>>] = r[<<x[1], S, B, x[4].tru>>]
                                     /\ p[<<x[1], S, B, x[4].fls>>] = r[<<x[1], S, B, x[4].fls>>]
      BY <1>2, <2>2, RowsDescend
    <3>3. T \cup {hv} \in SUBSET Tests /\ all \cup {hv} \in SUBSET Tests
      BY <3>1
    <3> QED
      BY <2>2, <3>1, <3>2, <3>3 DEF NaiveBody
  <2> QED
    BY <2>1, <2>2
<1> QED
  BY <1>1, <1>2 DEF Naives!Descends

\* The rows of a diagram are those of its parts.
LEMMA NaiveRowsAre ==
  ASSUME NEW o \in Ranks, NEW T \in SUBSET Tests, NEW all \in SUBSET Tests, NEW u \in Diagrams
  PROVE  /\ IsLeaf(u) => NaiveRows(o, T, all, u) = MkFlows(o, T, all, u.leaf)
         /\ ~ IsLeaf(u) /\ IsPipeTest(u.test) => NaiveRows(o, T, all, u) = NaiveRows(o, T, all, u.fls)
         /\ ~ IsLeaf(u) /\ ~ IsPipeTest(u.test) =>
              NaiveRows(o, T, all, u) = NaiveRows(o, T \cup {u.test}, all \cup {u.test}, u.tru)
                                        \o NaiveRows(o, T, all \cup {u.test}, u.fls)
<1>1. naiveRows = Naives!f
  BY Zenon DEF naiveRows, Naives!f, NaiveBody, RowDomain
<1>2. <<o, T, all, u>> \in RowDomain
  BY DEF RowDomain
<1>3. \A x \in RowDomain : Naives!f[x] = NaiveBody(Naives!f, x)
  BY NaiveDescends, Naives!UnfoldsAt
<1>4. naiveRows[<<o, T, all, u>>] = NaiveBody(naiveRows, <<o, T, all, u>>)
  BY <1>1, <1>2, <1>3
<1> QED
  BY <1>4 DEF NaiveBody, NaiveRows

\* The rows match no packet that fails one of the tests above the diagram, and serve with
\* the value of the diagram those that pass these and fail all others seen so far.
NaivelyRight(o, T, all, u, rows) ==
  /\ rows \in Seq(Rows)
  /\ ~ HasField(T, "Switch") /\ ~ HasField(TestsOf(u), "Switch") => IsRepresentable(rows)
  /\ SomeBits => \A k \in Packets : Arrived(k) =>
       /\ ~ PassesAll(k, T) => Misses(rows, k)
       /\ PassesAll(k, T) /\ (\A hv \in all \ T : ~ Passes(k, hv)) => Serves(o, rows, k, Val(u, k))

\* The rows of a leaf serve the packets that pass the tests on the way to it.
LEMMA NaiveLeaf ==
  ASSUME NEW o \in Ranks, NEW T \in SUBSET Tests, NEW all \in SUBSET Tests,
         NEW u \in Diagrams, IsLeaf(u)
  PROVE  NaivelyRight(o, T, all, u, MkFlows(o, T, all, u.leaf))
<1> DEFINE rows == MkFlows(o, T, all, u.leaf)
<1>1. u.leaf \in Actions /\ \A k \in AllPackets : Val(u, k) = u.leaf
  BY DiagramParts, ValIs
<1>2. /\ rows \in Seq(Rows)
      /\ ~ HasField(T, "Switch") => IsRepresentable(rows)
      /\ SomeBits => \A k \in Packets :
           /\ ~ PassesAll(k, T) => Misses(rows, k)
           /\ PassesAll(k, T) /\ Unspoken(T, all, k)
                => Serves(o, rows, k, u.leaf)
  BY <1>1, MkFlowsIs
<1> HIDE DEF rows
<1>3. ASSUME NEW k \in Packets, Arrived(k), PassesAll(k, T), \A hv \in all \ T : ~ Passes(k, hv)
      PROVE  Unspoken(T, all, k)
  <2> SUFFICES ASSUME NEW d \in Dependencies, Lacks(T, d[1], d[2]), <<d[2], k[d[2]]>> \in all
               PROVE  FALSE
    BY DEF Unspoken
  <2> DEFINE hv == <<d[2], k[d[2]]>>
  <2>1. hv \notin T
    BY DEF Lacks, HasField
  <2>2. hv \in Tests /\ ~ Passes(k, hv)
    BY <1>3, <2>1
  <2>3. IsValue(k[d[2]])
    BY <2>2, TestParts
  <2>4. Passes(k, hv)
    BY <2>3, MaskFields, PipeFields DEF Passes, SubsetEq, IsValue
  <2> QED
    BY <2>2, <2>4
<1>4. \A k : Arrived(k) => k \in AllPackets
  BY DEF Arrived
<1>5. ASSUME SomeBits, NEW k \in Packets, Arrived(k)
      PROVE  /\ ~ PassesAll(k, T) => Misses(rows, k)
             /\ PassesAll(k, T) /\ (\A hv \in all \ T : ~ Passes(k, hv)) => Serves(o, rows, k, Val(u, k))
  BY <1>1, <1>2, <1>3, <1>4, <1>5
<1>6. NaivelyRight(o, T, all, u, rows)
  BY <1>2, <1>5 DEF NaivelyRight
<1> QED
  BY <1>6 DEF rows

\* The rows of a branch are those of the part for packets that pass its test, then the others'.
LEMMA NaiveBranch ==
  ASSUME NEW o, NEW T \in SUBSET Tests, NEW all \in SUBSET Tests, T \subseteq all,
         NEW u \in Diagrams, ~ IsLeaf(u), NEW s, NEW t,
         NaivelyRight(o, T \cup {u.test}, all \cup {u.test}, u.tru, s),
         NaivelyRight(o, T, all \cup {u.test}, u.fls, t)
  PROVE  NaivelyRight(o, T, all, u, s \o t)
<1> DEFINE hv == u.test
<1>1. s \in Seq(Rows) /\ t \in Seq(Rows)
  BY DEF NaivelyRight
<1> DEFINE rows == s \o t
<1>2. /\ rows \in Seq(Rows)
      /\ IsRepresentable(s) /\ IsRepresentable(t) => IsRepresentable(rows)
      /\ \A k : Misses(s, k) /\ Misses(t, k) => Misses(rows, k)
      /\ \A k, par : Serves(o, s, k, par) => Serves(o, rows, k, par)
      /\ \A k, par : Misses(s, k) /\ Serves(o, t, k, par) => Serves(o, rows, k, par)
  BY <1>1, TablesJoin
<1> HIDE DEF rows
<1>3. TestsOf(u) = {hv} \cup TestsOf(u.tru) \cup TestsOf(u.fls)
  BY TestsOfIs
<1>4. ASSUME ~ HasField(T, "Switch"), ~ HasField(TestsOf(u), "Switch") PROVE IsRepresentable(rows)
  <2>1. /\ ~ HasField(T \cup {hv}, "Switch") /\ ~ HasField(TestsOf(u.tru), "Switch")
        /\ ~ HasField(TestsOf(u.fls), "Switch")
    BY <1>3, <1>4 DEF HasField
  <2> QED
    BY <1>2, <1>4, <2>1 DEF NaivelyRight
<1>5. ASSUME SomeBits, NEW k \in Packets, Arrived(k)
      PROVE  /\ ~ PassesAll(k, T) => Misses(rows, k)
             /\ PassesAll(k, T) /\ (\A x \in all \ T : ~ Passes(k, x)) => Serves(o, rows, k, Val(u, k))
  <2>1. /\ ~ PassesAll(k, T \cup {hv}) => Misses(s, k)
        /\ PassesAll(k, T \cup {hv}) /\ (\A x \in (all \cup {hv}) \ (T \cup {hv}) : ~ Passes(k, x))
             => Serves(o, s, k, Val(u.tru, k))
        /\ ~ PassesAll(k, T) => Misses(t, k)
        /\ PassesAll(k, T) /\ (\A x \in (all \cup {hv}) \ T : ~ Passes(k, x)) => Serves(o, t, k, Val(u.fls, k))
    BY <1>5 DEF NaivelyRight
  <2>2. PassesAll(k, T \cup {hv}) <=> PassesAll(k, T) /\ Passes(k, hv)
    BY DEF PassesAll
  <2>3. k \in AllPackets
    BY <1>5 DEF Arrived
  <2>4. Val(u, k) = IF Passes(k, hv) THEN Val(u.tru, k) ELSE Val(u.fls, k)
    BY <2>3, ValIs
  <2> HIDE DEF hv
  <2>5. CASE ~ PassesAll(k, T)
    BY <1>2, <2>1, <2>2, <2>5
  <2>6. CASE PassesAll(k, T) /\ Passes(k, hv)
    BY <1>2, <2>1, <2>2, <2>4, <2>6
  <2>7. CASE PassesAll(k, T) /\ ~ Passes(k, hv)
    BY <1>2, <2>1, <2>2, <2>4, <2>7
  <2> QED
    BY <2>5, <2>6, <2>7
<1>6. NaivelyRight(o, T, all, u, rows)
  BY <1>2, <1>4, <1>5 DEF NaivelyRight
<1> QED
  BY <1>6 DEF rows

\* A test for a pipe is passed over.
LEMMA NaivePipe ==
  ASSUME NEW o, NEW T \in SUBSET Tests, NEW all \in SUBSET Tests,
         NEW u \in Diagrams, ~ IsLeaf(u), IsPipeTest(u.test), NEW t, NaivelyRight(o, T, all, u.fls, t)
  PROVE  NaivelyRight(o, T, all, u, t)
<1>1. TestsOf(u.fls) \subseteq TestsOf(u)
  BY TestsOfIs
<1>2. ~ HasField(TestsOf(u), "Switch") => ~ HasField(TestsOf(u.fls), "Switch")
  BY <1>1 DEF HasField
<1>3. \A k : Arrived(k) => Val(u, k) = Val(u.fls, k)
  BY NoPipePasses, ValIs, DiagramParts DEF Arrived
<1> QED
  BY <1>2, <1>3 DEF NaivelyRight

\* The table serves all packets.
LEMMA NaivesAreRight ==
  ASSUME NEW o \in Ranks, NEW u \in Diagrams, NEW T \in SUBSET Tests, NEW all \in SUBSET Tests, T \subseteq all
  PROVE  NaivelyRight(o, T, all, u, NaiveRows(o, T, all, u))
<1> DEFINE P(v) == \A S, B \in SUBSET Tests : S \subseteq B => NaivelyRight(o, S, B, v, NaiveRows(o, S, B, v))
           Z == {v \in Diagrams : P(v)}
<1>1. ASSUME NEW v \in Diagrams, IsLeaf(v) PROVE v \in Z
  <2> SUFFICES ASSUME NEW S \in SUBSET Tests, NEW B \in SUBSET Tests, S \subseteq B
               PROVE  NaivelyRight(o, S, B, v, NaiveRows(o, S, B, v))
    OBVIOUS
  <2> HIDE DEF P, Z
  <2>1. NaiveRows(o, S, B, v) = MkFlows(o, S, B, v.leaf)
    BY <1>1, NaiveRowsAre
  <2>2. NaivelyRight(o, S, B, v, MkFlows(o, S, B, v.leaf))
    BY <1>1, NaiveLeaf
  <2> QED
    BY <2>1, <2>2
<1>2. ASSUME NEW v \in Diagrams, ~ IsLeaf(v), v.tru \in Z, v.fls \in Z PROVE v \in Z
  <2> SUFFICES ASSUME NEW S \in SUBSET Tests, NEW B \in SUBSET Tests, S \subseteq B
               PROVE  NaivelyRight(o, S, B, v, NaiveRows(o, S, B, v))
    OBVIOUS
  <2> DEFINE hv == v.test
  <2>1. hv \in Tests
    BY <1>2, DiagramParts
  <2>2. S \cup {hv} \in SUBSET Tests /\ B \cup {hv} \in SUBSET Tests
        /\ S \cup {hv} \subseteq B \cup {hv} /\ S \subseteq B \cup {hv}
    BY <2>1
  <2>3. P(v.tru) /\ P(v.fls)
    BY <1>2
  <2>4. ~ IsLeaf(v)
    BY <1>2
  <2>5. CASE IsPipeTest(hv)
    <3>1. NaivelyRight(o, S, B, v.fls, NaiveRows(o, S, B, v.fls))
      BY <2>3
    <3>2. NaiveRows(o, S, B, v) = NaiveRows(o, S, B, v.fls)
      BY <2>4, <2>5, NaiveRowsAre
    <3>3. NaivelyRight(o, S, B, v, NaiveRows(o, S, B, v.fls))
      BY <2>4, <2>5, <3>1, NaivePipe
    <3> QED
      BY <3>2, <3>3
  <2>6. CASE ~ IsPipeTest(hv)
    <3> DEFINE s == NaiveRows(o, S \cup {hv}, B \cup {hv}, v.tru)
               t == NaiveRows(o, S, B \cup {hv}, v.fls)
    <3>1. NaivelyRight(o, S \cup {hv}, B \cup {hv}, v.tru, s)
      BY <2>2, <2>3
    <3>2. NaivelyRight(o, S, B \cup {hv}, v.fls, t)
      BY <2>2, <2>3
    <3>3. NaiveRows(o, S, B, v) = s \o t
      BY <2>4, <2>6, NaiveRowsAre
    <3> HIDE DEF s, t, P, Z
    <3>4. NaivelyRight(o, S, B, v, s \o t)
      BY <2>4, <3>1, <3>2, NaiveBranch
    <3> QED
      BY <3>3, <3>4
  <2> QED
    BY <2>5, <2>6
<1>3. Diagrams \subseteq Z
  <2> HIDE DEF Z
  <2> QED
    BY <1>1, <1>2, DiagramsInduce
<1> QED
  BY <1>3

---------------------------------------------------------------------------
(* opt_to_table. *)

\* The size of a diagram, as a tree.
NodesBody(g, u) == IF IsLeaf(u) THEN 1 ELSE 1 + g[u.tru] + g[u.fls]
NodeCounts == INSTANCE Recursion WITH Domain <- Diagrams, Rank <- Depth, Body <- NodesBody
Nodes(u) == NodeCounts!f[u]

\* A branch has more nodes than its parts together.
LEMMA NodesAre ==
  ASSUME NEW u \in Diagrams
  PROVE  /\ Nodes(u) \in Nat
         /\ ~ IsLeaf(u) => /\ Nodes(u) = 1 + Nodes(u.tru) + Nodes(u.fls)
                           /\ Nodes(u.tru) \in Nat /\ Nodes(u.fls) \in Nat
<1>1. NodeCounts!Descends
  <2>1. \A x \in Diagrams : Depth(x) \in Nat
    BY DiagramParts
  <2>2. ASSUME NEW x \in Diagrams, NEW g, NEW h, \A y \in Diagrams : Depth(y) < Depth(x) => g[y] = h[y]
        PROVE  NodesBody(g, x) = NodesBody(h, x)
    BY <2>2, DiagramParts DEF NodesBody
  <2> QED
    BY <2>1, <2>2 DEF NodeCounts!Descends
<1>2. \A x \in Diagrams : Nodes(x) = IF IsLeaf(x) THEN 1 ELSE 1 + Nodes(x.tru) + Nodes(x.fls)
  BY <1>1, NodeCounts!UnfoldsAt DEF NodesBody, Nodes
<1> DEFINE S == {x \in Diagrams : Nodes(x) \in Nat}
<1>3. ASSUME NEW x \in Diagrams, IsLeaf(x) PROVE x \in S
  BY <1>2, <1>3
<1>4. ASSUME NEW x \in Diagrams, ~ IsLeaf(x), x.tru \in S, x.fls \in S PROVE x \in S
  BY <1>2, <1>4
<1>5. Diagrams \subseteq S
  <2> HIDE DEF S
  <2> QED
    BY <1>3, <1>4, DiagramsInduce
<1> QED
  BY <1>2, <1>5, DiagramParts

NextBody(g, x) ==
  LET o == x[1]
      u == x[4]
      next == g[<<o, x[2] \cup {u.test}, x[3] \cup {u.test}, u.tru>>]
  IN IF IsLeaf(u)
     THEN [rows |-> MkFlows(o, x[2], x[3], u.leaf), rest |-> <<>>, all |-> x[3]]
     ELSE IF IsPipeTest(u.test) THEN g[<<o, x[2], x[3], u.fls>>]
     ELSE [next EXCEPT !.rest = IF @ = <<>> THEN <<u.fls>> ELSE <<MkBranch(u.test, @[1], u.fls)>>]
Nexts == INSTANCE Recursion WITH Domain <- RowDomain, Rank <- RowRank, Body <- NextBody

\* The recursion of the first row is on the depth of the diagram.
LEMMA NextDescends == Nexts!Descends
<1>1. \A x \in RowDomain : RowRank(x) \in Nat
  BY RowsDescend
<1>2. ASSUME NEW x \in RowDomain, NEW p, NEW r, \A y \in RowDomain : RowRank(y) < RowRank(x) => p[y] = r[y]
      PROVE  NextBody(p, x) = NextBody(r, x)
  <2>1. CASE IsLeaf(x[4])
    BY <2>1 DEF NextBody
  <2>2. CASE ~ IsLeaf(x[4])
    <3> DEFINE hv == x[4].test
               T == x[2]
               all == x[3]
    <3>1. T \in SUBSET Tests /\ all \in SUBSET Tests /\ hv \in Tests
      BY <2>2, DiagramParts DEF RowDomain
    <3>2. \A S, B \in SUBSET Tests : /\ p[<<x[1], S, B, x[4].tru>>] = r[<<x[1], S, B, x[4].tru>>]
                                     /\ p[<<x[1], S, B, x[4].fls>>] = r[<<x[1], S, B, x[4].fls>>]
      BY <1>2, <2>2, RowsDescend
    <3>3. T \cup {hv} \in SUBSET Tests /\ all \cup {hv} \in SUBSET Tests
      BY <3>1
    <3> DEFINE a == p[<<x[1], T \cup {hv}, all \cup {hv}, x[4].tru>>]
               b == r[<<x[1], T \cup {hv}, all \cup {hv}, x[4].tru>>]
               c == p[<<x[1], T, all, x[4].fls>>]
               d == r[<<x[1], T, all, x[4].fls>>]
               with(n) == [n EXCEPT !.rest = IF @ = <<>> THEN <<x[4].fls>> ELSE <<MkBranch(hv, @[1], x[4].fls)>>]
    <3>4. a = b /\ c = d
      BY <3>1, <3>2, <3>3
    <3>5. NextBody(p, x) = IF IsPipeTest(hv) THEN c ELSE with(a)
      BY <2>2 DEF NextBody
    <3>6. NextBody(r, x) = IF IsPipeTest(hv) THEN d ELSE with(b)
      BY <2>2 DEF NextBody
    <3> HIDE DEF a, b, c, d, with
    <3> QED
      BY <3>4, <3>5, <3>6
  <2> QED
    BY <2>1, <2>2
<1> QED
  BY <1>1, <1>2 DEF Nexts!Descends

\* A leaf leaves nothing to do.
LastRow(o, T, all, u) == [rows |-> MkFlows(o, T, all, u.leaf), rest |-> <<>>, all |-> all]

\* A branch, whose row is that of its true part, leaves its false part to do as well.
WithFalse(next, u) ==
  [next EXCEPT !.rest = IF @ = <<>> THEN <<u.fls>> ELSE <<MkBranch(u.test, @[1], u.fls)>>]

\* The row of a branch is that of one of its parts.
LEMMA NextRowIs ==
  ASSUME NEW o \in Ranks, NEW T \in SUBSET Tests, NEW all \in SUBSET Tests, NEW u \in Diagrams
  PROVE  /\ IsLeaf(u) => NextRow(o, T, all, u) = LastRow(o, T, all, u)
         /\ ~ IsLeaf(u) /\ IsPipeTest(u.test) => NextRow(o, T, all, u) = NextRow(o, T, all, u.fls)
         /\ ~ IsLeaf(u) /\ ~ IsPipeTest(u.test) =>
              NextRow(o, T, all, u) = WithFalse(NextRow(o, T \cup {u.test}, all \cup {u.test}, u.tru), u)
<1>1. nextRow = Nexts!f
  BY Zenon DEF nextRow, Nexts!f, NextBody, RowDomain
<1>2. <<o, T, all, u>> \in RowDomain
  BY DEF RowDomain
<1>3. \A x \in RowDomain : Nexts!f[x] = NextBody(Nexts!f, x)
  BY NextDescends, Nexts!UnfoldsAt
<1>4. nextRow[<<o, T, all, u>>] = NextBody(nextRow, <<o, T, all, u>>)
  BY <1>1, <1>2, <1>3
<1> QED
  BY <1>4 DEF NextBody, NextRow, WithFalse, LastRow

\* A diagram within another: no deeper, with no other tests, and of fewer nodes.
Smaller(w, u) ==
  /\ w \in Diagrams
  /\ \A n \in 0..Cardinality(Tests) : u \in diagramsUpTo[n] => w \in diagramsUpTo[n]
  /\ TestsOf(w) \subseteq TestsOf(u)
  /\ Nodes(w) < Nodes(u)

\* The false part of a branch is smaller, and so is the branch when its true part is.
LEMMA PartsAreSmaller ==
  ASSUME NEW u \in Diagrams, ~ IsLeaf(u)
  PROVE  /\ Smaller(u.fls, u)
         /\ \A w : Smaller(w, u.fls) => Smaller(w, u)
         /\ \A w : Smaller(w, u.tru) => Smaller(MkBranch(u.test, w, u.fls), u)
<1>1. Cardinality(Tests) \in Nat /\ Diagrams = diagramsUpTo[Cardinality(Tests)]
  BY DepthOfDiagrams
<1>2. /\ u.test \in Tests /\ u.tru \in Diagrams /\ u.fls \in Diagrams
      /\ TestsOf(u) = {u.test} \cup TestsOf(u.tru) \cup TestsOf(u.fls)
      /\ Nodes(u) = 1 + Nodes(u.tru) + Nodes(u.fls) /\ Nodes(u.tru) \in Nat /\ Nodes(u.fls) \in Nat
  BY DiagramParts, TestsOfIs, NodesAre
<1>3. ASSUME NEW n \in 0..Cardinality(Tests), u \in diagramsUpTo[n]
      PROVE  /\ n - 1 \in 0..Cardinality(Tests) /\ n - 1 \in Nat /\ (n - 1) + 1 = n
             /\ u.tru \in diagramsUpTo[n - 1] /\ u.fls \in diagramsUpTo[n - 1]
             /\ diagramsUpTo[n - 1] \subseteq diagramsUpTo[n]
  <2>1. n \in Nat /\ n # 0 /\ u.tru \in diagramsUpTo[n - 1] /\ u.fls \in diagramsUpTo[n - 1]
    BY <1>1, <1>3, TreeParts
  <2>2. n - 1 \in Nat /\ n - 1 <= n
    BY <2>1
  <2> QED
    BY <1>1, <2>1, <2>2, LevelsGrow
<1>4. Smaller(u.fls, u)
  BY <1>2, <1>3 DEF Smaller
<1>5. ASSUME NEW w, Smaller(w, u.fls) PROVE Smaller(w, u)
  BY <1>2, <1>3, <1>5, NodesAre DEF Smaller
<1>6. ASSUME NEW w, Smaller(w, u.tru) PROVE Smaller(MkBranch(u.test, w, u.fls), u)
  <2> DEFINE v == MkBranch(u.test, w, u.fls)
  <2>1. w \in Diagrams /\ Nodes(w) \in Nat /\ Nodes(w) < Nodes(u.tru) /\ TestsOf(w) \subseteq TestsOf(u.tru)
    BY <1>6, NodesAre DEF Smaller
  <2>2. CASE w = u.fls
    <3>1. v = u.fls
      BY <2>2, MkBranchIs
    <3> QED
      BY <1>4, <3>1
  <2>3. CASE w # u.fls
    <3>1. v = Branch(u.test, w, u.fls)
      BY <2>3, MkBranchIs
    <3>2. ~ IsLeaf(v) /\ v.test = u.test /\ v.tru = w /\ v.fls = u.fls
      BY <3>1, BranchesAreNoLeaves
    <3>3. ASSUME NEW n \in 0..Cardinality(Tests), u \in diagramsUpTo[n] PROVE v \in diagramsUpTo[n]
      <4>1. w \in diagramsUpTo[n - 1] /\ u.fls \in diagramsUpTo[n - 1] /\ n - 1 \in Nat /\ (n - 1) + 1 = n
        BY <1>3, <1>6, <3>3 DEF Smaller
      <4>2. v \in DiagramsOver(diagramsUpTo[n - 1])
        BY <1>2, <3>1, <4>1, DiagramsOverIs
      <4> QED
        BY <4>1, <4>2, LevelsUnfold
    <3>4. v \in Diagrams
      BY <1>1, <3>3
    <3> HIDE DEF v
    <3>5. TestsOf(v) = {u.test} \cup TestsOf(w) \cup TestsOf(u.fls) /\ Nodes(v) = 1 + Nodes(w) + Nodes(u.fls)
      BY <3>2, <3>4, TestsOfIs, NodesAre
    <3>6. Smaller(v, u)
      BY <1>2, <2>1, <3>3, <3>4, <3>5 DEF Smaller
    <3> QED
      BY <3>6 DEF v
  <2> QED
    BY <2>2, <2>3
<1> QED
  BY <1>4, <1>5, <1>6

\* The row matches no packet that fails one of the tests above the diagram.  One that passes
\* these is served with the diagram's value by the row or left to the rest of the diagram.
NextRight(o, T, all, u, r) ==
  /\ r = [rows |-> r.rows, rest |-> r.rest, all |-> r.all]
  /\ r.rows \in Seq(Rows)
  /\ ~ HasField(T, "Switch") /\ ~ HasField(TestsOf(u), "Switch") => IsRepresentable(r.rows)
  /\ r.all \subseteq all \cup TestsOf(u)
  /\ r.rest = <<>> \/ \E w : r.rest = <<w>> /\ Smaller(w, u)
  /\ SomeBits => \A k \in Packets : Arrived(k) =>
       /\ ~ PassesAll(k, T) => Misses(r.rows, k)
       /\ PassesAll(k, T) /\ ~ Confusable(T \cup all \cup TestsOf(u), k) =>
            \/ Serves(o, r.rows, k, Val(u, k))
            \/ Misses(r.rows, k) /\ r.rest # <<>> /\ Val(r.rest[1], k) = Val(u, k)

\* Fewer tests confuse fewer packets.
LEMMA ConfusesLess ==
  ASSUME NEW S, NEW T, S \subseteq T, NEW k, Confusable(S, k)
  PROVE  Confusable(T, k)
  BY DEF Confusable, HasField

\* The next row of a leaf serves all packets and leaves nothing to do.
LEMMA NextLeaf ==
  ASSUME NEW o \in Ranks, NEW T \in SUBSET Tests, NEW all \in SUBSET Tests, NEW u \in Diagrams, IsLeaf(u)
  PROVE  NextRight(o, T, all, u, LastRow(o, T, all, u))
<1> DEFINE rows == MkFlows(o, T, all, u.leaf)
           r == LastRow(o, T, all, u)
<1>1. u.leaf \in Actions /\ \A k \in AllPackets : Val(u, k) = u.leaf
  BY DiagramParts, ValIs
<1>2. /\ rows \in Seq(Rows)
      /\ ~ HasField(T, "Switch") => IsRepresentable(rows)
      /\ SomeBits => \A k \in Packets :
           /\ ~ PassesAll(k, T) => Misses(rows, k)
           /\ PassesAll(k, T) /\ Unspoken(T, all, k)
                => Serves(o, rows, k, u.leaf)
  BY <1>1, MkFlowsIs
<1> HIDE DEF rows
<1>3. ASSUME NEW k \in Packets, PassesAll(k, T), ~ Confusable(T \cup all \cup TestsOf(u), k)
      PROVE  Unspoken(T, all, k)
  <2> SUFFICES ASSUME NEW d \in Dependencies, Lacks(T, d[1], d[2]), <<d[2], k[d[2]]>> \in all
               PROVE  FALSE
    BY DEF Unspoken
  <2>1. PICK hv \in T : hv[1] = d[1]
    BY DEF Lacks, HasField
  <2>2. k[d[1]] # Absent
    BY <1>3, <2>1, TestParts, AbsentIsInNothing DEF PassesAll, Passes
  <2>3. HasField(T \cup all \cup TestsOf(u), d[1])
    BY <2>1 DEF HasField
  <2> QED
    BY <1>3, <2>2, <2>3 DEF Confusable
<1>4. ASSUME SomeBits, NEW k \in Packets, Arrived(k)
      PROVE  /\ ~ PassesAll(k, T) => Misses(rows, k)
             /\ PassesAll(k, T) /\ ~ Confusable(T \cup all \cup TestsOf(u), k) => Serves(o, rows, k, Val(u, k))
  <2>1. Val(u, k) = u.leaf
    BY <1>1, <1>4 DEF Arrived
  <2> QED
    BY <1>2, <1>3, <1>4, <2>1
<1>5. r.rows = rows /\ r.rest = <<>> /\ r.all = all
  BY DEF LastRow, rows
<1>6. r = [rows |-> r.rows, rest |-> r.rest, all |-> r.all]
  BY DEF LastRow
<1> HIDE DEF r
<1>7. NextRight(o, T, all, u, r)
  BY <1>2, <1>4, <1>5, <1>6 DEF NextRight
<1> QED
  BY <1>7 DEF r, rows

\* The next row where a pipe is tested is the next row of the false part.
LEMMA NextPipe ==
  ASSUME NEW o, NEW T \in SUBSET Tests, NEW all \in SUBSET Tests,
         NEW u \in Diagrams, ~ IsLeaf(u), IsPipeTest(u.test), NEW r, NextRight(o, T, all, u.fls, r)
  PROVE  NextRight(o, T, all, u, r)
<1>1. TestsOf(u.fls) \subseteq TestsOf(u)
  BY TestsOfIs
<1>2. ~ HasField(TestsOf(u), "Switch") => ~ HasField(TestsOf(u.fls), "Switch")
  BY <1>1 DEF HasField
<1>3. \A k : Arrived(k) => Val(u, k) = Val(u.fls, k)
  BY NoPipePasses, ValIs, DiagramParts DEF Arrived
<1>4. \A k : ~ Confusable(T \cup all \cup TestsOf(u), k) => ~ Confusable(T \cup all \cup TestsOf(u.fls), k)
  BY <1>1 DEF Confusable, HasField
<1>5. \A w : Smaller(w, u.fls) => Smaller(w, u)
  BY PartsAreSmaller
<1> QED
  BY <1>1, <1>2, <1>3, <1>4, <1>5 DEF NextRight

\* The next row of a branch is that of its true part: the false part is left to do.
LEMMA NextBranch ==
  ASSUME NEW o, NEW T \in SUBSET Tests, NEW all \in SUBSET Tests,
         NEW u \in Diagrams, ~ IsLeaf(u), NEW next,
         NextRight(o, T \cup {u.test}, all \cup {u.test}, u.tru, next)
  PROVE  NextRight(o, T, all, u, WithFalse(next, u))
<1> DEFINE hv == u.test
           w == IF next.rest = <<>> THEN u.fls ELSE MkBranch(hv, next.rest[1], u.fls)
           r == WithFalse(next, u)
<1>1. next = [rows |-> next.rows, rest |-> next.rest, all |-> next.all]
  BY DEF NextRight
<1>2. r = [rows |-> next.rows, rest |-> <<w>>, all |-> next.all]
  BY <1>1 DEF WithFalse
<1> HIDE DEF r
<1>3. r.rows = next.rows /\ r.rest = <<w>> /\ r.all = next.all /\ r.rest[1] = w /\ r.rest # <<>>
  BY <1>2
<1>4. r = [rows |-> r.rows, rest |-> r.rest, all |-> r.all]
  BY <1>2
<1>5. hv \in Tests /\ u.tru \in Diagrams /\ u.fls \in Diagrams
      /\ TestsOf(u) = {hv} \cup TestsOf(u.tru) \cup TestsOf(u.fls)
  BY DiagramParts, TestsOfIs
<1>6. next.rest # <<>> => Smaller(next.rest[1], u.tru)
  BY DEF NextRight
<1>7. Smaller(w, u)
  BY <1>6, PartsAreSmaller
<1>8. ASSUME ~ HasField(T, "Switch"), ~ HasField(TestsOf(u), "Switch") PROVE IsRepresentable(next.rows)
  <2>1. ~ HasField(T \cup {hv}, "Switch") /\ ~ HasField(TestsOf(u.tru), "Switch")
    BY <1>5, <1>8 DEF HasField
  <2> QED
    BY <2>1 DEF NextRight
<1>9. next.all \subseteq all \cup TestsOf(u)
  BY <1>5 DEF NextRight
<1>10. ASSUME NEW k \in AllPackets
       PROVE  Val(w, k) = IF next.rest # <<>> /\ Passes(k, hv) THEN Val(next.rest[1], k) ELSE Val(u.fls, k)
  <2>1. CASE next.rest = <<>>
    BY <2>1
  <2>2. CASE next.rest # <<>>
    <3>1. w = MkBranch(hv, next.rest[1], u.fls) /\ w \in Diagrams
      BY <1>7, <2>2 DEF Smaller
    <3> HIDE DEF w
    <3> QED
      BY <1>5, <2>2, <3>1, BranchVal
  <2> QED
    BY <2>1, <2>2
<1> HIDE DEF w
<1>11. ASSUME SomeBits, NEW k \in Packets, Arrived(k)
       PROVE  /\ ~ PassesAll(k, T) => Misses(next.rows, k)
              /\ PassesAll(k, T) /\ ~ Confusable(T \cup all \cup TestsOf(u), k) =>
                   \/ Serves(o, next.rows, k, Val(u, k))
                   \/ Misses(next.rows, k) /\ Val(w, k) = Val(u, k)
  <2> DEFINE B == (T \cup {hv}) \cup (all \cup {hv}) \cup TestsOf(u.tru)
  <2>1. /\ ~ PassesAll(k, T \cup {hv}) => Misses(next.rows, k)
        /\ PassesAll(k, T \cup {hv}) /\ ~ Confusable(B, k) =>
             \/ Serves(o, next.rows, k, Val(u.tru, k))
             \/ Misses(next.rows, k) /\ next.rest # <<>> /\ Val(next.rest[1], k) = Val(u.tru, k)
    BY <1>11 DEF NextRight
  <2>2. PassesAll(k, T \cup {hv}) <=> PassesAll(k, T) /\ Passes(k, hv)
    BY DEF PassesAll
  <2>3. k \in AllPackets
    BY <1>11 DEF Arrived
  <2>4. Val(u, k) = IF Passes(k, hv) THEN Val(u.tru, k) ELSE Val(u.fls, k)
    BY <2>3, ValIs
  <2>5. ~ Confusable(T \cup all \cup TestsOf(u), k) => ~ Confusable(B, k)
    <3>1. B \subseteq T \cup all \cup TestsOf(u)
      BY <1>5
    <3> HIDE DEF B
    <3> QED
      BY <3>1, ConfusesLess
  <2>6. Val(w, k) = IF next.rest # <<>> /\ Passes(k, hv) THEN Val(next.rest[1], k) ELSE Val(u.fls, k)
    BY <1>10, <2>3
  <2> HIDE DEF hv, B
  <2>7. CASE ~ PassesAll(k, T)
    BY <2>1, <2>2, <2>7
  <2>8. CASE PassesAll(k, T) /\ Passes(k, hv)
    BY <2>1, <2>2, <2>4, <2>5, <2>6, <2>8
  <2>9. CASE PassesAll(k, T) /\ ~ Passes(k, hv)
    BY <2>1, <2>2, <2>4, <2>6, <2>9
  <2> QED
    BY <2>7, <2>8, <2>9
<1>12. next.rows \in Seq(Rows)
  BY DEF NextRight
<1>13. NextRight(o, T, all, u, r)
  BY <1>3, <1>4, <1>7, <1>8, <1>9, <1>11, <1>12 DEF NextRight
<1> QED
  BY <1>13 DEF r

\* The first row, and what it leaves to do.
LEMMA NextsAreRight ==
  ASSUME NEW o \in Ranks, NEW u \in Diagrams, NEW T \in SUBSET Tests, NEW all \in SUBSET Tests
  PROVE  NextRight(o, T, all, u, NextRow(o, T, all, u))
<1> DEFINE P(v) == \A S, B \in SUBSET Tests : NextRight(o, S, B, v, NextRow(o, S, B, v))
           Z == {v \in Diagrams : P(v)}
<1>1. ASSUME NEW v \in Diagrams, IsLeaf(v) PROVE v \in Z
  <2> SUFFICES ASSUME NEW S \in SUBSET Tests, NEW B \in SUBSET Tests
               PROVE  NextRight(o, S, B, v, NextRow(o, S, B, v))
    OBVIOUS
  <2> HIDE DEF P, Z
  <2>1. NextRow(o, S, B, v) = LastRow(o, S, B, v)
    BY <1>1, NextRowIs
  <2>2. NextRight(o, S, B, v, LastRow(o, S, B, v))
    BY <1>1, NextLeaf
  <2> QED
    BY <2>1, <2>2
<1>2. ASSUME NEW v \in Diagrams, ~ IsLeaf(v), v.tru \in Z, v.fls \in Z PROVE v \in Z
  <2> SUFFICES ASSUME NEW S \in SUBSET Tests, NEW B \in SUBSET Tests
               PROVE  NextRight(o, S, B, v, NextRow(o, S, B, v))
    OBVIOUS
  <2> DEFINE hv == v.test
  <2>1. hv \in Tests
    BY <1>2, DiagramParts
  <2>2. S \cup {hv} \in SUBSET Tests /\ B \cup {hv} \in SUBSET Tests
    BY <2>1
  <2>3. P(v.tru) /\ P(v.fls)
    BY <1>2
  <2>4. ~ IsLeaf(v)
    BY <1>2
  <2>5. CASE IsPipeTest(hv)
    <3>1. NextRight(o, S, B, v.fls, NextRow(o, S, B, v.fls))
      BY <2>3
    <3>2. NextRow(o, S, B, v) = NextRow(o, S, B, v.fls)
      BY <2>4, <2>5, NextRowIs
    <3>3. NextRight(o, S, B, v, NextRow(o, S, B, v.fls))
      BY <2>4, <2>5, <3>1, NextPipe
    <3> QED
      BY <3>2, <3>3
  <2>6. CASE ~ IsPipeTest(hv)
    <3> DEFINE next == NextRow(o, S \cup {hv}, B \cup {hv}, v.tru)
               r == WithFalse(next, v)
    <3>1. NextRight(o, S \cup {hv}, B \cup {hv}, v.tru, next)
      BY <2>2, <2>3
    <3>2. NextRow(o, S, B, v) = r
      BY <2>4, <2>6, NextRowIs
    <3> HIDE DEF next, P, Z
    <3>3. NextRight(o, S, B, v, r)
      BY <2>4, <3>1, NextBranch
    <3> HIDE DEF r
    <3> QED
      BY <3>2, <3>3
  <2> QED
    BY <2>5, <2>6
<1>3. Diagrams \subseteq Z
  <2> HIDE DEF Z
  <2> QED
    BY <1>1, <1>2, DiagramsInduce
<1> QED
  BY <1>3

\* What opt_to_table is called with, and the number of nodes it descends by.
OptDomain == Ranks \X (SUBSET Tests) \X Diagrams
OptRank(x) == Nodes(x[3])
\* opt_to_table, as a body of the recursion of Recursion.
OptBody(g, x) ==
  LET next == NextRow(x[1], {}, x[2], x[3])
  IN IF next.rest = <<>> THEN next.rows
     ELSE next.rows \o g[<<x[1], next.all, next.rest[1]>>]
Opts == INSTANCE Recursion WITH Domain <- OptDomain, Rank <- OptRank, Body <- OptBody

\* What a row leaves to do is a smaller diagram.
LeavesLess(o, all, u, next) ==
  next.rest # <<>> =>
    /\ Smaller(next.rest[1], u)
    /\ next.all \subseteq all \cup TestsOf(u)
    /\ <<o, next.all, next.rest[1]>> \in OptDomain
    /\ Nodes(next.rest[1]) < Nodes(u)

\* What next_table_row leaves to do is smaller than what it was given.
LEMMA RestIsSmaller ==
  ASSUME NEW o \in Ranks, NEW all \in SUBSET Tests, NEW u \in Diagrams
  PROVE  LeavesLess(o, all, u, NextRow(o, {}, all, u))
<1> DEFINE next == NextRow(o, {}, all, u)
<1> SUFFICES ASSUME next.rest # <<>> PROVE LeavesLess(o, all, u, next)
  BY DEF LeavesLess
<1>1. NextRight(o, {}, all, u, next)
  BY NextsAreRight, {} \in SUBSET Tests
<1>2. Smaller(next.rest[1], u) /\ next.all \subseteq all \cup TestsOf(u)
  <2> HIDE DEF next
  <2> QED
    BY <1>1 DEF NextRight
<1>3. TestsOf(u) \subseteq Tests
  BY TestsOfAreTests
<1> HIDE DEF next
<1> QED
  BY <1>2, <1>3 DEF Smaller, OptDomain, LeavesLess

\* The recursion of opt_to_table is on the number of nodes.
LEMMA OptDescends == Opts!Descends
<1>1. \A x \in OptDomain : OptRank(x) \in Nat
  BY NodesAre DEF OptRank, OptDomain
<1>2. ASSUME NEW x \in OptDomain, NEW p, NEW r, \A y \in OptDomain : OptRank(y) < OptRank(x) => p[y] = r[y]
      PROVE  OptBody(p, x) = OptBody(r, x)
  <2> DEFINE next == NextRow(x[1], {}, x[2], x[3])
             y == <<x[1], next.all, next.rest[1]>>
  <2>1. CASE next.rest = <<>>
    BY <2>1 DEF OptBody
  <2>2. CASE next.rest # <<>>
    <3>1. x[1] \in Ranks /\ x[2] \in SUBSET Tests /\ x[3] \in Diagrams
      BY DEF OptDomain
    <3>2. y \in OptDomain /\ Nodes(next.rest[1]) < Nodes(x[3])
      <4>1. LeavesLess(x[1], x[2], x[3], next)
        BY <3>1, RestIsSmaller
      <4> HIDE DEF next
      <4> QED
        BY <2>2, <4>1 DEF LeavesLess
    <3>3. p[y] = r[y]
      <4>1. OptRank(y) < OptRank(x)
        BY <3>2 DEF OptRank
      <4> HIDE DEF y
      <4> QED
        BY <1>2, <3>2, <4>1
    <3> HIDE DEF next
    <3> QED
      BY <2>2, <3>3 DEF OptBody, next
  <2> QED
    BY <2>1, <2>2
<1> QED
  BY <1>1, <1>2 DEF Opts!Descends

\* The table is the first row and the table of the rest.
LEMMA OptRowsAre ==
  ASSUME NEW o \in Ranks, NEW all \in SUBSET Tests, NEW u \in Diagrams
  PROVE  LET next == NextRow(o, {}, all, u)
         IN OptRows(o, all, u) = IF next.rest = <<>> THEN next.rows
                                 ELSE next.rows \o OptRows(o, next.all, next.rest[1])
<1>1. optRows = Opts!f
  BY Zenon DEF optRows, Opts!f, OptBody, OptDomain
<1>2. <<o, all, u>> \in OptDomain
  BY DEF OptDomain
<1>3. \A x \in OptDomain : Opts!f[x] = OptBody(Opts!f, x)
  BY OptDescends, Opts!UnfoldsAt
<1>4. optRows[<<o, all, u>>] = OptBody(optRows, <<o, all, u>>)
  BY <1>1, <1>2, <1>3
<1> QED
  BY <1>4 DEF OptBody, OptRows

\* The table serves with the value of the diagram the packets that are not confused.
OptimallyRight(o, all, u, rows) ==
  /\ rows \in Seq(Rows)
  /\ ~ HasField(TestsOf(u), "Switch") => IsRepresentable(rows)
  /\ SomeBits => \A k \in Packets : Arrived(k) /\ ~ Confusable(all \cup TestsOf(u), k) =>
       Serves(o, rows, k, Val(u, k))

\* The rows of opt_to_table serve the packets that are not confused.
LEMMA OptimalsAreRight ==
  ASSUME NEW o \in Ranks, NEW all \in SUBSET Tests, NEW u \in Diagrams
  PROVE  OptimallyRight(o, all, u, OptRows(o, all, u))
<1> DEFINE Z == {x \in OptDomain : x[1] = o => OptimallyRight(o, x[2], x[3], OptRows(o, x[2], x[3]))}
<1>1. ASSUME NEW x \in OptDomain, \A y \in OptDomain : OptRank(y) < OptRank(x) => y \in Z
      PROVE  x \in Z
  <2> DEFINE B == x[2]
             v == x[3]
             next == NextRow(o, {}, B, v)
             rows == OptRows(o, B, v)
             w == next.rest[1]
             more == OptRows(o, next.all, w)
  <2> SUFFICES ASSUME x[1] = o PROVE OptimallyRight(o, B, v, rows)
    OBVIOUS
  <2>1. B \in SUBSET Tests /\ v \in Diagrams
    BY DEF OptDomain
  <2>2. rows = IF next.rest = <<>> THEN next.rows ELSE next.rows \o more
    BY <2>1, OptRowsAre
  <2>3. NextRight(o, {}, B, v, next)
    BY <2>1, NextsAreRight, {} \in SUBSET Tests
  <2>5. /\ next.rows \in Seq(Rows)
        /\ ~ HasField(TestsOf(v), "Switch") => IsRepresentable(next.rows)
        /\ SomeBits => \A k \in Packets : Arrived(k) /\ ~ Confusable(B \cup TestsOf(v), k) =>
             \/ Serves(o, next.rows, k, Val(v, k))
             \/ Misses(next.rows, k) /\ next.rest # <<>> /\ Val(w, k) = Val(v, k)
    <3>1. ~ HasField({}, "Switch") /\ \A k : PassesAll(k, {})
      BY DEF HasField, PassesAll
    <3>2. {} \cup B \cup TestsOf(v) = B \cup TestsOf(v)
      OBVIOUS
    <3> QED
      BY <2>3, <3>1, <3>2 DEF NextRight
  <2>6. CASE next.rest = <<>>
    BY <2>2, <2>5, <2>6 DEF OptimallyRight
  <2>4. CASE next.rest # <<>>
    <3>1. /\ Smaller(w, v)
          /\ next.all \subseteq B \cup TestsOf(v)
          /\ <<o, next.all, w>> \in OptDomain
          /\ Nodes(w) < Nodes(v)
      <4>1. LeavesLess(o, B, v, next)
        BY <2>1, RestIsSmaller
      <4> HIDE DEF next
      <4> QED
        BY <2>4, <4>1 DEF LeavesLess
    <3>2. OptimallyRight(o, next.all, w, more)
      <4> DEFINE y == <<o, next.all, w>>
      <4>1. y \in OptDomain /\ OptRank(y) < OptRank(x)
        BY <3>1 DEF OptRank
      <4>2. y \in Z
        <5> HIDE DEF y, Z
        <5> QED
          BY <1>1, <4>1
      <4>3. y[1] = o /\ y[2] = next.all /\ y[3] = w
        OBVIOUS
      <4> HIDE DEF y, w, next
      <4> QED
        BY <4>2, <4>3
    <3>3. TestsOf(w) \subseteq TestsOf(v)
      BY <3>1 DEF Smaller
    <3> HIDE DEF next, w, more, rows, Z
    <3>4. rows = next.rows \o more /\ more \in Seq(Rows)
      BY <2>2, <2>4, <3>2 DEF OptimallyRight
    <3>5. rows \in Seq(Rows)
      BY <2>5, <3>4, TablesJoin
    <3>6. ASSUME ~ HasField(TestsOf(v), "Switch") PROVE IsRepresentable(rows)
      <4>1. ~ HasField(TestsOf(w), "Switch")
        BY <3>3, <3>6 DEF HasField
      <4> QED
        BY <2>5, <3>2, <3>4, <3>6, <4>1, TablesJoin DEF OptimallyRight
    <3>7. ASSUME SomeBits, NEW k \in Packets, Arrived(k), ~ Confusable(B \cup TestsOf(v), k)
          PROVE  Serves(o, rows, k, Val(v, k))
      <4>1. ~ Confusable(next.all \cup TestsOf(w), k)
        <5>1. next.all \cup TestsOf(w) \subseteq B \cup TestsOf(v)
          BY <3>1, <3>3
        <5> QED
          BY <3>7, <5>1, ConfusesLess
      <4>2. Serves(o, more, k, Val(w, k))
        BY <3>2, <3>7, <4>1 DEF OptimallyRight
      <4>3. CASE Serves(o, next.rows, k, Val(v, k))
        BY <2>5, <3>4, <4>3, TablesJoin
      <4>4. CASE Misses(next.rows, k) /\ Val(w, k) = Val(v, k)
        BY <2>5, <3>4, <4>2, <4>4, TablesJoin
      <4> QED
        BY <2>5, <3>7, <4>3, <4>4
    <3> QED
      BY <3>5, <3>6, <3>7 DEF OptimallyRight
  <2> QED
    BY <2>6, <2>4
<1>2. \A x \in OptDomain : OptRank(x) \in Nat
  BY OptDescends DEF Opts!Descends
<1>3. OptDomain \subseteq Z
  <2> HIDE DEF Z
  <2> QED
    BY <1>1, <1>2, Opts!RankInduces
<1>4. <<o, all, u>> \in Z
  <2>1. <<o, all, u>> \in OptDomain
    BY DEF OptDomain
  <2> HIDE DEF Z
  <2> QED
    BY <1>3, <2>1
<1> QED
  BY <1>4

---------------------------------------------------------------------------
(* Tables. *)

\* The action of a table is that of the first row that matches.
LEMMA ActionIs ==
  ASSUME NEW table \in Seq(Rows), NEW k
  PROVE  /\ Misses(table, k) => ActionFor(table, k) = <<>>
         /\ \A i : IsFirst(table, k, i) => ActionFor(table, k) = table[i].action
<1> DEFINE hits == {i \in DOMAIN table : Matches(table[i].pattern, k)}
<1>1. ActionFor(table, k) = IF hits = {} THEN <<>> ELSE table[Min(hits)].action
  BY DEF ActionFor
<1>2. Misses(table, k) => hits = {}
  BY DEF Misses
<1>3. ASSUME NEW i, IsFirst(table, k, i) PROVE i \in hits /\ Min(hits) = i
  <2>1. i \in hits /\ DOMAIN table = 1..Len(table) /\ Len(table) \in Nat
    BY <1>3 DEF IsFirst
  <2>2. \A j \in hits : i <= j /\ j \in Int
    BY <1>3, <2>1 DEF IsFirst
  <2> HIDE DEF hits
  <2>3. \A j \in hits : (\A l \in hits : j <= l) <=> j = i
    BY <2>1, <2>2
  <2> QED
    BY <2>1, <2>3 DEF Min
<1> HIDE DEF hits
<1> QED
  BY <1>1, <1>2, <1>3

\* A set of numbers with a bound has a greatest one.
LEMMA Greatest ==
  ASSUME NEW n \in Nat, NEW S \in SUBSET (1..n), S # {}
  PROVE  Max(S) \in S /\ \A y \in S : y <= Max(S)
<1> DEFINE L == [j \in Nat |-> IF n - j \in S THEN {0} ELSE {}]
           i == FirstLevel(L, 0)
<1>1. \A j \in Nat : 0 \in L[j] <=> n - j \in S
  OBVIOUS
<1> HIDE DEF L
<1>2. \A j \in Nat : 0 \in L[j] => i \in Nat /\ 0 \in L[i] /\ i <= j
  BY FirstLevelIs
<1> HIDE DEF i
<1>3. ASSUME NEW y \in S PROVE i \in Nat /\ n - i \in S /\ y <= n - i
  <2>1. n - y \in Nat /\ n - (n - y) = y
    OBVIOUS
  <2>2. 0 \in L[n - y]
    BY <1>1, <2>1
  <2>3. i \in Nat /\ 0 \in L[i] /\ i <= n - y
    BY <1>2, <2>1, <2>2
  <2> QED
    BY <1>1, <2>3
<1>4. \E x \in S : \A y \in S : x >= y
  BY <1>3
<1> QED
  BY <1>4 DEF Max

\* Rows at the end that drop packets can be left out.
LEMMA TrimmedIs ==
  ASSUME NEW table \in Seq(Rows), NEW tailless \in BOOLEAN
  PROVE  /\ Trimmed(tailless, table) \in Seq(Rows)
         /\ IsRepresentable(table) => IsRepresentable(Trimmed(tailless, table))
         /\ \A k : ActionFor(Trimmed(tailless, table), k) = ActionFor(table, k)
<1>1. CASE ~ tailless
  BY <1>1 DEF Trimmed
<1>2. CASE tailless
  <2> DEFINE acting == {i \in DOMAIN table : table[i].action # <<>>}
             m == IF acting = {} THEN 0 ELSE Max(acting)
             t == SubSeq(table, 1, m)
  <2>1. Trimmed(tailless, table) = t
    BY <1>2 DEF Trimmed, RemoveTailDrops
  <2>2. Len(table) \in Nat /\ DOMAIN table = 1..Len(table)
    OBVIOUS
  <2>3. m \in 0..Len(table) /\ \A i \in acting : i <= m
    <3>1. CASE acting = {}
      BY <2>2, <3>1
    <3>2. CASE acting # {}
      <4>1. acting \in SUBSET (1..Len(table))
        BY <2>2
      <4>2. m = Max(acting)
        BY <3>2
      <4> HIDE DEF acting, m
      <4>3. Max(acting) \in acting /\ \A y \in acting : y <= Max(acting)
        BY <2>2, <3>2, <4>1, Greatest
      <4>4. m \in 1..Len(table)
        BY <4>1, <4>2, <4>3
      <4>5. \A y \in acting : y <= m
        BY <4>2, <4>3
      <4> QED
        BY <2>2, <4>4, <4>5
    <3> QED
      BY <3>1, <3>2
  <2> HIDE DEF m
  <2>4. t \in Seq(Rows) /\ DOMAIN t = 1..m /\ \A i \in 1..m : t[i] = table[i] /\ i \in DOMAIN table
    BY <2>2, <2>3
  <2>5. IsRepresentable(table) => IsRepresentable(t)
    BY <2>4 DEF IsRepresentable
  <2>6. ASSUME NEW k PROVE ActionFor(t, k) = ActionFor(table, k)
    <3> HIDE DEF t
    <3>1. CASE Misses(table, k)
      <4>1. Misses(t, k)
        BY <2>4, <3>1 DEF Misses
      <4> QED
        BY <2>4, <3>1, <4>1, ActionIs
    <3>2. CASE ~ Misses(table, k)
      <4>1. PICK i \in DOMAIN table : IsFirst(table, k, i)
        <5>1. PICK n \in DOMAIN table : Matches(table[n].pattern, k)
          BY <3>2 DEF Misses
        <5> QED
          BY <5>1, FirstMatches
      <4>2. ActionFor(table, k) = table[i].action
        BY <4>1, ActionIs
      <4>3. CASE i <= m
        <5>1. i \in 1..m /\ \A j \in 1..(i - 1) : j \in 1..m
          BY <2>2, <2>3, <4>3
        <5>2. IsFirst(t, k, i)
          BY <2>4, <4>1, <5>1 DEF IsFirst
        <5>3. t \in Seq(Rows) /\ t[i] = table[i]
          BY <2>4, <5>1
        <5>4. ActionFor(t, k) = t[i].action
          BY <5>2, <5>3, ActionIs
        <5> QED
          BY <4>2, <5>3, <5>4
      <4>4. CASE ~ (i <= m)
        <5>1. table[i].action = <<>>
          BY <2>3, <4>4
        <5>2. \A j \in 1..m : j \in 1..(i - 1)
          BY <2>2, <2>3, <4>4
        <5>3. Misses(t, k)
          BY <2>4, <4>1, <5>2 DEF Misses, IsFirst
        <5> QED
          BY <2>4, <4>2, <5>1, <5>3, ActionIs
      <4> QED
        BY <4>3, <4>4
    <3> QED
      BY <3>1, <3>2
  <2> QED
    BY <2>1, <2>4, <2>5, <2>6
<1> QED
  BY <1>1, <1>2

\* The diagram that a table is made of.
LEMMA DedupedIs ==
  ASSUME NEW o, IsOrder(o), NEW u, Good(o, u), NEW opts
  PROVE  /\ Good(o, Deduped(o, opts, u))
         /\ \A k \in AllPackets : Out(Deduped(o, opts, u), k) = Out(u, k)
  BY DedupIs DEF Deduped

\* The packets that the table of a diagram may not serve.
MayConfuse(opts, u, k) == opts.optimize /\ Confusable(TestsOf(u), k)

\* What the table of a switch does to a packet is an action for the value of the diagram.
TableFor(o, opts, sw, u, table) ==
  /\ table \in Seq(Rows)
  /\ IsRepresentable(table)
  /\ \A k \in PacketsAt(sw) :
       ~ MayConfuse(opts, Deduped(o, opts, u), k) =>
         /\ Arrived(k)
         /\ IsFor(o, Val(Deduped(o, opts, u), k), k, ActionFor(table, k))

\* to_table makes such a table: dedup, the restriction to the switch and the rows keep the value.
LEMMA ToTableIs ==
  ASSUME SomeBits, NEW o, IsOrder(o), NEW u, Good(o, u), NEW sw \in Switches,
         NEW opts \in [dedup : BOOLEAN, optimize : BOOLEAN, tailless : BOOLEAN]
  PROVE  TableFor(o, opts, sw, u, ToTable(o, opts, sw, u))
<1> DEFINE w == Deduped(o, opts, u)
           v == ForSwitch(o, sw, w)
           rows == ToRows(o, opts.optimize, v)
           table == ToTable(o, opts, sw, u)
<1>1. table = Trimmed(opts.tailless, rows) /\ opts.tailless \in BOOLEAN /\ opts.optimize \in BOOLEAN
  BY DEF ToTable
<1>2. Good(o, w)
  BY DedupedIs
<1> HIDE DEF w
<1>3. /\ v \in Diagrams
      /\ TestsOf(v) \subseteq TestsOf(w)
      /\ \A x \in TestsOf(v) : x[1] # "Switch"
      /\ \A k \in AllPackets : k["Switch"] = sw => Val(v, k) = Val(w, k)
  BY <1>2, ForSwitchIs
<1> HIDE DEF v
<1>4. ~ HasField(TestsOf(v), "Switch") /\ ~ HasField({}, "Switch")
  BY <1>3 DEF HasField
<1>5. o \in Ranks /\ {} \in SUBSET Tests
  BY DEF IsOrder, Ranks
<1>6. /\ rows \in Seq(Rows)
      /\ IsRepresentable(rows)
      /\ \A k \in Packets : Arrived(k) /\ (opts.optimize => ~ Confusable(TestsOf(v), k)) =>
           Serves(o, rows, k, Val(v, k))
  <2>1. CASE opts.optimize
    <3>1. rows = OptRows(o, {}, v)
      BY <2>1 DEF ToRows
    <3>2. OptimallyRight(o, {}, v, rows)
      BY <1>3, <1>5, <3>1, OptimalsAreRight
    <3>3. {} \cup TestsOf(v) = TestsOf(v)
      OBVIOUS
    <3> HIDE DEF rows
    <3> QED
      BY <1>4, <2>1, <3>2, <3>3 DEF OptimallyRight
  <2>2. CASE ~ opts.optimize
    <3>1. rows = NaiveRows(o, {}, {}, v)
      BY <2>2 DEF ToRows
    <3>2. NaivelyRight(o, {}, {}, v, rows)
      BY <1>3, <1>5, <3>1, NaivesAreRight
    <3>3. \A k : PassesAll(k, {})
      BY DEF PassesAll
    <3> HIDE DEF rows
    <3> QED
      BY <1>4, <2>2, <3>2, <3>3 DEF NaivelyRight
  <2> QED
    BY <2>1, <2>2
<1> HIDE DEF rows
<1>7. /\ table \in Seq(Rows) /\ IsRepresentable(table)
      /\ \A k : ActionFor(table, k) = ActionFor(rows, k)
  BY <1>1, <1>6, TrimmedIs
<1>8. ASSUME NEW k \in PacketsAt(sw), ~ MayConfuse(opts, w, k)
      PROVE  Arrived(k) /\ IsFor(o, Val(w, k), k, ActionFor(table, k))
  <2>1. k \in Packets /\ k["Switch"] = sw /\ k["Location"].kind = "mask" /\ k \in AllPackets
    BY ConstantsAreTyped DEF PacketsAt
  <2>2. Arrived(k)
    BY <2>1 DEF Arrived
  <2>3. opts.optimize => ~ Confusable(TestsOf(v), k)
    BY <1>3, <1>8, ConfusesLess DEF MayConfuse
  <2>4. Serves(o, rows, k, Val(v, k))
    BY <1>6, <2>1, <2>2, <2>3
  <2>5. PICK i \in DOMAIN rows : IsFirst(rows, k, i) /\ IsFor(o, Val(v, k), k, rows[i].action)
    BY <2>4 DEF Serves
  <2>6. ActionFor(rows, k) = rows[i].action
    BY <1>6, <2>5, ActionIs
  <2> QED
    BY <1>3, <1>7, <2>1, <2>2, <2>5, <2>6
<1> HIDE DEF table
<1>9. TableFor(o, opts, sw, u, table)
  BY <1>7, <1>8 DEF TableFor, w
<1> QED
  BY <1>9 DEF table

\* What the switch does is what the policy means.
LEMMA TablesDo ==
  ASSUME SomeBits, IndInv, Meaning, NEW sw \in Switches,
         NEW opts \in [dedup : BOOLEAN, optimize : BOOLEAN, tailless : BOOLEAN],
         NEW k \in PacketsAt(sw), ~ MayConfuse(opts, Deduped(order, opts, diagram), k)
  PROVE  RunPar(ActionFor(ToTable(order, opts, sw, diagram), k), k) = Seen(k)
<1> DEFINE o == order
           w == Deduped(o, opts, diagram)
           table == ToTable(o, opts, sw, diagram)
           par == Val(w, k)
<1>1. IsOrder(o) /\ Good(o, diagram) /\ k \in Packets /\ k \in AllPackets
  BY ConstantsAreTyped DEF IndInv, PacketsAt
<1>2. Good(o, w) /\ Out(w, k) = Out(diagram, k)
  BY <1>1, DedupedIs
<1>3. par \in Actions
  BY <1>1, <1>2, ValIsAction DEF Good
<1>4. TableFor(o, opts, sw, diagram, table)
  BY <1>1, ToTableIs
<1> HIDE DEF table
<1>5. Arrived(k) /\ IsFor(o, par, k, ActionFor(table, k))
  BY <1>4 DEF TableFor
<1>6. PICK T \in SUBSET Tests : PassesAll(k, T) /\ ActionFor(table, k) = ToAction(o, T, par)
  BY <1>5 DEF IsFor
<1>7. RunPar(ActionFor(table, k), k) = SeenOf(par, k)
  BY <1>1, <1>3, <1>5, <1>6, RunParIs
<1>8. Results(par, k) = means[k]
  BY <1>1, <1>2 DEF Out, Meaning
<1>9. SeenOf(par, k) = Seen(k)
  BY <1>8 DEF SeenOf, Seen
<1> QED
  BY <1>7, <1>9 DEF table

\* The table of each switch does to a packet what the policy does.
THEOREM NaiveTablesImplement == ASSUME SomeBits PROVE Spec => []NaiveTableImplements
<1> DEFINE Inv == IndInv /\ Meaning
<1>1. Init => Inv
  BY InitHolds
<1>2. Inv /\ [Next]_vars => Inv'
  BY StepKeeps
<1>3. Inv => NaiveTableImplements
  <2> SUFFICES ASSUME Inv, NEW sw \in Switches, NEW d \in BOOLEAN
               PROVE  Implements(ToTable(order, Options(d, FALSE, ~ d), sw, diagram), sw)
    BY DEF NaiveTableImplements
  <2> DEFINE opts == Options(d, FALSE, ~ d)
             table == ToTable(order, opts, sw, diagram)
  <2>1. opts \in [dedup : BOOLEAN, optimize : BOOLEAN, tailless : BOOLEAN] /\ ~ opts.optimize
    BY DEF Options
  <2> HIDE DEF opts
  <2>2. TableFor(order, opts, sw, diagram, table)
    BY <2>1, ToTableIs DEF IndInv
  <2>3. \A k \in PacketsAt(sw) : RunPar(ActionFor(table, k), k) = Seen(k)
    BY <2>1, TablesDo DEF MayConfuse
  <2> HIDE DEF table
  <2>4. Implements(table, sw)
    BY <2>2, <2>3 DEF Implements, TableFor
  <2> QED
    BY <2>4 DEF table, opts
<1> QED
  BY <1>1, <1>2, <1>3, PTL DEF Spec

\* The optimised table does so for all packets but those that it may confuse.
THEOREM OptimisedTablesImplement == ASSUME SomeBits PROVE Spec => []OptimisedTableImplements
<1> DEFINE Inv == IndInv /\ Meaning
<1>1. Init => Inv
  BY InitHolds
<1>2. Inv /\ [Next]_vars => Inv'
  BY StepKeeps
<1>3. Inv => OptimisedTableImplements
  <2> SUFFICES ASSUME Inv, NEW sw \in Switches, NEW d \in BOOLEAN
               PROVE  LET opts == Options(d, TRUE, d)
                          tests == TestsOf(Deduped(order, opts, diagram))
                          table == ToTable(order, opts, sw, diagram)
                      IN /\ IsRepresentable(table)
                         /\ \A pkt \in PacketsAt(sw) :
                              ~ Confusable(tests, pkt) => RunPar(ActionFor(table, pkt), pkt) = Seen(pkt)
    BY DEF OptimisedTableImplements
  <2> DEFINE opts == Options(d, TRUE, d)
             tests == TestsOf(Deduped(order, opts, diagram))
             table == ToTable(order, opts, sw, diagram)
  <2>1. opts \in [dedup : BOOLEAN, optimize : BOOLEAN, tailless : BOOLEAN]
    BY DEF Options
  <2> HIDE DEF opts
  <2>2. TableFor(order, opts, sw, diagram, table)
    BY <2>1, ToTableIs DEF IndInv
  <2>3. \A k \in PacketsAt(sw) : ~ Confusable(tests, k) => RunPar(ActionFor(table, k), k) = Seen(k)
    BY <2>1, TablesDo DEF MayConfuse
  <2>4. IsRepresentable(table)
    BY <2>2 DEF TableFor
  <2> QED
    BY <2>3, <2>4 DEF opts
<1> QED
  BY <1>1, <1>2, <1>3, PTL DEF Spec

---------------------------------------------------------------------------
(* What dedup leaves of an action. *)

\* A packet with a value passes the test of it.
LEMMA HasPasses ==
  ASSUME NEW hv \in Modifications, NEW k \in AllPackets, k[hv[1]] = hv[2]
  PROVE  Passes(k, hv)
<1>1. IsValue(hv[2])
  BY ModificationsAreTests, TestParts
<1>2. Inside(hv[2], hv[2])
  BY <1>1, ValuesAreIntervals DEF Inside
<1> QED
  BY <1>1, <1>2, ValuesAreIntervals DEF Passes

\* The sets of modifications without those in S to values that the packet has.
Without(S, k, par) == {s \ {hv \in S : Passes(k, hv)} : s \in par}

\* One more modification is left out, or not.
LEMMA WithoutOneMore ==
  ASSUME NEW S, NEW hv \in S, NEW k, NEW par
  PROVE  /\ Passes(k, hv) => Without(S, k, par) = Demod(hv, Without(S \ {hv}, k, par))
         /\ ~ Passes(k, hv) => Without(S, k, par) = Without(S \ {hv}, k, par)
<1> DEFINE X == {x \in S : Passes(k, x)}
           Y == {x \in S \ {hv} : Passes(k, x)}
<1>1. CASE Passes(k, hv)
  <2>1. \A s : s \ X = (s \ Y) \ {hv}
    BY <1>1
  <2> HIDE DEF X, Y
  <2>2. {s \ X : s \in par} = {(s \ Y) \ {hv} : s \in par}
    BY <2>1
  <2>3. {(s \ Y) \ {hv} : s \in par} = Demod(hv, {s \ Y : s \in par})
    BY DEF Demod
  <2> QED
    BY <1>1, <2>2, <2>3 DEF Without, X, Y
<1>2. CASE ~ Passes(k, hv)
  <2>1. X = Y
    BY <1>2
  <2> QED
    BY <1>2, <2>1 DEF Without
<1> QED
  BY <1>1, <1>2

\* At a leaf, dedup leaves out each harmful modification where the packet has its value.
LEMMA DedupLeafVal ==
  ASSUME NEW o, IsOrder(o), NEW par \in Actions
  PROVE  \A k \in AllPackets : Val(DedupLeaf(o, par), k) = Without(Harmful(par), k, par)
<1> DEFINE G == DedupFor(o, par)
           P(v, T) == Good(o, v) /\ \A k \in AllPackets : Val(v, k) = Without(T, k, par)
           S == {x \in DedupDomain : x[1] = o /\ x[2] = par => P(G[x[3]], x[3])}
<1>0. o \in Ranks /\ Harmful(par) \subseteq Modifications
  BY DEF IsOrder, Ranks, Harmful, Actions, Seqs
<1>1. ASSUME NEW x \in DedupDomain, \A y \in DedupDomain : DedupRank(y) < DedupRank(x) => y \in S
      PROVE  x \in S
  <2> DEFINE T == x[3]
  <2> SUFFICES ASSUME x[1] = o, x[2] = par PROVE P(G[T], T)
    OBVIOUS
  <2>1. T \in SUBSET Harmful(par)
    BY DEF DedupDomain
  <2>2. CASE T = {}
    <3>1. G[T] = MkLeaf(par)
      BY <1>0, <2>2, DedupUnfolds
    <3>2. Good(o, MkLeaf(par)) /\ \A k \in AllPackets : Val(MkLeaf(par), k) = par
      BY GoodLeaves, LeafVal
    <3>3. \A k : Without({}, k, par) = par
      BY DEF Without
    <3> QED
      BY <2>2, <3>1, <3>2, <3>3
  <2>3. CASE T # {}
    <3> HIDE DEF S, G, T
    <3>1. PICK hv \in T : G[T] = Cond(o, hv, MapR(DemodMap(hv), G[T \ {hv}]), G[T \ {hv}])
      BY <1>0, <2>1, <2>3, DedupUnfolds DEF G
    <3> DEFINE u == G[T \ {hv}]
               m == MapR(DemodMap(hv), u)
               R == T \ {hv}
    <3>2. hv \in Modifications /\ hv \in Tests
      BY <1>0, <2>1, ModificationsAreTests
    <3>3. P(u, R)
      <4>1. <<o, par, T \ {hv}>> \in S
        BY <1>1, <3>1, DedupShrinks DEF T
      <4> QED
        BY <4>1 DEF S
    <3>4. DemodMap(hv) \in Maps /\ \A a \in Actions : DemodMap(hv)[a] = Demod(hv, a)
      BY <3>2, DemodIs DEF DemodMap, Maps
    <3> HIDE DEF u
    <3>5. Good(o, m) /\ \A k \in AllPackets : Val(m, k) = DemodMap(hv)[Val(u, k)]
      BY <3>3, <3>4, MapRGood
    <3> HIDE DEF m
    <3>6. /\ Good(o, Cond(o, hv, m, u))
          /\ \A k \in AllPackets : Val(Cond(o, hv, m, u), k) = IF Passes(k, hv) THEN Val(m, k) ELSE Val(u, k)
      BY <3>2, <3>3, <3>5, CondIs
    <3>7. ASSUME NEW k \in AllPackets PROVE Val(Cond(o, hv, m, u), k) = Without(T, k, par)
      <4>1. Val(u, k) \in Actions /\ Val(u, k) = Without(R, k, par)
        BY <3>3, ValIsAction DEF Good
      <4>2. /\ Passes(k, hv) => Without(T, k, par) = Demod(hv, Without(R, k, par))
            /\ ~ Passes(k, hv) => Without(T, k, par) = Without(R, k, par)
        BY WithoutOneMore
      <4>3. Val(m, k) = Demod(hv, Val(u, k))
        BY <3>4, <3>5, <4>1
      <4> HIDE DEF R
      <4> QED
        BY <3>6, <4>1, <4>2, <4>3
    <3> QED
      BY <3>1, <3>6, <3>7 DEF u, m
  <2> QED
    BY <2>2, <2>3
<1>2. \A x \in DedupDomain : DedupRank(x) \in Nat
  BY DedupDescends DEF Dedups!Descends
<1>3. DedupDomain \subseteq S
  <2> HIDE DEF S
  <2> QED
    BY <1>1, <1>2, Dedups!RankInduces
<1>4. <<o, par, Harmful(par)>> \in DedupDomain
  BY <1>0, ModificationsAreTests DEF DedupDomain
<1>5. P(G[Harmful(par)], Harmful(par))
  BY <1>3, <1>4
<1> QED
  BY <1>0, <1>5, DedupUnfolds

\* What dedup makes of an action for a packet.
Mild(k, par) == Without(Harmful(par), k, par)

\* The value of a diagram after dedup.
LEMMA DedupVal ==
  ASSUME NEW o, IsOrder(o), NEW u, Good(o, u), NEW k \in AllPackets
  PROVE  Val(Dedup(o, u), k) = Mild(k, Val(u, k))
<1> DEFINE g == [par \in Actions |-> DedupLeaf(o, par)]
           a == Val(u, k)
<1>1. g \in DiagramMaps /\ \A par \in Actions : g[par] = DedupLeaf(o, par) /\ Good(o, g[par])
  BY DedupLeafIs DEF DiagramMaps, Good
<1>2. Dedup(o, u) = MapCond(o, g, u)
  BY DEF Dedup
<1> HIDE DEF g
<1>3. Val(Dedup(o, u), k) = Val(g[a], k)
  BY <1>1, <1>2, MapCondIs DEF Good
<1>4. a \in Actions
  BY ValIsAction DEF Good
<1> HIDE DEF a
<1>5. Val(Dedup(o, u), k) = Val(DedupLeaf(o, a), k)
  BY <1>1, <1>3, <1>4
<1> QED
  BY <1>4, <1>5, DedupLeafVal DEF Mild, a

\* After dedup a set of modifications has what another makes of the packet anyway.
LEMMA MildAgree ==
  ASSUME NEW par \in Actions, NEW k \in AllPackets,
         NEW s \in Mild(k, par), NEW t \in Mild(k, par), NEW hv \in s,
         Modify(t, k)[hv[1]] = hv[2]
  PROVE  hv \in t
<1> DEFINE X == {x \in Harmful(par) : Passes(k, x)}
           f == hv[1]
<1>1. PICK a \in par : s = a \ X
  BY DEF Mild, Without
<1>2. PICK b \in par : t = b \ X
  BY DEF Mild, Without
<1>3. a \in Seqs /\ b \in Seqs /\ t \in Seqs
  BY <1>2 DEF Actions, Seqs, Functional
<1>4. hv \in Modifications /\ f \in Fields
  BY <1>1, <1>3, SeqIs, ModificationsAreTests, TestParts
<1>5. CASE f \in FieldsOf(t)
  <2>1. PICK x \in t : x[1] = f
    BY <1>5 DEF FieldsOf
  <2>2. Modify(t, k)[f] = x[2]
    BY <1>3, <2>1, ModifyIs
  <2>3. x = <<x[1], x[2]>> /\ hv = <<hv[1], hv[2]>>
    BY <1>3, <1>4, <2>1, SeqIs, ModificationsAreTests, TestParts
  <2> QED
    BY <2>1, <2>2, <2>3
<1>6. CASE f \notin FieldsOf(t)
  <2>1. Modify(t, k)[f] = k[f]
    BY <1>3, <1>4, <1>6, ModifyIs
  <2>2. Passes(k, hv)
    BY <1>4, <2>1, HasPasses
  <2>3. hv \in UNION par /\ hv \notin X
    BY <1>1
  <2>4. hv \notin Harmful(par)
    BY <2>2, <2>3
  <2>5. f \in FieldsOf(b)
    BY <2>3, <2>4 DEF Harmful
  <2>6. PICK x \in b : x[1] = f
    BY <2>5 DEF FieldsOf
  <2>7. x \in X
    BY <1>2, <1>6, <2>6 DEF FieldsOf
  <2>8. x \in Modifications /\ Passes(k, x)
    BY <1>3, <2>6, <2>7, SeqIs
  <2>9. x[2] = k[f]
    BY <2>6, <2>8, PassesSingle
  <2>10. x = <<x[1], x[2]>> /\ hv = <<hv[1], hv[2]>>
    BY <1>4, <2>8, ModificationsAreTests, TestParts
  <2> QED
    BY <2>1, <2>3, <2>6, <2>7, <2>9, <2>10
<1> QED
  BY <1>5, <1>6

\* What is sent tells the sets of modifications apart: one side.
LEMMA SentTells ==
  ASSUME NEW par \in Actions, NEW k, Arrived(k), NEW T \in SUBSET Tests, PassesAll(k, T),
         NEW s \in Mild(k, par), NEW t \in Mild(k, par),
         Unnamed(Modify(s, k)) = Unnamed(Modify(t, k))
  PROVE  Nameless(s \ T) \subseteq Nameless(t \ T)
<1> DEFINE i == Modify(s, k)
           j == Modify(t, k)
<1>0. k \in AllPackets /\ k["Location"].kind = "mask"
  BY DEF Arrived
<1>1. s \in Seqs /\ t \in Seqs /\ s \ T \in Seqs /\ t \ T \in Seqs
  BY DEF Mild, Without, Actions, Seqs, Functional
<1>2. /\ i \in AllPackets /\ j \in AllPackets
      /\ \A x \in s : x \in Modifications /\ x[1] \in Fields /\ i[x[1]] = x[2]
      /\ \A x \in t : x \in Modifications /\ x[1] \in Fields /\ j[x[1]] = x[2]
      /\ \A f \in Fields : f \notin FieldsOf(t) => j[f] = k[f]
  BY <1>0, <1>1, ModifyIs, SeqIs
<1>3. \A f \in Fields : f # "Location" => i[f] = j[f]
  <2>1. i = [f \in Fields |-> i[f]] /\ j = [f \in Fields |-> j[f]]
    BY <1>2, PacketIs
  <2> HIDE DEF i, j
  <2>2. \A f \in Fields : f # "Location" => Unnamed(i)[f] = i[f] /\ Unnamed(j)[f] = j[f]
    BY <2>1 DEF Unnamed
  <2> QED
    BY <2>2 DEF i, j
<1> DEFINE v == i["Location"]
           w == j["Location"]
<1>4. (IF v.kind = "pipe" THEN Pipe(0) ELSE v) = (IF w.kind = "pipe" THEN Pipe(0) ELSE w)
  <2>1. i = [f \in Fields |-> i[f]] /\ j = [f \in Fields |-> j[f]] /\ "Location" \in Fields
    BY <1>2, PacketIs DEF Fields
  <2> HIDE DEF i, j
  <2>2. Unnamed(i)["Location"] = IF v.kind = "pipe" THEN Pipe(0) ELSE v
    BY <2>1 DEF Unnamed
  <2>3. Unnamed(j)["Location"] = IF w.kind = "pipe" THEN Pipe(0) ELSE w
    BY <2>1 DEF Unnamed
  <2> QED
    BY <2>2, <2>3 DEF i, j
<1>5. \A x \in s : j[x[1]] = x[2] => x \in t
  BY <1>0, MildAgree
<1> HIDE DEF i, j
<1>6. ASSUME NEW x \in s \ T, x[1] # "Location" PROVE x \in t \ T
  BY <1>2, <1>3, <1>5, <1>6
<1>7. ASSUME NEW a, <<"Location", a>> \in s \ T, a.kind # "pipe" PROVE <<"Location", a>> \in t \ T
  <2> DEFINE x == <<"Location", a>>
  <2>1. x \in s /\ x \notin T /\ x[1] = "Location" /\ x[2] = a
    BY <1>7
  <2>2. v = a
    BY <1>2, <2>1
  <2>3. w = a
    BY <1>4, <1>7, <2>2 DEF Pipe
  <2> HIDE DEF x
  <2>4. x \in t
    BY <1>5, <2>1, <2>3
  <2> QED
    BY <2>1, <2>4 DEF x
<1>8. ASSUME NEW a, <<"Location", a>> \in s \ T, a.kind = "pipe"
      PROVE  \E b : <<"Location", b>> \in t \ T /\ b.kind = "pipe"
  <2> DEFINE x == <<"Location", a>>
  <2>1. x \in s /\ x[1] = "Location" /\ x[2] = a
    BY <1>8
  <2>2. v = a
    BY <1>2, <2>1
  <2>3. w.kind = "pipe"
    BY <1>4, <1>8, <2>2 DEF Pipe
  <2>4. "Location" \in Fields /\ "Location" \in FieldsOf(t)
    <3>1. "Location" \in Fields
      BY DEF Fields
    <3> QED
      BY <1>0, <1>2, <2>3, <3>1
  <2>5. PICK y \in t : y[1] = "Location"
    BY <2>4 DEF FieldsOf
  <2>6. y \in Modifications /\ y[2] = w
    BY <1>2, <2>5
  <2>7. y = <<"Location", w>>
    BY <2>5, <2>6, ModificationsAreTests, TestParts
  <2>8. y \notin T
    <3> SUFFICES ASSUME y \in T PROVE FALSE
      OBVIOUS
    <3>1. k["Location"] = w
      BY <1>0, <2>5, <2>6, PassesSingle DEF PassesAll
    <3> QED
      BY <1>0, <2>3, <3>1
  <2> QED
    BY <2>3, <2>5, <2>7, <2>8
<1> HIDE DEF v, w
<1>9. ASSUME NEW x \in Nameless(s \ T) PROVE x \in Nameless(t \ T)
  <2> DEFINE p == s \ T
             q == t \ T
  <2>1. p \in Seqs /\ q \in Seqs
    BY <1>1
  <2>2. CASE x[1] # "Location"
    <3>1. x \in p
      BY <2>1, <2>2, NamelessIs
    <3>2. x \in q
      BY <1>6, <2>2, <3>1
    <3> QED
      BY <2>1, <2>2, <3>2, NamelessIs
  <2>3. CASE x[1] = "Location"
    <3>1. x = <<"Location", x[2]>>
      <4>1. Nameless(p) \subseteq Known
        BY <2>1, NamelessIs DEF KnownSeqs
      <4> QED
        BY <2>3, <4>1, KnownIs
    <3> DEFINE a == x[2]
    <3>2. <<"Location", a>> \in Nameless(p)
      BY <3>1
    <3> HIDE DEF a, p, q
    <3>3. \/ <<"Location", a>> \in p /\ a.kind # "pipe"
          \/ a = Pipe(0) /\ \E b : <<"Location", b>> \in p /\ b.kind = "pipe"
      BY <2>1, <3>2, NamelessIs
    <3>4. \/ <<"Location", a>> \in q /\ a.kind # "pipe"
          \/ a = Pipe(0) /\ \E b : <<"Location", b>> \in q /\ b.kind = "pipe"
      BY <1>7, <1>8, <3>3 DEF p, q
    <3>5. <<"Location", a>> \in Nameless(q)
      BY <2>1, <3>4, NamelessIs
    <3> QED
      BY <3>1, <3>5 DEF a, q
  <2> QED
    BY <2>2, <2>3
<1> QED
  BY <1>9

---------------------------------------------------------------------------
(* How often a row sends a packet, and lists of actions. *)

\* After dedup, different sets of modifications send different packets.
LEMMA SendsApart ==
  ASSUME NEW par \in Actions, NEW k, Arrived(k), NEW T \in SUBSET Tests, PassesAll(k, T),
         NEW x \in Bare(T, Mild(k, par)), NEW y \in Bare(T, Mild(k, par)),
         Sends(k, InPortOf(T), x) = Sends(k, InPortOf(T), y)
  PROVE  x = y
<1>1. PICK s \in Mild(k, par) : x = Nameless(s \ T)
  BY DEF Bare, Unpiped, DemodAll
<1>2. PICK t \in Mild(k, par) : y = Nameless(t \ T)
  BY DEF Bare, Unpiped, DemodAll
<1>3. s \in Seqs /\ t \in Seqs
  BY DEF Mild, Without, Actions, Seqs, Functional
<1>4. Sends(k, InPortOf(T), x) = Unnamed(Modify(s, k)) /\ Sends(k, InPortOf(T), y) = Unnamed(Modify(t, k))
  BY <1>1, <1>2, <1>3, SendsIs
<1>5. Unnamed(Modify(s, k)) = Unnamed(Modify(t, k))
  BY <1>4
<1>6. Nameless(s \ T) \subseteq Nameless(t \ T) /\ Nameless(t \ T) \subseteq Nameless(s \ T)
  BY <1>5, SentTells
<1> QED
  BY <1>1, <1>2, <1>6

\* A list without repetition has as many members as places.
LEMMA CountedByPlace ==
  ASSUME NEW n \in Nat, NEW f, f = [i \in 1..n |-> f[i]], \A i, j \in 1..n : f[i] = f[j] => i = j
  PROVE  Cardinality({f[i] : i \in 1..n}) = n
<1> DEFINE S == {f[i] : i \in 1..n}
<1>1. f \in [1..n -> S]
  OBVIOUS
<1>2. \A y \in S : \E i \in 1..n : f[i] = y
  OBVIOUS
<1>3. DOMAIN f = 1..n
  OBVIOUS
<1> HIDE DEF S
<1>4. f \in Bijection(1..n, S)
  BY <1>1, <1>2, <1>3 DEF Bijection, Injection, Surjection, IsInjective
<1>5. ExistsBijection(1..n, S)
  BY <1>4 DEF ExistsBijection
<1>6. IsFiniteSet(1..n) /\ Cardinality(1..n) = n
  <2>1. 1 \in Int /\ n \in Int
    OBVIOUS
  <2>2. IsFiniteSet(1..n) /\ Cardinality(1..n) = IF 1 > n THEN 0 ELSE n - 1 + 1
    BY <2>1, FS_Interval, Zenon
  <2>3. (IF 1 > n THEN 0 ELSE n - 1 + 1) = n
    OBVIOUS
  <2> QED
    BY <2>2, <2>3
<1>7. Cardinality(S) = Cardinality(1..n)
  BY <1>5, <1>6, FS_Bijection
<1> QED
  BY <1>6, <1>7 DEF S

\* The action for what dedup leaves sends as many packets as it has outputs.
LEMMA SendsOnceIs ==
  ASSUME NEW o, IsOrder(o), NEW par \in Actions, NEW k, Arrived(k),
         NEW T \in SUBSET Tests, PassesAll(k, T), Mild(k, par) \in Actions,
         NEW action, action = ToAction(o, T, Mild(k, par))
  PROVE  Cardinality(RunPar(action, k)) = Len(action)
<1> DEFINE B == Bare(T, Mild(k, par))
           n == Cardinality(B)
           in == InPortOf(T)
<1>1. n \in Nat /\ B = Bare(T, Mild(k, par)) /\ n = Cardinality(B) /\ in = InPortOf(T)
  BY ToActionIs
<1> HIDE DEF n, in, B
<1>2. PICK L : /\ action = [i \in 1..n |-> Output(in, L[i])]
               /\ \A i \in 1..n : L[i] \in B
               /\ \A s \in B : \E i \in 1..n : L[i] = s
               /\ \A i, j \in 1..n : i # j => L[i] # L[j]
  BY <1>1, ToActionIs
<1> DEFINE f == [i \in 1..n |-> Sends(k, in, L[i])]
<1>3. \A i \in 1..n : f[i] = Sends(k, in, L[i])
  OBVIOUS
<1>4. RunPar(action, k) = {f[i] : i \in 1..n}
  <2>1. RunPar(action, k) = {Emit(k, Modify(action[i].mods, k), action[i].out) : i \in 1..n}
    BY <1>2 DEF RunPar
  <2>2. \A i \in 1..n : Emit(k, Modify(action[i].mods, k), action[i].out) = f[i]
    BY <1>2 DEF Sends
  <2> QED
    BY <2>1, <2>2
<1>5. f = [i \in 1..n |-> f[i]]
  OBVIOUS
<1> HIDE DEF f
<1>6. \A i, j \in 1..n : f[i] = f[j] => i = j
  BY <1>1, <1>2, <1>3, SendsApart
<1>7. Cardinality({f[i] : i \in 1..n}) = n
  BY <1>1, <1>5, <1>6, CountedByPlace
<1>8. Len(action) = n
  BY <1>1, <1>2
<1> QED
  BY <1>4, <1>7, <1>8

\* With dedup the action of a table is one for what dedup leaves.
LEMMA DedupedFor ==
  ASSUME SomeBits, NEW o, IsOrder(o), NEW u, Good(o, u), NEW sw \in Switches, NEW k \in PacketsAt(sw)
  PROVE  \E T \in SUBSET Tests :
           /\ Val(u, k) \in Actions /\ Mild(k, Val(u, k)) \in Actions
           /\ Arrived(k) /\ PassesAll(k, T)
           /\ ActionFor(ToTable(o, Options(TRUE, FALSE, FALSE), sw, u), k) = ToAction(o, T, Mild(k, Val(u, k)))
<1> DEFINE opts == Options(TRUE, FALSE, FALSE)
           w == Dedup(o, u)
           table == ToTable(o, opts, sw, u)
<1>1. opts \in [dedup : BOOLEAN, optimize : BOOLEAN, tailless : BOOLEAN] /\ ~ opts.optimize /\ opts.dedup
  BY DEF Options
<1>2. Deduped(o, opts, u) = w
  BY <1>1 DEF Deduped
<1> HIDE DEF opts
<1>3. TableFor(o, opts, sw, u, table)
  BY <1>1, ToTableIs
<1>4. k \in AllPackets
  BY ConstantsAreTyped DEF PacketsAt
<1>5. Good(o, w)
  BY <1>2, DedupedIs
<1>6. Val(w, k) = Mild(k, Val(u, k))
  BY <1>4, DedupVal
<1> HIDE DEF w, table
<1>7. Val(u, k) \in Actions /\ Val(w, k) \in Actions
  BY <1>4, <1>5, ValIsAction DEF Good
<1>8. Arrived(k) /\ IsFor(o, Val(w, k), k, ActionFor(table, k))
  BY <1>1, <1>2, <1>3 DEF TableFor, MayConfuse
<1>9. PICK T \in SUBSET Tests : PassesAll(k, T) /\ ActionFor(table, k) = ToAction(o, T, Val(w, k))
  BY <1>8 DEF IsFor
<1> QED
  BY <1>6, <1>7, <1>8, <1>9 DEF table, opts

\* With the option dedup_flows no row of a table sends the same packet twice.
THEOREM NoPacketsTwice == ASSUME SomeBits PROVE Spec => []NoPacketTwice
<1> DEFINE Inv == IndInv /\ Meaning
<1>1. Init => Inv
  BY InitHolds
<1>2. Inv /\ [Next]_vars => Inv'
  BY StepKeeps
<1>3. Inv => NoPacketTwice
  <2> SUFFICES ASSUME Inv, NEW sw \in Switches, NEW k \in PacketsAt(sw)
               PROVE  LET action == ActionFor(ToTable(order, Options(TRUE, FALSE, FALSE), sw, diagram), k)
                      IN Cardinality(RunPar(action, k)) = Len(action)
    BY DEF NoPacketTwice, SendsOnce
  <2>1. IsOrder(order) /\ Good(order, diagram)
    BY DEF IndInv
  <2> DEFINE action == ActionFor(ToTable(order, Options(TRUE, FALSE, FALSE), sw, diagram), k)
             par == Val(diagram, k)
  <2>2. PICK T \in SUBSET Tests :
           /\ par \in Actions /\ Mild(k, par) \in Actions
           /\ Arrived(k) /\ PassesAll(k, T)
           /\ action = ToAction(order, T, Mild(k, par))
    BY <2>1, DedupedFor
  <2> HIDE DEF action, par
  <2>3. Cardinality(RunPar(action, k)) = Len(action)
    BY <2>1, <2>2, SendsOnceIs
  <2> QED
    BY <2>3 DEF action
<1> QED
  BY <1>1, <1>2, <1>3, PTL DEF Spec

---------------------------------------------------------------------------

\* The modifications that the outputs of an action make are maps.
LEMMA ActionIsTyped ==
  ASSUME NEW o, IsOrder(o), NEW T \in SUBSET Tests, NEW par \in Actions, NEW action, action = ToAction(o, T, par)
  PROVE  /\ Len(action) \in Nat /\ DOMAIN action = 1..Len(action)
         /\ \A i \in DOMAIN action : action[i].mods \in Seqs
<1> DEFINE B == Bare(T, par)
           n == Cardinality(B)
           in == InPortOf(T)
<1>1. n \in Nat /\ B = Bare(T, par) /\ n = Cardinality(B) /\ in = InPortOf(T)
  BY ToActionIs
<1> HIDE DEF n, in, B
<1>2. PICK L : /\ action = [i \in 1..n |-> Output(in, L[i])]
               /\ \A i \in 1..n : L[i] \in B
               /\ \A s \in B : \E i \in 1..n : L[i] = s
               /\ \A i, j \in 1..n : i # j => L[i] # L[j]
  BY <1>1, ToActionIs
<1>3. Len(action) = n /\ DOMAIN action = 1..n
  BY <1>1, <1>2
<1>4. ASSUME NEW i \in 1..n PROVE action[i].mods \in Seqs
  <2>1. action[i].mods = {hv \in L[i] : hv[1] # "Location"}
    BY <1>2 DEF Output
  <2>2. PICK s \in par : L[i] = Nameless(s \ T)
    <3>1. L[i] \in Bare(T, par)
      BY <1>1, <1>2
    <3> QED
      BY <3>1 DEF Bare, Unpiped, DemodAll
  <2>3. s \ T \in Seqs
    BY DEF Actions, Seqs, Functional
  <2>4. action[i].mods = {hv \in s \ T : hv[1] # "Location"}
    BY <2>1, <2>2, <2>3, NamelessIs
  <2> QED
    BY <2>3, <2>4 DEF Seqs, Functional
<1> QED
  BY <1>1, <1>3, <1>4

\* Modifications that set the same fields undo those that went before.
LEMMA ModifyOver ==
  ASSUME NEW s \in Seqs, NEW t \in Seqs, FieldsOf(s) = FieldsOf(t), NEW k \in AllPackets
  PROVE  Modify(t, Modify(s, k)) = Modify(t, k)
<1> DEFINE i == Modify(s, k)
           j == Modify(t, i)
           l == Modify(t, k)
<1>1. /\ i \in AllPackets
      /\ \A f \in Fields : f \notin FieldsOf(s) => i[f] = k[f]
  BY ModifyIs
<1> HIDE DEF i
<1>2. /\ j \in AllPackets /\ l \in AllPackets
      /\ \A x \in t : j[x[1]] = x[2] /\ l[x[1]] = x[2]
      /\ \A f \in Fields : f \notin FieldsOf(t) => j[f] = i[f] /\ l[f] = k[f]
  BY <1>1, ModifyIs
<1> HIDE DEF j, l
<1>3. ASSUME NEW f \in Fields PROVE j[f] = l[f]
  <2>1. CASE f \in FieldsOf(t)
    <3>1. PICK x \in t : x[1] = f
      BY <2>1 DEF FieldsOf
    <3> QED
      BY <1>2, <3>1
  <2>2. CASE f \notin FieldsOf(t)
    BY <1>1, <1>2, <2>2
  <2> QED
    BY <2>1, <2>2
<1>4. j = l
  BY <1>2, <1>3, PacketIs
<1> QED
  BY <1>4 DEF i, j, l

\* The packet after each place of a list of actions, as RunList defines it.
NowFor(action, pkt) ==
  CHOOSE now : now = [i \in 0..Len(action) |-> IF i = 0 THEN pkt ELSE Modify(action[i].mods, now[i - 1])]

\* Where all modifications set the same fields a list of actions does what its parts do.
LEMMA UniformRuns ==
  ASSUME NEW action, Len(action) \in Nat, DOMAIN action = 1..Len(action),
         \A i \in DOMAIN action : action[i].mods \in Seqs,
         Uniform(action), NEW k \in AllPackets
  PROVE  RunList(action, k) = RunPar(action, k)
<1> DEFINE n == Len(action)
           now == NowFor(action, k)
           g == [i \in 0..n |-> IF i = 0 THEN k ELSE Modify(action[i].mods, k)]
<1>1. ASSUME NEW i \in 1..n, i - 1 # 0
      PROVE  Modify(action[i].mods, Modify(action[i - 1].mods, k)) = Modify(action[i].mods, k)
  <2>1. i \in DOMAIN action /\ i - 1 \in DOMAIN action
    BY <1>1
  <2>2. FieldsOf(action[i - 1].mods) = FieldsOf(action[i].mods)
    BY <2>1 DEF Uniform
  <2> QED
    BY <2>1, <2>2, ModifyOver
<1>2. g = [i \in 0..n |-> IF i = 0 THEN k ELSE Modify(action[i].mods, g[i - 1])]
  <2>1. ASSUME NEW i \in 0..n PROVE g[i] = IF i = 0 THEN k ELSE Modify(action[i].mods, g[i - 1])
    <3>1. CASE i = 0
      BY <3>1
    <3>2. CASE i # 0
      <4>1. i \in 1..n /\ i - 1 \in 0..n
        BY <3>2
      <4>2. g[i] = Modify(action[i].mods, k)
        BY <3>2
      <4>3. g[i - 1] = IF i - 1 = 0 THEN k ELSE Modify(action[i - 1].mods, k)
        BY <4>1
      <4> HIDE DEF g
      <4>4. Modify(action[i].mods, g[i - 1]) = Modify(action[i].mods, k)
        BY <1>1, <4>1, <4>3
      <4> QED
        BY <3>2, <4>2, <4>4
    <3> QED
      BY <3>1, <3>2
  <2>2. g = [i \in 0..n |-> g[i]]
    OBVIOUS
  <2> HIDE DEF g
  <2> QED
    BY <2>1, <2>2
<1>3. now = [i \in 0..n |-> IF i = 0 THEN k ELSE Modify(action[i].mods, now[i - 1])]
  <2> HIDE DEF g
  <2> QED
    BY <1>2, Zenon DEF NowFor
<1>4. RunList(action, k) = {Emit(k, now[i], action[i].out) : i \in DOMAIN action}
  BY Zenon DEF RunList, NowFor
<1> HIDE DEF now, n
<1> DEFINE S == {m \in Nat : m \in 0..n => now[m] = g[m]}
<1>5. n \in Nat /\ DOMAIN action = 1..n
  BY DEF n
<1>6. 0 \in S
  BY <1>3, <1>5
<1>7. ASSUME NEW m \in Nat, m \in S PROVE m + 1 \in S
  <2> SUFFICES ASSUME m + 1 \in 0..n PROVE now[m + 1] = g[m + 1]
    OBVIOUS
  <2>1. m \in 0..n /\ m + 1 # 0 /\ (m + 1) - 1 = m
    BY <1>5
  <2>2. now[m] = g[m]
    BY <1>7, <2>1
  <2> HIDE DEF g
  <2>3. now[m + 1] = Modify(action[m + 1].mods, now[m])
    BY <1>3, <2>1
  <2>4. g[m + 1] = Modify(action[m + 1].mods, g[m])
    BY <1>2, <2>1
  <2> QED
    BY <2>2, <2>3, <2>4
<1>8. Nat \subseteq S
  <2> HIDE DEF S
  <2> QED
    BY <1>6, <1>7, StarLoops!NatInduces
<1>9. ASSUME NEW i \in DOMAIN action PROVE now[i] = Modify(action[i].mods, k)
  <2>1. i \in Nat /\ i \in 0..n /\ i # 0
    BY <1>5
  <2>2. now[i] = g[i]
    BY <1>8, <2>1
  <2> QED
    BY <2>1, <2>2
<1>10. {Emit(k, now[i], action[i].out) : i \in DOMAIN action}
         = {Emit(k, Modify(action[i].mods, k), action[i].out) : i \in DOMAIN action}
  <2> HIDE DEF g
  <2> QED
    BY <1>9
<1> QED
  BY <1>4, <1>10 DEF RunPar

\* Where all sets of modifications of a row set the same fields, the list of
\* actions that OpenFlow 1.0 has does to a packet what the policy does.
THEOREM UniformRowsDo == ASSUME SomeBits PROVE Spec => []UniformRowsRun
<1> DEFINE Inv == IndInv /\ Meaning
<1>1. Init => Inv
  BY InitHolds
<1>2. Inv /\ [Next]_vars => Inv'
  BY StepKeeps
<1>3. Inv => UniformRowsRun
  <2> DEFINE opts == Options(TRUE, FALSE, FALSE)
  <2> SUFFICES ASSUME Inv, NEW sw \in Switches, NEW k \in PacketsAt(sw),
                      Uniform(ActionFor(ToTable(order, opts, sw, diagram), k))
               PROVE  RunList(ActionFor(ToTable(order, opts, sw, diagram), k), k) = Seen(k)
    BY DEF UniformRowsRun, RunsWhereUniform
  <2> DEFINE action == ActionFor(ToTable(order, opts, sw, diagram), k)
  <2>1. IsOrder(order) /\ Good(order, diagram)
    BY DEF IndInv
  <2>2. PICK T \in SUBSET Tests :
           /\ Val(diagram, k) \in Actions /\ Mild(k, Val(diagram, k)) \in Actions
           /\ Arrived(k) /\ PassesAll(k, T)
           /\ action = ToAction(order, T, Mild(k, Val(diagram, k)))
    BY <2>1, DedupedFor
  <2>3. opts \in [dedup : BOOLEAN, optimize : BOOLEAN, tailless : BOOLEAN] /\ ~ opts.optimize
    BY DEF Options
  <2> HIDE DEF opts
  <2>4. RunPar(action, k) = Seen(k)
    BY <2>3, TablesDo DEF MayConfuse
  <2>5. k \in AllPackets
    BY <2>2 DEF Arrived
  <2>6. Uniform(action)
    OBVIOUS
  <2> HIDE DEF action
  <2>7. /\ Len(action) \in Nat /\ DOMAIN action = 1..Len(action)
        /\ \A i \in DOMAIN action : action[i].mods \in Seqs
    BY <2>1, <2>2, ActionIsTyped
  <2>8. RunList(action, k) = RunPar(action, k)
    BY <2>5, <2>6, <2>7, UniformRuns
  <2> QED
    BY <2>4, <2>8 DEF action
<1> QED
  BY <1>1, <1>2, <1>3, PTL DEF Spec
====
