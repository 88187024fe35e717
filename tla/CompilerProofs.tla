---- MODULE CompilerProofs ----
(* What is proved of the local compiler, for any policies, packets and orders of the
   fields.  First of the operations on diagrams, each by induction on what it goes
   through: Restrict, MapR, Apply, sequential composition, star', predicates, policies
   and dedup.  Then that the diagram stays ordered and means what the semantics says,
   whatever is compiled, added, put after it or starred. *)
EXTENDS LocalCompiler, FiniteSetTheorems, TLAPS

---------------------------------------------------------------------------
(* Powers of two and division. *)

\* Numbers are their own ranks.
Identity(n) == n
PowerBody(g, n) == IF n = 0 THEN 1 ELSE 2 * g[n - 1]
Powers == INSTANCE Recursion WITH Domain <- Nat, Rank <- Identity, Body <- PowerBody

\* pow2 satisfies its recursive definition.
LEMMA PowersOfTwo == pow2[0] = 1 /\ \A n \in Nat : pow2[n + 1] = 2 * pow2[n]
<1>1. Powers!Descends
  <2> SUFFICES ASSUME NEW n \in Nat, NEW g, NEW h,
                      \A m \in Nat : Identity(m) < Identity(n) => g[m] = h[m]
               PROVE  PowerBody(g, n) = PowerBody(h, n)
    BY DEF Powers!Descends, Identity
  <2>1. n # 0 => n - 1 \in Nat /\ n - 1 < n
    OBVIOUS
  <2> QED
    BY <2>1 DEF PowerBody, Identity
<1>2. pow2 = Powers!f
  BY DEF pow2, Powers!f, PowerBody
<1>3. \A n \in Nat : pow2[n] = PowerBody(pow2, n)
  BY <1>1, <1>2, Powers!UnfoldsAt
<1>4. pow2[0] = 1
  BY <1>3 DEF PowerBody
<1>5. ASSUME NEW n \in Nat PROVE pow2[n + 1] = 2 * pow2[n]
  <2>1. n + 1 \in Nat /\ n + 1 # 0 /\ (n + 1) - 1 = n
    OBVIOUS
  <2> QED
    BY <1>3, <2>1 DEF PowerBody
<1> QED
  BY <1>4, <1>5

\* A power of two is a positive natural number.
LEMMA PowersArePositive == \A n \in Nat : pow2[n] \in Nat \ {0}
<1> DEFINE S == {n \in Nat : pow2[n] \in Nat \ {0}}
<1>1. 0 \in S
  BY PowersOfTwo
<1>2. ASSUME NEW n \in Nat, n \in S PROVE n + 1 \in S
  BY <1>2, PowersOfTwo
<1> HIDE DEF S
<1>3. Nat \subseteq S
  BY <1>1, <1>2, Powers!NatInduces
<1> QED
  BY <1>3 DEF S

\* Exponents add.
LEMMA PowersAdd == ASSUME NEW m \in Nat PROVE \A n \in Nat : pow2[m + n] = pow2[m] * pow2[n]
<1> DEFINE S == {n \in Nat : pow2[m + n] = pow2[m] * pow2[n]}
<1>1. 0 \in S
  BY PowersOfTwo, PowersArePositive
<1>2. ASSUME NEW n \in Nat, n \in S PROVE n + 1 \in S
  <2>1. pow2[m + n] = pow2[m] * pow2[n]
    BY <1>2
  <2>2. pow2[m + (n + 1)] = 2 * pow2[m + n]
    <3>1. m + n \in Nat /\ m + (n + 1) = (m + n) + 1
      OBVIOUS
    <3> QED
      BY <3>1, PowersOfTwo
  <2>3. pow2[n + 1] = 2 * pow2[n] /\ pow2[n] \in Nat /\ pow2[m] \in Nat
    BY PowersOfTwo, PowersArePositive
  <2> DEFINE a == pow2[m]
             b == pow2[n]
  <2>4. a \in Nat /\ b \in Nat /\ pow2[m + (n + 1)] = 2 * (a * b) /\ pow2[n + 1] = 2 * b
    BY <2>1, <2>2, <2>3
  <2> HIDE DEF a, b
  <2>5. 2 * (a * b) = a * (2 * b)
    BY <2>4
  <2> QED
    BY <2>4, <2>5 DEF a
<1> HIDE DEF S
<1>3. Nat \subseteq S
  BY <1>1, <1>2, Powers!NatInduces
<1> QED
  BY <1>3 DEF S

\* pow2 is increasing.
LEMMA PowersGrow == ASSUME NEW m \in Nat, NEW n \in Nat, m < n PROVE pow2[m] < pow2[n]
<1>1. n - m \in Nat /\ n - m - 1 \in Nat /\ m + (n - m) = n /\ (n - m - 1) + 1 = n - m
  OBVIOUS
<1> DEFINE a == pow2[m]
           b == pow2[n - m - 1]
<1>2. a \in Nat \ {0} /\ b \in Nat \ {0}
  BY <1>1, PowersArePositive
<1>3. pow2[n] = a * pow2[n - m]
  BY <1>1, PowersAdd
<1>4. pow2[n - m] = 2 * b
  BY <1>1, PowersOfTwo
<1> HIDE DEF a, b
<1>5. a < a * (2 * b)
  BY <1>2
<1> QED
  BY <1>3, <1>4, <1>5 DEF a

\* What \div is, for a negative dividend too.
LEMMA Division ==
  ASSUME NEW x \in Int, NEW d \in Nat \ {0}
  PROVE  x \div d \in Int /\ d * (x \div d) <= x /\ x < d * (x \div d) + d
  OBVIOUS

\* A common divisor can be left out of a comparison of multiples.
LEMMA Cancel ==
  ASSUME NEW d \in Nat \ {0}, NEW p \in Int, NEW q \in Int, d * p < d * q + d
  PROVE  p <= q
<1> SUFFICES ASSUME q + 1 <= p PROVE FALSE
  OBVIOUS
<1>1. d * (q + 1) <= d * p
  OBVIOUS
<1> QED
  BY <1>1

\* The quotient by a product, and what it says of the quotient by a factor.
LEMMA DivideTwice ==
  ASSUME NEW x \in Int, NEW d \in Nat \ {0}, NEW c \in Nat \ {0}
  PROVE  /\ x \div d \in Int /\ x \div (d * c) \in Int
         /\ c * (x \div (d * c)) <= x \div d
         /\ x \div d <= c * (x \div (d * c)) + c - 1
<1> DEFINE q == x \div d
           e == d * c
           r == x \div e
<1>0. e \in Nat \ {0}
  OBVIOUS
<1> HIDE DEF e
<1>1. q \in Int /\ d * q <= x /\ x < d * q + d
  BY Division
<1>2. r \in Int /\ e * r <= x /\ x < e * r + e
  BY <1>0, Division
<1> HIDE DEF q, r
<1>3. e * r = d * (c * r) /\ c * r \in Int
  BY <1>1, <1>2 DEF e
<1>4. d * (c * r) < d * q + d
  BY <1>0, <1>1, <1>2, <1>3
<1>5. c * r <= q
  BY <1>1, <1>3, <1>4, Cancel
<1>6. d * q < d * (c * r + c - 1) + d
  BY <1>1, <1>2, <1>3 DEF e
<1>7. q <= c * r + c - 1
  BY <1>1, <1>3, <1>6, Cancel
<1> QED
  BY <1>1, <1>2, <1>5, <1>7 DEF q, r, e

---------------------------------------------------------------------------
(* Sets that are built up in levels. *)

\* Each level contains the ones below it.
LEMMA LevelsAscend ==
  ASSUME NEW L, \A i \in Nat : L[i] \subseteq L[i + 1], NEW m \in Nat, NEW n \in Nat, m <= n
  PROVE  L[m] \subseteq L[n]
<1> DEFINE T == {i \in Nat : L[m] \subseteq L[m + i]}
<1>1. 0 \in T
  OBVIOUS
<1>2. ASSUME NEW i \in Nat, i \in T PROVE i + 1 \in T
  <2>1. m + i \in Nat /\ (m + i) + 1 = m + (i + 1)
    OBVIOUS
  <2>2. L[m + i] \subseteq L[(m + i) + 1]
    BY <2>1
  <2>3. L[m] \subseteq L[m + i]
    BY <1>2
  <2>4. L[m] \subseteq L[m + (i + 1)]
    BY <2>1, <2>2, <2>3
  <2> QED
    BY <2>4
<1>3. Nat \subseteq T
  <2> HIDE DEF T
  <2> QED
    BY <1>1, <1>2, Powers!NatInduces
<1>4. n - m \in T /\ m + (n - m) = n
  BY <1>3
<1>5. L[m] \subseteq L[m + (n - m)]
  BY <1>4
<1> QED
  BY <1>4, <1>5

\* The first level that u is on.
FirstLevel(L, u) == CHOOSE n \in Nat : u \in L[n] /\ \A m \in Nat : m < n => u \notin L[m]

\* The first level of an element is one that holds it, and no later than any other.
LEMMA FirstLevelIs ==
  ASSUME NEW L, NEW n \in Nat, NEW u, u \in L[n]
  PROVE  FirstLevel(L, u) \in Nat /\ u \in L[FirstLevel(L, u)] /\ FirstLevel(L, u) <= n
<1> DEFINE P(i) == u \in L[i] /\ \A m \in Nat : m < i => u \notin L[m]
           S == {i \in Nat : (\E m \in Nat : m <= i /\ u \in L[m]) => \E m \in Nat : P(m)}
<1>1. 0 \in S
  <2> SUFFICES ASSUME NEW m \in Nat, m <= 0, u \in L[m] PROVE P(0)
    OBVIOUS
  <2>1. m = 0
    OBVIOUS
  <2> QED
    BY <2>1
<1>2. ASSUME NEW i \in Nat, i \in S PROVE i + 1 \in S
  <2> SUFFICES ASSUME NEW m \in Nat, m <= i + 1, u \in L[m]
               PROVE  \E j \in Nat : P(j)
    OBVIOUS
  <2>1. CASE \E j \in Nat : j <= i /\ u \in L[j]
    BY <1>2, <2>1
  <2>2. CASE \A j \in Nat : j <= i => u \notin L[j]
    <3>1. m = i + 1
      BY <2>2
    <3>2. P(i + 1)
      BY <2>2, <3>1
    <3> QED
      BY <3>2
  <2> QED
    BY <2>1, <2>2
<1>3. Nat \subseteq S
  <2> HIDE DEF S
  <2> QED
    BY <1>1, <1>2, Powers!NatInduces
<1>4. n \in S
  BY <1>3
<1>5. \E m \in Nat : P(m)
  BY <1>4
<1>6. FirstLevel(L, u) \in Nat /\ P(FirstLevel(L, u))
  BY <1>5 DEF FirstLevel
<1> QED
  BY <1>6

---------------------------------------------------------------------------
(* Values are intervals: those of masks are nested or disjoint, and ValueLess
   compares their upper ends, and where these are equal the lower ones. *)

\* Values of the three kinds that are ever tested.
IsMask(v) == \E n \in 0..(pow2[Width] - 1), m \in 0..Width : v = Mask(n, m)
IsPipe(v) == \E n \in Nat : v = Pipe(n)
IsValue(v) == IsMask(v) \/ IsPipe(v)

\* A value stands for an interval: a mask for the values it covers, a pipe for a point after
\* all of those.
Size(v) == pow2[Width - v.len]
Low(v) == IF v.kind = "mask" THEN Size(v) * Shifted(v, v.len) ELSE 2 * pow2[Width] + v.bits
High(v) == IF v.kind = "mask" THEN Size(v) * Shifted(v, v.len) + Size(v) - 1
           ELSE 2 * pow2[Width] + v.bits

\* The assumptions on the widths and depths, as numbers.
LEMMA WidthIsPositive == Width \in Nat \ {0} /\ MaxDepth \in Nat
  BY ValuesAreTyped

\* The parts of a mask, and their ranges.
LEMMA MaskFields ==
  ASSUME NEW v, IsMask(v)
  PROVE  /\ v.kind = "mask" /\ v.bits \in Int /\ v.len \in 0..Width
         /\ - pow2[Width - 1] <= v.bits /\ v.bits < pow2[Width - 1]
         /\ Size(v) \in Nat \ {0} /\ Width - v.len \in Nat
<1>1. PICK n \in 0..(pow2[Width] - 1), m \in 0..Width : v = Mask(n, m)
  BY DEF IsMask
<1>2. v.kind = "mask" /\ v.bits = Signed(n) /\ v.len = m
  BY <1>1 DEF Mask
<1>3. Width \in Nat /\ Width - 1 \in Nat /\ (Width - 1) + 1 = Width
  BY WidthIsPositive
<1>4. pow2[Width] = 2 * pow2[Width - 1] /\ pow2[Width] \in Nat /\ pow2[Width - 1] \in Nat
  BY <1>3, PowersOfTwo, PowersArePositive
<1>5. v.bits \in Int /\ - pow2[Width - 1] <= v.bits /\ v.bits < pow2[Width - 1]
  BY <1>2, <1>4 DEF Signed
<1>6. Width - v.len \in Nat
  BY <1>2, <1>3
<1>7. Size(v) \in Nat \ {0}
  BY <1>6, PowersArePositive DEF Size
<1> QED
  BY <1>2, <1>5, <1>6, <1>7

\* The parts of a pipe.
LEMMA PipeFields == ASSUME NEW v, IsPipe(v) PROVE v.kind = "pipe" /\ v.bits \in Nat
  BY DEF IsPipe, Pipe

\* The value of a header that the packet does not have.
LEMMA AbsentFields == Absent.kind = "absent"
  BY DEF Absent

\* A prefix and a longer one.
LEMMA MasksNest ==
  ASSUME NEW a, NEW b, IsMask(a), IsMask(b), b.len <= a.len
  PROVE  /\ Shifted(a, b.len) \in Int /\ Shifted(b, b.len) \in Int
         /\ Shifted(a, b.len) = Shifted(b, b.len) => Low(b) <= Low(a) /\ High(a) <= High(b)
         /\ Shifted(a, b.len) < Shifted(b, b.len) => High(a) < Low(b)
         /\ Shifted(a, b.len) > Shifted(b, b.len) => High(b) < Low(a)
<1> DEFINE d == Size(a)
           c == pow2[a.len - b.len]
           q == Shifted(a, a.len)
           r == Shifted(a, b.len)
           s == Shifted(b, b.len)
<1>1. /\ a.len \in Nat /\ b.len \in Nat /\ Width \in Nat /\ a.len - b.len \in Nat
      /\ Width - a.len \in Nat /\ (Width - a.len) + (a.len - b.len) = Width - b.len
  BY MaskFields, WidthIsPositive
<1>2. d \in Nat \ {0} /\ c \in Nat \ {0}
  BY <1>1, PowersArePositive DEF Size
<1>3. pow2[Width - b.len] = d * c /\ Size(b) = d * c
  <2>1. pow2[(Width - a.len) + (a.len - b.len)] = d * c
    BY <1>1, PowersAdd DEF Size
  <2> QED
    BY <1>1, <2>1 DEF Size
<1>4. a.bits \in Int /\ b.bits \in Int
  BY MaskFields
<1>5. q = a.bits \div d /\ r = a.bits \div (d * c) /\ s = b.bits \div (d * c)
  BY <1>3 DEF Shifted, Size
<1>6. Low(a) = d * q /\ High(a) = d * q + d - 1
  BY MaskFields DEF Low, High
<1>7. Low(b) = (d * c) * s /\ High(b) = (d * c) * s + d * c - 1
  BY <1>3, MaskFields DEF Low, High
<1>8. d * c \in Nat \ {0}
  BY <1>2
<1> HIDE DEF c, d, q, r, s
<1>9. q \in Int /\ r \in Int /\ c * r <= q /\ q <= c * r + c - 1
  BY <1>2, <1>4, <1>5, DivideTwice
<1>10. s \in Int
  BY <1>4, <1>5, <1>8, Division
<1>11. (d * c) * r <= d * q
  <2>1. c * r \in Int /\ d * (c * r) <= d * q
    BY <1>2, <1>9
  <2> QED
    BY <1>2, <1>9, <2>1
<1>12. d * q + d <= (d * c) * r + d * c
  <2>1. c * r \in Int /\ d * q <= d * (c * r + c - 1)
    BY <1>2, <1>9
  <2>2. d * (c * r + c - 1) = (d * c) * r + d * c - d
    BY <1>2, <1>9, <2>1
  <2>3. d * q \in Int /\ (d * c) * r \in Int /\ d * c \in Int
    BY <1>2, <1>9
  <2> QED
    BY <1>2, <2>1, <2>2, <2>3
<1> DEFINE e == d * c
<1>13. e \in Nat \ {0} /\ d * q \in Int /\ d * c = e
  BY <1>2, <1>8, <1>9
<1> HIDE DEF e
<1>14. r < s => e * r + e <= e * s
  BY <1>9, <1>10, <1>13
<1>15. r > s => e * s + e <= e * r
  BY <1>9, <1>10, <1>13
<1>16. e * r \in Int /\ e * s \in Int
  BY <1>9, <1>10, <1>13
<1>17. e * r <= d * q /\ d * q + d <= e * r + e /\ Low(b) = e * s /\ High(b) = e * s + e - 1
  BY <1>7, <1>11, <1>12, <1>13
<1>18. r = s => Low(b) <= Low(a) /\ High(a) <= High(b)
  BY <1>2, <1>6, <1>13, <1>16, <1>17
<1>19. r < s => High(a) < Low(b)
  BY <1>2, <1>6, <1>13, <1>14, <1>16, <1>17
<1>20. r > s => High(b) < Low(a)
  BY <1>2, <1>6, <1>13, <1>15, <1>16, <1>17
<1> QED
  BY <1>9, <1>10, <1>18, <1>19, <1>20 DEF r, s

\* The interval of a mask is not empty and lies below those of the pipes.
LEMMA MaskEnds ==
  ASSUME NEW v, IsMask(v)
  PROVE  /\ Low(v) \in Int /\ High(v) \in Int /\ High(v) = Low(v) + Size(v) - 1
         /\ Low(v) <= High(v) /\ High(v) < 2 * pow2[Width]
<1>1. Size(v) \in Nat \ {0} /\ v.bits \in Int /\ v.bits < pow2[Width - 1] /\ v.kind = "mask"
  BY MaskFields
<1>2. Shifted(v, v.len) = v.bits \div Size(v)
  BY DEF Shifted, Size
<1>3. Shifted(v, v.len) \in Int /\ Size(v) * Shifted(v, v.len) <= v.bits
  BY <1>1, <1>2, Division
<1>4. Low(v) = Size(v) * Shifted(v, v.len) /\ High(v) = Size(v) * Shifted(v, v.len) + Size(v) - 1
  BY <1>1 DEF Low, High
<1>5. Size(v) * Shifted(v, v.len) \in Int
  BY <1>1, <1>3
<1>6. Size(v) <= pow2[Width] /\ pow2[Width - 1] <= pow2[Width] /\ pow2[Width] \in Nat
      /\ pow2[Width - 1] \in Nat
  <2>1. Width \in Nat /\ Width - v.len \in Nat /\ Width - 1 \in Nat /\ v.len \in Nat
    BY MaskFields, WidthIsPositive
  <2>2. pow2[Width] \in Nat /\ pow2[Width - 1] \in Nat
    BY <2>1, PowersArePositive
  <2>3. Width - v.len = Width \/ Width - v.len < Width
    BY <2>1
  <2>4. Size(v) <= pow2[Width]
    <3> DEFINE n == Width - v.len
    <3>1. n \in Nat /\ (n = Width \/ n < Width) /\ Size(v) = pow2[n]
      BY <2>1, <2>3 DEF Size
    <3> HIDE DEF n
    <3>2. n < Width => pow2[n] < pow2[Width]
      BY <2>1, <3>1, PowersGrow
    <3>3. pow2[n] \in Nat
      BY <3>1, PowersArePositive
    <3> QED
      BY <2>2, <3>1, <3>2, <3>3
  <2>5. pow2[Width - 1] < pow2[Width]
    BY <2>1, PowersGrow
  <2> QED
    BY <2>2, <2>4, <2>5
<1> QED
  BY <1>1, <1>3, <1>4, <1>5, <1>6

\* The interval of a pipe is a point.
LEMMA PipeEnds ==
  ASSUME NEW v, IsPipe(v)
  PROVE  Low(v) = 2 * pow2[Width] + v.bits /\ High(v) = Low(v) /\ Low(v) \in Int
<1>1. v.kind = "pipe" /\ v.bits \in Nat
  BY PipeFields
<1>2. pow2[Width] \in Nat
  BY WidthIsPositive, PowersArePositive
<1> QED
  BY <1>1, <1>2 DEF Low, High

\* A longer mask stands for fewer values.
LEMMA SizesShrink ==
  ASSUME NEW a, NEW b, IsMask(a), IsMask(b)
  PROVE  /\ a.len > b.len => Size(a) < Size(b)
         /\ a.len = b.len => Size(a) = Size(b)
<1>1. a.len \in Nat /\ b.len \in Nat /\ Width - a.len \in Nat /\ Width - b.len \in Nat /\ Width \in Nat
  BY MaskFields, WidthIsPositive
<1>2. a.len > b.len => Width - a.len < Width - b.len
  BY <1>1
<1> QED
  BY <1>1, <1>2, PowersGrow DEF Size

\* One interval within another, and before it: by the higher end, the shorter one first.
Inside(a, b) == Low(b) <= Low(a) /\ High(a) <= High(b)
Before(a, b) == High(a) < High(b) \/ (High(a) = High(b) /\ Low(b) < Low(a))

\* Among masks, subset_eq is inclusion of intervals, and the order is by their ends.
LEMMA MaskLessIsBefore ==
  ASSUME NEW a, NEW b, IsMask(a), IsMask(b)
  PROVE  /\ SubsetEq(a, b) <=> Inside(a, b)
         /\ ValueLess(a, b) <=> Before(a, b)
         /\ \/ Inside(a, b)
            \/ Inside(b, a)
            \/ High(a) < Low(b)
            \/ High(b) < Low(a)
<1> DEFINE la == a.len
           lb == b.len
<1>1. la \in Nat /\ lb \in Nat /\ a.kind = "mask" /\ b.kind = "mask"
  BY MaskFields
<1>2. /\ Low(a) \in Int /\ High(a) \in Int /\ High(a) = Low(a) + Size(a) - 1 /\ Low(a) <= High(a)
      /\ Low(b) \in Int /\ High(b) \in Int /\ High(b) = Low(b) + Size(b) - 1 /\ Low(b) <= High(b)
      /\ Size(a) \in Nat /\ Size(b) \in Nat
  BY MaskEnds, MaskFields
<1>3. /\ la > lb => Size(a) < Size(b)
      /\ lb > la => Size(b) < Size(a)
      /\ la = lb => Size(a) = Size(b)
  BY SizesShrink
<1>4. SubsetEq(a, b) <=> la >= lb /\ Shifted(a, lb) = Shifted(b, lb)
  BY <1>1 DEF SubsetEq
<1>5. ValueLess(a, b) <=> MaskLess(a, b, IF la < lb THEN la ELSE lb)
  BY <1>1 DEF ValueLess
<1>6. CASE lb <= la
  <2> DEFINE p == Shifted(a, lb)
             q == Shifted(b, lb)
  <2>1. /\ p \in Int /\ q \in Int
        /\ p = q => Low(b) <= Low(a) /\ High(a) <= High(b)
        /\ p < q => High(a) < Low(b)
        /\ p > q => High(b) < Low(a)
    BY <1>6, MasksNest
  <2>2. ValueLess(a, b) <=> (p < q \/ (p = q /\ la > lb))
    <3>1. ~ (la < lb)
      BY <1>1, <1>6
    <3> QED
      BY <1>5, <3>1 DEF MaskLess
  <2>3. SubsetEq(a, b) <=> p = q
    BY <1>1, <1>4, <1>6
  <2> HIDE DEF p, q, la, lb
  <2> QED
    BY <1>1, <1>2, <1>3, <1>6, <2>1, <2>2, <2>3 DEF Inside, Before
<1>7. CASE la < lb
  <2> DEFINE p == Shifted(a, la)
             q == Shifted(b, la)
  <2>1. /\ p \in Int /\ q \in Int
        /\ q = p => Low(a) <= Low(b) /\ High(b) <= High(a)
        /\ q < p => High(b) < Low(a)
        /\ q > p => High(a) < Low(b)
    <3>1. a.len <= b.len
      BY <1>1, <1>7
    <3> QED
      BY <3>1, MasksNest
  <2>2. ValueLess(a, b) <=> p < q
    BY <1>1, <1>5, <1>7 DEF MaskLess
  <2>3. ~ SubsetEq(a, b)
    BY <1>1, <1>4, <1>7
  <2> HIDE DEF p, q, la, lb
  <2> QED
    BY <1>1, <1>2, <1>3, <1>7, <2>1, <2>2, <2>3 DEF Inside, Before
<1> QED
  BY <1>1, <1>6, <1>7

\* Among all values, subset_eq is inclusion of intervals, which are nested or disjoint.
LEMMA ValuesAreIntervals ==
  ASSUME NEW a, NEW b, IsValue(a), IsValue(b)
  PROVE  /\ Low(a) \in Int /\ High(a) \in Int /\ Low(a) <= High(a)
         /\ SubsetEq(a, b) <=> Inside(a, b)
         /\ ValueLess(a, b) <=> Before(a, b)
         /\ \/ Inside(a, b)
            \/ Inside(b, a)
            \/ High(a) < Low(b)
            \/ High(b) < Low(a)
<1>0. pow2[Width] \in Nat
  BY WidthIsPositive, PowersArePositive
<1>1. CASE IsMask(a) /\ IsMask(b)
  BY <1>1, MaskEnds, MaskLessIsBefore
<1>2. CASE IsMask(a) /\ IsPipe(b)
  <2>1. a.kind = "mask" /\ b.kind = "pipe" /\ b.bits \in Nat
    BY <1>2, MaskFields, PipeFields
  <2>2. /\ Low(a) \in Int /\ High(a) \in Int /\ Low(a) <= High(a) /\ High(a) < 2 * pow2[Width]
        /\ Low(b) = 2 * pow2[Width] + b.bits /\ High(b) = Low(b)
    BY <1>2, MaskEnds, PipeEnds
  <2>3. ~ SubsetEq(a, b) /\ ValueLess(a, b)
    BY <2>1 DEF SubsetEq, ValueLess
  <2> QED
    BY <1>0, <2>1, <2>2, <2>3 DEF Inside, Before
<1>3. CASE IsPipe(a) /\ IsMask(b)
  <2>1. b.kind = "mask" /\ a.kind = "pipe" /\ a.bits \in Nat
    BY <1>3, MaskFields, PipeFields
  <2>2. /\ Low(b) \in Int /\ High(b) \in Int /\ Low(b) <= High(b) /\ High(b) < 2 * pow2[Width]
        /\ Low(a) = 2 * pow2[Width] + a.bits /\ High(a) = Low(a)
    BY <1>3, MaskEnds, PipeEnds
  <2>3. ~ SubsetEq(a, b) /\ ~ ValueLess(a, b)
    BY <2>1 DEF SubsetEq, ValueLess
  <2> QED
    BY <1>0, <2>1, <2>2, <2>3 DEF Inside, Before
<1>4. CASE IsPipe(a) /\ IsPipe(b)
  <2>1. a.kind = "pipe" /\ b.kind = "pipe" /\ a.bits \in Nat /\ b.bits \in Nat
    BY <1>4, PipeFields
  <2>2. /\ Low(a) = 2 * pow2[Width] + a.bits /\ High(a) = Low(a)
        /\ Low(b) = 2 * pow2[Width] + b.bits /\ High(b) = Low(b)
    BY <1>4, PipeEnds
  <2>3. /\ SubsetEq(a, b) <=> a.bits = b.bits
        /\ ValueLess(a, b) <=> a.bits < b.bits
    BY <2>1 DEF SubsetEq, ValueLess
  <2> QED
    BY <1>0, <2>1, <2>2, <2>3 DEF Inside, Before
<1> QED
  BY <1>1, <1>2, <1>3, <1>4 DEF IsValue

---------------------------------------------------------------------------
(* Tests, and the order they are in. *)

\* A test is a pair of a field and a value.
LEMMA TestParts ==
  ASSUME NEW x \in Tests
  PROVE  x = <<x[1], x[2]>> /\ x[1] \in Fields /\ IsValue(x[2])
<1>1. PICK f \in Fields : x \in {f} \X Values[f]
  BY DEF Tests
<1>2. x = <<x[1], x[2]>> /\ x[1] \in Fields
  BY <1>1
<1> DEFINE v == x[2]
<1>3. \/ \E n \in 0..(pow2[Width] - 1), m \in 0..Width : v = Mask(n, m)
      \/ v.kind = "pipe" /\ v = Pipe(v.bits) /\ v.bits \in Nat
  BY ValuesAreTyped
<1>4. IsValue(v)
  <2> HIDE DEF v
  <2> QED
    BY <1>3 DEF IsValue, IsMask, IsPipe
<1> QED
  BY <1>2, <1>4

\* There are finitely many tests.
LEMMA TestsAreFinite == IsFiniteSet(Tests)
<1> DEFINE of(f) == {f} \X Values[f]
<1>1. ASSUME NEW f \in Fields PROVE IsFiniteSet(of(f))
  <2>1. IsFiniteSet(Values[f])
    BY ValuesAreTyped
  <2>2. IsFiniteSet({f})
    BY FS_Singleton
  <2> QED
    BY <2>1, <2>2, FS_Product
<1> HIDE DEF of
<1>2. IsFiniteSet(of("Switch") \cup of("Location"))
  BY <1>1, FS_Union DEF Fields
<1>3. IsFiniteSet(of("EthSrc") \cup of("EthType"))
  BY <1>1, FS_Union DEF Fields
<1>4. IsFiniteSet((of("Switch") \cup of("Location")) \cup (of("EthSrc") \cup of("EthType")))
  BY <1>2, <1>3, FS_Union
<1>5. IsFiniteSet(of("IP4Dst") \cup (of("IPProto") \cup of("TCPDstPort")))
  <2>1. IsFiniteSet(of("IPProto") \cup of("TCPDstPort"))
    BY <1>1, FS_Union DEF Fields
  <2> QED
    BY <1>1, <2>1, FS_Union DEF Fields
<1> DEFINE all == ((of("Switch") \cup of("Location")) \cup (of("EthSrc") \cup of("EthType")))
                  \cup (of("IP4Dst") \cup (of("IPProto") \cup of("TCPDstPort")))
<1>6. IsFiniteSet(all)
  BY <1>4, <1>5, FS_Union
<1>7. Tests = UNION {of(f) : f \in Fields}
  BY DEF Tests, of
<1>8. UNION {of(f) : f \in Fields} = all
  BY DEF Fields
<1> HIDE DEF all
<1> QED
  BY <1>6, <1>7, <1>8

\* Sets of tests have cardinalities, that grow with the sets.
LEMMA SomeTestsAreFinite ==
  ASSUME NEW S, S \subseteq Tests
  PROVE  /\ IsFiniteSet(S) /\ Cardinality(S) \in Nat
         /\ \A T \in SUBSET S : Cardinality(T) <= Cardinality(S)
<1>1. IsFiniteSet(S)
  BY TestsAreFinite, FS_Subset
<1> QED
  BY <1>1, FS_Subset, FS_CardinalityType

\* Without one of its tests a set is smaller.
LEMMA OneLessTest ==
  ASSUME NEW S, S \subseteq Tests, NEW x \in S, NEW T, T \subseteq S \ {x}
  PROVE  Cardinality(T) \in Nat /\ Cardinality(S) \in Nat /\ Cardinality(T) + 1 <= Cardinality(S)
<1>1. IsFiniteSet(S) /\ Cardinality(S) \in Nat
  BY SomeTestsAreFinite
<1>2. IsFiniteSet(S \ {x}) /\ Cardinality(S \ {x}) = Cardinality(S) - 1
  BY <1>1, FS_RemoveElement
<1>3. Cardinality(T) \in Nat /\ Cardinality(T) <= Cardinality(S \ {x})
  BY <1>2, FS_Subset, FS_CardinalityType
<1> QED
  BY <1>1, <1>2, <1>3

\* What can be set can be tested.
LEMMA ModificationsAreTests == Modifications \subseteq Tests
  BY DEF Modifications

\* What TestLess says in terms of the ends of intervals.
LEMMA TestLessIs ==
  ASSUME NEW o \in Ranks, NEW x \in Tests, NEW y \in Tests
  PROVE  /\ o[x[1]] \in Nat /\ o[y[1]] \in Nat
         /\ Low(x[2]) \in Int /\ High(x[2]) \in Int /\ Low(x[2]) <= High(x[2])
         /\ TestLess(o, x, y) <=> (o[x[1]] < o[y[1]] \/ (x[1] = y[1] /\ Before(x[2], y[2])))
  BY TestParts, ValuesAreIntervals DEF Ranks, TestLess

\* No test is before itself.
LEMMA LessIsIrreflexive ==
  ASSUME NEW o \in Ranks, NEW x \in Tests
  PROVE  ~ TestLess(o, x, x)
  BY TestLessIs DEF Before

\* The order of tests is transitive.
LEMMA LessIsTransitive ==
  ASSUME NEW o \in Ranks, NEW x \in Tests, NEW y \in Tests, NEW z \in Tests,
         TestLess(o, x, y), TestLess(o, y, z)
  PROVE  TestLess(o, x, z)
<1>1. /\ o[x[1]] < o[y[1]] \/ (x[1] = y[1] /\ Before(x[2], y[2]))
      /\ o[y[1]] < o[z[1]] \/ (y[1] = z[1] /\ Before(y[2], z[2]))
      /\ TestLess(o, x, z) <=> (o[x[1]] < o[z[1]] \/ (x[1] = z[1] /\ Before(x[2], z[2])))
      /\ o[x[1]] \in Nat /\ o[y[1]] \in Nat /\ o[z[1]] \in Nat
      /\ Low(x[2]) \in Int /\ High(x[2]) \in Int
      /\ Low(y[2]) \in Int /\ High(y[2]) \in Int
      /\ Low(z[2]) \in Int /\ High(z[2]) \in Int
  BY TestLessIs
<1> QED
  BY <1>1 DEF Before

\* y is not after x, so that what comes after x comes after y.
LEMMA LessIsWeak ==
  ASSUME NEW o, IsOrder(o), NEW x \in Tests, NEW y \in Tests, NEW z \in Tests,
         TestLess(o, x, z), ~ TestLess(o, x, y)
  PROVE  TestLess(o, y, z)
<1>1. /\ o[x[1]] < o[z[1]] \/ (x[1] = z[1] /\ Before(x[2], z[2]))
      /\ ~ (o[x[1]] < o[y[1]] \/ (x[1] = y[1] /\ Before(x[2], y[2])))
      /\ TestLess(o, y, z) <=> (o[y[1]] < o[z[1]] \/ (y[1] = z[1] /\ Before(y[2], z[2])))
      /\ o[x[1]] \in Nat /\ o[y[1]] \in Nat /\ o[z[1]] \in Nat
      /\ Low(x[2]) \in Int /\ High(x[2]) \in Int
      /\ Low(y[2]) \in Int /\ High(y[2]) \in Int
      /\ Low(z[2]) \in Int /\ High(z[2]) \in Int
  BY TestLessIs DEF IsOrder, Ranks
<1>2. o[x[1]] = o[y[1]] => x[1] = y[1]
  BY TestParts DEF IsOrder
<1> QED
  BY <1>1, <1>2 DEF Before

\* Two tests none of which is first test the same.
LEMMA TiedTests ==
  ASSUME NEW o, IsOrder(o), NEW x \in Tests, NEW y \in Tests,
         ~ TestLess(o, x, y), ~ TestLess(o, y, x)
  PROVE  x[1] = y[1] /\ Low(x[2]) = Low(y[2]) /\ High(x[2]) = High(y[2])
<1>1. /\ ~ (o[x[1]] < o[y[1]] \/ (x[1] = y[1] /\ Before(x[2], y[2])))
      /\ ~ (o[y[1]] < o[x[1]] \/ (y[1] = x[1] /\ Before(y[2], x[2])))
      /\ o[x[1]] \in Nat /\ o[y[1]] \in Nat
      /\ Low(x[2]) \in Int /\ High(x[2]) \in Int
      /\ Low(y[2]) \in Int /\ High(y[2]) \in Int
  BY TestLessIs DEF IsOrder, Ranks
<1>2. o[x[1]] = o[y[1]] => x[1] = y[1]
  BY TestParts DEF IsOrder
<1> QED
  BY <1>1, <1>2 DEF Before

\* The order of tests is by the ranks of their fields first.
LEMMA OrderRanks ==
  ASSUME NEW o, IsOrder(o), NEW x \in Tests, NEW y \in Tests
  PROVE  /\ o \in Ranks /\ o[x[1]] \in Nat /\ o[y[1]] \in Nat
         /\ TestLess(o, x, y) => (o[x[1]] < o[y[1]] \/ x[1] = y[1])
         /\ TestLess(o, x, y) => o[x[1]] <= o[y[1]]
         /\ o[x[1]] < o[y[1]] => TestLess(o, x, y)
         /\ o[x[1]] = o[y[1]] => x[1] = y[1]
<1>1. o \in Ranks
  BY DEF IsOrder, Ranks
<1>2. o[x[1]] = o[y[1]] => x[1] = y[1]
  BY TestParts DEF IsOrder
<1> QED
  BY <1>1, <1>2, TestLessIs

---------------------------------------------------------------------------
(* Tests that a packet passes. *)

\* A packet passes a test when restrict would take its branch.
Passes(k, x) == SubsetEq(k[x[1]], x[2])

\* A packet has a value in each field, or none.
LEMMA PacketValues ==
  ASSUME NEW k \in AllPackets, NEW f \in Fields
  PROVE  k[f] = Absent \/ IsValue(k[f])
<1>1. k[f] \in {hv[2] : hv \in Modifications} \cup {Absent}
  BY DEF AllPackets
<1>2. \A hv \in Modifications : IsValue(hv[2])
  BY TestParts, ModificationsAreTests
<1> QED
  BY <1>1, <1>2

\* A missing header is within no value.
LEMMA AbsentIsInNothing == ASSUME NEW v, IsValue(v) PROVE ~ SubsetEq(Absent, v)
<1>1. v.kind = "mask" \/ v.kind = "pipe"
  BY MaskFields, PipeFields DEF IsValue
<1> QED
  BY <1>1, AbsentFields DEF SubsetEq

\* A packet passes a test when its value's interval is within the one tested.
LEMMA PassesIs ==
  ASSUME NEW k \in AllPackets, NEW x \in Tests
  PROVE  \/ ~ Passes(k, x) /\ k[x[1]] = Absent
         \/ IsValue(k[x[1]]) /\ (Passes(k, x) <=> Inside(k[x[1]], x[2]))
  BY TestParts, PacketValues, AbsentIsInNothing, ValuesAreIntervals DEF Passes

\* Tests that are not ordered are passed by the same packets.
LEMMA TiedPass ==
  ASSUME NEW o, IsOrder(o), NEW x \in Tests, NEW y \in Tests, NEW k \in AllPackets,
         ~ TestLess(o, x, y), ~ TestLess(o, y, x)
  PROVE  Passes(k, x) <=> Passes(k, y)
<1>1. x[1] = y[1] /\ Low(x[2]) = Low(y[2]) /\ High(x[2]) = High(y[2])
  BY TiedTests
<1>2. CASE k[x[1]] = Absent
  BY <1>1, <1>2, AbsentIsInNothing, TestParts DEF Passes
<1>3. CASE IsValue(k[x[1]])
  BY <1>1, <1>3, ValuesAreIntervals, TestParts DEF Passes, Inside
<1> QED
  BY <1>2, <1>3, PacketValues, TestParts

\* Of the later tests of its field a packet that passes x passes those that x is in.
LEMMA NestedPass ==
  ASSUME NEW o, IsOrder(o), NEW x \in Tests, NEW y \in Tests, NEW k \in AllPackets,
         x[1] = y[1], ~ TestLess(o, y, x), Passes(k, x)
  PROVE  SubsetEq(x[2], y[2]) <=> Passes(k, y)
<1> DEFINE v == k[x[1]]
<1>1. IsValue(v) /\ Inside(v, x[2]) /\ (Passes(k, y) <=> Inside(v, y[2]))
  BY PassesIs, AbsentIsInNothing, TestParts, ValuesAreIntervals DEF Passes
<1>2. IsValue(x[2]) /\ IsValue(y[2]) /\ o \in Ranks
  BY TestParts DEF IsOrder, Ranks
<1>3. ~ Before(y[2], x[2])
  BY <1>2, TestLessIs
<1>4. /\ SubsetEq(x[2], y[2]) <=> Inside(x[2], y[2])
      /\ \/ Inside(x[2], y[2])
         \/ Inside(y[2], x[2])
         \/ High(x[2]) < Low(y[2])
         \/ High(y[2]) < Low(x[2])
      /\ Low(x[2]) \in Int /\ High(x[2]) \in Int /\ Low(x[2]) <= High(x[2])
      /\ Low(y[2]) \in Int /\ High(y[2]) \in Int /\ Low(y[2]) <= High(y[2])
      /\ Low(v) \in Int /\ High(v) \in Int /\ Low(v) <= High(v)
  BY <1>1, <1>2, ValuesAreIntervals
<1> HIDE DEF v
<1> QED
  BY <1>1, <1>3, <1>4 DEF Inside, Before

---------------------------------------------------------------------------
(* Diagrams: parts, depth and induction. *)

LevelBody(g, n) == IF n = 0 THEN AllLeaves ELSE DiagramsOver(g[n - 1])
Levels == INSTANCE Recursion WITH Domain <- Nat, Rank <- Identity, Body <- LevelBody

\* The levels of diagrams satisfy their recursive definition.
LEMMA LevelsUnfold ==
  /\ diagramsUpTo[0] = AllLeaves
  /\ \A n \in Nat : diagramsUpTo[n + 1] = DiagramsOver(diagramsUpTo[n])
<1>1. Levels!Descends
  <2> SUFFICES ASSUME NEW n \in Nat, NEW g, NEW h,
                      \A m \in Nat : Identity(m) < Identity(n) => g[m] = h[m]
               PROVE  LevelBody(g, n) = LevelBody(h, n)
    BY DEF Levels!Descends, Identity
  <2>1. n # 0 => n - 1 \in Nat /\ n - 1 < n
    OBVIOUS
  <2> QED
    BY <2>1 DEF LevelBody, Identity
<1>2. diagramsUpTo = Levels!f
  BY DEF diagramsUpTo, Levels!f, LevelBody
<1>3. \A n \in Nat : diagramsUpTo[n] = LevelBody(diagramsUpTo, n)
  BY <1>1, <1>2, Levels!UnfoldsAt
<1>4. diagramsUpTo[0] = AllLeaves
  BY <1>3 DEF LevelBody
<1>5. ASSUME NEW n \in Nat PROVE diagramsUpTo[n + 1] = DiagramsOver(diagramsUpTo[n])
  <2>1. n + 1 \in Nat /\ n + 1 # 0 /\ (n + 1) - 1 = n
    OBVIOUS
  <2> QED
    BY <1>3, <2>1 DEF LevelBody
<1> QED
  BY <1>4, <1>5

\* Leaves are what they are built from.
LEMMA LeavesAreLeaves ==
  /\ \A par : IsLeaf(MkLeaf(par)) /\ MkLeaf(par).leaf = par
  /\ \A u \in AllLeaves : IsLeaf(u) /\ u = MkLeaf(u.leaf) /\ u.leaf \in Actions
  /\ \A par \in Actions : MkLeaf(par) \in AllLeaves
<1>1. \A par : IsLeaf(MkLeaf(par)) /\ MkLeaf(par).leaf = par
  BY DEF IsLeaf, MkLeaf
<1>2. \A u \in AllLeaves : \E par \in Actions : u = MkLeaf(par)
  BY DEF AllLeaves, MkLeaf
<1>3. \A par \in Actions : MkLeaf(par) \in AllLeaves
  BY DEF AllLeaves, MkLeaf
<1> QED
  BY <1>1, <1>2, <1>3

\* A branch as a record.
Branch(hv, t, f) == [test |-> hv, tru |-> t, fls |-> f]

\* Branches are what they are built from.
LEMMA BranchesAreNoLeaves ==
  \A hv, t, f : /\ ~ IsLeaf(Branch(hv, t, f))
                /\ Branch(hv, t, f).test = hv
                /\ Branch(hv, t, f).tru = t
                /\ Branch(hv, t, f).fls = f
  BY DEF IsLeaf, Branch

\* mk_branch makes a branch, or leaves out a test with equal parts.
LEMMA MkBranchIs == \A hv, t, f : MkBranch(hv, t, f) = IF t = f THEN t ELSE Branch(hv, t, f)
  BY DEF MkBranch, Branch

\* A diagram of the next level is a leaf or a branch with parts of this level.
LEMMA DiagramsOverIs ==
  ASSUME NEW S
  PROVE  \A u : u \in DiagramsOver(S) <=>
           \/ u \in AllLeaves
           \/ \E hv \in Tests, t \in S, f \in S : u = Branch(hv, t, f)
  BY DEF DiagramsOver, Branch

\* The levels of diagrams ascend.
LEMMA LevelsGrow ==
  ASSUME NEW m \in Nat, NEW n \in Nat, m <= n
  PROVE  diagramsUpTo[m] \subseteq diagramsUpTo[n]
<1> DEFINE S == {i \in Nat : diagramsUpTo[i] \subseteq diagramsUpTo[i + 1]}
<1>1. 0 \in S
  <2>1. diagramsUpTo[0 + 1] = DiagramsOver(diagramsUpTo[0])
    BY LevelsUnfold
  <2> QED
    BY <2>1, LevelsUnfold, DiagramsOverIs
<1>2. ASSUME NEW i \in Nat, i \in S PROVE i + 1 \in S
  <2>1. diagramsUpTo[i] \subseteq diagramsUpTo[i + 1] /\ i + 1 \in Nat
    BY <1>2
  <2>2. /\ diagramsUpTo[i + 1] = DiagramsOver(diagramsUpTo[i])
        /\ diagramsUpTo[(i + 1) + 1] = DiagramsOver(diagramsUpTo[i + 1])
    BY <2>1, LevelsUnfold
  <2>3. DiagramsOver(diagramsUpTo[i]) \subseteq DiagramsOver(diagramsUpTo[i + 1])
    BY <2>1, DiagramsOverIs
  <2> QED
    BY <2>1, <2>2, <2>3
<1>3. Nat \subseteq S
  <2> HIDE DEF S
  <2> QED
    BY <1>1, <1>2, Powers!NatInduces
<1> QED
  BY <1>3, LevelsAscend

\* The diagrams are those of one level.
LEMMA DepthOfDiagrams == Cardinality(Tests) \in Nat /\ Diagrams = diagramsUpTo[Cardinality(Tests)]
  BY SomeTestsAreFinite DEF Diagrams

\* The depth of a diagram, a rank for recursion.
Depth(u) == FirstLevel(diagramsUpTo, u)

\* The depth of a diagram is its first level.
LEMMA DepthIsLeast ==
  ASSUME NEW n \in Nat, NEW u, u \in diagramsUpTo[n]
  PROVE  /\ Depth(u) \in Nat /\ u \in diagramsUpTo[Depth(u)] /\ Depth(u) <= n
  BY FirstLevelIs DEF Depth

\* The parts of a diagram of a level.
LEMMA TreeParts ==
  ASSUME NEW n \in Nat, NEW u \in diagramsUpTo[n]
  PROVE  /\ IsLeaf(u) => u = MkLeaf(u.leaf) /\ u.leaf \in Actions /\ u \in AllLeaves
         /\ ~ IsLeaf(u) => /\ u.test \in Tests /\ u = Branch(u.test, u.tru, u.fls)
                           /\ n # 0 /\ u.tru \in diagramsUpTo[n - 1] /\ u.fls \in diagramsUpTo[n - 1]
<1>1. CASE u \in AllLeaves
  BY <1>1, LeavesAreLeaves
<1>2. CASE u \notin AllLeaves
  <2>1. n # 0
    BY <1>2, LevelsUnfold
  <2>2. n - 1 \in Nat /\ (n - 1) + 1 = n
    BY <2>1
  <2>3. u \in DiagramsOver(diagramsUpTo[n - 1])
    BY <2>2, LevelsUnfold
  <2>4. PICK hv \in Tests, t \in diagramsUpTo[n - 1], f \in diagramsUpTo[n - 1] : u = Branch(hv, t, f)
    BY <1>2, <2>3, DiagramsOverIs
  <2> QED
    BY <2>1, <2>4, BranchesAreNoLeaves
<1> QED
  BY <1>1, <1>2

\* The parts of a branch are less deep than the branch.
LEMMA DepthOfParts ==
  ASSUME NEW n \in Nat, NEW u \in diagramsUpTo[n], ~ IsLeaf(u)
  PROVE  /\ Depth(u) \in Nat /\ Depth(u.tru) \in Nat /\ Depth(u.fls) \in Nat
         /\ Depth(u.tru) < Depth(u) /\ Depth(u.fls) < Depth(u)
<1> DEFINE d == Depth(u)
<1>1. d \in Nat /\ u \in diagramsUpTo[d]
  BY DepthIsLeast
<1> HIDE DEF d
<1>2. d # 0 /\ u.tru \in diagramsUpTo[d - 1] /\ u.fls \in diagramsUpTo[d - 1]
  BY <1>1, TreeParts
<1>3. d - 1 \in Nat
  BY <1>1, <1>2
<1>4. /\ Depth(u.tru) \in Nat /\ Depth(u.tru) <= d - 1
      /\ Depth(u.fls) \in Nat /\ Depth(u.fls) <= d - 1
  BY <1>2, <1>3, DepthIsLeast
<1> QED
  BY <1>1, <1>3, <1>4 DEF d

\* The parts of a diagram, which are diagrams of smaller depth.
LEMMA DiagramParts ==
  ASSUME NEW u \in Diagrams
  PROVE  /\ IsLeaf(u) => u = MkLeaf(u.leaf) /\ u.leaf \in Actions /\ u \in AllLeaves
         /\ ~ IsLeaf(u) => /\ u.test \in Tests /\ u = Branch(u.test, u.tru, u.fls)
                           /\ u.tru \in Diagrams /\ u.fls \in Diagrams
                           /\ Depth(u.tru) < Depth(u) /\ Depth(u.fls) < Depth(u)
                           /\ Depth(u.tru) \in Nat /\ Depth(u.fls) \in Nat
         /\ Depth(u) \in Nat /\ u \in diagramsUpTo[Depth(u)] /\ Depth(u) <= Cardinality(Tests)
<1> DEFINE n == Cardinality(Tests)
<1>1. n \in Nat /\ u \in diagramsUpTo[n] /\ Diagrams = diagramsUpTo[n]
  BY DepthOfDiagrams
<1> HIDE DEF n
<1>2. n # 0 => n - 1 \in Nat /\ diagramsUpTo[n - 1] \subseteq diagramsUpTo[n]
  <2>1. n # 0 => n - 1 \in Nat /\ n - 1 <= n
    BY <1>1
  <2> QED
    BY <1>1, <2>1, LevelsGrow
<1> QED
  BY <1>1, <1>2, TreeParts, DepthOfParts, DepthIsLeast DEF n

\* Leaves are diagrams.
LEMMA LeavesAreDiagrams == \A par \in Actions : MkLeaf(par) \in Diagrams
<1>1. diagramsUpTo[0] \subseteq Diagrams
  BY DepthOfDiagrams, LevelsGrow
<1> QED
  BY <1>1, LevelsUnfold, LeavesAreLeaves

\* Induction over diagrams.
LEMMA DiagramsInduce ==
  ASSUME NEW S,
         \A u \in Diagrams : IsLeaf(u) => u \in S,
         \A u \in Diagrams : ~ IsLeaf(u) /\ u.tru \in S /\ u.fls \in S => u \in S
  PROVE  Diagrams \subseteq S
<1> DEFINE N == Cardinality(Tests)
           T == {n \in Nat : n <= N => diagramsUpTo[n] \subseteq S}
<1>1. N \in Nat /\ Diagrams = diagramsUpTo[N]
  BY DepthOfDiagrams
<1> HIDE DEF N
<1>2. \A n \in Nat : n <= N => diagramsUpTo[n] \subseteq Diagrams
  BY <1>1, LevelsGrow
<1>3. 0 \in T
  <2>1. ASSUME NEW u \in diagramsUpTo[0] PROVE u \in S
    <3>1. u \in Diagrams /\ IsLeaf(u)
      BY <1>1, <1>2, <2>1, LevelsUnfold, LeavesAreLeaves
    <3> QED
      BY <3>1
  <2> QED
    BY <2>1
<1>4. ASSUME NEW n \in Nat, n \in T PROVE n + 1 \in T
  <2> SUFFICES ASSUME n + 1 <= N, NEW u \in diagramsUpTo[n + 1] PROVE u \in S
    BY <1>4
  <2>1. diagramsUpTo[n] \subseteq S
    BY <1>1, <1>4
  <2>2. n + 1 \in Nat /\ (n + 1) - 1 = n
    OBVIOUS
  <2>3. u \in Diagrams
    BY <1>2, <2>2
  <2>4. ~ IsLeaf(u) => u.tru \in diagramsUpTo[n] /\ u.fls \in diagramsUpTo[n]
    BY <2>2, TreeParts
  <2> QED
    BY <2>1, <2>3, <2>4
<1>5. Nat \subseteq T
  <2> HIDE DEF T
  <2> QED
    BY <1>3, <1>4, Levels!NatInduces
<1> QED
  BY <1>1, <1>5

---------------------------------------------------------------------------
(* What a diagram does to a packet: the action of the leaf its tests lead to. *)

ValBody(g, x) ==
  IF IsLeaf(x[1]) THEN x[1].leaf
  ELSE IF Passes(x[2], x[1].test) THEN g[<<x[1].tru, x[2]>>] ELSE g[<<x[1].fls, x[2]>>]
ValRank(x) == Depth(x[1])
Vals == INSTANCE Recursion WITH Domain <- Diagrams \X AllPackets, Rank <- ValRank, Body <- ValBody

\* The action that a diagram holds for packet k.
Val(u, k) == Vals!f[<<u, k>>]

\* The value of a branch for a packet is that of the part its test leads to.
LEMMA ValIs ==
  ASSUME NEW u \in Diagrams, NEW k \in AllPackets
  PROVE  /\ IsLeaf(u) => Val(u, k) = u.leaf
         /\ ~ IsLeaf(u) /\ Passes(k, u.test) => Val(u, k) = Val(u.tru, k)
         /\ ~ IsLeaf(u) /\ ~ Passes(k, u.test) => Val(u, k) = Val(u.fls, k)
<1>1. Vals!Descends
  <2>1. \A x \in Diagrams \X AllPackets : ValRank(x) \in Nat
    BY DiagramParts DEF ValRank
  <2>2. ASSUME NEW x \in Diagrams \X AllPackets, NEW g, NEW h,
               \A y \in Diagrams \X AllPackets : ValRank(y) < ValRank(x) => g[y] = h[y]
        PROVE  ValBody(g, x) = ValBody(h, x)
    <3>1. CASE IsLeaf(x[1])
      BY <3>1 DEF ValBody
    <3>2. CASE ~ IsLeaf(x[1])
      <4>1. /\ <<x[1].tru, x[2]>> \in Diagrams \X AllPackets
            /\ <<x[1].fls, x[2]>> \in Diagrams \X AllPackets
            /\ Depth(x[1].tru) < Depth(x[1]) /\ Depth(x[1].fls) < Depth(x[1])
        BY <3>2, DiagramParts
      <4>2. /\ ValRank(<<x[1].tru, x[2]>>) < ValRank(x)
            /\ ValRank(<<x[1].fls, x[2]>>) < ValRank(x)
        BY <4>1 DEF ValRank
      <4>3. g[<<x[1].tru, x[2]>>] = h[<<x[1].tru, x[2]>>] /\ g[<<x[1].fls, x[2]>>] = h[<<x[1].fls, x[2]>>]
        BY <2>2, <4>1, <4>2
      <4> QED
        BY <4>3 DEF ValBody
    <3> QED
      BY <3>1, <3>2
  <2> QED
    BY <2>1, <2>2 DEF Vals!Descends
<1>2. \A x \in Diagrams \X AllPackets : Vals!f[x] = ValBody(Vals!f, x)
  BY <1>1, Vals!UnfoldsAt
<1>3. Vals!f[<<u, k>>] = ValBody(Vals!f, <<u, k>>)
  BY <1>2
<1> QED
  BY <1>3 DEF ValBody, Val

\* The value of a diagram for a packet is an action.
LEMMA ValIsAction == ASSUME NEW u \in Diagrams, NEW k \in AllPackets PROVE Val(u, k) \in Actions
<1> DEFINE S == {v \in Diagrams : Val(v, k) \in Actions}
<1>1. ASSUME NEW v \in Diagrams, IsLeaf(v) PROVE v \in S
  BY <1>1, ValIs, DiagramParts
<1>2. ASSUME NEW v \in Diagrams, ~ IsLeaf(v), v.tru \in S, v.fls \in S PROVE v \in S
  BY <1>2, ValIs, DiagramParts
<1> HIDE DEF S
<1>3. Diagrams \subseteq S
  BY <1>1, <1>2, DiagramsInduce
<1> QED
  BY <1>3 DEF S

---------------------------------------------------------------------------
(* Ordered diagrams. *)

\* All of u comes after the test, or even after its field.
Below(o, hv, u) == IsLeaf(u) \/ TestLess(o, hv, u.test)
FieldBelow(o, hv, u) == IsLeaf(u) \/ o[hv[1]] < o[u.test[1]]

OrderedBody(g, x) ==
  IsLeaf(x[2]) \/
  /\ g[<<x[1], x[2].tru>>] /\ g[<<x[1], x[2].fls>>]
  /\ x[2].tru # x[2].fls
  /\ IsLeaf(x[2].fls) \/ TestLess(x[1], x[2].test, x[2].fls.test)
  /\ IsLeaf(x[2].tru) \/ x[1][x[2].test[1]] < x[1][x[2].tru.test[1]]
OrderedRank(x) == Depth(x[2])
Ordereds == INSTANCE Recursion WITH Domain <- Ranks \X Diagrams, Rank <- OrderedRank, Body <- OrderedBody

\* Ordered is defined by a function of its own for each order.
OrderedFor(o) ==
  CHOOSE ordered : ordered = [v \in Diagrams |->
    IsLeaf(v) \/
    /\ ordered[v.tru] /\ ordered[v.fls]
    /\ v.tru # v.fls
    /\ IsLeaf(v.fls) \/ TestLess(o, v.test, v.fls.test)
    /\ IsLeaf(v.tru) \/ o[v.test[1]] < o[v.tru.test[1]]]

\* Ordered satisfies its recursive definition.
LEMMA OrderedIs ==
  ASSUME NEW o \in Ranks, NEW u \in Diagrams
  PROVE  Ordered(o, u) <=>
           IsLeaf(u) \/
           /\ Ordered(o, u.tru) /\ Ordered(o, u.fls)
           /\ u.tru # u.fls
           /\ Below(o, u.test, u.fls)
           /\ FieldBelow(o, u.test, u.tru)
<1>1. Ordereds!Descends
  <2>1. \A x \in Ranks \X Diagrams : OrderedRank(x) \in Nat
    BY DiagramParts DEF OrderedRank
  <2>2. ASSUME NEW x \in Ranks \X Diagrams, NEW g, NEW h,
               \A y \in Ranks \X Diagrams : OrderedRank(y) < OrderedRank(x) => g[y] = h[y]
        PROVE  OrderedBody(g, x) = OrderedBody(h, x)
    <3>1. CASE IsLeaf(x[2])
      BY <3>1 DEF OrderedBody
    <3>2. CASE ~ IsLeaf(x[2])
      <4>1. /\ <<x[1], x[2].tru>> \in Ranks \X Diagrams
            /\ <<x[1], x[2].fls>> \in Ranks \X Diagrams
            /\ Depth(x[2].tru) < Depth(x[2]) /\ Depth(x[2].fls) < Depth(x[2])
        BY <3>2, DiagramParts
      <4>2. /\ OrderedRank(<<x[1], x[2].tru>>) < OrderedRank(x)
            /\ OrderedRank(<<x[1], x[2].fls>>) < OrderedRank(x)
        BY <4>1 DEF OrderedRank
      <4>3. g[<<x[1], x[2].tru>>] = h[<<x[1], x[2].tru>>] /\ g[<<x[1], x[2].fls>>] = h[<<x[1], x[2].fls>>]
        BY <2>2, <4>1, <4>2
      <4> QED
        BY <4>3 DEF OrderedBody
    <3> QED
      BY <3>1, <3>2
  <2> QED
    BY <2>1, <2>2 DEF Ordereds!Descends
<1>2. \A x \in Ranks \X Diagrams : Ordereds!f[x] = OrderedBody(Ordereds!f, x)
  BY <1>1, Ordereds!UnfoldsAt
<1> DEFINE F == [v \in Diagrams |-> Ordereds!f[<<o, v>>]]
           body(g, v) ==
             IsLeaf(v) \/
             /\ g[v.tru] /\ g[v.fls]
             /\ v.tru # v.fls
             /\ IsLeaf(v.fls) \/ TestLess(o, v.test, v.fls.test)
             /\ IsLeaf(v.tru) \/ o[v.test[1]] < o[v.tru.test[1]]
<1>3. ASSUME NEW v \in Diagrams PROVE F[v] = body(F, v)
  <2>1. F[v] = OrderedBody(Ordereds!f, <<o, v>>)
    BY <1>2
  <2>2. ~ IsLeaf(v) => F[v.tru] = Ordereds!f[<<o, v.tru>>] /\ F[v.fls] = Ordereds!f[<<o, v.fls>>]
    BY DiagramParts
  <2> HIDE DEF F
  <2>3. CASE IsLeaf(v)
    BY <2>1, <2>3 DEF OrderedBody
  <2>4. CASE ~ IsLeaf(v)
    BY <2>1, <2>2, <2>4 DEF OrderedBody
  <2> QED
    BY <2>3, <2>4
<1>4. F = [v \in Diagrams |-> body(F, v)]
  <2>1. F = [v \in Diagrams |-> F[v]]
    OBVIOUS
  <2> HIDE DEF F, body
  <2> QED
    BY <1>3, <2>1
<1>5. OrderedFor(o) = [v \in Diagrams |-> body(OrderedFor(o), v)]
  <2> HIDE DEF F
  <2> QED
    BY <1>4 DEF OrderedFor
<1>6. \A v : Ordered(o, v) = OrderedFor(o)[v]
  BY DEF Ordered, OrderedFor
<1> DEFINE G == OrderedFor(o)
<1>7. \A v \in Diagrams : G[v] = body(G, v)
  <2>1. G = [v \in Diagrams |-> body(G, v)]
    BY <1>5
  <2> HIDE DEF G, body
  <2> QED
    BY <2>1
<1> HIDE DEF G
<1>8. G[u] = body(G, u)
  BY <1>7
<1>9. \A v : Ordered(o, v) <=> G[v]
  BY <1>6 DEF G
<1> QED
  BY <1>8, <1>9 DEF Below, FieldBelow

\* A diagram that is one for the compiler, under the order o.
Good(o, u) == u \in Diagrams /\ Ordered(o, u)

\* Leaves are good.
LEMMA GoodLeaves == ASSUME NEW o, IsOrder(o) PROVE \A par \in Actions : Good(o, MkLeaf(par))
<1>1. o \in Ranks
  BY DEF IsOrder, Ranks
<1> QED
  BY <1>1, LeavesAreDiagrams, LeavesAreLeaves, OrderedIs DEF Good

\* The parts of a good diagram are good, and the tests below a test come after it.
LEMMA GoodParts ==
  ASSUME NEW o, IsOrder(o), NEW u, Good(o, u)
  PROVE  /\ u \in Diagrams
         /\ IsLeaf(u) => u = MkLeaf(u.leaf) /\ u.leaf \in Actions
         /\ ~ IsLeaf(u) => /\ u.test \in Tests /\ u = Branch(u.test, u.tru, u.fls)
                           /\ Good(o, u.tru) /\ Good(o, u.fls) /\ u.tru # u.fls
                           /\ Below(o, u.test, u.fls) /\ FieldBelow(o, u.test, u.tru)
                           /\ Below(o, u.test, u.tru)
<1>1. o \in Ranks /\ u \in Diagrams /\ Ordered(o, u)
  BY DEF IsOrder, Ranks, Good
<1>2. ~ IsLeaf(u) => /\ u.test \in Tests /\ u.tru \in Diagrams
  BY <1>1, DiagramParts
<1>3. ~ IsLeaf(u) => FieldBelow(o, u.test, u.tru)
  BY <1>1, OrderedIs
<1>4. ~ IsLeaf(u) => Below(o, u.test, u.tru)
  BY <1>2, <1>3, DiagramParts, OrderRanks DEF FieldBelow, Below
<1> QED
  BY <1>1, <1>3, <1>4, DiagramParts, OrderedIs DEF Good

\* A test of a later field is a later test.
LEMMA FieldBelowIsBelow ==
  ASSUME NEW o, IsOrder(o), NEW hv \in Tests, NEW u \in Diagrams, FieldBelow(o, hv, u)
  PROVE  Below(o, hv, u)
  BY DiagramParts, OrderRanks DEF FieldBelow, Below

\* The tests that may be in an ordered diagram with x on top bound its depth.
After(o, x) == {y \in Tests : y = x \/ TestLess(o, x, y)}

\* Fewer tests come after a later test.
LEMMA AfterShrinks ==
  ASSUME NEW o, IsOrder(o), NEW x \in Tests, NEW y \in Tests, TestLess(o, x, y)
  PROVE  After(o, y) \subseteq After(o, x) \ {x}
<1>1. o \in Ranks
  BY DEF IsOrder, Ranks
<1>2. ASSUME NEW z \in After(o, y) PROVE z \in After(o, x) /\ z # x
  <2>1. z \in Tests /\ (z = y \/ TestLess(o, y, z))
    BY DEF After
  <2>2. TestLess(o, x, z)
    BY <1>1, <2>1, LessIsTransitive
  <2>3. z # x
    BY <1>1, <2>1, <2>2, LessIsIrreflexive
  <2> QED
    BY <2>1, <2>2, <2>3 DEF After
<1> QED
  BY <1>2

\* The number of tests that can come below the one at the top of u.
Bound(o, u) == IF IsLeaf(u) THEN 0 ELSE Cardinality(After(o, u.test))

\* What is below a test has fewer tests to come.
LEMMA BoundBelow ==
  ASSUME NEW o, IsOrder(o), NEW hv \in Tests, NEW u \in Diagrams, Below(o, hv, u)
  PROVE  /\ Bound(o, u) \in Nat /\ Cardinality(After(o, hv)) \in Nat
         /\ Bound(o, u) + 1 <= Cardinality(After(o, hv))
<1>1. After(o, hv) \subseteq Tests /\ hv \in After(o, hv)
  BY DEF After
<1>2. CASE IsLeaf(u)
  <2>1. Cardinality({}) \in Nat /\ Cardinality(After(o, hv)) \in Nat
        /\ Cardinality({}) + 1 <= Cardinality(After(o, hv))
    BY <1>1, OneLessTest
  <2> QED
    BY <1>2, <2>1, FS_EmptySet DEF Bound
<1>3. CASE ~ IsLeaf(u)
  <2>1. u.test \in Tests /\ TestLess(o, hv, u.test)
    BY <1>3, DiagramParts DEF Below
  <2>2. After(o, u.test) \subseteq After(o, hv) \ {hv}
    BY <2>1, AfterShrinks
  <2> QED
    BY <1>1, <1>3, <2>2, OneLessTest DEF Bound
<1> QED
  BY <1>2, <1>3

\* An ordered diagram is no deeper than the number of tests that can follow.
LEMMA OrderedIsShallow ==
  ASSUME NEW o, IsOrder(o), NEW u, Good(o, u)
  PROVE  Bound(o, u) \in Nat /\ u \in diagramsUpTo[Bound(o, u)]
<1> DEFINE S == {v \in Diagrams : Ordered(o, v) => Bound(o, v) \in Nat /\ v \in diagramsUpTo[Bound(o, v)]}
<1>1. ASSUME NEW v \in Diagrams, IsLeaf(v) PROVE v \in S
  <2>1. v \in diagramsUpTo[0]
    BY <1>1, DiagramParts, LevelsUnfold
  <2> QED
    BY <1>1, <2>1 DEF Bound
<1>2. ASSUME NEW v \in Diagrams, ~ IsLeaf(v), v.tru \in S, v.fls \in S PROVE v \in S
  <2> SUFFICES ASSUME Ordered(o, v)
               PROVE  Bound(o, v) \in Nat /\ v \in diagramsUpTo[Bound(o, v)]
    OBVIOUS
  <2> DEFINE n == Cardinality(After(o, v.test))
  <2>1. Good(o, v)
    BY DEF Good
  <2>2. /\ v.test \in Tests /\ v = Branch(v.test, v.tru, v.fls)
        /\ Good(o, v.tru) /\ Good(o, v.fls)
        /\ Below(o, v.test, v.fls) /\ Below(o, v.test, v.tru)
    BY <1>2, <2>1, GoodParts
  <2>3. /\ v.tru \in diagramsUpTo[Bound(o, v.tru)] /\ v.fls \in diagramsUpTo[Bound(o, v.fls)]
        /\ v.tru \in Diagrams /\ v.fls \in Diagrams
    BY <1>2, <2>2 DEF Good
  <2>4. /\ n \in Nat
        /\ Bound(o, v.tru) \in Nat /\ Bound(o, v.tru) + 1 <= n
        /\ Bound(o, v.fls) \in Nat /\ Bound(o, v.fls) + 1 <= n
    BY <2>2, <2>3, BoundBelow
  <2>5. Bound(o, v) = n
    BY <1>2 DEF Bound
  <2> HIDE DEF n
  <2>6. n - 1 \in Nat /\ (n - 1) + 1 = n /\ Bound(o, v.tru) <= n - 1 /\ Bound(o, v.fls) <= n - 1
    BY <2>4
  <2>7. v.tru \in diagramsUpTo[n - 1] /\ v.fls \in diagramsUpTo[n - 1]
    BY <2>3, <2>4, <2>6, LevelsGrow
  <2>8. v \in DiagramsOver(diagramsUpTo[n - 1])
    BY <2>2, <2>7, DiagramsOverIs
  <2>9. v \in diagramsUpTo[n]
    BY <2>6, <2>8, LevelsUnfold
  <2> QED
    BY <2>4, <2>5, <2>9
<1> HIDE DEF S
<1>3. Diagrams \subseteq S
  BY <1>1, <1>2, DiagramsInduce
<1>4. u \in S
  BY <1>3 DEF Good
<1> QED
  BY <1>4 DEF S, Good

\* A test on top of ordered diagrams.
LEMMA GoodBranches ==
  ASSUME NEW o, IsOrder(o), NEW hv \in Tests, NEW t, NEW f, Good(o, t), Good(o, f),
         FieldBelow(o, hv, t), Below(o, hv, f)
  PROVE  Good(o, MkBranch(hv, t, f))
<1>1. CASE t = f
  BY <1>1, MkBranchIs
<1>2. CASE t # f
  <2> DEFINE n == Cardinality(After(o, hv))
             N == Cardinality(Tests)
             u == Branch(hv, t, f)
  <2>1. t \in Diagrams /\ f \in Diagrams /\ Below(o, hv, t) /\ o \in Ranks
    BY FieldBelowIsBelow DEF Good, IsOrder, Ranks
  <2>2. /\ n \in Nat
        /\ Bound(o, t) \in Nat /\ Bound(o, t) + 1 <= n
        /\ Bound(o, f) \in Nat /\ Bound(o, f) + 1 <= n
    BY <2>1, BoundBelow
  <2>3. N \in Nat /\ n <= N /\ Diagrams = diagramsUpTo[N]
    <3>1. After(o, hv) \subseteq Tests
      BY DEF After
    <3> QED
      BY <3>1, SomeTestsAreFinite, DepthOfDiagrams
  <2>4. t \in diagramsUpTo[Bound(o, t)] /\ f \in diagramsUpTo[Bound(o, f)]
    BY OrderedIsShallow
  <2> HIDE DEF n, N, u
  <2>5. N - 1 \in Nat /\ (N - 1) + 1 = N /\ Bound(o, t) <= N - 1 /\ Bound(o, f) <= N - 1
    BY <2>2, <2>3
  <2>6. t \in diagramsUpTo[N - 1] /\ f \in diagramsUpTo[N - 1]
    BY <2>2, <2>4, <2>5, LevelsGrow
  <2>7. u \in DiagramsOver(diagramsUpTo[N - 1])
    BY <2>6, DiagramsOverIs DEF u
  <2>8. u \in Diagrams
    BY <2>3, <2>5, <2>7, LevelsUnfold
  <2>9. ~ IsLeaf(u) /\ u.test = hv /\ u.tru = t /\ u.fls = f
    BY BranchesAreNoLeaves DEF u
  <2>10. Ordered(o, u)
    BY <1>2, <2>1, <2>8, <2>9, OrderedIs DEF Good
  <2>11. MkBranch(hv, t, f) = u
    BY <1>2, MkBranchIs DEF u
  <2> QED
    BY <2>8, <2>10, <2>11 DEF Good
<1> QED
  BY <1>1, <1>2

\* What is on top of a new branch, and what it does.
LEMMA BranchRoot ==
  ASSUME NEW o, NEW x \in Tests, NEW hv, NEW t, NEW f
  PROVE  /\ TestLess(o, x, hv) /\ Below(o, x, t) => Below(o, x, MkBranch(hv, t, f))
         /\ o[x[1]] < o[hv[1]] /\ FieldBelow(o, x, t) => FieldBelow(o, x, MkBranch(hv, t, f))
<1>1. CASE t = f
  BY <1>1, MkBranchIs
<1>2. CASE t # f
  BY <1>2, MkBranchIs, BranchesAreNoLeaves DEF Below, FieldBelow
<1> QED
  BY <1>1, <1>2

\* What mk_branch makes has the value of the part that the test leads to.
LEMMA BranchVal ==
  ASSUME NEW hv \in Tests, NEW t, NEW f, MkBranch(hv, t, f) \in Diagrams, NEW k \in AllPackets
  PROVE  Val(MkBranch(hv, t, f), k) = IF Passes(k, hv) THEN Val(t, k) ELSE Val(f, k)
<1>1. CASE t = f
  BY <1>1, MkBranchIs
<1>2. CASE t # f
  <2> DEFINE u == Branch(hv, t, f)
  <2>1. MkBranch(hv, t, f) = u
    BY <1>2, MkBranchIs
  <2>2. ~ IsLeaf(u) /\ u.test = hv /\ u.tru = t /\ u.fls = f
    BY BranchesAreNoLeaves
  <2> HIDE DEF u
  <2> QED
    BY <2>1, <2>2, ValIs
<1> QED
  BY <1>1, <1>2

\* A leaf has the same value for every packet.
LEMMA LeafVal ==
  ASSUME NEW par \in Actions, NEW k \in AllPackets
  PROVE  Val(MkLeaf(par), k) = par
  BY LeavesAreDiagrams, LeavesAreLeaves, ValIs

---------------------------------------------------------------------------
(* restrict. *)

\* What restrict can be given.
HeaderSets == SUBSET Headers

\* The headers that are still to be looked at, and those about the field at the top of u.
Left(o, hvs, u) == {hv \in hvs : o[hv[1]] >= o[u.test[1]]}
Here(o, hvs, u) == {hv \in Left(o, hvs, u) : hv[1] = u.test[1]}

RestrictBody(g, x) ==
  LET o == x[1]
      u == x[3]
      left == Left(o, x[2], u)
      here == Here(o, x[2], u)
  IN IF x[2] = {} \/ IsLeaf(u) THEN u
     ELSE IF here = {} THEN MkBranch(u.test, g[<<o, left, u.tru>>], g[<<o, left, u.fls>>])
     ELSE IF \E hv \in here : SubsetEq(hv[2], u.test[2]) THEN g[<<o, left \ here, u.tru>>]
     ELSE g[<<o, left, u.fls>>]
RestrictRank(x) == Depth(x[3])
RestrictTriples == Ranks \X HeaderSets \X Diagrams
Restricts == INSTANCE Recursion
               WITH Domain <- RestrictTriples, Rank <- RestrictRank, Body <- RestrictBody

\* The recursion of restrict is on the depth of the diagram.
LEMMA RestrictDescends == Restricts!Descends
<1>1. \A x \in RestrictTriples : RestrictRank(x) \in Nat
  BY DiagramParts DEF RestrictRank, RestrictTriples
<1>2. ASSUME NEW x \in RestrictTriples, NEW g, NEW h,
             \A y \in RestrictTriples : RestrictRank(y) < RestrictRank(x) => g[y] = h[y]
      PROVE  RestrictBody(g, x) = RestrictBody(h, x)
  <2>1. CASE IsLeaf(x[3])
    BY <2>1 DEF RestrictBody
  <2>2. CASE ~ IsLeaf(x[3])
    <3> DEFINE o == x[1]
               u == x[3]
               left == Left(o, x[2], u)
               here == Here(o, x[2], u)
    <3>1. o \in Ranks /\ x[2] \in HeaderSets /\ u \in Diagrams
      BY DEF RestrictTriples
    <3>2. left \in HeaderSets /\ left \ here \in HeaderSets
      BY <3>1 DEF HeaderSets, Left
    <3>3. /\ u.tru \in Diagrams /\ u.fls \in Diagrams
          /\ Depth(u.tru) < Depth(u) /\ Depth(u.fls) < Depth(u)
      BY <2>2, <3>1, DiagramParts
    <3>4. ASSUME NEW hvs \in HeaderSets
          PROVE  g[<<o, hvs, u.tru>>] = h[<<o, hvs, u.tru>>] /\ g[<<o, hvs, u.fls>>] = h[<<o, hvs, u.fls>>]
      <4>1. <<o, hvs, u.tru>> \in RestrictTriples /\ <<o, hvs, u.fls>> \in RestrictTriples
        BY <3>1, <3>3 DEF RestrictTriples
      <4>2. RestrictRank(<<o, hvs, u.tru>>) < RestrictRank(x) /\ RestrictRank(<<o, hvs, u.fls>>) < RestrictRank(x)
        BY <3>3 DEF RestrictRank
      <4> QED
        BY <1>2, <4>1, <4>2
    <3>5. /\ g[<<o, left, u.tru>>] = h[<<o, left, u.tru>>]
          /\ g[<<o, left, u.fls>>] = h[<<o, left, u.fls>>]
          /\ g[<<o, left \ here, u.tru>>] = h[<<o, left \ here, u.tru>>]
      BY <3>2, <3>4
    <3> QED
      BY <3>5 DEF RestrictBody
  <2> QED
    BY <2>1, <2>2
<1> QED
  BY <1>1, <1>2 DEF Restricts!Descends

\* restrict satisfies its recursive definition.
LEMMA RestrictIs ==
  ASSUME NEW o \in Ranks, NEW hvs \in HeaderSets, NEW u \in Diagrams
  PROVE  /\ hvs = {} \/ IsLeaf(u) => RestrictTo(o, hvs, u) = u
         /\ hvs # {} /\ ~ IsLeaf(u) =>
              /\ Here(o, hvs, u) = {} =>
                   RestrictTo(o, hvs, u) = MkBranch(u.test, RestrictTo(o, Left(o, hvs, u), u.tru),
                                                           RestrictTo(o, Left(o, hvs, u), u.fls))
              /\ (\E hv \in Here(o, hvs, u) : SubsetEq(hv[2], u.test[2])) =>
                   RestrictTo(o, hvs, u) = RestrictTo(o, Left(o, hvs, u) \ Here(o, hvs, u), u.tru)
              /\ Here(o, hvs, u) # {} /\ ~ (\E hv \in Here(o, hvs, u) : SubsetEq(hv[2], u.test[2])) =>
                   RestrictTo(o, hvs, u) = RestrictTo(o, Left(o, hvs, u), u.fls)
<1>1. restrict = Restricts!f
  BY DEF restrict, Restricts!f, RestrictBody, Left, Here, RestrictTriples, HeaderSets
<1>2. <<o, hvs, u>> \in RestrictTriples
  BY DEF RestrictTriples
<1>3. \A x \in RestrictTriples : Restricts!f[x] = RestrictBody(Restricts!f, x)
  BY RestrictDescends, Restricts!UnfoldsAt
<1>4. restrict[<<o, hvs, u>>] = RestrictBody(restrict, <<o, hvs, u>>)
  BY <1>1, <1>2, <1>3
<1> QED
  BY <1>4 DEF RestrictBody, RestrictTo

\* A diagram does not get deeper.
LEMMA RestrictStays ==
  ASSUME NEW o \in Ranks, NEW hvs \in HeaderSets, NEW u \in Diagrams
  PROVE  RestrictTo(o, hvs, u) \in Diagrams /\ Depth(RestrictTo(o, hvs, u)) <= Depth(u)
         /\ Depth(RestrictTo(o, hvs, u)) \in Nat
<1> DEFINE N == Cardinality(Tests)
           T == {n \in Nat : n <= N => \A s \in HeaderSets, v \in diagramsUpTo[n] :
                                        RestrictTo(o, s, v) \in diagramsUpTo[n]}
<1>1. N \in Nat /\ Diagrams = diagramsUpTo[N]
  BY DepthOfDiagrams
<1> HIDE DEF N
<1>2. \A n \in Nat : n <= N => diagramsUpTo[n] \subseteq Diagrams
  BY <1>1, LevelsGrow
<1>3. 0 \in T
  <2>1. ASSUME NEW s \in HeaderSets, NEW v \in diagramsUpTo[0] PROVE RestrictTo(o, s, v) \in diagramsUpTo[0]
    <3>1. v \in Diagrams /\ IsLeaf(v)
      BY <1>1, <1>2, LevelsUnfold, LeavesAreLeaves
    <3> QED
      BY <3>1, RestrictIs
  <2> QED
    BY <2>1
<1>4. ASSUME NEW n \in Nat, n \in T PROVE n + 1 \in T
  <2> SUFFICES ASSUME n + 1 <= N, NEW s \in HeaderSets, NEW v \in diagramsUpTo[n + 1]
               PROVE  RestrictTo(o, s, v) \in diagramsUpTo[n + 1]
    BY <1>4
  <2>1. n + 1 \in Nat /\ (n + 1) - 1 = n /\ n <= N /\ n <= n + 1
    BY <1>1
  <2>2. v \in Diagrams
    BY <1>2, <2>1
  <2>3. CASE s = {} \/ IsLeaf(v)
    BY <2>2, <2>3, RestrictIs
  <2>4. CASE s # {} /\ ~ IsLeaf(v)
    <3> DEFINE left == Left(o, s, v)
               rest == left \ Here(o, s, v)
    <3>1. left \in HeaderSets /\ rest \in HeaderSets
      BY DEF HeaderSets, Left
    <3>2. v.test \in Tests /\ v.tru \in diagramsUpTo[n] /\ v.fls \in diagramsUpTo[n]
      BY <2>1, <2>4, TreeParts
    <3>3. /\ RestrictTo(o, left, v.tru) \in diagramsUpTo[n]
          /\ RestrictTo(o, left, v.fls) \in diagramsUpTo[n]
          /\ RestrictTo(o, rest, v.tru) \in diagramsUpTo[n]
      BY <1>4, <2>1, <3>1, <3>2
    <3>4. diagramsUpTo[n] \subseteq diagramsUpTo[n + 1]
      BY <2>1, LevelsGrow
    <3>5. MkBranch(v.test, RestrictTo(o, left, v.tru), RestrictTo(o, left, v.fls)) \in diagramsUpTo[n + 1]
      BY <3>2, <3>3, <3>4, MkBranchIs, DiagramsOverIs, LevelsUnfold
    <3> QED
      BY <2>2, <2>4, <3>3, <3>4, <3>5, RestrictIs
  <2> QED
    BY <2>3, <2>4
<1>5. Nat \subseteq T
  <2> HIDE DEF T
  <2> QED
    BY <1>3, <1>4, Levels!NatInduces
<1>6. Depth(u) \in Nat /\ u \in diagramsUpTo[Depth(u)] /\ Depth(u) <= N
  BY DiagramParts DEF N
<1>7. RestrictTo(o, hvs, u) \in diagramsUpTo[Depth(u)]
  BY <1>5, <1>6
<1> QED
  BY <1>2, <1>6, <1>7, DepthIsLeast

\* The root of v is that of u or below it.
Reached(o, u, v) == IsLeaf(v) \/ (~ IsLeaf(u) /\ v.test \in After(o, u.test))

\* What is reached in a diagram comes after all that the diagram comes after.
LEMMA ReachedBelow ==
  ASSUME NEW o, IsOrder(o), NEW u \in Diagrams, NEW v \in Diagrams, Reached(o, u, v),
         NEW x \in Tests
  PROVE  /\ Below(o, x, u) => Below(o, x, v)
         /\ FieldBelow(o, x, u) => FieldBelow(o, x, v)
<1>1. CASE IsLeaf(v)
  BY <1>1 DEF Below, FieldBelow
<1>2. CASE ~ IsLeaf(v)
  <2>1. ~ IsLeaf(u) /\ u.test \in Tests /\ v.test \in Tests
    BY <1>2, DiagramParts DEF Reached
  <2>2. v.test = u.test \/ TestLess(o, u.test, v.test)
    BY <1>2 DEF Reached, After
  <2>3. o \in Ranks
    BY DEF IsOrder, Ranks
  <2>4. Below(o, x, u) => Below(o, x, v)
    BY <2>1, <2>2, <2>3, LessIsTransitive DEF Below
  <2>5. o[x[1]] \in Nat /\ o[u.test[1]] \in Nat /\ o[v.test[1]] \in Nat /\ o[u.test[1]] <= o[v.test[1]]
    BY <2>1, <2>2, OrderRanks
  <2> QED
    BY <2>1, <2>4, <2>5 DEF FieldBelow
<1> QED
  BY <1>1, <1>2

\* What is reached in a part is reached in the whole, below its test.
LEMMA ReachedFromPart ==
  ASSUME NEW o, IsOrder(o), NEW u \in Diagrams, ~ IsLeaf(u),
         NEW t \in Diagrams, Below(o, u.test, t), NEW v \in Diagrams, Reached(o, t, v)
  PROVE  Reached(o, u, v) /\ Below(o, u.test, v)
<1>1. u.test \in Tests
  BY DiagramParts
<1>2. Below(o, u.test, v)
  BY <1>1, ReachedBelow
<1> QED
  BY <1>1, <1>2, DiagramParts DEF Reached, Below, After

\* Fields of the tests below are not among those that restrict has left out.
LEMMA LeftOut ==
  ASSUME NEW o, IsOrder(o), NEW u \in Diagrams, ~ IsLeaf(u), NEW hvs \in HeaderSets,
         NEW w \in Tests, o[u.test[1]] <= o[w[1]]
  PROVE  /\ \A hv \in hvs : hv[1] = w[1] <=> (hv \in Left(o, hvs, u) /\ hv[1] = w[1])
         /\ w[1] # u.test[1] =>
              \A hv \in hvs : hv[1] = w[1] <=> (hv \in Left(o, hvs, u) \ Here(o, hvs, u) /\ hv[1] = w[1])
<1>1. u.test \in Tests
  BY DiagramParts
<1>2. o[u.test[1]] \in Nat /\ o[w[1]] \in Nat
  BY <1>1, OrderRanks
<1> QED
  BY <1>2 DEF Left, Here

\* restrict keeps diagrams ordered, and its result does not begin with a test of a header that it was given.
LEMMA RestrictGood ==
  ASSUME NEW o, IsOrder(o), NEW hvs \in HeaderSets, NEW u, Good(o, u)
  PROVE  /\ Good(o, RestrictTo(o, hvs, u))
         /\ Reached(o, u, RestrictTo(o, hvs, u))
         /\ \/ IsLeaf(RestrictTo(o, hvs, u))
            \/ RestrictTo(o, hvs, u).test[1] \notin FieldsOf(hvs)
<1> DEFINE Fresh(s, v) == IsLeaf(v) \/ v.test[1] \notin FieldsOf(s)
           P(v) == \A s \in HeaderSets : LET r == RestrictTo(o, s, v) IN
                      Good(o, r) /\ Reached(o, v, r) /\ Fresh(s, r)
           S == {v \in Diagrams : Good(o, v) => P(v)}
<1>0. o \in Ranks
  BY DEF IsOrder, Ranks
<1>1. ASSUME NEW v \in Diagrams, IsLeaf(v) PROVE v \in S
  BY <1>0, <1>1, RestrictIs DEF Reached
<1>2. ASSUME NEW v \in Diagrams, ~ IsLeaf(v), v.tru \in S, v.fls \in S PROVE v \in S
  <2> SUFFICES ASSUME Good(o, v), NEW s \in HeaderSets
               PROVE  LET r == RestrictTo(o, s, v) IN
                        Good(o, r) /\ Reached(o, v, r) /\ Fresh(s, r)
    OBVIOUS
  <2> DEFINE r == RestrictTo(o, s, v)
             left == Left(o, s, v)
             here == Here(o, s, v)
             rest == left \ here
  <2>1. /\ v.test \in Tests /\ v.tru \in Diagrams /\ v.fls \in Diagrams
        /\ Good(o, v.tru) /\ Good(o, v.fls)
        /\ Below(o, v.test, v.fls) /\ Below(o, v.test, v.tru) /\ FieldBelow(o, v.test, v.tru)
    BY <1>2, GoodParts DEF Good
  <2>2. P(v.tru) /\ P(v.fls)
    BY <1>2, <2>1
  <2>3. s \in HeaderSets /\ left \in HeaderSets /\ rest \in HeaderSets /\ left \subseteq s
    BY DEF HeaderSets, Left
  <2>4. v.test \in After(o, v.test)
    BY <2>1 DEF After
  <2>5. ASSUME NEW w \in Diagrams, Reached(o, v, w), Fresh(left, w) PROVE Fresh(s, w)
    <3> SUFFICES ASSUME ~ IsLeaf(w), NEW hv \in s, hv[1] = w.test[1] PROVE FALSE
      BY DEF FieldsOf
    <3>1. w.test \in Tests /\ (w.test = v.test \/ TestLess(o, v.test, w.test))
      BY <2>5, DiagramParts DEF Reached, After
    <3>2. o[v.test[1]] <= o[w.test[1]]
      BY <2>1, <3>1, OrderRanks
    <3>3. hv \in left
      BY <1>2, <3>1, <3>2, LeftOut
    <3> QED
      BY <2>5, <3>3 DEF FieldsOf
  <2>6. CASE s = {}
    <3>1. r = v
      BY <1>0, <2>6, RestrictIs
    <3> QED
      BY <1>2, <2>4, <2>6, <3>1 DEF Reached, FieldsOf
  <2>7. CASE s # {} /\ here = {}
    <3> DEFINE t == RestrictTo(o, left, v.tru)
               f == RestrictTo(o, left, v.fls)
    <3>1. r = MkBranch(v.test, t, f)
      BY <1>0, <1>2, <2>7, RestrictIs
    <3>2. /\ Good(o, t) /\ Reached(o, v.tru, t) /\ Fresh(left, t)
          /\ Good(o, f) /\ Reached(o, v.fls, f)
      BY <2>2, <2>3
    <3> HIDE DEF t, f
    <3>3. t \in Diagrams /\ f \in Diagrams
      BY <3>2 DEF Good
    <3>4. Reached(o, v, t)
      BY <1>2, <2>1, <3>2, <3>3, ReachedFromPart
    <3>5. FieldBelow(o, v.test, t) /\ Below(o, v.test, f)
      BY <2>1, <3>2, <3>3, ReachedBelow
    <3>6. Good(o, r)
      BY <2>1, <3>1, <3>2, <3>5, GoodBranches
    <3>7. CASE t = f
      <4>1. r = t
        BY <3>1, <3>7, MkBranchIs
      <4> QED
        BY <2>5, <3>2, <3>3, <3>4, <3>6, <4>1
    <3>8. CASE t # f
      <4>1. ~ IsLeaf(r) /\ r.test = v.test
        BY <3>1, <3>8, MkBranchIs, BranchesAreNoLeaves
      <4>2. v.test[1] \notin FieldsOf(s)
        <5> SUFFICES ASSUME NEW hv \in s, hv[1] = v.test[1] PROVE FALSE
          BY DEF FieldsOf
        <5>1. o[v.test[1]] <= o[v.test[1]]
          BY <2>1, OrderRanks
        <5>2. hv \in left
          BY <1>2, <2>1, <5>1, LeftOut
        <5> QED
          BY <2>7, <5>2 DEF Here
      <4> QED
        BY <1>2, <2>4, <3>6, <4>1, <4>2 DEF Reached
    <3> QED
      BY <3>7, <3>8
  <2>8. CASE \E hv \in here : SubsetEq(hv[2], v.test[2])
    <3>1. r = RestrictTo(o, rest, v.tru)
      <4>1. s # {}
        BY <2>3, <2>8 DEF Here
      <4> QED
        BY <1>0, <1>2, <2>8, <4>1, RestrictIs
    <3>2. Good(o, r) /\ Reached(o, v.tru, r) /\ Fresh(rest, r)
      BY <2>2, <2>3, <3>1
    <3> HIDE DEF r
    <3>3. r \in Diagrams
      BY <3>2 DEF Good
    <3>4. Reached(o, v, r)
      BY <1>2, <2>1, <3>2, <3>3, ReachedFromPart
    <3>5. FieldBelow(o, v.test, r)
      BY <2>1, <3>2, <3>3, ReachedBelow
    <3>6. Fresh(left, r)
      <4> SUFFICES ASSUME ~ IsLeaf(r), NEW hv \in left, hv[1] = r.test[1] PROVE FALSE
        BY DEF FieldsOf
      <4>1. hv[1] # v.test[1]
        <5>1. r.test \in Tests
          BY <3>3, DiagramParts
        <5> QED
          BY <2>1, <3>5, <5>1, OrderRanks DEF FieldBelow
      <4>2. hv \in rest
        BY <4>1 DEF Here
      <4> QED
        BY <3>2, <4>2 DEF FieldsOf
    <3>7. Fresh(s, r)
      BY <2>5, <3>3, <3>4, <3>6
    <3> QED
      BY <3>2, <3>4, <3>7 DEF r
  <2>9. CASE here # {} /\ ~ \E hv \in here : SubsetEq(hv[2], v.test[2])
    <3>1. r = RestrictTo(o, left, v.fls)
      <4>1. s # {}
        BY <2>3, <2>9 DEF Here
      <4> QED
        BY <1>0, <1>2, <2>9, <4>1, RestrictIs
    <3>2. Good(o, r) /\ Reached(o, v.fls, r) /\ Fresh(left, r)
      BY <2>2, <2>3, <3>1
    <3> HIDE DEF r
    <3>3. r \in Diagrams
      BY <3>2 DEF Good
    <3>4. Reached(o, v, r)
      BY <1>2, <2>1, <3>2, <3>3, ReachedFromPart
    <3>5. Fresh(s, r)
      BY <2>5, <3>2, <3>3, <3>4
    <3> QED
      BY <3>2, <3>4, <3>5 DEF r
  <2> QED
    BY <2>6, <2>7, <2>8, <2>9
<1>3. Diagrams \subseteq S
  <2> HIDE DEF S
  <2> QED
    BY <1>1, <1>2, DiagramsInduce
<1>4. P(u)
  BY <1>3 DEF Good
<1> QED
  BY <1>4

\* A packet k with the headers hvs is for the test w like the packet j.
Sees(hvs, k, j, w) ==
  IF \E hv \in hvs : hv[1] = w[1]
  THEN Passes(j, w) <=> \E hv \in hvs : hv[1] = w[1] /\ SubsetEq(hv[2], w[2])
  ELSE Passes(j, w) <=> Passes(k, w)

\* The headers tell of all tests of u.
SeesBelow(o, hvs, k, j, u) == IsLeaf(u) \/ \A w \in After(o, u.test) : Sees(hvs, k, j, w)

\* The headers that restrict hands on to the parts are enough for the tests in them.
LEMMA SeesLeft ==
  ASSUME NEW o, IsOrder(o), NEW u \in Diagrams, ~ IsLeaf(u), NEW hvs \in HeaderSets,
         NEW k, NEW j, SeesBelow(o, hvs, k, j, u)
  PROVE  /\ \A t \in Diagrams : Below(o, u.test, t) => SeesBelow(o, Left(o, hvs, u), k, j, t)
         /\ \A t \in Diagrams : FieldBelow(o, u.test, t) =>
              SeesBelow(o, Left(o, hvs, u) \ Here(o, hvs, u), k, j, t)
         /\ SeesBelow(o, {}, k, j, u) => \A t \in Diagrams : Below(o, u.test, t) => SeesBelow(o, {}, k, j, t)
<1> DEFINE left == Left(o, hvs, u)
           rest == Left(o, hvs, u) \ Here(o, hvs, u)
<1>0. o \in Ranks
  BY DEF IsOrder, Ranks
<1>1. u.test \in Tests
  BY DiagramParts
<1>2. ASSUME NEW t \in Diagrams, ~ IsLeaf(t), TestLess(o, u.test, t.test), NEW w \in After(o, t.test)
      PROVE  /\ w \in Tests /\ w \in After(o, u.test) /\ o[u.test[1]] <= o[w[1]]
             /\ o[u.test[1]] < o[t.test[1]] => w[1] # u.test[1]
  <2>1. t.test \in Tests
    BY <1>2, DiagramParts
  <2>2. w \in After(o, u.test) /\ w \in Tests /\ (w = t.test \/ TestLess(o, t.test, w))
    BY <1>1, <1>2, <2>1, AfterShrinks DEF After
  <2>3. w = u.test \/ TestLess(o, u.test, w)
    BY <2>2 DEF After
  <2>4. o[u.test[1]] <= o[w[1]]
    BY <1>1, <2>2, <2>3, OrderRanks
  <2>5. o[t.test[1]] <= o[w[1]] /\ o[u.test[1]] \in Nat /\ o[t.test[1]] \in Nat /\ o[w[1]] \in Nat
    BY <1>1, <2>1, <2>2, OrderRanks
  <2> QED
    BY <2>2, <2>4, <2>5
<1>3. \A w \in After(o, u.test) : Sees(hvs, k, j, w)
  BY DEF SeesBelow
<1>4. ASSUME NEW w \in Tests, o[u.test[1]] <= o[w[1]], Sees(hvs, k, j, w)
      PROVE  Sees(left, k, j, w) /\ (w[1] # u.test[1] => Sees(rest, k, j, w))
  <2>1. /\ \A hv \in hvs : hv[1] = w[1] <=> (hv \in left /\ hv[1] = w[1])
        /\ w[1] # u.test[1] => \A hv \in hvs : hv[1] = w[1] <=> (hv \in rest /\ hv[1] = w[1])
    BY <1>4, LeftOut
  <2>2. left \subseteq hvs /\ rest \subseteq hvs
    BY DEF Left
  <2> HIDE DEF left, rest
  <2> QED
    BY <1>4, <2>1, <2>2 DEF Sees
<1>5. ASSUME NEW t \in Diagrams, Below(o, u.test, t) PROVE SeesBelow(o, left, k, j, t)
  <2> SUFFICES ASSUME ~ IsLeaf(t), NEW w \in After(o, t.test) PROVE Sees(left, k, j, w)
    BY DEF SeesBelow
  <2>1. TestLess(o, u.test, t.test)
    BY <1>5 DEF Below
  <2> QED
    BY <1>2, <1>3, <1>4, <2>1
<1>6. ASSUME NEW t \in Diagrams, FieldBelow(o, u.test, t) PROVE SeesBelow(o, rest, k, j, t)
  <2> SUFFICES ASSUME ~ IsLeaf(t), NEW w \in After(o, t.test) PROVE Sees(rest, k, j, w)
    BY DEF SeesBelow
  <2>1. TestLess(o, u.test, t.test)
    BY <1>1, <1>6, FieldBelowIsBelow DEF Below
  <2>2. o[u.test[1]] < o[t.test[1]]
    BY <1>6 DEF FieldBelow
  <2> QED
    BY <1>2, <1>3, <1>4, <2>1, <2>2
<1>7. ASSUME SeesBelow(o, {}, k, j, u), NEW t \in Diagrams, Below(o, u.test, t)
      PROVE  SeesBelow(o, {}, k, j, t)
  <2> SUFFICES ASSUME ~ IsLeaf(t), NEW w \in After(o, t.test) PROVE Sees({}, k, j, w)
    BY DEF SeesBelow
  <2>1. TestLess(o, u.test, t.test)
    BY <1>7 DEF Below
  <2>2. w \in After(o, u.test)
    BY <1>2, <2>1
  <2> QED
    BY <1>7, <2>2 DEF SeesBelow
<1> QED
  BY <1>5, <1>6, <1>7

\* What restrict is for: what is left does to k what the diagram does to j.
THEOREM RestrictVal ==
  ASSUME NEW o, IsOrder(o), NEW hvs \in HeaderSets, NEW u, Good(o, u),
         NEW k \in AllPackets, NEW j \in AllPackets, SeesBelow(o, hvs, k, j, u)
  PROVE  Val(RestrictTo(o, hvs, u), k) = Val(u, j)
<1> DEFINE P(v) == \A s \in HeaderSets : SeesBelow(o, s, k, j, v) => Val(RestrictTo(o, s, v), k) = Val(v, j)
           S == {v \in Diagrams : Good(o, v) => P(v)}
<1>0. o \in Ranks
  BY DEF IsOrder, Ranks
<1>1. ASSUME NEW v \in Diagrams, IsLeaf(v) PROVE v \in S
  BY <1>0, <1>1, RestrictIs, ValIs
<1>2. ASSUME NEW v \in Diagrams, ~ IsLeaf(v), v.tru \in S, v.fls \in S PROVE v \in S
  <2> SUFFICES ASSUME Good(o, v), NEW s \in HeaderSets, SeesBelow(o, s, k, j, v)
               PROVE  Val(RestrictTo(o, s, v), k) = Val(v, j)
    OBVIOUS
  <2> DEFINE r == RestrictTo(o, s, v)
             left == Left(o, s, v)
             here == Here(o, s, v)
             rest == left \ here
  <2>1. /\ v.test \in Tests /\ v.tru \in Diagrams /\ v.fls \in Diagrams
        /\ Good(o, v.tru) /\ Good(o, v.fls)
        /\ Below(o, v.test, v.fls) /\ Below(o, v.test, v.tru) /\ FieldBelow(o, v.test, v.tru)
    BY <1>2, GoodParts DEF Good
  <2>2. P(v.tru) /\ P(v.fls)
    BY <1>2, <2>1
  <2>3. s \in HeaderSets /\ left \in HeaderSets /\ rest \in HeaderSets /\ {} \in HeaderSets
    BY DEF HeaderSets, Left
  <2>4. /\ SeesBelow(o, left, k, j, v.tru) /\ SeesBelow(o, left, k, j, v.fls)
        /\ SeesBelow(o, rest, k, j, v.tru)
    BY <1>2, <2>1, SeesLeft
  <2>5. /\ Val(RestrictTo(o, left, v.tru), k) = Val(v.tru, j)
        /\ Val(RestrictTo(o, left, v.fls), k) = Val(v.fls, j)
        /\ Val(RestrictTo(o, rest, v.tru), k) = Val(v.tru, j)
    BY <2>2, <2>3, <2>4
  <2>6. Sees(s, k, j, v.test)
    <3>1. v.test \in After(o, v.test)
      BY <2>1 DEF After
    <3> QED
      BY <1>2, <3>1 DEF SeesBelow
  <2>7. \A hv \in s : hv[1] = v.test[1] <=> hv \in here
    <3>1. o[v.test[1]] <= o[v.test[1]]
      BY <2>1, OrderRanks
    <3> QED
      BY <1>2, <2>1, <3>1, LeftOut DEF Here
  <2>8. here \subseteq s
    BY DEF Here, Left
  <2>9. CASE s = {}
    <3>1. r = v /\ RestrictTo(o, {}, v.tru) = v.tru /\ RestrictTo(o, {}, v.fls) = v.fls
      BY <1>0, <2>1, <2>3, <2>9, RestrictIs
    <3>2. left = {}
      BY <2>9 DEF Left
    <3>3. Val(v.tru, k) = Val(v.tru, j) /\ Val(v.fls, k) = Val(v.fls, j)
      BY <2>5, <3>1, <3>2
    <3>4. Passes(j, v.test) <=> Passes(k, v.test)
      BY <2>6, <2>9 DEF Sees
    <3> QED
      BY <1>2, <3>1, <3>3, <3>4, ValIs
  <2>10. CASE s # {} /\ here = {}
    <3> DEFINE t == RestrictTo(o, left, v.tru)
               f == RestrictTo(o, left, v.fls)
    <3>1. r = MkBranch(v.test, t, f)
      BY <1>0, <1>2, <2>10, RestrictIs
    <3>2. r \in Diagrams
      BY <1>0, RestrictStays
    <3>3. Passes(j, v.test) <=> Passes(k, v.test)
      BY <2>6, <2>7, <2>10 DEF Sees
    <3>4. Val(t, k) = Val(v.tru, j) /\ Val(f, k) = Val(v.fls, j)
      BY <2>5
    <3> HIDE DEF r, t, f
    <3>5. Val(r, k) = IF Passes(k, v.test) THEN Val(t, k) ELSE Val(f, k)
      BY <2>1, <3>1, <3>2, BranchVal
    <3>6. Val(r, k) = Val(v, j)
      BY <1>2, <3>3, <3>4, <3>5, ValIs
    <3> QED
      BY <3>6 DEF r
  <2>11. CASE \E hv \in here : SubsetEq(hv[2], v.test[2])
    <3>1. r = RestrictTo(o, rest, v.tru)
      <4>1. s # {}
        BY <2>8, <2>11
      <4> QED
        BY <1>0, <1>2, <2>11, <4>1, RestrictIs
    <3>2. Passes(j, v.test)
      BY <2>6, <2>7, <2>8, <2>11 DEF Sees
    <3> QED
      BY <1>2, <2>5, <3>1, <3>2, ValIs
  <2>12. CASE here # {} /\ ~ \E hv \in here : SubsetEq(hv[2], v.test[2])
    <3>1. r = RestrictTo(o, left, v.fls)
      <4>1. s # {}
        BY <2>8, <2>12
      <4> QED
        BY <1>0, <1>2, <2>12, <4>1, RestrictIs
    <3>2. ~ Passes(j, v.test)
      BY <2>6, <2>7, <2>8, <2>12 DEF Sees
    <3> QED
      BY <1>2, <2>5, <3>1, <3>2, ValIs
  <2> QED
    BY <2>9, <2>10, <2>11, <2>12
<1>3. Diagrams \subseteq S
  <2> HIDE DEF S
  <2> QED
    BY <1>1, <1>2, DiagramsInduce
<1>4. P(u)
  BY <1>3 DEF Good
<1> QED
  BY <1>4

---------------------------------------------------------------------------
(* Actions. *)

\* The elements of Seqs are functions, as sets of pairs.
LEMMA SeqIs == ASSUME NEW s \in Seqs PROVE s \subseteq Modifications /\ Functional(s)
  BY DEF Seqs

\* A merge of two maps of modifications is one.
LEMMA MergeIsSeq == ASSUME NEW s \in Seqs, NEW t \in Seqs PROVE Merge(s, t) \in Seqs
<1>1. Merge(s, t) \subseteq Modifications
  BY SeqIs DEF Merge
<1>2. ASSUME NEW x \in Merge(s, t), NEW y \in Merge(s, t), x[1] = y[1] PROVE x = y
  <2>1. CASE x \in t /\ y \in t
    BY <1>2, <2>1, SeqIs DEF Functional
  <2>2. CASE x \in s /\ y \in s
    BY <1>2, <2>2, SeqIs DEF Functional
  <2>3. CASE x \in t /\ y \notin t
    BY <1>2, <2>3 DEF Merge, FieldsOf
  <2>4. CASE x \notin t /\ y \in t
    BY <1>2, <2>4 DEF Merge, FieldsOf
  <2> QED
    BY <2>1, <2>2, <2>3, <2>4 DEF Merge
<1> QED
  BY <1>1, <1>2 DEF Seqs, Functional

\* The empty map is neutral for merge.
LEMMA MergeWithNothing == \A s : Merge({}, s) = s /\ Merge(s, {}) = s
  BY DEF Merge, FieldsOf

\* Units of the two operations of actions are actions.
LEMMA NothingIsSeq == {} \in Seqs /\ One \in Actions /\ Zero \in Actions
<1>1. {} \in Seqs
  BY DEF Seqs, Functional
<1> QED
  BY <1>1 DEF One, Zero, Actions

\* The two operations on actions.
Ops == {"sum", "prod"}

\* Combine is union, or pairwise merge.
LEMMA CombineIs ==
  /\ \A a, b : Combine("sum", a, b) = a \cup b
  /\ \A a, b : Combine("prod", a, b) = {Merge(st[1], st[2]) : st \in a \X b}
  BY DEF Combine

\* Actions are combined to actions.
LEMMA CombineIsAction ==
  ASSUME NEW op \in Ops, NEW a \in Actions, NEW b \in Actions
  PROVE  Combine(op, a, b) \in Actions
<1>1. CASE op = "sum"
  BY <1>1, CombineIs DEF Actions
<1>2. CASE op = "prod"
  <2>1. ASSUME NEW st \in a \X b PROVE Merge(st[1], st[2]) \in Seqs
    BY MergeIsSeq DEF Actions
  <2> QED
    BY <1>2, <2>1, CombineIs DEF Actions
<1> QED
  BY <1>1, <1>2 DEF Ops

\* One is neutral for the product.
LEMMA ProdWithOne == \A b : Combine("prod", One, b) = b /\ Combine("prod", b, One) = b
<1>1. ASSUME NEW b PROVE Combine("prod", One, b) = b
  <2>1. Combine("prod", One, b) = {Merge(st[1], st[2]) : st \in One \X b}
    BY CombineIs
  <2>2. ASSUME NEW st \in One \X b PROVE Merge(st[1], st[2]) = st[2] /\ st[2] \in b
    BY MergeWithNothing DEF One
  <2>3. ASSUME NEW t \in b PROVE \E st \in One \X b : Merge(st[1], st[2]) = t
    <3>1. <<{}, t>> \in One \X b
      BY DEF One
    <3> QED
      BY <3>1, MergeWithNothing
  <2> QED
    BY <2>1, <2>2, <2>3
<1>2. ASSUME NEW b PROVE Combine("prod", b, One) = b
  <2>1. Combine("prod", b, One) = {Merge(st[1], st[2]) : st \in b \X One}
    BY CombineIs
  <2>2. ASSUME NEW st \in b \X One PROVE Merge(st[1], st[2]) = st[1] /\ st[1] \in b
    BY MergeWithNothing DEF One
  <2>3. ASSUME NEW s \in b PROVE \E st \in b \X One : Merge(st[1], st[2]) = s
    <3>1. <<s, {}>> \in b \X One
      BY DEF One
    <3> QED
      BY <3>1, MergeWithNothing
  <2> QED
    BY <2>1, <2>2, <2>3
<1> QED
  BY <1>1, <1>2

\* The unit of each operation is neutral for it.
LEMMA CombineWithUnit ==
  ASSUME NEW op \in Ops
  PROVE  \A b : Combine(op, Unit(op), b) = b /\ Combine(op, b, Unit(op)) = b
<1>1. CASE op = "sum"
  <2>1. Unit(op) = {}
    BY <1>1 DEF Unit, Zero
  <2>2. \A b : Combine("sum", {}, b) = b /\ Combine("sum", b, {}) = b
    <3> SUFFICES ASSUME NEW b PROVE Combine("sum", {}, b) = b /\ Combine("sum", b, {}) = b
      OBVIOUS
    <3>1. {} \cup b = b /\ b \cup {} = b
      OBVIOUS
    <3>2. Combine("sum", {}, b) = {} \cup b /\ Combine("sum", b, {}) = b \cup {}
      BY DEF Combine
    <3> QED
      BY <3>1, <3>2
  <2> QED
    BY <1>1, <2>1, <2>2
<1>2. CASE op = "prod"
  <2>1. Unit(op) = One
    BY <1>2 DEF Unit
  <2> QED
    BY <1>2, <2>1, ProdWithOne
<1> QED
  BY <1>1, <1>2 DEF Ops

\* Zero is absorbing for the product.
LEMMA ProdWithZero == \A b : Combine("prod", Zero, b) = Zero
<1>1. \A b : Zero \X b = {}
  BY DEF Zero
<1> QED
  BY <1>1, CombineIs DEF Zero

---------------------------------------------------------------------------
(* map_r. *)

\* Maps of actions.
Maps == [Actions -> Actions]

MapBody(m, x) ==
  IF IsLeaf(x[2]) THEN MkLeaf(x[1][x[2].leaf])
  ELSE MkBranch(x[2].test, m[<<x[1], x[2].tru>>], m[<<x[1], x[2].fls>>])
MapRank(x) == Depth(x[2])
MapRs == INSTANCE Recursion WITH Domain <- Maps \X Diagrams, Rank <- MapRank, Body <- MapBody

\* MapR has a function of its own for each g.
MapRFor(g) ==
  CHOOSE map : map = [v \in Diagrams |->
    IF IsLeaf(v) THEN MkLeaf(g[v.leaf]) ELSE MkBranch(v.test, map[v.tru], map[v.fls])]

\* map_r satisfies its recursive definition.
LEMMA MapRIs ==
  ASSUME NEW g \in Maps, NEW u \in Diagrams
  PROVE  /\ IsLeaf(u) => MapR(g, u) = MkLeaf(g[u.leaf])
         /\ ~ IsLeaf(u) => MapR(g, u) = MkBranch(u.test, MapR(g, u.tru), MapR(g, u.fls))
<1>1. MapRs!Descends
  <2>1. \A x \in Maps \X Diagrams : MapRank(x) \in Nat
    BY DiagramParts DEF MapRank
  <2>2. ASSUME NEW x \in Maps \X Diagrams, NEW p, NEW q,
               \A y \in Maps \X Diagrams : MapRank(y) < MapRank(x) => p[y] = q[y]
        PROVE  MapBody(p, x) = MapBody(q, x)
    <3>1. CASE IsLeaf(x[2])
      BY <3>1 DEF MapBody
    <3>2. CASE ~ IsLeaf(x[2])
      <4>1. /\ <<x[1], x[2].tru>> \in Maps \X Diagrams
            /\ <<x[1], x[2].fls>> \in Maps \X Diagrams
            /\ Depth(x[2].tru) < Depth(x[2]) /\ Depth(x[2].fls) < Depth(x[2])
        BY <3>2, DiagramParts
      <4>2. /\ MapRank(<<x[1], x[2].tru>>) < MapRank(x)
            /\ MapRank(<<x[1], x[2].fls>>) < MapRank(x)
        BY <4>1 DEF MapRank
      <4>3. p[<<x[1], x[2].tru>>] = q[<<x[1], x[2].tru>>] /\ p[<<x[1], x[2].fls>>] = q[<<x[1], x[2].fls>>]
        BY <2>2, <4>1, <4>2
      <4> QED
        BY <4>3 DEF MapBody
    <3> QED
      BY <3>1, <3>2
  <2> QED
    BY <2>1, <2>2 DEF MapRs!Descends
<1>2. \A x \in Maps \X Diagrams : MapRs!f[x] = MapBody(MapRs!f, x)
  BY <1>1, MapRs!UnfoldsAt
<1> DEFINE F == [v \in Diagrams |-> MapRs!f[<<g, v>>]]
           body(m, v) == IF IsLeaf(v) THEN MkLeaf(g[v.leaf]) ELSE MkBranch(v.test, m[v.tru], m[v.fls])
<1>3. ASSUME NEW v \in Diagrams PROVE F[v] = body(F, v)
  <2>1. F[v] = MapBody(MapRs!f, <<g, v>>)
    BY <1>2
  <2>2. ~ IsLeaf(v) => F[v.tru] = MapRs!f[<<g, v.tru>>] /\ F[v.fls] = MapRs!f[<<g, v.fls>>]
    BY DiagramParts
  <2> HIDE DEF F
  <2> QED
    BY <2>1, <2>2 DEF MapBody
<1>4. F = [v \in Diagrams |-> body(F, v)]
  <2>1. F = [v \in Diagrams |-> F[v]]
    OBVIOUS
  <2> HIDE DEF F, body
  <2> QED
    BY <1>3, <2>1
<1> DEFINE G == MapRFor(g)
<1>5. G = [v \in Diagrams |-> body(G, v)]
  <2> HIDE DEF F
  <2> QED
    BY <1>4 DEF MapRFor
<1>6. \A v : MapR(g, v) = G[v]
  BY DEF MapR, MapRFor
<1> HIDE DEF G
<1>7. G[u] = body(G, u)
  BY <1>5
<1> QED
  BY <1>6, <1>7

\* map_r maps the values of the diagram and keeps it ordered, also where leaves become equal.
LEMMA MapRGood ==
  ASSUME NEW o, IsOrder(o), NEW g \in Maps, NEW u, Good(o, u)
  PROVE  /\ Good(o, MapR(g, u)) /\ Reached(o, u, MapR(g, u))
         /\ \A k \in AllPackets : Val(MapR(g, u), k) = g[Val(u, k)]
<1> DEFINE P(v) == /\ Good(o, MapR(g, v)) /\ Reached(o, v, MapR(g, v))
                   /\ \A k \in AllPackets : Val(MapR(g, v), k) = g[Val(v, k)]
           S == {v \in Diagrams : Good(o, v) => P(v)}
<1>1. ASSUME NEW v \in Diagrams, IsLeaf(v) PROVE v \in S
  <2>1. MapR(g, v) = MkLeaf(g[v.leaf]) /\ v.leaf \in Actions /\ g[v.leaf] \in Actions
    BY <1>1, MapRIs, DiagramParts DEF Maps
  <2>2. Good(o, MapR(g, v)) /\ IsLeaf(MapR(g, v))
    BY <2>1, GoodLeaves, LeavesAreLeaves
  <2>3. \A k \in AllPackets : Val(MapR(g, v), k) = g[Val(v, k)]
    BY <1>1, <2>1, ValIs, LeafVal
  <2> QED
    BY <2>2, <2>3 DEF Reached
<1>2. ASSUME NEW v \in Diagrams, ~ IsLeaf(v), v.tru \in S, v.fls \in S PROVE v \in S
  <2> SUFFICES ASSUME Good(o, v) PROVE P(v)
    OBVIOUS
  <2> DEFINE r == MapR(g, v)
             t == MapR(g, v.tru)
             f == MapR(g, v.fls)
  <2>1. /\ v.test \in Tests /\ v.tru \in Diagrams /\ v.fls \in Diagrams
        /\ Good(o, v.tru) /\ Good(o, v.fls)
        /\ Below(o, v.test, v.fls) /\ Below(o, v.test, v.tru) /\ FieldBelow(o, v.test, v.tru)
    BY <1>2, GoodParts DEF Good
  <2>2. P(v.tru) /\ P(v.fls)
    BY <1>2, <2>1
  <2>3. r = MkBranch(v.test, t, f)
    BY <1>2, MapRIs
  <2>4. /\ Good(o, t) /\ Reached(o, v.tru, t) /\ Good(o, f) /\ Reached(o, v.fls, f)
        /\ \A k \in AllPackets : Val(t, k) = g[Val(v.tru, k)] /\ Val(f, k) = g[Val(v.fls, k)]
    BY <2>2
  <2> HIDE DEF r, t, f
  <2>5. t \in Diagrams /\ f \in Diagrams
    BY <2>4 DEF Good
  <2>6. FieldBelow(o, v.test, t) /\ Below(o, v.test, f)
    BY <2>1, <2>4, <2>5, ReachedBelow
  <2>7. Good(o, r)
    BY <2>1, <2>3, <2>4, <2>6, GoodBranches
  <2>8. Reached(o, v, r)
    <3>1. Reached(o, v, t)
      BY <1>2, <2>1, <2>4, <2>5, ReachedFromPart
    <3>2. v.test \in After(o, v.test)
      BY <2>1 DEF After
    <3> QED
      BY <1>2, <2>3, <3>1, <3>2, MkBranchIs, BranchesAreNoLeaves DEF Reached
  <2>9. \A k \in AllPackets : Val(r, k) = g[Val(v, k)]
    <3> SUFFICES ASSUME NEW k \in AllPackets PROVE Val(r, k) = g[Val(v, k)]
      OBVIOUS
    <3>1. Val(r, k) = IF Passes(k, v.test) THEN Val(t, k) ELSE Val(f, k)
      BY <2>1, <2>3, <2>7, BranchVal DEF Good
    <3> QED
      BY <1>2, <2>4, <3>1, ValIs
  <2> QED
    BY <2>7, <2>8, <2>9 DEF r
<1>3. Diagrams \subseteq S
  <2> HIDE DEF S
  <2> QED
    BY <1>1, <1>2, DiagramsInduce
<1>4. P(u)
  BY <1>3 DEF Good
<1> QED
  BY <1>4

---------------------------------------------------------------------------
(* apply. *)

\* Of two tests at most one is before the other.
LEMMA LessIsAsymmetric ==
  ASSUME NEW o \in Ranks, NEW x \in Tests, NEW y \in Tests, TestLess(o, x, y)
  PROVE  ~ TestLess(o, y, x)
  BY LessIsIrreflexive, LessIsTransitive

\* A test is a header that restrict can be given.
LEMMA TestsAreHeaders == \A hv \in Tests : {hv} \in HeaderSets
  BY DEF HeaderSets, Headers

\* The first test of two diagrams is a test of one and not after that of the other.
LEMMA FirstIs ==
  ASSUME NEW o \in Ranks, NEW u, NEW v, u.test \in Tests, v.test \in Tests
  PROVE  LET hv == FirstTest(o, u, v) IN
           /\ hv = u.test \/ hv = v.test
           /\ hv \in Tests
           /\ ~ TestLess(o, u.test, hv) /\ ~ TestLess(o, v.test, hv)
           /\ ~ TestLess(o, hv, u.test) \/ ~ TestLess(o, hv, v.test)
  BY LessIsIrreflexive, LessIsAsymmetric DEF FirstTest

\* The parts that apply goes on with are diagrams, none deeper, and one of them less deep.
LEMMA PartsStay ==
  ASSUME NEW o \in Ranks, NEW hv \in Tests, NEW u \in Diagrams, ~ IsLeaf(u)
  PROVE  /\ Under(o, hv, u) \in Diagrams /\ Beside(o, hv, u) \in Diagrams
         /\ Depth(Under(o, hv, u)) \in Nat /\ Depth(Beside(o, hv, u)) \in Nat /\ Depth(u) \in Nat
         /\ Depth(Under(o, hv, u)) <= Depth(u) /\ Depth(Beside(o, hv, u)) <= Depth(u)
         /\ ~ TestLess(o, hv, u.test) =>
              Depth(Under(o, hv, u)) < Depth(u) /\ Depth(Beside(o, hv, u)) < Depth(u)
<1>1. /\ u.tru \in Diagrams /\ u.fls \in Diagrams /\ Depth(u) \in Nat
      /\ Depth(u.tru) < Depth(u) /\ Depth(u.fls) < Depth(u)
      /\ Depth(u.tru) \in Nat /\ Depth(u.fls) \in Nat
  BY DiagramParts
<1> DEFINE r == RestrictTo(o, {hv}, u)
<1>2. r \in Diagrams /\ Depth(r) <= Depth(u) /\ Depth(r) \in Nat
  BY TestsAreHeaders, RestrictStays
<1>3. CASE ~ TestLess(o, hv, u.test)
  <2>1. Under(o, hv, u) = u.tru /\ Beside(o, hv, u) = u.fls
    BY <1>3 DEF Under, Beside
  <2> QED
    BY <1>1, <2>1
<1>4. CASE TestLess(o, hv, u.test)
  <2>1. (Under(o, hv, u) = r \/ Under(o, hv, u) = u) /\ Beside(o, hv, u) = u
    BY <1>4 DEF Under, Beside
  <2> HIDE DEF r
  <2> QED
    BY <1>1, <1>2, <1>4, <2>1
<1> QED
  BY <1>3, <1>4

ApplyBody(g, x) ==
  LET o == x[1]
      op == x[2]
      u == x[3]
      v == x[4]
      hv == FirstTest(o, u, v)
  IN IF IsLeaf(u)
     THEN IF u.leaf = Unit(op) THEN v
          ELSE MapR([r \in Actions |-> Combine(op, u.leaf, r)], v)
     ELSE IF IsLeaf(v)
     THEN IF v.leaf = Unit(op) THEN u
          ELSE MapR([r \in Actions |-> Combine(op, r, v.leaf)], u)
     ELSE MkBranch(hv, g[<<o, op, Under(o, hv, u), Under(o, hv, v)>>],
                       g[<<o, op, Beside(o, hv, u), Beside(o, hv, v)>>])
ApplyRank(x) == Depth(x[3]) + Depth(x[4])
ApplyDomain == Ranks \X Ops \X Diagrams \X Diagrams
Applies == INSTANCE Recursion
             WITH Domain <- ApplyDomain, Rank <- ApplyRank, Body <- ApplyBody

\* apply with its arguments.
Apply(o, op, u, v) == apply[<<o, op, u, v>>]

\* The parts that are combined are smaller.
LEMMA ApplyShrinks ==
  ASSUME NEW o \in Ranks, NEW op \in Ops, NEW u \in Diagrams, NEW v \in Diagrams,
         ~ IsLeaf(u), ~ IsLeaf(v)
  PROVE  LET hv == FirstTest(o, u, v)
             x == <<o, op, u, v>>
             y == <<o, op, Under(o, hv, u), Under(o, hv, v)>>
             z == <<o, op, Beside(o, hv, u), Beside(o, hv, v)>>
         IN /\ y \in ApplyDomain /\ ApplyRank(y) < ApplyRank(x)
            /\ z \in ApplyDomain /\ ApplyRank(z) < ApplyRank(x)
<1> DEFINE hv == FirstTest(o, u, v)
<1>1. u.test \in Tests /\ v.test \in Tests
  BY DiagramParts
<1>2. hv \in Tests /\ (~ TestLess(o, hv, u.test) \/ ~ TestLess(o, hv, v.test))
  BY <1>1, FirstIs
<1> HIDE DEF hv
<1> DEFINE ut == Under(o, hv, u)
           uf == Beside(o, hv, u)
           vt == Under(o, hv, v)
           vf == Beside(o, hv, v)
<1>3. /\ ut \in Diagrams /\ uf \in Diagrams /\ Depth(u) \in Nat
      /\ Depth(ut) \in Nat /\ Depth(uf) \in Nat /\ Depth(ut) <= Depth(u) /\ Depth(uf) <= Depth(u)
      /\ ~ TestLess(o, hv, u.test) => Depth(ut) < Depth(u) /\ Depth(uf) < Depth(u)
  BY <1>2, PartsStay
<1>4. /\ vt \in Diagrams /\ vf \in Diagrams /\ Depth(v) \in Nat
      /\ Depth(vt) \in Nat /\ Depth(vf) \in Nat /\ Depth(vt) <= Depth(v) /\ Depth(vf) <= Depth(v)
      /\ ~ TestLess(o, hv, v.test) => Depth(vt) < Depth(v) /\ Depth(vf) < Depth(v)
  BY <1>2, PartsStay
<1> HIDE DEF ut, uf, vt, vf
<1>5. Depth(ut) + Depth(vt) < Depth(u) + Depth(v) /\ Depth(uf) + Depth(vf) < Depth(u) + Depth(v)
  BY <1>2, <1>3, <1>4
<1>6. /\ <<o, op, ut, vt>> \in ApplyDomain /\ ApplyRank(<<o, op, ut, vt>>) < ApplyRank(<<o, op, u, v>>)
      /\ <<o, op, uf, vf>> \in ApplyDomain /\ ApplyRank(<<o, op, uf, vf>>) < ApplyRank(<<o, op, u, v>>)
  BY <1>3, <1>4, <1>5 DEF ApplyDomain, ApplyRank
<1> QED
  BY <1>6 DEF hv, ut, uf, vt, vf

\* The recursion of apply is on the sum of the depths.
LEMMA ApplyDescends == Applies!Descends
<1>1. \A x \in ApplyDomain : ApplyRank(x) \in Nat
  <2> SUFFICES ASSUME NEW x \in ApplyDomain PROVE ApplyRank(x) \in Nat
    OBVIOUS
  <2>1. x[3] \in Diagrams /\ x[4] \in Diagrams
    BY DEF ApplyDomain
  <2>2. Depth(x[3]) \in Nat /\ Depth(x[4]) \in Nat
    BY <2>1, DiagramParts
  <2> QED
    BY <2>2 DEF ApplyRank
<1>2. ASSUME NEW x \in ApplyDomain, NEW g, NEW h,
             \A y \in ApplyDomain : ApplyRank(y) < ApplyRank(x) => g[y] = h[y]
      PROVE  ApplyBody(g, x) = ApplyBody(h, x)
  <2> DEFINE o == x[1]
             op == x[2]
             u == x[3]
             v == x[4]
             hv == FirstTest(o, u, v)
             y == <<o, op, Under(o, hv, u), Under(o, hv, v)>>
             z == <<o, op, Beside(o, hv, u), Beside(o, hv, v)>>
  <2>1. o \in Ranks /\ op \in Ops /\ u \in Diagrams /\ v \in Diagrams /\ x = <<o, op, u, v>>
    BY DEF ApplyDomain
  <2>2. CASE IsLeaf(u) \/ IsLeaf(v)
    BY <2>2 DEF ApplyBody
  <2>3. CASE ~ IsLeaf(u) /\ ~ IsLeaf(v)
    <3>1. /\ y \in ApplyDomain /\ ApplyRank(y) < ApplyRank(x)
          /\ z \in ApplyDomain /\ ApplyRank(z) < ApplyRank(x)
      BY <2>1, <2>3, ApplyShrinks
    <3>2. g[y] = h[y] /\ g[z] = h[z]
      <4> HIDE DEF y, z
      <4> QED
        BY <1>2, <3>1
    <3> QED
      BY <2>3, <3>2 DEF ApplyBody
  <2> QED
    BY <2>2, <2>3
<1> QED
  BY <1>1, <1>2 DEF Applies!Descends

\* Combination with an action on one side.
LeftMap(op, a) == [r \in Actions |-> Combine(op, a, r)]
RightMap(op, a) == [r \in Actions |-> Combine(op, r, a)]

\* apply satisfies its recursive definition.
LEMMA ApplyIs ==
  ASSUME NEW o \in Ranks, NEW op \in Ops, NEW u \in Diagrams, NEW v \in Diagrams
  PROVE  /\ IsLeaf(u) /\ u.leaf = Unit(op) => Apply(o, op, u, v) = v
         /\ IsLeaf(u) /\ u.leaf # Unit(op) => Apply(o, op, u, v) = MapR(LeftMap(op, u.leaf), v)
         /\ ~ IsLeaf(u) /\ IsLeaf(v) /\ v.leaf = Unit(op) => Apply(o, op, u, v) = u
         /\ ~ IsLeaf(u) /\ IsLeaf(v) /\ v.leaf # Unit(op) =>
              Apply(o, op, u, v) = MapR(RightMap(op, v.leaf), u)
         /\ ~ IsLeaf(u) /\ ~ IsLeaf(v) =>
              LET hv == FirstTest(o, u, v)
              IN Apply(o, op, u, v) = MkBranch(hv, Apply(o, op, Under(o, hv, u), Under(o, hv, v)),
                                                   Apply(o, op, Beside(o, hv, u), Beside(o, hv, v)))
<1>1. apply = Applies!f
  BY DEF apply, Applies!f, ApplyBody, ApplyDomain, Ops
<1>2. <<o, op, u, v>> \in ApplyDomain
  BY DEF ApplyDomain
<1>3. \A x \in ApplyDomain : Applies!f[x] = ApplyBody(Applies!f, x)
  BY ApplyDescends, Applies!UnfoldsAt
<1>4. apply[<<o, op, u, v>>] = ApplyBody(apply, <<o, op, u, v>>)
  BY <1>1, <1>2, <1>3
<1> QED
  BY <1>4 DEF ApplyBody, Apply, LeftMap, RightMap

---------------------------------------------------------------------------
\* The part of u under a test that is not after its own.
LEMMA UnderIs ==
  ASSUME NEW o, IsOrder(o), NEW hv \in Tests, NEW u, Good(o, u), ~ IsLeaf(u),
         ~ TestLess(o, u.test, hv)
  PROVE  /\ Good(o, Under(o, hv, u)) /\ FieldBelow(o, hv, Under(o, hv, u))
         /\ \A k \in AllPackets : Passes(k, hv) => Val(Under(o, hv, u), k) = Val(u, k)
<1>0. o \in Ranks
  BY DEF IsOrder, Ranks
<1>1. /\ u \in Diagrams /\ u.test \in Tests /\ Good(o, u.tru) /\ FieldBelow(o, u.test, u.tru)
  BY GoodParts
<1>2. CASE ~ TestLess(o, hv, u.test)
  <2>1. Under(o, hv, u) = u.tru
    BY <1>2 DEF Under
  <2>2. hv[1] = u.test[1]
    BY <1>1, <1>2, TiedTests
  <2>3. \A k \in AllPackets : Passes(k, hv) => Val(u.tru, k) = Val(u, k)
    BY <1>1, <1>2, TiedPass, ValIs
  <2> QED
    BY <1>1, <2>1, <2>2, <2>3 DEF FieldBelow
<1>3. CASE TestLess(o, hv, u.test) /\ u.test[1] = hv[1]
  <2> DEFINE r == RestrictTo(o, {hv}, u)
  <2>1. Under(o, hv, u) = r
    BY <1>3 DEF Under
  <2>2. {hv} \in HeaderSets
    BY TestsAreHeaders
  <2>3. /\ Good(o, r) /\ Reached(o, u, r) /\ (IsLeaf(r) \/ r.test[1] \notin FieldsOf({hv}))
    BY <2>2, RestrictGood
  <2>4. \A k \in AllPackets : Passes(k, hv) => Val(r, k) = Val(u, k)
    <3> SUFFICES ASSUME NEW k \in AllPackets, Passes(k, hv) PROVE Val(r, k) = Val(u, k)
      OBVIOUS
    <3>1. ASSUME NEW w \in After(o, u.test) PROVE Sees({hv}, k, k, w)
      <4>1. w \in Tests /\ ~ TestLess(o, w, hv)
        BY <1>0, <1>1, <1>3, LessIsAsymmetric, LessIsTransitive DEF After
      <4>2. hv[1] = w[1] => (SubsetEq(hv[2], w[2]) <=> Passes(k, w))
        BY <4>1, NestedPass
      <4> QED
        BY <4>2 DEF Sees
    <3>2. SeesBelow(o, {hv}, k, k, u)
      BY <3>1 DEF SeesBelow
    <3> QED
      BY <2>2, <3>2, RestrictVal
  <2> HIDE DEF r
  <2>5. FieldBelow(o, hv, r)
    <3>1. r \in Diagrams
      BY <2>3 DEF Good
    <3>2. Below(o, hv, r)
      BY <1>1, <1>3, <2>3, <3>1, ReachedBelow DEF Below
    <3> SUFFICES ASSUME ~ IsLeaf(r) PROVE o[hv[1]] < o[r.test[1]]
      BY DEF FieldBelow
    <3>3. r.test \in Tests /\ TestLess(o, hv, r.test)
      BY <3>1, <3>2, DiagramParts DEF Below
    <3>4. r.test[1] # hv[1]
      BY <2>3 DEF FieldsOf
    <3> QED
      BY <3>3, <3>4, OrderRanks
  <2> QED
    BY <2>1, <2>3, <2>4, <2>5
<1>4. CASE TestLess(o, hv, u.test) /\ u.test[1] # hv[1]
  <2>1. Under(o, hv, u) = u
    BY <1>4 DEF Under
  <2>2. o[hv[1]] < o[u.test[1]]
    BY <1>1, <1>4, OrderRanks
  <2> QED
    BY <2>1, <2>2 DEF FieldBelow
<1> QED
  BY <1>2, <1>3, <1>4

\* The part of u beside it.
LEMMA BesideIs ==
  ASSUME NEW o, IsOrder(o), NEW hv \in Tests, NEW u, Good(o, u), ~ IsLeaf(u),
         ~ TestLess(o, u.test, hv)
  PROVE  /\ Good(o, Beside(o, hv, u)) /\ Below(o, hv, Beside(o, hv, u))
         /\ \A k \in AllPackets : ~ Passes(k, hv) => Val(Beside(o, hv, u), k) = Val(u, k)
<1>1. /\ u \in Diagrams /\ u.test \in Tests /\ Good(o, u.fls) /\ Below(o, u.test, u.fls)
  BY GoodParts
<1>2. CASE ~ TestLess(o, hv, u.test)
  <2>1. Beside(o, hv, u) = u.fls
    BY <1>2 DEF Beside
  <2>2. Below(o, hv, u.fls)
    <3> SUFFICES ASSUME ~ IsLeaf(u.fls) PROVE TestLess(o, hv, u.fls.test)
      BY DEF Below
    <3>1. u.fls.test \in Tests /\ TestLess(o, u.test, u.fls.test)
      BY <1>1, GoodParts DEF Below
    <3> QED
      BY <1>1, <3>1, LessIsWeak
  <2>3. \A k \in AllPackets : ~ Passes(k, hv) => Val(u.fls, k) = Val(u, k)
    BY <1>1, <1>2, TiedPass, ValIs
  <2> QED
    BY <1>1, <2>1, <2>2, <2>3
<1>3. CASE TestLess(o, hv, u.test)
  <2>1. Beside(o, hv, u) = u
    BY <1>3 DEF Beside
  <2> QED
    BY <1>3, <2>1 DEF Below
<1> QED
  BY <1>2, <1>3

\* What a combination of two diagrams is.
Combines(o, op, u, v, r) ==
  /\ Good(o, r)
  /\ \A w \in Tests : Below(o, w, u) /\ Below(o, w, v) => Below(o, w, r)
  /\ \A w \in Tests : FieldBelow(o, w, u) /\ FieldBelow(o, w, v) => FieldBelow(o, w, r)
  /\ \A k \in AllPackets : Val(r, k) = Combine(op, Val(u, k), Val(v, k))

\* apply is right where one of the diagrams is a leaf.
LEMMA ApplyLeaf ==
  ASSUME NEW o, IsOrder(o), NEW op \in Ops, NEW u, Good(o, u), NEW v, Good(o, v),
         IsLeaf(u) \/ IsLeaf(v)
  PROVE  Combines(o, op, u, v, Apply(o, op, u, v))
<1> DEFINE r == Apply(o, op, u, v)
<1>0. o \in Ranks
  BY DEF IsOrder, Ranks
<1>1. u \in Diagrams /\ v \in Diagrams
  BY DEF Good
<1>2. CASE IsLeaf(u)
  <2>1. u.leaf \in Actions /\ \A k \in AllPackets : Val(u, k) = u.leaf
    BY <1>1, <1>2, DiagramParts, ValIs
  <2>2. CASE u.leaf = Unit(op)
    <3>1. r = v
      BY <1>0, <1>1, <1>2, <2>2, ApplyIs
    <3>2. \A k \in AllPackets : Val(v, k) = Combine(op, Val(u, k), Val(v, k))
      BY <2>1, <2>2, CombineWithUnit
    <3> HIDE DEF r
    <3> QED
      BY <3>1, <3>2 DEF Combines, r
  <2>3. CASE u.leaf # Unit(op)
    <3> DEFINE g == LeftMap(op, u.leaf)
    <3>1. r = MapR(g, v)
      BY <1>0, <1>1, <1>2, <2>3, ApplyIs
    <3>2. g \in Maps
      BY <2>1, CombineIsAction DEF Maps, LeftMap
    <3>3. \A a \in Actions : g[a] = Combine(op, u.leaf, a)
      BY DEF LeftMap
    <3> HIDE DEF g, r
    <3>4. Good(o, r) /\ Reached(o, v, r) /\ \A k \in AllPackets : Val(r, k) = g[Val(v, k)]
      BY <3>1, <3>2, MapRGood
    <3>5. \A k \in AllPackets : Val(r, k) = Combine(op, Val(u, k), Val(v, k))
      BY <1>1, <2>1, <3>3, <3>4, ValIsAction
    <3>6. r \in Diagrams
      BY <3>4 DEF Good
    <3> QED
      BY <1>1, <3>4, <3>5, <3>6, ReachedBelow DEF Combines, r
  <2> QED
    BY <2>2, <2>3
<1>3. CASE ~ IsLeaf(u)
  <2>0. IsLeaf(v)
    BY <1>3
  <2>1. v.leaf \in Actions /\ \A k \in AllPackets : Val(v, k) = v.leaf
    BY <1>1, <2>0, DiagramParts, ValIs
  <2>2. CASE v.leaf = Unit(op)
    <3>1. r = u
      BY <1>0, <1>1, <1>3, <2>0, <2>2, ApplyIs
    <3>2. \A k \in AllPackets : Val(u, k) = Combine(op, Val(u, k), Val(v, k))
      BY <2>1, <2>2, CombineWithUnit
    <3> HIDE DEF r
    <3> QED
      BY <3>1, <3>2 DEF Combines, r
  <2>3. CASE v.leaf # Unit(op)
    <3> DEFINE g == RightMap(op, v.leaf)
    <3>1. r = MapR(g, u)
      BY <1>0, <1>1, <1>3, <2>0, <2>3, ApplyIs
    <3>2. g \in Maps
      BY <2>1, CombineIsAction DEF Maps, RightMap
    <3>3. \A a \in Actions : g[a] = Combine(op, a, v.leaf)
      BY DEF RightMap
    <3> HIDE DEF g, r
    <3>4. Good(o, r) /\ Reached(o, u, r) /\ \A k \in AllPackets : Val(r, k) = g[Val(u, k)]
      BY <3>1, <3>2, MapRGood
    <3>5. \A k \in AllPackets : Val(r, k) = Combine(op, Val(u, k), Val(v, k))
      BY <1>1, <2>1, <3>3, <3>4, ValIsAction
    <3>6. r \in Diagrams
      BY <3>4 DEF Good
    <3> QED
      BY <1>1, <3>4, <3>5, <3>6, ReachedBelow DEF Combines, r
  <2> QED
    BY <2>2, <2>3
<1> QED
  BY <1>2, <1>3

\* apply is right for two branches when it is for their parts.
LEMMA ApplyBranch ==
  ASSUME NEW o, IsOrder(o), NEW op \in Ops, NEW u, Good(o, u), NEW v, Good(o, v),
         ~ IsLeaf(u), ~ IsLeaf(v), NEW hv, hv = FirstTest(o, u, v), NEW t, NEW f,
         Combines(o, op, Under(o, hv, u), Under(o, hv, v), t),
         Combines(o, op, Beside(o, hv, u), Beside(o, hv, v), f)
  PROVE  Combines(o, op, u, v, MkBranch(hv, t, f))
<1> DEFINE r == MkBranch(hv, t, f)
<1>0. o \in Ranks
  BY DEF IsOrder, Ranks
<1>1. u \in Diagrams /\ v \in Diagrams /\ u.test \in Tests /\ v.test \in Tests
  BY GoodParts
<1>2. /\ hv = u.test \/ hv = v.test
      /\ hv \in Tests
      /\ ~ TestLess(o, u.test, hv) /\ ~ TestLess(o, v.test, hv)
  BY <1>0, <1>1, FirstIs
<1>3. /\ FieldBelow(o, hv, Under(o, hv, u)) /\ FieldBelow(o, hv, Under(o, hv, v))
      /\ Below(o, hv, Beside(o, hv, u)) /\ Below(o, hv, Beside(o, hv, v))
      /\ \A k \in AllPackets : Passes(k, hv) =>
           Val(Under(o, hv, u), k) = Val(u, k) /\ Val(Under(o, hv, v), k) = Val(v, k)
      /\ \A k \in AllPackets : ~ Passes(k, hv) =>
           Val(Beside(o, hv, u), k) = Val(u, k) /\ Val(Beside(o, hv, v), k) = Val(v, k)
  BY <1>2, UnderIs, BesideIs
<1>4. Good(o, t) /\ Good(o, f) /\ FieldBelow(o, hv, t) /\ Below(o, hv, f)
  BY <1>2, <1>3 DEF Combines
<1>5. Good(o, r) /\ t \in Diagrams /\ f \in Diagrams
  BY <1>2, <1>4, GoodBranches DEF Good
<1>6. \A k \in AllPackets : Val(r, k) = Combine(op, Val(u, k), Val(v, k))
  <2> SUFFICES ASSUME NEW k \in AllPackets PROVE Val(r, k) = Combine(op, Val(u, k), Val(v, k))
    OBVIOUS
  <2>1. Val(r, k) = IF Passes(k, hv) THEN Val(t, k) ELSE Val(f, k)
    BY <1>2, <1>5, BranchVal DEF Good
  <2>2. /\ Val(t, k) = Combine(op, Val(Under(o, hv, u), k), Val(Under(o, hv, v), k))
        /\ Val(f, k) = Combine(op, Val(Beside(o, hv, u), k), Val(Beside(o, hv, v), k))
    BY DEF Combines
  <2> HIDE DEF r
  <2> QED
    BY <1>3, <2>1, <2>2
<1>7. ASSUME NEW w \in Tests
      PROVE  /\ Below(o, w, u) /\ Below(o, w, v) => Below(o, w, r)
             /\ FieldBelow(o, w, u) /\ FieldBelow(o, w, v) => FieldBelow(o, w, r)
  <2>1. ASSUME TestLess(o, w, hv) PROVE Below(o, w, r)
    <3>1. Below(o, hv, t)
      BY <1>2, <1>4, <1>5, FieldBelowIsBelow
    <3>2. Below(o, w, t)
      BY <1>0, <1>2, <1>5, <2>1, <3>1, LessIsTransitive, DiagramParts DEF Below
    <3> QED
      BY <2>1, <3>2, BranchRoot
  <2>2. ASSUME o[w[1]] < o[hv[1]] PROVE FieldBelow(o, w, r)
    <3>1. FieldBelow(o, w, t)
      <4> SUFFICES ASSUME ~ IsLeaf(t) PROVE o[w[1]] < o[t.test[1]]
        BY DEF FieldBelow
      <4>1. t.test \in Tests /\ o[hv[1]] < o[t.test[1]]
        BY <1>4, <1>5, DiagramParts DEF FieldBelow
      <4>2. o[w[1]] \in Nat /\ o[hv[1]] \in Nat /\ o[t.test[1]] \in Nat
        BY <1>2, <4>1, OrderRanks
      <4> QED
        BY <2>2, <4>1, <4>2
    <3> QED
      BY <2>2, <3>1, BranchRoot
  <2>3. (Below(o, w, u) => TestLess(o, w, u.test)) /\ (Below(o, w, v) => TestLess(o, w, v.test))
    BY DEF Below
  <2>4. (FieldBelow(o, w, u) => o[w[1]] < o[u.test[1]]) /\ (FieldBelow(o, w, v) => o[w[1]] < o[v.test[1]])
    BY DEF FieldBelow
  <2> HIDE DEF r
  <2> QED
    BY <1>2, <2>1, <2>2, <2>3, <2>4
<1> HIDE DEF r
<1>8. Combines(o, op, u, v, r)
  BY <1>5, <1>6, <1>7 DEF Combines
<1> QED
  BY <1>8 DEF r

\* apply combines what its arguments do, and keeps diagrams ordered.
THEOREM ApplyCombines ==
  ASSUME NEW o, IsOrder(o), NEW op \in Ops, NEW u, Good(o, u), NEW v, Good(o, v)
  PROVE  Combines(o, op, u, v, Apply(o, op, u, v))
<1> DEFINE P(x) == Good(o, x[3]) /\ Good(o, x[4]) => Combines(o, x[2], x[3], x[4], apply[x])
           S == {x \in ApplyDomain : x[1] = o => P(x)}
<1>0. o \in Ranks
  BY DEF IsOrder, Ranks
<1>1. ASSUME NEW x \in ApplyDomain, \A y \in ApplyDomain : ApplyRank(y) < ApplyRank(x) => y \in S
      PROVE  x \in S
  <2> SUFFICES ASSUME x[1] = o, Good(o, x[3]), Good(o, x[4])
               PROVE  Combines(o, x[2], x[3], x[4], apply[x])
    OBVIOUS
  <2> DEFINE q == x[2]
             a == x[3]
             b == x[4]
             hv == FirstTest(o, a, b)
             y == <<o, q, Under(o, hv, a), Under(o, hv, b)>>
             z == <<o, q, Beside(o, hv, a), Beside(o, hv, b)>>
  <2>1. x = <<o, q, a, b>> /\ q \in Ops /\ a \in Diagrams /\ b \in Diagrams
    BY DEF ApplyDomain
  <2>2. CASE IsLeaf(a) \/ IsLeaf(b)
    <3>1. Combines(o, q, a, b, Apply(o, q, a, b))
      BY <2>1, <2>2, ApplyLeaf
    <3> QED
      BY <2>1, <3>1 DEF Apply
  <2>3. CASE ~ IsLeaf(a) /\ ~ IsLeaf(b)
    <3>1. /\ y \in ApplyDomain /\ ApplyRank(y) < ApplyRank(x)
          /\ z \in ApplyDomain /\ ApplyRank(z) < ApplyRank(x)
      BY <1>0, <2>1, <2>3, ApplyShrinks
    <3>2. y \in S /\ z \in S
      <4> HIDE DEF y, z, S
      <4> QED
        BY <1>1, <3>1
    <3>3. a.test \in Tests /\ b.test \in Tests
      BY <2>3, GoodParts
    <3>4. hv \in Tests /\ ~ TestLess(o, a.test, hv) /\ ~ TestLess(o, b.test, hv)
      BY <1>0, <3>3, FirstIs
    <3>5. /\ Good(o, Under(o, hv, a)) /\ Good(o, Under(o, hv, b))
          /\ Good(o, Beside(o, hv, a)) /\ Good(o, Beside(o, hv, b))
      <4> HIDE DEF hv
      <4> QED
        BY <2>3, <3>4, UnderIs, BesideIs
    <3>6. /\ Combines(o, q, Under(o, hv, a), Under(o, hv, b), apply[y])
          /\ Combines(o, q, Beside(o, hv, a), Beside(o, hv, b), apply[z])
      <4>1. y[1] = o /\ y[2] = q /\ y[3] = Under(o, hv, a) /\ y[4] = Under(o, hv, b)
        OBVIOUS
      <4>2. z[1] = o /\ z[2] = q /\ z[3] = Beside(o, hv, a) /\ z[4] = Beside(o, hv, b)
        OBVIOUS
      <4>3. P(y) /\ P(z)
        <5> HIDE DEF y, z
        <5> QED
          BY <3>2, <4>1, <4>2
      <4> HIDE DEF y, z, hv
      <4> QED
        BY <3>5, <4>1, <4>2, <4>3
    <3>7. apply[x] = MkBranch(hv, apply[y], apply[z])
      BY <1>0, <2>1, <2>3, ApplyIs DEF Apply
    <3> HIDE DEF y, z
    <3> QED
      BY <2>1, <2>3, <3>6, <3>7, ApplyBranch
  <2> QED
    BY <2>2, <2>3
<1>2. \A x \in ApplyDomain : ApplyRank(x) \in Nat
  BY ApplyDescends DEF Applies!Descends
<1>3. ApplyDomain \subseteq S
  <2> HIDE DEF S
  <2> QED
    BY <1>1, <1>2, Applies!RankInduces
<1>4. <<o, op, u, v>> \in ApplyDomain
  BY <1>0 DEF ApplyDomain, Good
<1>5. P(<<o, op, u, v>>)
  BY <1>3, <1>4
<1> QED
  BY <1>5 DEF Apply

\* sum combines the values by union.
LEMMA SumIs ==
  ASSUME NEW o, IsOrder(o), NEW u, Good(o, u), NEW v, Good(o, v)
  PROVE  Combines(o, "sum", u, v, Sum(o, u, v))
  BY ApplyCombines DEF Sum, Apply, Ops

\* prod combines the values by product.
LEMMA ProdIs ==
  ASSUME NEW o, IsOrder(o), NEW u, Good(o, u), NEW v, Good(o, v)
  PROVE  Combines(o, "prod", u, v, Prod(o, u, v))
  BY ApplyCombines DEF Prod, Apply, Ops

---------------------------------------------------------------------------
(* cond, and map with cond. *)

\* An atom has one value for packets that pass the test and another for the rest.
LEMMA AtomIs ==
  ASSUME NEW o, IsOrder(o), NEW hv \in Tests, NEW a \in Actions, NEW b \in Actions
  PROVE  /\ Good(o, Atom(hv, a, b))
         /\ \A k \in AllPackets : Val(Atom(hv, a, b), k) = IF Passes(k, hv) THEN a ELSE b
<1>1. Good(o, MkLeaf(a)) /\ Good(o, MkLeaf(b)) /\ IsLeaf(MkLeaf(a)) /\ IsLeaf(MkLeaf(b))
  BY GoodLeaves, LeavesAreLeaves
<1>2. Good(o, Atom(hv, a, b))
  BY <1>1, GoodBranches DEF Atom, FieldBelow, Below
<1>3. Atom(hv, a, b) \in Diagrams
  BY <1>2 DEF Good
<1>4. \A k \in AllPackets : Val(Atom(hv, a, b), k) = IF Passes(k, hv) THEN a ELSE b
  BY <1>3, BranchVal, LeafVal DEF Atom
<1> QED
  BY <1>2, <1>4

\* The part of t for packets that pass hv, or that do not.
Guarded(o, hv, a, b, t) == Prod(o, Atom(hv, a, b), t)

\* A product with an atom keeps the values for packets on one side of the test only.
LEMMA GuardedIs ==
  ASSUME NEW o, IsOrder(o), NEW hv \in Tests, NEW t, Good(o, t)
  PROVE  /\ Good(o, Guarded(o, hv, One, Zero, t)) /\ Good(o, Guarded(o, hv, Zero, One, t))
         /\ \A k \in AllPackets :
              /\ Val(Guarded(o, hv, One, Zero, t), k) = IF Passes(k, hv) THEN Val(t, k) ELSE Zero
              /\ Val(Guarded(o, hv, Zero, One, t), k) = IF Passes(k, hv) THEN Zero ELSE Val(t, k)
<1>1. /\ Good(o, Atom(hv, One, Zero)) /\ Good(o, Atom(hv, Zero, One))
      /\ \A k \in AllPackets :
           /\ Val(Atom(hv, One, Zero), k) = IF Passes(k, hv) THEN One ELSE Zero
           /\ Val(Atom(hv, Zero, One), k) = IF Passes(k, hv) THEN Zero ELSE One
  BY AtomIs, NothingIsSeq
<1>2. Combines(o, "prod", Atom(hv, One, Zero), t, Guarded(o, hv, One, Zero, t))
  BY <1>1, ProdIs DEF Guarded
<1>3. Combines(o, "prod", Atom(hv, Zero, One), t, Guarded(o, hv, Zero, One, t))
  BY <1>1, ProdIs DEF Guarded
<1>4. Good(o, Guarded(o, hv, One, Zero, t)) /\ Good(o, Guarded(o, hv, Zero, One, t))
  BY <1>2, <1>3 DEF Combines
<1>5. ASSUME NEW k \in AllPackets
      PROVE  /\ Val(Guarded(o, hv, One, Zero, t), k) = IF Passes(k, hv) THEN Val(t, k) ELSE Zero
             /\ Val(Guarded(o, hv, Zero, One, t), k) = IF Passes(k, hv) THEN Zero ELSE Val(t, k)
  <2>1. /\ Val(Guarded(o, hv, One, Zero, t), k) = Combine("prod", Val(Atom(hv, One, Zero), k), Val(t, k))
        /\ Val(Guarded(o, hv, Zero, One, t), k) = Combine("prod", Val(Atom(hv, Zero, One), k), Val(t, k))
    BY <1>2, <1>3 DEF Combines
  <2> QED
    BY <1>1, <2>1, ProdWithOne, ProdWithZero
<1> QED
  BY <1>4, <1>5

\* cond chooses by the test, which may come after tests of its parts.
LEMMA CondIs ==
  ASSUME NEW o, IsOrder(o), NEW hv \in Tests, NEW t, Good(o, t), NEW f, Good(o, f)
  PROVE  /\ Good(o, Cond(o, hv, t, f))
         /\ \A k \in AllPackets :
              Val(Cond(o, hv, t, f), k) = IF Passes(k, hv) THEN Val(t, k) ELSE Val(f, k)
<1>1. t \in Diagrams /\ f \in Diagrams
  BY DEF Good
<1>2. CASE t = f
  BY <1>2 DEF Cond
<1>3. CASE t # f /\ FieldBelow(o, hv, t) /\ FieldBelow(o, hv, f)
  <2>1. Cond(o, hv, t, f) = MkBranch(hv, t, f)
    BY <1>3 DEF Cond, FieldBelow
  <2>2. Good(o, MkBranch(hv, t, f))
    BY <1>1, <1>3, FieldBelowIsBelow, GoodBranches
  <2>3. MkBranch(hv, t, f) \in Diagrams
    BY <2>2 DEF Good
  <2> QED
    BY <2>1, <2>2, <2>3, BranchVal
<1>4. CASE t # f /\ ~ (FieldBelow(o, hv, t) /\ FieldBelow(o, hv, f))
  <2> DEFINE a == Guarded(o, hv, One, Zero, t)
             b == Guarded(o, hv, Zero, One, f)
  <2>1. Cond(o, hv, t, f) = Sum(o, a, b)
    BY <1>4 DEF Cond, FieldBelow, Guarded
  <2>2. /\ Good(o, a) /\ Good(o, b)
        /\ \A k \in AllPackets : /\ Val(a, k) = IF Passes(k, hv) THEN Val(t, k) ELSE Zero
                                 /\ Val(b, k) = IF Passes(k, hv) THEN Zero ELSE Val(f, k)
    BY GuardedIs
  <2> HIDE DEF a, b
  <2>3. Combines(o, "sum", a, b, Cond(o, hv, t, f))
    BY <2>1, <2>2, SumIs
  <2>4. \A x : Combine("sum", x, Zero) = x /\ Combine("sum", Zero, x) = x
    BY CombineWithUnit DEF Ops, Unit
  <2> QED
    BY <2>2, <2>3, <2>4 DEF Combines
<1> QED
  BY <1>2, <1>3, <1>4

\* Maps of actions to diagrams.
DiagramMaps == [Actions -> Diagrams]

MapCondBody(m, x) ==
  IF IsLeaf(x[3]) THEN x[2][x[3].leaf]
  ELSE Cond(x[1], x[3].test, m[<<x[1], x[2], x[3].tru>>], m[<<x[1], x[2], x[3].fls>>])
MapCondRank(x) == Depth(x[3])
MapCondDomain == Ranks \X DiagramMaps \X Diagrams
MapConds == INSTANCE Recursion
              WITH Domain <- MapCondDomain, Rank <- MapCondRank, Body <- MapCondBody

\* MapCond has a function of its own for each order and each g.
MapCondFor(o, g) ==
  CHOOSE map : map = [v \in Diagrams |->
    IF IsLeaf(v) THEN g[v.leaf] ELSE Cond(o, v.test, map[v.tru], map[v.fls])]

\* The recursion of map with cond is on the depth of the diagram.
LEMMA MapCondDescends == MapConds!Descends
<1>1. \A x \in MapCondDomain : MapCondRank(x) \in Nat
  BY DiagramParts DEF MapCondRank, MapCondDomain
<1>2. ASSUME NEW x \in MapCondDomain, NEW p, NEW q,
             \A y \in MapCondDomain : MapCondRank(y) < MapCondRank(x) => p[y] = q[y]
      PROVE  MapCondBody(p, x) = MapCondBody(q, x)
  <2>1. CASE IsLeaf(x[3])
    BY <2>1 DEF MapCondBody
  <2>2. CASE ~ IsLeaf(x[3])
    <3>0. x[1] \in Ranks /\ x[2] \in DiagramMaps /\ x[3] \in Diagrams
      BY DEF MapCondDomain
    <3>1. /\ x[3].tru \in Diagrams /\ x[3].fls \in Diagrams
          /\ Depth(x[3].tru) < Depth(x[3]) /\ Depth(x[3].fls) < Depth(x[3])
      BY <2>2, <3>0, DiagramParts
    <3>2. /\ <<x[1], x[2], x[3].tru>> \in MapCondDomain
          /\ <<x[1], x[2], x[3].fls>> \in MapCondDomain
      BY <3>0, <3>1 DEF MapCondDomain
    <3>3. /\ MapCondRank(<<x[1], x[2], x[3].tru>>) < MapCondRank(x)
          /\ MapCondRank(<<x[1], x[2], x[3].fls>>) < MapCondRank(x)
      BY <3>1 DEF MapCondRank
    <3>4. /\ p[<<x[1], x[2], x[3].tru>>] = q[<<x[1], x[2], x[3].tru>>]
          /\ p[<<x[1], x[2], x[3].fls>>] = q[<<x[1], x[2], x[3].fls>>]
      BY <1>2, <3>2, <3>3
    <3> QED
      BY <2>2, <3>4 DEF MapCondBody
  <2> QED
    BY <2>1, <2>2
<1> QED
  BY <1>1, <1>2 DEF MapConds!Descends

\* map with cond satisfies its recursive definition.
LEMMA MapCondUnfolds ==
  ASSUME NEW o \in Ranks, NEW g \in DiagramMaps, NEW u \in Diagrams
  PROVE  /\ IsLeaf(u) => MapCond(o, g, u) = g[u.leaf]
         /\ ~ IsLeaf(u) =>
              MapCond(o, g, u) = Cond(o, u.test, MapCond(o, g, u.tru), MapCond(o, g, u.fls))
<1>2. \A x \in MapCondDomain : MapConds!f[x] = MapCondBody(MapConds!f, x)
  BY MapCondDescends, MapConds!UnfoldsAt
<1> DEFINE F == [v \in Diagrams |-> MapConds!f[<<o, g, v>>]]
           body(m, v) == IF IsLeaf(v) THEN g[v.leaf] ELSE Cond(o, v.test, m[v.tru], m[v.fls])
<1>3. ASSUME NEW v \in Diagrams PROVE F[v] = body(F, v)
  <2>1. F[v] = MapCondBody(MapConds!f, <<o, g, v>>)
    BY <1>2 DEF MapCondDomain
  <2>2. ~ IsLeaf(v) => F[v.tru] = MapConds!f[<<o, g, v.tru>>] /\ F[v.fls] = MapConds!f[<<o, g, v.fls>>]
    BY DiagramParts
  <2> HIDE DEF F
  <2> QED
    BY <2>1, <2>2 DEF MapCondBody
<1>4. F = [v \in Diagrams |-> body(F, v)]
  <2>1. F = [v \in Diagrams |-> F[v]]
    OBVIOUS
  <2> HIDE DEF F, body
  <2> QED
    BY <1>3, <2>1
<1> DEFINE G == MapCondFor(o, g)
<1>5. G = [v \in Diagrams |-> body(G, v)]
  <2> HIDE DEF F
  <2> QED
    BY <1>4 DEF MapCondFor
<1>6. \A v : MapCond(o, g, v) = G[v]
  BY DEF MapCond, MapCondFor
<1> HIDE DEF G
<1>7. G[u] = body(G, u)
  BY <1>5
<1> QED
  BY <1>6, <1>7

\* map takes every packet to what g makes of its leaf.
THEOREM MapCondIs ==
  ASSUME NEW o, IsOrder(o), NEW g \in DiagramMaps, \A par \in Actions : Good(o, g[par]),
         NEW u \in Diagrams
  PROVE  /\ Good(o, MapCond(o, g, u))
         /\ \A k \in AllPackets : Val(MapCond(o, g, u), k) = Val(g[Val(u, k)], k)
<1> DEFINE P(v) == /\ Good(o, MapCond(o, g, v))
                   /\ \A k \in AllPackets : Val(MapCond(o, g, v), k) = Val(g[Val(v, k)], k)
           S == {v \in Diagrams : P(v)}
<1>0. o \in Ranks
  BY DEF IsOrder, Ranks
<1>1. ASSUME NEW v \in Diagrams, IsLeaf(v) PROVE v \in S
  <2>1. MapCond(o, g, v) = g[v.leaf] /\ v.leaf \in Actions
    BY <1>0, <1>1, MapCondUnfolds, DiagramParts
  <2>2. \A k \in AllPackets : Val(v, k) = v.leaf
    BY <1>1, ValIs
  <2> QED
    BY <2>1, <2>2
<1>2. ASSUME NEW v \in Diagrams, ~ IsLeaf(v), v.tru \in S, v.fls \in S PROVE v \in S
  <2> DEFINE r == MapCond(o, g, v)
             t == MapCond(o, g, v.tru)
             f == MapCond(o, g, v.fls)
  <2>1. v.test \in Tests
    BY <1>2, DiagramParts
  <2>2. r = Cond(o, v.test, t, f)
    BY <1>0, <1>2, MapCondUnfolds
  <2>3. /\ Good(o, t) /\ Good(o, f)
        /\ \A k \in AllPackets : Val(t, k) = Val(g[Val(v.tru, k)], k) /\ Val(f, k) = Val(g[Val(v.fls, k)], k)
    BY <1>2
  <2> HIDE DEF r, t, f
  <2>4. /\ Good(o, r)
        /\ \A k \in AllPackets : Val(r, k) = IF Passes(k, v.test) THEN Val(t, k) ELSE Val(f, k)
    BY <2>1, <2>2, <2>3, CondIs
  <2>5. \A k \in AllPackets : Val(r, k) = Val(g[Val(v, k)], k)
    BY <1>2, <2>3, <2>4, ValIs
  <2> QED
    BY <2>4, <2>5 DEF r
<1>3. Diagrams \subseteq S
  <2> HIDE DEF S
  <2> QED
    BY <1>1, <1>2, DiagramsInduce
<1> QED
  BY <1>3

---------------------------------------------------------------------------
(* Modified packets. *)

\* A packet is a function of the fields.
LEMMA PacketIs ==
  ASSUME NEW k \in AllPackets
  PROVE  /\ k = [f \in Fields |-> k[f]]
         /\ \A f \in Fields : k[f] \in {hv[2] : hv \in Modifications} \cup {Absent}
  BY DEF AllPackets

\* A modified packet has the new values, and the others as before.
LEMMA ModifyIs ==
  ASSUME NEW s \in Seqs, NEW k \in AllPackets
  PROVE  /\ Modify(s, k) \in AllPackets
         /\ \A hv \in s : hv[1] \in Fields /\ Modify(s, k)[hv[1]] = hv[2]
         /\ \A f \in Fields : f \notin FieldsOf(s) => Modify(s, k)[f] = k[f]
<1> DEFINE v(f) == IF \E hv \in s : hv[1] = f THEN (CHOOSE hv \in s : hv[1] = f)[2] ELSE k[f]
<1>1. s \subseteq Modifications /\ \A hv \in s : hv[1] \in Fields
  BY SeqIs, ModificationsAreTests, TestParts
<1>2. ASSUME NEW f \in Fields
      PROVE  /\ f \in FieldsOf(s) => \E hv \in s : hv[1] = f /\ v(f) = hv[2]
             /\ f \notin FieldsOf(s) => v(f) = k[f]
  BY DEF FieldsOf
<1>3. Modify(s, k) = [f \in Fields |-> v(f)]
  BY DEF Modify
<1>4. \A f \in Fields : k[f] \in {hv[2] : hv \in Modifications} \cup {Absent}
  BY PacketIs
<1>5. \A hv \in s : v(hv[1]) = hv[2]
  <2> SUFFICES ASSUME NEW hv \in s PROVE v(hv[1]) = hv[2]
    OBVIOUS
  <2>1. hv[1] \in FieldsOf(s)
    BY DEF FieldsOf
  <2>2. PICK x \in s : x[1] = hv[1] /\ v(hv[1]) = x[2]
    BY <1>1, <1>2, <2>1
  <2>3. x = hv
    BY <2>2, SeqIs DEF Functional
  <2> QED
    BY <2>2, <2>3
<1> HIDE DEF v
<1>6. \A f \in Fields : v(f) \in {hv[2] : hv \in Modifications} \cup {Absent}
  <2> SUFFICES ASSUME NEW f \in Fields PROVE v(f) \in {hv[2] : hv \in Modifications} \cup {Absent}
    OBVIOUS
  <2>1. CASE f \in FieldsOf(s)
    BY <1>1, <1>2, <2>1
  <2>2. CASE f \notin FieldsOf(s)
    BY <1>2, <1>4, <2>2
  <2> QED
    BY <2>1, <2>2
<1>7. Modify(s, k) \in AllPackets
  BY <1>3, <1>6 DEF AllPackets
<1> QED
  BY <1>1, <1>2, <1>3, <1>5, <1>7

\* To modify nothing leaves the packet.
LEMMA ModifyNothing == ASSUME NEW k \in AllPackets PROVE Modify({}, k) = k
<1>1. {} \in Seqs /\ FieldsOf({}) = {}
  BY NothingIsSeq DEF FieldsOf
<1>2. Modify({}, k) \in AllPackets /\ \A f \in Fields : Modify({}, k)[f] = k[f]
  BY <1>1, ModifyIs
<1> QED
  BY <1>2, PacketIs

\* To merge is to modify by one and then by the other.
LEMMA ModifyMerge ==
  ASSUME NEW s \in Seqs, NEW t \in Seqs, NEW k \in AllPackets
  PROVE  Modify(Merge(s, t), k) = Modify(t, Modify(s, k))
<1> DEFINE m == Merge(s, t)
           a == Modify(m, k)
           j == Modify(s, k)
           b == Modify(t, j)
<1>1. m \in Seqs
  BY MergeIsSeq
<1>2. m = {hv \in s : hv[1] \notin FieldsOf(t)} \cup t
  BY DEF Merge
<1> HIDE DEF m
<1>3. /\ a \in AllPackets
      /\ \A hv \in m : hv[1] \in Fields /\ a[hv[1]] = hv[2]
      /\ \A f \in Fields : f \notin FieldsOf(m) => a[f] = k[f]
  BY <1>1, ModifyIs
<1>4. /\ j \in AllPackets
      /\ \A hv \in s : hv[1] \in Fields /\ j[hv[1]] = hv[2]
      /\ \A f \in Fields : f \notin FieldsOf(s) => j[f] = k[f]
  BY ModifyIs
<1> HIDE DEF a, j
<1>5. /\ b \in AllPackets
      /\ \A hv \in t : hv[1] \in Fields /\ b[hv[1]] = hv[2]
      /\ \A f \in Fields : f \notin FieldsOf(t) => b[f] = j[f]
  BY <1>4, ModifyIs
<1> HIDE DEF b
<1>6. ASSUME NEW f \in Fields PROVE a[f] = b[f]
  <2>1. CASE f \in FieldsOf(t)
    <3>1. PICK hv \in t : hv[1] = f
      BY <2>1 DEF FieldsOf
    <3>2. hv \in m
      BY <1>2
    <3> QED
      BY <1>3, <1>5, <3>1, <3>2
  <2>2. CASE f \notin FieldsOf(t) /\ f \in FieldsOf(s)
    <3>1. PICK hv \in s : hv[1] = f
      BY <2>2 DEF FieldsOf
    <3>2. hv \in m
      BY <1>2, <2>2, <3>1
    <3> QED
      BY <1>3, <1>4, <1>5, <2>2, <3>1, <3>2
  <2>3. CASE f \notin FieldsOf(t) /\ f \notin FieldsOf(s)
    <3>1. f \notin FieldsOf(m)
      BY <1>2, <2>3 DEF FieldsOf
    <3> QED
      BY <1>3, <1>4, <1>5, <2>3, <3>1
  <2> QED
    BY <2>1, <2>2, <2>3
<1>7. a = b
  <2>1. a = [f \in Fields |-> a[f]] /\ b = [f \in Fields |-> b[f]]
    BY <1>3, <1>5, PacketIs
  <2>2. [f \in Fields |-> a[f]] = [f \in Fields |-> b[f]]
    BY <1>6
  <2> QED
    BY <2>1, <2>2
<1> QED
  BY <1>7 DEF a, b, j, m

\* The packets that an action, and so a diagram, makes of a packet.
Results(par, k) == {Modify(s, k) : s \in par}
\* The packets that a diagram makes of packet k.
Out(u, k) == Results(Val(u, k), k)

\* An action makes packets of packets.
LEMMA ResultsArePackets ==
  ASSUME NEW par \in Actions, NEW k \in AllPackets
  PROVE  Results(par, k) \subseteq AllPackets
<1>1. \A s \in par : s \in Seqs
  BY DEF Actions
<1> QED
  BY <1>1, ModifyIs DEF Results

\* A diagram makes packets of packets.
LEMMA OutIsPackets ==
  ASSUME NEW u \in Diagrams, NEW k \in AllPackets
  PROVE  Out(u, k) \subseteq AllPackets
  BY ValIsAction, ResultsArePackets DEF Out

---------------------------------------------------------------------------
(* Sequential composition of diagrams. *)

\* What par followed by u does to k.
Followed(par, u, k) == UNION {{Merge(s, t) : t \in Val(u, Modify(s, k))} : s \in par}

\* The second diagram is applied to each packet that the first one makes.
LEMMA FollowedMakes ==
  ASSUME NEW par \in Actions, NEW u \in Diagrams, NEW k \in AllPackets
  PROVE  Results(Followed(par, u, k), k) = UNION {Out(u, j) : j \in Results(par, k)}
<1>1. ASSUME NEW s \in par
      PROVE  /\ s \in Seqs /\ Modify(s, k) \in AllPackets
             /\ \A t \in Val(u, Modify(s, k)) :
                  t \in Seqs /\ Modify(Merge(s, t), k) = Modify(t, Modify(s, k))
  <2>1. s \in Seqs
    BY DEF Actions
  <2>2. Modify(s, k) \in AllPackets
    BY <2>1, ModifyIs
  <2>3. \A t \in Val(u, Modify(s, k)) : t \in Seqs
    BY <2>2, ValIsAction DEF Actions
  <2> QED
    BY <2>1, <2>2, <2>3, ModifyMerge
<1>2. ASSUME NEW q \in Results(Followed(par, u, k), k)
      PROVE  q \in UNION {Out(u, j) : j \in Results(par, k)}
  <2>1. PICK s \in par : \E t \in Val(u, Modify(s, k)) : q = Modify(Merge(s, t), k)
    BY DEF Results, Followed
  <2>2. q \in Out(u, Modify(s, k))
    BY <1>1, <2>1 DEF Out, Results
  <2> QED
    BY <2>2 DEF Results
<1>3. ASSUME NEW j \in Results(par, k), NEW q \in Out(u, j)
      PROVE  q \in Results(Followed(par, u, k), k)
  <2>1. PICK s \in par : j = Modify(s, k)
    BY DEF Results
  <2>2. PICK t \in Val(u, j) : q = Modify(t, j)
    BY DEF Out, Results
  <2>3. Merge(s, t) \in Followed(par, u, k)
    BY <2>1, <2>2 DEF Followed
  <2> QED
    BY <1>1, <2>1, <2>2, <2>3 DEF Results
<1> QED
  BY <1>2, <1>3

\* The part of u for packets just modified.
LEMMA RestrictToModified ==
  ASSUME NEW o, IsOrder(o), NEW s \in Seqs, NEW u, Good(o, u)
  PROVE  /\ Good(o, RestrictTo(o, s, u))
         /\ \A k \in AllPackets : Val(RestrictTo(o, s, u), k) = Val(u, Modify(s, k))
<1>1. s \in HeaderSets
  BY SeqIs, ModificationsAreTests DEF HeaderSets, Headers
<1>2. u \in Diagrams
  BY DEF Good
<1>3. ASSUME NEW k \in AllPackets PROVE Val(RestrictTo(o, s, u), k) = Val(u, Modify(s, k))
  <2> DEFINE j == Modify(s, k)
  <2>1. /\ j \in AllPackets
        /\ \A hv \in s : hv[1] \in Fields /\ j[hv[1]] = hv[2]
        /\ \A f \in Fields : f \notin FieldsOf(s) => j[f] = k[f]
    BY ModifyIs
  <2> HIDE DEF j
  <2>2. ASSUME NEW w \in Tests PROVE Sees(s, k, j, w)
    <3>1. w[1] \in Fields
      BY TestParts
    <3>2. CASE \E hv \in s : hv[1] = w[1]
      <4>1. PICK hv \in s : hv[1] = w[1]
        BY <3>2
      <4>2. \A x \in s : x[1] = w[1] => x = hv
        BY <4>1, SeqIs DEF Functional
      <4>3. Passes(j, w) <=> SubsetEq(hv[2], w[2])
        BY <2>1, <4>1 DEF Passes
      <4> QED
        BY <4>1, <4>2, <4>3 DEF Sees
    <3>3. CASE ~ \E hv \in s : hv[1] = w[1]
      <4>1. j[w[1]] = k[w[1]]
        BY <2>1, <3>1, <3>3 DEF FieldsOf
      <4> QED
        BY <3>3, <4>1 DEF Sees, Passes
    <3> QED
      BY <3>2, <3>3
  <2>3. SeesBelow(o, s, k, j, u)
    BY <2>2 DEF SeesBelow, After
  <2> QED
    BY <1>1, <2>1, <2>3, RestrictVal DEF j
<1> QED
  BY <1>1, <1>3, RestrictGood

\* Actions are finite sets.
LEMMA ActionsAreFinite ==
  ASSUME NEW par \in Actions
  PROVE  /\ IsFiniteSet(par) /\ Cardinality(par) \in Nat
         /\ \A s \in par : par \ {s} \in Actions /\ Cardinality(par \ {s}) \in Nat
                           /\ Cardinality(par \ {s}) < Cardinality(par)
<1>1. IsFiniteSet(Modifications)
  BY ModificationsAreTests, SomeTestsAreFinite
<1>2. IsFiniteSet(SUBSET Modifications)
  BY <1>1, FS_SUBSET
<1>3. par \subseteq SUBSET Modifications
  BY DEF Actions, Seqs
<1>4. IsFiniteSet(par) /\ Cardinality(par) \in Nat
  BY <1>2, <1>3, FS_Subset, FS_CardinalityType
<1>5. ASSUME NEW s \in par PROVE Cardinality(par \ {s}) \in Nat /\ Cardinality(par \ {s}) < Cardinality(par)
  <2>1. IsFiniteSet(par \ {s}) /\ Cardinality(par \ {s}) = Cardinality(par) - 1
    BY <1>4, FS_RemoveElement
  <2>2. Cardinality(par \ {s}) \in Nat
    BY <2>1, FS_CardinalityType
  <2> QED
    BY <1>4, <2>1, <2>2
<1>6. \A s \in par : par \ {s} \in Actions
  BY DEF Actions
<1> QED
  BY <1>4, <1>5, <1>6

\* One set of modifications, followed by its part of u.
Step(o, s, u) == Prod(o, MkLeaf({s}), RestrictTo(o, s, u))

\* One modification, then a diagram.
LEMMA StepIs ==
  ASSUME NEW o, IsOrder(o), NEW s \in Seqs, NEW u, Good(o, u)
  PROVE  /\ Good(o, Step(o, s, u))
         /\ \A k \in AllPackets : Val(Step(o, s, u), k) = {Merge(s, t) : t \in Val(u, Modify(s, k))}
<1> DEFINE r == RestrictTo(o, s, u)
<1>1. Good(o, r) /\ \A k \in AllPackets : Val(r, k) = Val(u, Modify(s, k))
  BY RestrictToModified
<1>2. {s} \in Actions
  BY DEF Actions
<1>3. Good(o, MkLeaf({s})) /\ \A k \in AllPackets : Val(MkLeaf({s}), k) = {s}
  BY <1>2, GoodLeaves, LeafVal
<1> HIDE DEF r
<1>4. Combines(o, "prod", MkLeaf({s}), r, Step(o, s, u))
  BY <1>1, <1>3, ProdIs DEF Step, r
<1>5. ASSUME NEW k \in AllPackets
      PROVE  Val(Step(o, s, u), k) = {Merge(s, t) : t \in Val(u, Modify(s, k))}
  <2> DEFINE b == Val(u, Modify(s, k))
  <2>1. Val(Step(o, s, u), k) = Combine("prod", {s}, b)
    BY <1>1, <1>3, <1>4 DEF Combines
  <2> HIDE DEF b
  <2>2. Combine("prod", {s}, b) = {Merge(st[1], st[2]) : st \in {s} \X b}
    BY CombineIs
  <2>3. {Merge(st[1], st[2]) : st \in {s} \X b} = {Merge(s, t) : t \in b}
    <3>1. ASSUME NEW t \in b PROVE \E st \in {s} \X b : Merge(s, t) = Merge(st[1], st[2])
      <4>1. <<s, t>> \in {s} \X b
        OBVIOUS
      <4> QED
        BY <4>1
    <3>2. ASSUME NEW st \in {s} \X b PROVE \E t \in b : Merge(st[1], st[2]) = Merge(s, t)
      <4>1. st[1] = s /\ st[2] \in b
        OBVIOUS
      <4> QED
        BY <4>1
    <3> QED
      BY <3>1, <3>2
  <2> QED
    BY <2>1, <2>2, <2>3 DEF b
<1> QED
  BY <1>4, <1>5 DEF Combines

FollowBody(g, x) ==
  LET o == x[1]
      s == CHOOSE s \in x[2] : TRUE
  IN IF x[2] = {} THEN Drop
     ELSE Sum(o, Prod(o, MkLeaf({s}), RestrictTo(o, s, x[3])), g[<<o, x[2] \ {s}, x[3]>>])
FollowRank(x) == Cardinality(x[2])
FollowDomain == Ranks \X Actions \X Diagrams
Follows == INSTANCE Recursion
             WITH Domain <- FollowDomain, Rank <- FollowRank, Body <- FollowBody

\* The recursion over the modifications of a leaf is on their number.
LEMMA FollowDescends == Follows!Descends
<1>1. \A x \in FollowDomain : FollowRank(x) \in Nat
  <2> SUFFICES ASSUME NEW x \in FollowDomain PROVE FollowRank(x) \in Nat
    OBVIOUS
  <2>1. x[2] \in Actions
    BY DEF FollowDomain
  <2> QED
    BY <2>1, ActionsAreFinite DEF FollowRank
<1>2. ASSUME NEW x \in FollowDomain, NEW p, NEW q,
             \A y \in FollowDomain : FollowRank(y) < FollowRank(x) => p[y] = q[y]
      PROVE  FollowBody(p, x) = FollowBody(q, x)
  <2> DEFINE s == CHOOSE z \in x[2] : TRUE
             y == <<x[1], x[2] \ {s}, x[3]>>
  <2>1. CASE x[2] = {}
    BY <2>1 DEF FollowBody
  <2>2. CASE x[2] # {}
    <3>0. x[1] \in Ranks /\ x[2] \in Actions /\ x[3] \in Diagrams
      BY DEF FollowDomain
    <3>1. s \in x[2]
      BY <2>2
    <3> HIDE DEF s
    <3>2. x[2] \ {s} \in Actions /\ Cardinality(x[2] \ {s}) < Cardinality(x[2])
      BY <3>0, <3>1, ActionsAreFinite
    <3>3. y \in FollowDomain /\ FollowRank(y) < FollowRank(x)
      BY <3>0, <3>2 DEF FollowDomain, FollowRank
    <3>4. p[y] = q[y]
      <4> HIDE DEF y
      <4> QED
        BY <1>2, <3>3
    <3> QED
      BY <2>2, <3>4 DEF FollowBody, s
  <2> QED
    BY <2>1, <2>2
<1> QED
  BY <1>1, <1>2 DEF Follows!Descends

\* The fold over the modifications of a leaf, one at a time.
LEMMA FollowUnfolds ==
  ASSUME NEW o \in Ranks, NEW par \in Actions, NEW u \in Diagrams
  PROVE  /\ par = {} => Follow(o, par, u) = Drop
         /\ par # {} => \E s \in par : Follow(o, par, u) = Sum(o, Step(o, s, u), Follow(o, par \ {s}, u))
<1>1. follow = Follows!f
  BY DEF follow, Follows!f, FollowBody, FollowDomain
<1>2. <<o, par, u>> \in FollowDomain
  BY DEF FollowDomain
<1>3. \A x \in FollowDomain : Follows!f[x] = FollowBody(Follows!f, x)
  BY FollowDescends, Follows!UnfoldsAt
<1>4. follow[<<o, par, u>>] = FollowBody(follow, <<o, par, u>>)
  BY <1>1, <1>2, <1>3
<1> DEFINE s == CHOOSE z \in par : TRUE
<1>5. par # {} => s \in par
  OBVIOUS
<1>6. par # {} => Follow(o, par, u) = Sum(o, Step(o, s, u), Follow(o, par \ {s}, u))
  BY <1>4 DEF FollowBody, Follow, Step
<1>7. par = {} => Follow(o, par, u) = Drop
  BY <1>4 DEF FollowBody, Follow
<1> HIDE DEF s
<1> QED
  BY <1>5, <1>6, <1>7

\* A leaf followed by a diagram has the values that the modified packets find there.
LEMMA FollowIs ==
  ASSUME NEW o, IsOrder(o), NEW par \in Actions, NEW u, Good(o, u)
  PROVE  /\ Good(o, Follow(o, par, u))
         /\ \A k \in AllPackets : Val(Follow(o, par, u), k) = Followed(par, u, k)
<1> DEFINE P(a) == /\ Good(o, Follow(o, a, u))
                   /\ \A k \in AllPackets : Val(Follow(o, a, u), k) = Followed(a, u, k)
           S == {x \in FollowDomain : x[1] = o /\ x[3] = u => P(x[2])}
<1>0. o \in Ranks /\ u \in Diagrams
  BY DEF IsOrder, Ranks, Good
<1>1. ASSUME NEW x \in FollowDomain, \A y \in FollowDomain : FollowRank(y) < FollowRank(x) => y \in S
      PROVE  x \in S
  <2> SUFFICES ASSUME x[1] = o, x[3] = u PROVE P(x[2])
    OBVIOUS
  <2> DEFINE a == x[2]
  <2>1. a \in Actions /\ x = <<o, a, u>>
    BY DEF FollowDomain
  <2>2. CASE a = {}
    <3>1. Follow(o, a, u) = MkLeaf(Zero)
      BY <1>0, <2>1, <2>2, FollowUnfolds DEF Drop
    <3>2. Good(o, MkLeaf(Zero)) /\ \A k \in AllPackets : Val(MkLeaf(Zero), k) = {}
      BY GoodLeaves, LeafVal, NothingIsSeq DEF Zero
    <3>3. \A k \in AllPackets : Followed(a, u, k) = {}
      BY <2>2 DEF Followed
    <3> QED
      BY <3>1, <3>2, <3>3
  <2>3. CASE a # {}
    <3>1. PICK s \in a : Follow(o, a, u) = Sum(o, Step(o, s, u), Follow(o, a \ {s}, u))
      BY <1>0, <2>1, <2>3, FollowUnfolds
    <3> DEFINE b == a \ {s}
               y == <<o, b, u>>
    <3>2. s \in Seqs /\ b \in Actions /\ Cardinality(b) < Cardinality(a)
      BY <2>1, ActionsAreFinite DEF Actions
    <3>3. y \in FollowDomain /\ FollowRank(y) < FollowRank(x)
      BY <1>0, <2>1, <3>2 DEF FollowDomain, FollowRank
    <3>4. P(b)
      <4>1. y \in S
        <5> HIDE DEF y, S
        <5> QED
          BY <1>1, <3>3
      <4> QED
        BY <4>1
    <3>5. /\ Good(o, Step(o, s, u))
          /\ \A k \in AllPackets : Val(Step(o, s, u), k) = {Merge(s, t) : t \in Val(u, Modify(s, k))}
      BY <3>2, StepIs
    <3>6. Combines(o, "sum", Step(o, s, u), Follow(o, b, u), Follow(o, a, u))
      BY <3>1, <3>4, <3>5, SumIs
    <3>7. ASSUME NEW k \in AllPackets
          PROVE  {Merge(s, t) : t \in Val(u, Modify(s, k))} \cup Followed(b, u, k) = Followed(a, u, k)
      <4> DEFINE one(z) == {Merge(z, t) : t \in Val(u, Modify(z, k))}
      <4>1. Followed(a, u, k) = UNION {one(z) : z \in a} /\ Followed(b, u, k) = UNION {one(z) : z \in b}
        BY DEF Followed
      <4> HIDE DEF one
      <4>2. one(s) \cup UNION {one(z) : z \in b} = UNION {one(z) : z \in a}
        OBVIOUS
      <4> QED
        BY <4>1, <4>2 DEF one
    <3>8. ASSUME NEW k \in AllPackets PROVE Val(Follow(o, a, u), k) = Followed(a, u, k)
      <4>1. Val(Follow(o, a, u), k) = Val(Step(o, s, u), k) \cup Val(Follow(o, b, u), k)
        BY <3>6, CombineIs DEF Combines
      <4>2. Val(Follow(o, b, u), k) = Followed(b, u, k)
        BY <3>4
      <4>3. Val(Step(o, s, u), k) = {Merge(s, t) : t \in Val(u, Modify(s, k))}
        BY <3>5
      <4> HIDE DEF a, b
      <4> QED
        BY <3>7, <4>1, <4>2, <4>3
    <3> QED
      BY <3>6, <3>8 DEF Combines
  <2> QED
    BY <2>2, <2>3
<1>2. \A x \in FollowDomain : FollowRank(x) \in Nat
  BY FollowDescends DEF Follows!Descends
<1>3. FollowDomain \subseteq S
  <2> HIDE DEF S
  <2> QED
    BY <1>1, <1>2, Follows!RankInduces
<1>4. <<o, par, u>> \in FollowDomain
  BY <1>0 DEF FollowDomain
<1>5. P(par)
  BY <1>3, <1>4
<1> QED
  BY <1>5

\* seq does what its two arguments do in turn.
THEOREM SeqCompIs ==
  ASSUME NEW o, IsOrder(o), NEW t, Good(o, t), NEW u, Good(o, u)
  PROVE  /\ Good(o, SeqComp(o, t, u))
         /\ \A k \in AllPackets : Out(SeqComp(o, t, u), k) = UNION {Out(u, j) : j \in Out(t, k)}
<1>0. t \in Diagrams /\ u \in Diagrams
  BY DEF Good
<1>1. /\ Good(o, SeqComp(o, t, u))
      /\ \A k \in AllPackets : Val(SeqComp(o, t, u), k) = Followed(Val(t, k), u, k)
  <2>1. CASE IsLeaf(u)
    <3>1. Combines(o, "prod", t, u, SeqComp(o, t, u))
      BY <2>1, ProdIs DEF SeqComp
    <3>2. ASSUME NEW k \in AllPackets PROVE Val(SeqComp(o, t, u), k) = Followed(Val(t, k), u, k)
      <4> DEFINE a == Val(t, k)
                 b == u.leaf
      <4>1. /\ Val(u, k) = b
            /\ \A s \in a : Val(u, Modify(s, k)) = b
        <5>1. \A s \in a : Modify(s, k) \in AllPackets
          BY <1>0, ValIsAction, ModifyIs DEF Actions
        <5> HIDE DEF a
        <5> QED
          BY <1>0, <2>1, <5>1, ValIs
      <4>2. Val(SeqComp(o, t, u), k) = {Merge(st[1], st[2]) : st \in a \X b}
        BY <3>1, <4>1, CombineIs DEF Combines
      <4>3. Followed(a, u, k) = UNION {{Merge(s, r) : r \in b} : s \in a}
        BY <4>1 DEF Followed
      <4> HIDE DEF a, b
      <4>4. ASSUME NEW s \in a, NEW r \in b PROVE Merge(s, r) \in {Merge(st[1], st[2]) : st \in a \X b}
        <5>1. <<s, r>> \in a \X b
          OBVIOUS
        <5> QED
          BY <5>1
      <4>5. ASSUME NEW st \in a \X b PROVE Merge(st[1], st[2]) \in UNION {{Merge(s, r) : r \in b} : s \in a}
        <5>1. st[1] \in a /\ st[2] \in b
          OBVIOUS
        <5> QED
          BY <5>1
      <4>6. {Merge(st[1], st[2]) : st \in a \X b} = UNION {{Merge(s, r) : r \in b} : s \in a}
        <5> DEFINE pairs == {Merge(st[1], st[2]) : st \in a \X b}
                   one(s) == {Merge(s, r) : r \in b}
                   all == UNION {one(s) : s \in a}
        <5>1. \A s \in a : one(s) \subseteq pairs
          BY <4>4
        <5>2. pairs \subseteq all
          BY <4>5
        <5> HIDE DEF pairs, one
        <5>3. all \subseteq pairs
          BY <5>1
        <5> HIDE DEF all
        <5>4. pairs = all
          BY <5>2, <5>3
        <5> QED
          BY <5>4 DEF pairs, all, one
      <4> QED
        BY <4>2, <4>3, <4>6 DEF a
    <3> QED
      BY <3>1, <3>2 DEF Combines
  <2>2. CASE ~ IsLeaf(u)
    <3> DEFINE g == [par \in Actions |-> Follow(o, par, u)]
    <3>1. SeqComp(o, t, u) = MapCond(o, g, t)
      BY <2>2 DEF SeqComp
    <3>2. \A par \in Actions : /\ Good(o, g[par]) /\ g[par] \in Diagrams
                               /\ \A k \in AllPackets : Val(g[par], k) = Followed(par, u, k)
      <4>1. \A par \in Actions : g[par] = Follow(o, par, u)
        OBVIOUS
      <4> HIDE DEF g
      <4> QED
        BY <4>1, FollowIs DEF Good
    <3>3. g \in DiagramMaps
      <4>1. g = [par \in Actions |-> g[par]]
        OBVIOUS
      <4> HIDE DEF g
      <4> QED
        BY <3>2, <4>1 DEF DiagramMaps
    <3> HIDE DEF g
    <3>4. /\ Good(o, MapCond(o, g, t))
          /\ \A k \in AllPackets : Val(MapCond(o, g, t), k) = Val(g[Val(t, k)], k)
      BY <1>0, <3>2, <3>3, MapCondIs
    <3> QED
      BY <1>0, <3>1, <3>2, <3>4, ValIsAction
  <2> QED
    BY <2>1, <2>2
<1>2. ASSUME NEW k \in AllPackets
      PROVE  Out(SeqComp(o, t, u), k) = UNION {Out(u, j) : j \in Out(t, k)}
  <2>1. Val(t, k) \in Actions
    BY <1>0, ValIsAction
  <2>2. Results(Followed(Val(t, k), u, k), k) = UNION {Out(u, j) : j \in Results(Val(t, k), k)}
    BY <1>0, <2>1, FollowedMakes
  <2> QED
    BY <1>1, <2>2 DEF Out
<1> QED
  BY <1>1, <1>2

\* union does what either of its arguments does.
LEMMA SumMakes ==
  ASSUME NEW o, IsOrder(o), NEW t, Good(o, t), NEW u, Good(o, u)
  PROVE  /\ Good(o, Sum(o, t, u))
         /\ \A k \in AllPackets : Out(Sum(o, t, u), k) = Out(t, k) \cup Out(u, k)
<1>1. Good(o, Sum(o, t, u)) /\ \A k \in AllPackets : Val(Sum(o, t, u), k) = Val(t, k) \cup Val(u, k)
  BY SumIs, CombineIs DEF Combines
<1> QED
  BY <1>1 DEF Out, Results

---------------------------------------------------------------------------
(* Star. *)

\* There are finitely many packets.
LEMMA PacketsAreFinite == IsFiniteSet(AllPackets)
<1> DEFINE V == {hv[2] : hv \in Modifications}
           W == V \cup {Absent}
           g == [hv \in Modifications |-> hv[2]]
           h == [k \in AllPackets |-> {<<f, k[f]>> : f \in Fields}]
<1>1. IsFiniteSet(Modifications)
  BY ModificationsAreTests, SomeTestsAreFinite
<1>2. g \in Surjection(Modifications, V)
  BY DEF Surjection
<1>3. IsFiniteSet(V)
  BY <1>1, <1>2, FS_Surjection
<1>4. IsFiniteSet(W)
  BY <1>3, FS_AddElement
<1>5. AllPackets = [Fields -> W]
  BY DEF AllPackets
<1>6. IsFiniteSet(Fields)
  <2>1. IsFiniteSet({"Switch"})
    BY FS_Singleton
  <2>2. IsFiniteSet({"Switch"} \cup {"Location"})
    BY <2>1, FS_AddElement
  <2>3. IsFiniteSet(({"Switch"} \cup {"Location"}) \cup {"EthSrc"})
    BY <2>2, FS_AddElement
  <2>4. IsFiniteSet((({"Switch"} \cup {"Location"}) \cup {"EthSrc"}) \cup {"EthType"})
    BY <2>3, FS_AddElement
  <2>5. IsFiniteSet(((({"Switch"} \cup {"Location"}) \cup {"EthSrc"}) \cup {"EthType"}) \cup {"IP4Dst"})
    BY <2>4, FS_AddElement
  <2> DEFINE five == ((({"Switch"} \cup {"Location"}) \cup {"EthSrc"}) \cup {"EthType"}) \cup {"IP4Dst"}
  <2>6. IsFiniteSet((five \cup {"IPProto"}) \cup {"TCPDstPort"})
    <3> HIDE DEF five
    <3>1. IsFiniteSet(five)
      BY <2>5 DEF five
    <3>2. IsFiniteSet(five \cup {"IPProto"})
      BY <3>1, FS_AddElement
    <3> QED
      BY <3>2, FS_AddElement
  <2>7. (five \cup {"IPProto"}) \cup {"TCPDstPort"} = Fields
    BY DEF Fields
  <2> QED
    BY <2>6, <2>7
<1> HIDE DEF V, W
<1>7. IsFiniteSet(SUBSET (Fields \X W))
  BY <1>4, <1>6, FS_Product, FS_SUBSET
<1>8. h \in [AllPackets -> SUBSET (Fields \X W)]
  <2> SUFFICES ASSUME NEW k \in AllPackets PROVE {<<f, k[f]>> : f \in Fields} \in SUBSET (Fields \X W)
    OBVIOUS
  <2>1. \A f \in Fields : k[f] \in W
    BY <1>5
  <2> QED
    BY <2>1
<1>9. ASSUME NEW k \in AllPackets, NEW j \in AllPackets, h[k] = h[j] PROVE k = j
  <2>1. {<<f, k[f]>> : f \in Fields} = {<<f, j[f]>> : f \in Fields}
    BY <1>9
  <2>2. \A f \in Fields : k[f] = j[f]
    <3> SUFFICES ASSUME NEW f \in Fields PROVE k[f] = j[f]
      OBVIOUS
    <3>1. <<f, k[f]>> \in {<<e, j[e]>> : e \in Fields}
      BY <2>1
    <3>2. PICK e \in Fields : <<f, k[f]>> = <<e, j[e]>>
      BY <3>1
    <3> QED
      BY <3>2
  <2>3. k = [f \in Fields |-> k[f]] /\ j = [f \in Fields |-> j[f]]
    BY PacketIs
  <2>4. [f \in Fields |-> k[f]] = [f \in Fields |-> j[f]]
    BY <2>2
  <2> QED
    BY <2>3, <2>4
<1> HIDE DEF h
<1>10. h \in Injection(AllPackets, SUBSET (Fields \X W))
  BY <1>8, <1>9 DEF Injection, IsInjective
<1> QED
  BY <1>7, <1>10, FS_Injection

\* Sets of packets have cardinalities, that grow with the sets.
LEMMA SomePacketsAreFinite ==
  /\ Cardinality(AllPackets) \in Nat
  /\ \A B \in SUBSET AllPackets : Cardinality(B) \in Nat /\ Cardinality(B) <= Cardinality(AllPackets)
  /\ \A B \in SUBSET AllPackets : \A A \in SUBSET B : A # B => Cardinality(A) + 1 <= Cardinality(B)
<1>1. IsFiniteSet(AllPackets) /\ Cardinality(AllPackets) \in Nat
  BY PacketsAreFinite, FS_CardinalityType
<1>2. \A B \in SUBSET AllPackets : IsFiniteSet(B) /\ Cardinality(B) \in Nat /\ Cardinality(B) <= Cardinality(AllPackets)
  BY <1>1, FS_Subset, FS_CardinalityType
<1>3. ASSUME NEW B \in SUBSET AllPackets, NEW A \in SUBSET B, A # B
      PROVE  Cardinality(A) + 1 <= Cardinality(B)
  <2>1. IsFiniteSet(B) /\ Cardinality(B) \in Nat /\ Cardinality(A) \in Nat
    BY <1>2
  <2>2. Cardinality(A) <= Cardinality(B) /\ Cardinality(A) # Cardinality(B)
    BY <1>3, <2>1, FS_Subset
  <2> QED
    BY <2>1, <2>2
<1> QED
  BY <1>1, <1>2, <1>3

\* R is what any number of rounds of f reaches from the packets of P.
Closed(f, X) == \A j \in X : f[j] \subseteq X
\* R is what P leads to by any number of steps of f.
IsClosure(f, P, R) ==
  P \subseteq R /\ Closed(f, R) /\ \A X : P \subseteq X /\ Closed(f, X) => R \subseteq X

\* Functions that agree on a set that they do not leave reach the same.
LEMMA ClosuresAgree ==
  ASSUME NEW f, NEW g, NEW B, Closed(f, B), \A j \in B : f[j] = g[j],
         NEW P, P \subseteq B, NEW R, IsClosure(f, P, R), NEW Q, IsClosure(g, P, Q)
  PROVE  R = Q
<1>1. Closed(g, B)
  BY DEF Closed
<1>2. R \subseteq B /\ Q \subseteq B
  BY <1>1 DEF IsClosure
<1>3. Closed(g, R) /\ Closed(f, Q)
  BY <1>2 DEF IsClosure, Closed
<1>4. R \subseteq Q
  BY <1>3 DEF IsClosure
<1>5. Q \subseteq R
  BY <1>3 DEF IsClosure
<1> QED
  BY <1>4, <1>5

---------------------------------------------------------------------------
(* Rounds, in the semantics. *)

\* One round.
More(f, s) == s \cup UNION {f[k] : k \in s}
RoundBody(g, x) == IF x[3] = 0 THEN x[2] ELSE More(x[1], g[<<x[1], x[2], x[3] - 1>>])
RoundRank(x) == x[3]
Transitions == UNION {[B -> SUBSET B] : B \in SUBSET AllPackets}
RoundDomain == Transitions \X (SUBSET AllPackets) \X Nat
RoundsOf == INSTANCE Recursion
              WITH Domain <- RoundDomain, Rank <- RoundRank, Body <- RoundBody

\* Rounds has a function of its own for each f and each set of packets.
RoundFor(f, pkts) ==
  CHOOSE round : round = [n \in Nat |-> IF n = 0 THEN pkts ELSE More(f, round[n - 1])]

\* The rounds are counted.
LEMMA RoundDescends == RoundsOf!Descends
<1>1. \A x \in RoundDomain : RoundRank(x) \in Nat
  BY DEF RoundDomain, RoundRank
<1>2. ASSUME NEW x \in RoundDomain, NEW p, NEW q,
             \A y \in RoundDomain : RoundRank(y) < RoundRank(x) => p[y] = q[y]
      PROVE  RoundBody(p, x) = RoundBody(q, x)
  <2>1. CASE x[3] = 0
    BY <2>1 DEF RoundBody
  <2>2. CASE x[3] # 0
    <3> DEFINE y == <<x[1], x[2], x[3] - 1>>
    <3>1. x[1] \in Transitions /\ x[2] \in SUBSET AllPackets /\ x[3] \in Nat
      BY DEF RoundDomain
    <3>2. x[3] - 1 \in Nat /\ x[3] - 1 < x[3]
      BY <2>2, <3>1
    <3>3. y \in RoundDomain /\ RoundRank(y) < RoundRank(x)
      BY <3>1, <3>2 DEF RoundDomain, RoundRank
    <3>4. p[y] = q[y]
      <4> HIDE DEF y
      <4> QED
        BY <1>2, <3>3
    <3> QED
      BY <2>2, <3>4 DEF RoundBody
  <2> QED
    BY <2>1, <2>2
<1> QED
  BY <1>1, <1>2 DEF RoundsOf!Descends

\* The rounds satisfy their recursive definition.
LEMMA RoundForIs ==
  ASSUME NEW f \in Transitions, NEW pkts \in SUBSET AllPackets
  PROVE  /\ RoundFor(f, pkts)[0] = pkts
         /\ \A n \in Nat : RoundFor(f, pkts)[n + 1] = More(f, RoundFor(f, pkts)[n])
         /\ Rounds(f, pkts) = RoundFor(f, pkts)[CHOOSE n \in 0..Cardinality(AllPackets) :
                                RoundFor(f, pkts)[n + 1] = RoundFor(f, pkts)[n]]
<1>1. \A x \in RoundDomain : RoundsOf!f[x] = RoundBody(RoundsOf!f, x)
  BY RoundDescends, RoundsOf!UnfoldsAt
<1> DEFINE F == [n \in Nat |-> RoundsOf!f[<<f, pkts, n>>]]
           body(r, n) == IF n = 0 THEN pkts ELSE More(f, r[n - 1])
<1>2. ASSUME NEW n \in Nat PROVE F[n] = body(F, n)
  <2>1. F[n] = RoundBody(RoundsOf!f, <<f, pkts, n>>)
    BY <1>1 DEF RoundDomain
  <2>2. n # 0 => F[n - 1] = RoundsOf!f[<<f, pkts, n - 1>>]
    OBVIOUS
  <2> HIDE DEF F
  <2> QED
    BY <2>1, <2>2 DEF RoundBody
<1>3. F = [n \in Nat |-> body(F, n)]
  <2>1. F = [n \in Nat |-> F[n]]
    OBVIOUS
  <2> HIDE DEF F, body
  <2> QED
    BY <1>2, <2>1
<1> DEFINE G == RoundFor(f, pkts)
<1>4. G = [n \in Nat |-> body(G, n)]
  <2> HIDE DEF F
  <2> QED
    BY <1>3 DEF RoundFor
<1>5. Rounds(f, pkts) = G[CHOOSE n \in 0..Cardinality(AllPackets) : G[n + 1] = G[n]]
  BY DEF Rounds, RoundFor, More, PacketCount
<1> HIDE DEF G
<1>6. \A n \in Nat : G[n] = body(G, n)
  <2> HIDE DEF body
  <2> QED
    BY <1>4
<1>7. G[0] = pkts
  BY <1>6
<1>8. ASSUME NEW n \in Nat PROVE G[n + 1] = More(f, G[n])
  <2>1. n + 1 \in Nat /\ n + 1 # 0 /\ (n + 1) - 1 = n
    OBVIOUS
  <2> QED
    BY <1>6, <2>1
<1> QED
  BY <1>5, <1>7, <1>8 DEF G

\* The rounds reach the closure, within as many rounds as there are packets.
LEMMA RoundsAre ==
  ASSUME NEW B \in SUBSET AllPackets, NEW f \in [B -> SUBSET B], NEW pkts \in SUBSET B
  PROVE  IsClosure(f, pkts, Rounds(f, pkts)) /\ Rounds(f, pkts) \subseteq B
<1> DEFINE G == RoundFor(f, pkts)
           N == Cardinality(AllPackets)
           stops(n) == G[n + 1] = G[n]
<1>0. f \in Transitions /\ pkts \in SUBSET AllPackets /\ \A j \in B : f[j] \subseteq B
  BY DEF Transitions
<1>1. /\ G[0] = pkts
      /\ \A n \in Nat : G[n + 1] = More(f, G[n])
      /\ Rounds(f, pkts) = G[CHOOSE n \in 0..N : stops(n)]
  BY <1>0, RoundForIs
<1>2. N \in Nat
  BY SomePacketsAreFinite
<1> HIDE DEF G, N
<1> DEFINE In(n) == /\ pkts \subseteq G[n] /\ G[n] \subseteq B
                    /\ \A X : pkts \subseteq X /\ Closed(f, X) => G[n] \subseteq X
           S == {n \in Nat : In(n)}
           T == {n \in Nat : (\A m \in 0..n : ~ stops(m)) => Cardinality(G[n]) >= n}
<1>3. Nat \subseteq S
  <2>1. 0 \in S
    BY <1>1
  <2>2. ASSUME NEW n \in Nat, n \in S PROVE n + 1 \in S
    <3>1. G[n + 1] = More(f, G[n]) /\ n + 1 \in Nat
      BY <1>1
    <3>2. In(n)
      BY <2>2
    <3>3. pkts \subseteq G[n + 1] /\ G[n + 1] \subseteq B
      BY <1>0, <3>1, <3>2 DEF More
    <3>4. ASSUME NEW X, pkts \subseteq X, Closed(f, X) PROVE G[n + 1] \subseteq X
      <4>1. G[n] \subseteq X
        BY <3>2, <3>4
      <4> QED
        BY <3>1, <3>4, <4>1 DEF More, Closed
    <3> QED
      BY <3>1, <3>3, <3>4
  <2> HIDE DEF S
  <2> QED
    BY <2>1, <2>2, RoundsOf!NatInduces
<1>4. \A n \in Nat : G[n] \in SUBSET AllPackets /\ Cardinality(G[n]) \in Nat /\ Cardinality(G[n]) <= N
  <2>1. \A n \in Nat : G[n] \in SUBSET AllPackets
    BY <1>3
  <2> QED
    BY <2>1, SomePacketsAreFinite DEF N
<1>5. Nat \subseteq T
  <2>1. 0 \in T
    BY <1>4
  <2>2. ASSUME NEW n \in Nat, n \in T PROVE n + 1 \in T
    <3> SUFFICES ASSUME \A m \in 0..(n + 1) : ~ stops(m)
                 PROVE  Cardinality(G[n + 1]) >= n + 1
      OBVIOUS
    <3>1. n \in 0..(n + 1) /\ \A m \in 0..n : m \in 0..(n + 1)
      OBVIOUS
    <3>2. Cardinality(G[n]) >= n /\ G[n + 1] # G[n]
      BY <2>2, <3>1
    <3>3. G[n] \in SUBSET G[n + 1] /\ n + 1 \in Nat
      BY <1>1 DEF More
    <3>4. G[n + 1] \in SUBSET AllPackets
      BY <1>4, <3>3
    <3>5. Cardinality(G[n]) + 1 <= Cardinality(G[n + 1])
      BY <3>2, <3>3, <3>4, SomePacketsAreFinite
    <3>6. Cardinality(G[n]) \in Nat /\ Cardinality(G[n + 1]) \in Nat
      BY <1>4, <3>3
    <3> QED
      BY <3>2, <3>5, <3>6
  <2> HIDE DEF T
  <2> QED
    BY <2>1, <2>2, RoundsOf!NatInduces
<1>6. \E n \in 0..N : stops(n)
  <2> SUFFICES ASSUME \A n \in 0..N : ~ stops(n) PROVE FALSE
    OBVIOUS
  <2>1. N \in T
    BY <1>2, <1>5
  <2>2. Cardinality(G[N]) >= N
    BY <2>1
  <2>3. G[N] \in SUBSET G[N + 1] /\ G[N + 1] # G[N] /\ N \in Nat /\ N + 1 \in Nat
    BY <1>1, <1>2 DEF More
  <2>4. G[N + 1] \in SUBSET AllPackets
    BY <1>4, <2>3
  <2>5. Cardinality(G[N]) + 1 <= Cardinality(G[N + 1])
    BY <2>3, <2>4, SomePacketsAreFinite
  <2>6. Cardinality(G[N + 1]) <= N /\ Cardinality(G[N]) \in Nat /\ Cardinality(G[N + 1]) \in Nat
    BY <1>4, <2>3
  <2> QED
    BY <2>2, <2>3, <2>5, <2>6
<1> DEFINE c == CHOOSE n \in 0..N : stops(n)
<1>7. c \in 0..N /\ stops(c)
  <2> HIDE DEF stops
  <2> QED
    BY <1>6
<1>8. c \in Nat
  <2> HIDE DEF c
  <2> QED
    BY <1>2, <1>7
<1>9. Rounds(f, pkts) = G[c]
  BY <1>1
<1> HIDE DEF c
<1>10. More(f, G[c]) = G[c]
  BY <1>1, <1>7, <1>8
<1>11. Closed(f, G[c])
  BY <1>10 DEF More, Closed
<1>12. In(c)
  BY <1>3, <1>8
<1> QED
  BY <1>9, <1>11, <1>12 DEF IsClosure

---------------------------------------------------------------------------
(* star'. *)

\* The loop of star', before it and in each turn.
Start == [sum |-> Id, power |-> Id, done |-> FALSE]
Again(o, t, r) == IF r.done THEN r ELSE AddPower(o, r, SeqComp(o, r.power, t))
StarBody(g, x) == IF x[3] = 0 THEN Start ELSE Again(x[1], x[2], g[<<x[1], x[2], x[3] - 1>>])
StarRank(x) == x[3]
StarDomain == Ranks \X Diagrams \X Nat
StarLoops == INSTANCE Recursion
               WITH Domain <- StarDomain, Rank <- StarRank, Body <- StarBody

\* StarComp has a function of its own for each order and each diagram.
StarFor(o, t) ==
  CHOOSE loop : loop = [n \in Nat |-> IF n = 0 THEN Start ELSE Again(o, t, loop[n - 1])]

\* The turns of the loop of star' are counted.
LEMMA StarDescends == StarLoops!Descends
<1>1. \A x \in StarDomain : StarRank(x) \in Nat
  BY DEF StarDomain, StarRank
<1>2. ASSUME NEW x \in StarDomain, NEW p, NEW q,
             \A y \in StarDomain : StarRank(y) < StarRank(x) => p[y] = q[y]
      PROVE  StarBody(p, x) = StarBody(q, x)
  <2>1. CASE x[3] = 0
    BY <2>1 DEF StarBody
  <2>2. CASE x[3] # 0
    <3> DEFINE y == <<x[1], x[2], x[3] - 1>>
    <3>1. x[1] \in Ranks /\ x[2] \in Diagrams /\ x[3] \in Nat
      BY DEF StarDomain
    <3>2. x[3] - 1 \in Nat /\ x[3] - 1 < x[3]
      BY <2>2, <3>1
    <3>3. y \in StarDomain /\ StarRank(y) < StarRank(x)
      BY <3>1, <3>2 DEF StarDomain, StarRank
    <3>4. p[y] = q[y]
      <4> HIDE DEF y
      <4> QED
        BY <1>2, <3>3
    <3> QED
      BY <2>2, <3>4 DEF StarBody
  <2> QED
    BY <2>1, <2>2
<1> QED
  BY <1>1, <1>2 DEF StarLoops!Descends

\* The loop of star' satisfies its recursive definition.
LEMMA StarForIs ==
  ASSUME NEW o \in Ranks, NEW t \in Diagrams
  PROVE  /\ StarFor(o, t)[0] = Start
         /\ \A n \in Nat : StarFor(o, t)[n + 1] = Again(o, t, StarFor(o, t)[n])
         /\ StarComp(o, t) = StarFor(o, t)[CHOOSE n \in 0..Cardinality(AllPackets) :
                               StarFor(o, t)[n].done \/ n = Cardinality(AllPackets)].sum
<1>1. \A x \in StarDomain : StarLoops!f[x] = StarBody(StarLoops!f, x)
  BY StarDescends, StarLoops!UnfoldsAt
<1> DEFINE F == [n \in Nat |-> StarLoops!f[<<o, t, n>>]]
           body(r, n) == IF n = 0 THEN Start ELSE Again(o, t, r[n - 1])
<1>2. ASSUME NEW n \in Nat PROVE F[n] = body(F, n)
  <2>1. F[n] = StarBody(StarLoops!f, <<o, t, n>>)
    BY <1>1 DEF StarDomain
  <2>2. n # 0 => F[n - 1] = StarLoops!f[<<o, t, n - 1>>]
    OBVIOUS
  <2> HIDE DEF F
  <2> QED
    BY <2>1, <2>2 DEF StarBody
<1>3. F = [n \in Nat |-> body(F, n)]
  <2>1. F = [n \in Nat |-> F[n]]
    OBVIOUS
  <2> HIDE DEF F, body
  <2> QED
    BY <1>2, <2>1
<1> DEFINE G == StarFor(o, t)
<1>4. G = [n \in Nat |-> body(G, n)]
  <2> HIDE DEF F
  <2> QED
    BY <1>3 DEF StarFor
<1>5. StarComp(o, t) = G[CHOOSE n \in 0..Cardinality(AllPackets) :
                           G[n].done \/ n = Cardinality(AllPackets)].sum
  BY DEF StarComp, StarFor, Again, Start, PacketCount
<1> HIDE DEF G
<1>6. \A n \in Nat : G[n] = body(G, n)
  <2> HIDE DEF body
  <2> QED
    BY <1>4
<1>7. G[0] = Start
  BY <1>6
<1>8. ASSUME NEW n \in Nat PROVE G[n + 1] = Again(o, t, G[n])
  <2>1. n + 1 \in Nat /\ n + 1 # 0 /\ (n + 1) - 1 = n
    OBVIOUS
  <2> QED
    BY <1>6, <2>1
<1> QED
  BY <1>5, <1>7, <1>8 DEF G

\* The diagram of id makes of each packet itself.
LEMMA IdIs ==
  ASSUME NEW o, IsOrder(o)
  PROVE  Good(o, Id) /\ \A k \in AllPackets : Out(Id, k) = {k}
<1>1. Good(o, Id) /\ \A k \in AllPackets : Val(Id, k) = One
  BY GoodLeaves, LeafVal, NothingIsSeq DEF Id
<1> QED
  BY <1>1, ModifyNothing DEF Out, Results, One

\* The diagram of drop makes nothing.
LEMMA DropIs ==
  ASSUME NEW o, IsOrder(o)
  PROVE  Good(o, Drop) /\ \A k \in AllPackets : Out(Drop, k) = {}
<1>1. Good(o, Drop) /\ \A k \in AllPackets : Val(Drop, k) = Zero
  BY GoodLeaves, LeafVal, NothingIsSeq DEF Drop
<1> QED
  BY <1>1 DEF Out, Results, Zero

\* What u does, as a function on packets.
Effect(u) == [k \in AllPackets |-> Out(u, k)]

\* What the n-th round has found of the packets that k leads to: S is the sum's, A
\* the power's.  All but those of A have been followed up.
Progress(h, n, done, k, S, A) ==
  /\ k \in S /\ A \subseteq S
  /\ \A X : k \in X /\ Closed(h, X) => S \subseteq X
  /\ \A j \in S : h[j] \subseteq S \cup UNION {h[i] : i \in A}
  /\ done => Closed(h, S)
  /\ Closed(h, S) \/ Cardinality(S) >= n + 1

\* A turn of the loop adds a packet, or it is done.
LEMMA Progresses ==
  ASSUME NEW h, NEW n \in Nat, NEW k, NEW S, NEW A, Progress(h, n, FALSE, k, S, A),
         NEW B, B = UNION {h[i] : i \in A}, NEW Q, Q = S \cup B, Q \subseteq AllPackets,
         NEW done \in BOOLEAN, done => Q = S
  PROVE  Progress(h, n + 1, done, k, Q, B)
<1>1. /\ k \in S /\ A \subseteq S
      /\ \A X : k \in X /\ Closed(h, X) => S \subseteq X
      /\ \A j \in S : h[j] \subseteq Q
      /\ Closed(h, S) \/ Cardinality(S) >= n + 1
  BY DEF Progress
<1>2. ASSUME NEW X, k \in X, Closed(h, X) PROVE Q \subseteq X
  <2>1. S \subseteq X
    BY <1>1, <1>2
  <2> QED
    BY <1>1, <1>2, <2>1 DEF Closed
<1>3. ASSUME NEW j \in Q PROVE h[j] \subseteq Q \cup UNION {h[i] : i \in B}
  <2>1. CASE j \in S
    BY <1>1, <2>1
  <2>2. CASE j \in B
    BY <2>2
  <2> QED
    BY <2>1, <2>2
<1>4. Q = S => Closed(h, Q)
  BY <1>1 DEF Closed
<1>5. Closed(h, S) => Q = S
  BY <1>1 DEF Closed
<1>6. Closed(h, Q) \/ Cardinality(Q) >= (n + 1) + 1
  <2> SUFFICES ASSUME Q # S PROVE Cardinality(Q) >= (n + 1) + 1
    BY <1>4
  <2>1. Cardinality(S) >= n + 1
    BY <1>1, <1>5
  <2>2. Q \in SUBSET AllPackets /\ S \in SUBSET Q
    OBVIOUS
  <2>3. Cardinality(S) + 1 <= Cardinality(Q)
    BY <2>2, SomePacketsAreFinite
  <2>4. Cardinality(S) \in Nat /\ Cardinality(Q) \in Nat
    BY <2>2, SomePacketsAreFinite
  <2> QED
    BY <2>1, <2>3, <2>4
<1> QED
  BY <1>1, <1>2, <1>3, <1>4, <1>6 DEF Progress

\* star makes of a packet what any number of rounds of t reaches from it.
THEOREM StarIs ==
  ASSUME NEW o, IsOrder(o), NEW t, Good(o, t)
  PROVE  /\ Good(o, StarComp(o, t))
         /\ \A k \in AllPackets : IsClosure(Effect(t), {k}, Out(StarComp(o, t), k))
<1> DEFINE G == StarFor(o, t)
           N == Cardinality(AllPackets)
           h == Effect(t)
           stops(n) == G[n].done \/ n = N
<1>0. o \in Ranks /\ t \in Diagrams
  BY DEF IsOrder, Ranks, Good
<1>1. /\ G[0] = Start
      /\ \A n \in Nat : G[n + 1] = Again(o, t, G[n])
      /\ StarComp(o, t) = G[CHOOSE n \in 0..N : stops(n)].sum
  BY <1>0, StarForIs
<1>2. N \in Nat /\ \A B \in SUBSET AllPackets : Cardinality(B) \in Nat /\ Cardinality(B) <= N
  BY SomePacketsAreFinite
<1>3. \A k \in AllPackets : h[k] = Out(t, k) /\ h[k] \subseteq AllPackets
  BY <1>0, OutIsPackets DEF Effect
<1> HIDE DEF G, N, h
<1> DEFINE In(n) == /\ Good(o, G[n].sum) /\ Good(o, G[n].power) /\ G[n].done \in BOOLEAN
                    /\ \A k \in AllPackets :
                         \E m \in Nat : /\ ~ G[n].done => m = n
                                        /\ Progress(h, m, G[n].done, k, Out(G[n].sum, k), Out(G[n].power, k))
           S == {n \in Nat : In(n)}
<1>4. 0 \in S
  <2>1. G[0].sum = Id /\ G[0].power = Id /\ G[0].done = FALSE
    BY <1>1 DEF Start
  <2>2. Good(o, Id) /\ \A k \in AllPackets : Out(Id, k) = {k}
    BY IdIs
  <2>3. ASSUME NEW k \in AllPackets PROVE Progress(h, 0, FALSE, k, {k}, {k})
    <3>1. Cardinality({k}) = 1
      BY FS_Singleton
    <3> QED
      BY <3>1 DEF Progress
  <2>4. ASSUME NEW k \in AllPackets
        PROVE  \E m \in Nat : /\ ~ G[0].done => m = 0
                              /\ Progress(h, m, G[0].done, k, Out(G[0].sum, k), Out(G[0].power, k))
    <3>1. Out(G[0].sum, k) = {k} /\ Out(G[0].power, k) = {k}
      BY <2>1, <2>2
    <3>2. Progress(h, 0, G[0].done, k, Out(G[0].sum, k), Out(G[0].power, k))
      BY <2>1, <2>3, <3>1
    <3> QED
      BY <3>2
  <2>5. Good(o, G[0].sum) /\ Good(o, G[0].power) /\ G[0].done \in BOOLEAN
    BY <2>1, <2>2
  <2>6. In(0)
    BY <2>4, <2>5
  <2> QED
    BY <2>6
<1>5. ASSUME NEW n \in Nat, n \in S PROVE n + 1 \in S
  <2>0. n + 1 \in Nat /\ In(n)
    BY <1>5
  <2>1. CASE G[n].done
    <3>1. G[n + 1] = G[n]
      BY <1>1, <2>1 DEF Again
    <3> QED
      BY <2>0, <2>1, <3>1
  <2>2. CASE ~ G[n].done
    <3> DEFINE sum == G[n].sum
               power == G[n].power
               power1 == SeqComp(o, power, t)
               sum1 == Sum(o, sum, power1)
    <3>1. G[n + 1] = [sum |-> sum1, power |-> power1, done |-> sum1 = sum]
      BY <1>1, <2>2 DEF Again, AddPower
    <3>2. /\ Good(o, sum) /\ Good(o, power)
          /\ \A k \in AllPackets : Progress(h, n, FALSE, k, Out(sum, k), Out(power, k))
      BY <2>0, <2>2
    <3>3. /\ Good(o, power1)
          /\ \A k \in AllPackets : Out(power1, k) = UNION {Out(t, j) : j \in Out(power, k)}
      <4> HIDE DEF power
      <4> QED
        BY <3>2, SeqCompIs
    <3>4. /\ Good(o, sum1)
          /\ \A k \in AllPackets : Out(sum1, k) = Out(sum, k) \cup Out(power1, k)
      <4> HIDE DEF sum, power1
      <4> QED
        BY <3>2, <3>3, SumMakes
    <3>5. ASSUME NEW k \in AllPackets
          PROVE  Progress(h, n + 1, sum1 = sum, k, Out(sum1, k), Out(power1, k))
      <4>1. Out(power, k) \subseteq AllPackets /\ Out(sum1, k) \subseteq AllPackets
        BY <3>2, <3>4, OutIsPackets DEF Good
      <4>2. UNION {Out(t, j) : j \in Out(power, k)} = UNION {h[j] : j \in Out(power, k)}
        BY <1>3, <4>1
      <4>3. Out(power1, k) = UNION {h[j] : j \in Out(power, k)}
        BY <3>3, <4>2
      <4>4. Out(sum1, k) = Out(sum, k) \cup Out(power1, k)
        BY <3>4
      <4>5. Progress(h, n, FALSE, k, Out(sum, k), Out(power, k))
        BY <3>2
      <4>6. sum1 = sum => Out(sum1, k) = Out(sum, k)
        OBVIOUS
      <4>7. (sum1 = sum) \in BOOLEAN
        OBVIOUS
      <4> HIDE DEF sum, power, sum1, power1
      <4> QED
        BY <4>1, <4>3, <4>4, <4>5, <4>6, <4>7, Progresses
    <3>6. G[n + 1].sum = sum1 /\ G[n + 1].power = power1 /\ G[n + 1].done = (sum1 = sum)
      BY <3>1
    <3> HIDE DEF sum, power, sum1, power1
    <3>7. In(n + 1)
      BY <2>0, <3>3, <3>4, <3>5, <3>6
    <3> QED
      BY <2>0, <3>7
  <2> QED
    BY <2>1, <2>2
<1>6. Nat \subseteq S
  <2> HIDE DEF S
  <2> QED
    BY <1>4, <1>5, StarLoops!NatInduces
<1> DEFINE c == CHOOSE n \in 0..N : stops(n)
<1>7. c \in 0..N /\ stops(c)
  <2>1. N \in 0..N /\ stops(N)
    BY <1>2
  <2> HIDE DEF stops
  <2> QED
    BY <2>1
<1>8. StarComp(o, t) = G[c].sum
  BY <1>1
<1> HIDE DEF c
<1>9. c \in Nat /\ In(c)
  BY <1>2, <1>6, <1>7
<1>10. ASSUME NEW k \in AllPackets PROVE IsClosure(h, {k}, Out(G[c].sum, k))
  <2> DEFINE R == Out(G[c].sum, k)
             A == Out(G[c].power, k)
  <2>1. PICK m \in Nat : (~ G[c].done => m = c) /\ Progress(h, m, G[c].done, k, R, A)
    BY <1>9
  <2>2. R \in SUBSET AllPackets
    BY <1>9, OutIsPackets DEF Good
  <2> HIDE DEF R, A
  <2>3. Closed(h, R)
    <3>1. CASE G[c].done
      BY <2>1, <3>1 DEF Progress
    <3>2. CASE ~ G[c].done
      <4>1. m = N
        BY <1>7, <2>1, <3>2
      <4>2. Cardinality(R) \in Nat /\ Cardinality(R) <= N
        BY <1>2, <2>2
      <4>3. ~ (Cardinality(R) >= m + 1)
        BY <1>2, <4>1, <4>2
      <4> QED
        BY <2>1, <4>3 DEF Progress
    <3> QED
      BY <3>1, <3>2
  <2>4. k \in R /\ \A X : k \in X /\ Closed(h, X) => R \subseteq X
    BY <2>1 DEF Progress
  <2> QED
    BY <2>3, <2>4 DEF IsClosure, R
<1> QED
  BY <1>8, <1>9, <1>10 DEF h

---------------------------------------------------------------------------
(* Predicates: parts and meaning. *)

PredLevelBody(g, n) == IF n = 0 THEN AtomicPreds ELSE PredsOver(g[n - 1])
PredLevels == INSTANCE Recursion WITH Domain <- Nat, Rank <- Identity, Body <- PredLevelBody

\* The levels of predicates satisfy their recursive definition.
LEMMA PredLevelsUnfold ==
  /\ predsUpTo[0] = AtomicPreds
  /\ \A n \in Nat : predsUpTo[n + 1] = PredsOver(predsUpTo[n])
<1>1. PredLevels!Descends
  <2> SUFFICES ASSUME NEW n \in Nat, NEW g, NEW h,
                      \A m \in Nat : Identity(m) < Identity(n) => g[m] = h[m]
               PROVE  PredLevelBody(g, n) = PredLevelBody(h, n)
    BY DEF PredLevels!Descends, Identity
  <2>1. n # 0 => n - 1 \in Nat /\ n - 1 < n
    OBVIOUS
  <2> QED
    BY <2>1 DEF PredLevelBody, Identity
<1>2. predsUpTo = PredLevels!f
  BY DEF predsUpTo, PredLevels!f, PredLevelBody
<1>3. \A n \in Nat : predsUpTo[n] = PredLevelBody(predsUpTo, n)
  BY <1>1, <1>2, PredLevels!UnfoldsAt
<1>4. predsUpTo[0] = AtomicPreds
  BY <1>3 DEF PredLevelBody
<1>5. ASSUME NEW n \in Nat PROVE predsUpTo[n + 1] = PredsOver(predsUpTo[n])
  <2>1. n + 1 \in Nat /\ n + 1 # 0 /\ (n + 1) - 1 = n
    OBVIOUS
  <2> QED
    BY <1>3, <2>1 DEF PredLevelBody
<1> QED
  BY <1>4, <1>5

\* The predicates of the next level, by their operators.
LEMMA PredsOverAre ==
  ASSUME NEW S, NEW q \in PredsOver(S)
  PROVE  \/ q \in AtomicPreds /\ q.op \in {"true", "false"}
         \/ q \in AtomicPreds /\ q.op = "test" /\ q.hv \in Tests
         \/ q.op \in {"and", "or"} /\ q.left \in S /\ q.right \in S
         \/ q.op = "neg" /\ q.arg \in S
<1>1. CASE q \in [op : {"true", "false"}]
  BY <1>1 DEF AtomicPreds
<1>2. CASE q \in [op : {"test"}, hv : Tests]
  BY <1>2 DEF AtomicPreds
<1>3. CASE q \in [op : {"and", "or"}, left : S, right : S]
  BY <1>3
<1>4. CASE q \in [op : {"neg"}, arg : S]
  BY <1>4
<1> QED
  BY <1>1, <1>2, <1>3, <1>4 DEF PredsOver, AtomicPreds

\* More predicates have more predicates over them.
LEMMA PredsOverGrow == ASSUME NEW S, NEW T, S \subseteq T PROVE PredsOver(S) \subseteq PredsOver(T)
<1>1. [op : {"and", "or"}, left : S, right : S] \subseteq [op : {"and", "or"}, left : T, right : T]
  OBVIOUS
<1>2. [op : {"neg"}, arg : S] \subseteq [op : {"neg"}, arg : T]
  OBVIOUS
<1> QED
  BY <1>1, <1>2 DEF PredsOver

\* The levels of predicates ascend.
LEMMA PredLevelsGrow ==
  ASSUME NEW m \in Nat, NEW n \in Nat, m <= n
  PROVE  predsUpTo[m] \subseteq predsUpTo[n]
<1> DEFINE S == {i \in Nat : predsUpTo[i] \subseteq predsUpTo[i + 1]}
<1>1. 0 \in S
  <2>1. predsUpTo[0 + 1] = PredsOver(predsUpTo[0])
    BY PredLevelsUnfold
  <2>2. AtomicPreds \subseteq PredsOver(predsUpTo[0])
    BY DEF PredsOver
  <2> QED
    BY <2>1, <2>2, PredLevelsUnfold
<1>2. ASSUME NEW i \in Nat, i \in S PROVE i + 1 \in S
  <2>1. predsUpTo[i] \subseteq predsUpTo[i + 1] /\ i + 1 \in Nat
    BY <1>2
  <2>2. /\ predsUpTo[i + 1] = PredsOver(predsUpTo[i])
        /\ predsUpTo[(i + 1) + 1] = PredsOver(predsUpTo[i + 1])
    BY <2>1, PredLevelsUnfold
  <2>3. PredsOver(predsUpTo[i]) \subseteq PredsOver(predsUpTo[i + 1])
    BY <2>1, PredsOverGrow
  <2> QED
    BY <2>1, <2>2, <2>3
<1>3. Nat \subseteq S
  <2> HIDE DEF S
  <2> QED
    BY <1>1, <1>2, Powers!NatInduces
<1> QED
  BY <1>3, LevelsAscend

\* The depth of a predicate, a rank for recursion.
PredDepth(q) == FirstLevel(predsUpTo, q)

\* The parts of a predicate, which are predicates of smaller depth.
LEMMA PredParts ==
  ASSUME NEW q \in Preds
  PROVE  /\ PredDepth(q) \in Nat
         /\ \/ q.op \in {"true", "false"}
            \/ q.op = "test" /\ q.hv \in Tests
            \/ /\ q.op \in {"and", "or"} /\ q.left \in Preds /\ q.right \in Preds
               /\ PredDepth(q.left) < PredDepth(q) /\ PredDepth(q.right) < PredDepth(q)
            \/ q.op = "neg" /\ q.arg \in Preds /\ PredDepth(q.arg) < PredDepth(q)
<1> DEFINE d == PredDepth(q)
<1>1. MaxDepth \in Nat /\ Preds = predsUpTo[MaxDepth]
  BY WidthIsPositive DEF Preds
<1>2. d \in Nat /\ q \in predsUpTo[d] /\ d <= MaxDepth
  BY <1>1, FirstLevelIs DEF PredDepth
<1> HIDE DEF d
<1>3. CASE d = 0
  <2>1. q \in PredsOver({})
    BY <1>2, <1>3, PredLevelsUnfold DEF PredsOver
  <2> QED
    BY <1>2, <2>1, PredsOverAre DEF d
<1>4. CASE d # 0
  <2> DEFINE e == d - 1
  <2>1. e \in Nat /\ e + 1 = d /\ e <= MaxDepth /\ e < d
    BY <1>1, <1>2, <1>4
  <2> HIDE DEF e
  <2>2. q \in PredsOver(predsUpTo[e])
    BY <1>2, <2>1, PredLevelsUnfold
  <2>3. ASSUME NEW p \in predsUpTo[e] PROVE p \in Preds /\ PredDepth(p) < d
    <3>1. p \in Preds
      BY <1>1, <2>1, PredLevelsGrow
    <3>2. PredDepth(p) \in Nat /\ PredDepth(p) <= e
      BY <2>1, FirstLevelIs DEF PredDepth
    <3> QED
      BY <1>2, <2>1, <3>1, <3>2
  <2> QED
    BY <1>2, <2>2, <2>3, PredsOverAre DEF d
<1> QED
  BY <1>3, <1>4

EvalPredBody(g, x) ==
  CASE x[2].op = "true"  -> TRUE
    [] x[2].op = "false" -> FALSE
    [] x[2].op = "test"  -> Holds(x[2].hv, x[1])
    [] x[2].op = "and"   -> g[<<x[1], x[2].left>>] /\ g[<<x[1], x[2].right>>]
    [] x[2].op = "or"    -> g[<<x[1], x[2].left>>] \/ g[<<x[1], x[2].right>>]
    [] OTHER    -> ~ g[<<x[1], x[2].arg>>]
EvalPredRank(x) == PredDepth(x[2])
EvalPreds == INSTANCE Recursion
               WITH Domain <- AllPackets \X Preds, Rank <- EvalPredRank, Body <- EvalPredBody

\* EvalPred has a function of its own for each packet.
EvalPredFor(pkt) ==
  CHOOSE eval : eval = [q \in Preds |->
    CASE q.op = "true"  -> TRUE
      [] q.op = "false" -> FALSE
      [] q.op = "test"  -> Holds(q.hv, pkt)
      [] q.op = "and"   -> eval[q.left] /\ eval[q.right]
      [] q.op = "or"    -> eval[q.left] \/ eval[q.right]
      [] OTHER    -> ~ eval[q.arg]]

\* The recursion of eval_pred is on the depth of the predicate.
LEMMA EvalPredDescends == EvalPreds!Descends
<1> DEFINE D == AllPackets \X Preds
<1>1. \A x \in D : EvalPredRank(x) \in Nat
  BY PredParts DEF EvalPredRank
<1>2. ASSUME NEW x \in D, NEW p, NEW r,
             \A y \in D : EvalPredRank(y) < EvalPredRank(x) => p[y] = r[y]
      PROVE  EvalPredBody(p, x) = EvalPredBody(r, x)
  <2> DEFINE k == x[1]
             q == x[2]
  <2>1. k \in AllPackets /\ q \in Preds
    OBVIOUS
  <2>2. ASSUME NEW a \in Preds, PredDepth(a) < PredDepth(q) PROVE p[<<k, a>>] = r[<<k, a>>]
    <3>1. <<k, a>> \in D /\ EvalPredRank(<<k, a>>) < EvalPredRank(x)
      BY <2>1, <2>2 DEF EvalPredRank
    <3> QED
      BY <1>2, <3>1
  <2> HIDE DEF D
  <2>3. CASE q.op \in {"true", "false"}
    BY <2>3 DEF EvalPredBody
  <2>4. CASE q.op = "test"
    BY <2>4 DEF EvalPredBody
  <2>5. CASE q.op \in {"and", "or"}
    <3>1. p[<<k, q.left>>] = r[<<k, q.left>>] /\ p[<<k, q.right>>] = r[<<k, q.right>>]
      BY <2>1, <2>2, <2>5, PredParts
    <3> QED
      BY <2>5, <3>1 DEF EvalPredBody
  <2>6. CASE q.op = "neg"
    <3>1. p[<<k, q.arg>>] = r[<<k, q.arg>>]
      BY <2>1, <2>2, <2>6, PredParts
    <3> QED
      BY <2>6, <3>1 DEF EvalPredBody
  <2> QED
    BY <2>1, <2>3, <2>4, <2>5, <2>6, PredParts
<1> QED
  BY <1>1, <1>2 DEF EvalPreds!Descends

\* eval_pred satisfies its recursive definition.
LEMMA EvalPredIs ==
  ASSUME NEW k \in AllPackets, NEW q \in Preds
  PROVE  /\ q.op = "true" => EvalPred(k, q) = TRUE
         /\ q.op = "false" => EvalPred(k, q) = FALSE
         /\ q.op = "test" => EvalPred(k, q) = Holds(q.hv, k)
         /\ q.op = "and" => EvalPred(k, q) = (EvalPred(k, q.left) /\ EvalPred(k, q.right))
         /\ q.op = "or" => EvalPred(k, q) = (EvalPred(k, q.left) \/ EvalPred(k, q.right))
         /\ q.op = "neg" => EvalPred(k, q) = (~ EvalPred(k, q.arg))
<1>1. \A x \in AllPackets \X Preds : EvalPreds!f[x] = EvalPredBody(EvalPreds!f, x)
  BY EvalPredDescends, EvalPreds!UnfoldsAt
<1> DEFINE F == [a \in Preds |-> EvalPreds!f[<<k, a>>]]
           body(g, a) ==
             CASE a.op = "true"  -> TRUE
               [] a.op = "false" -> FALSE
               [] a.op = "test"  -> Holds(a.hv, k)
               [] a.op = "and"   -> g[a.left] /\ g[a.right]
               [] a.op = "or"    -> g[a.left] \/ g[a.right]
               [] OTHER    -> ~ g[a.arg]
<1>2. ASSUME NEW a \in Preds PROVE F[a] = body(F, a)
  <2>1. F[a] = EvalPredBody(EvalPreds!f, <<k, a>>)
    BY <1>1
  <2>2. /\ a.op \in {"and", "or"} => /\ F[a.left] = EvalPreds!f[<<k, a.left>>]
                                     /\ F[a.right] = EvalPreds!f[<<k, a.right>>]
        /\ a.op = "neg" => F[a.arg] = EvalPreds!f[<<k, a.arg>>]
    BY PredParts
  <2> HIDE DEF F
  <2>3. CASE a.op \in {"true", "false"}
    BY <2>1, <2>3 DEF EvalPredBody
  <2>4. CASE a.op = "test"
    BY <2>1, <2>4 DEF EvalPredBody
  <2>5. CASE a.op = "and"
    BY <2>1, <2>2, <2>5 DEF EvalPredBody
  <2>6. CASE a.op = "or"
    BY <2>1, <2>2, <2>6 DEF EvalPredBody
  <2>7. CASE a.op = "neg"
    BY <2>1, <2>2, <2>7 DEF EvalPredBody
  <2> HIDE DEF body
  <2> QED
    BY <2>3, <2>4, <2>5, <2>6, <2>7, PredParts
<1>3. F = [a \in Preds |-> body(F, a)]
  <2>1. F = [a \in Preds |-> F[a]]
    OBVIOUS
  <2> HIDE DEF F, body
  <2> QED
    BY <1>2, <2>1
<1> DEFINE G == EvalPredFor(k)
<1>4. G = [a \in Preds |-> body(G, a)]
  <2> HIDE DEF F
  <2> QED
    BY <1>3 DEF EvalPredFor
<1>5. \A a : EvalPred(k, a) = G[a]
  <2> HIDE DEF F, body
  <2> QED
    BY Zenon DEF EvalPred, EvalPredFor
<1> HIDE DEF G
<1>6. G[q] = body(G, q)
  <2> HIDE DEF body
  <2> QED
    BY <1>4
<1>7. /\ q.op = "true" => body(G, q) = TRUE
      /\ q.op = "false" => body(G, q) = FALSE
      /\ q.op = "test" => body(G, q) = Holds(q.hv, k)
      /\ q.op = "and" => body(G, q) = (G[q.left] /\ G[q.right])
      /\ q.op = "or" => body(G, q) = (G[q.left] \/ G[q.right])
      /\ q.op = "neg" => body(G, q) = (~ G[q.arg])
  OBVIOUS
<1> HIDE DEF body
<1> QED
  BY <1>5, <1>6, <1>7

---------------------------------------------------------------------------
(* Predicates as diagrams. *)

\* No test is for a prefix of length 0: the two ways in which the source reads the
\* first bit of an address (see Shifted) agree on all others.
SomeBits == \A hv \in Tests : hv[2].kind = "mask" => hv[2].len # 0

\* The remainder of a number that is less than one modulus away.
LEMMA Remainder ==
  ASSUME NEW x \in Int, NEW m \in Nat \ {0}
  PROVE  /\ 0 <= x /\ x < m => x % m = x
         /\ - m <= x /\ x < 0 => x % m = x + m
<1>1. x % m \in 0..(m - 1) /\ x % m \in Int
  OBVIOUS
<1>2. x = m * (x \div m) + (x % m)
  OBVIOUS
<1> DEFINE q == x \div m
           r == x % m
<1>3. q \in Int /\ m * q <= x /\ x < m * q + m
  BY Division
<1>4. x = m * q + r
  BY <1>2
<1> HIDE DEF q, r
<1>5. ASSUME 0 <= x, x < m PROVE r = x
  <2>1. q <= 0
    <3>1. m * q < m * 0 + m
      BY <1>3, <1>5
    <3> QED
      BY <1>3, <3>1, Cancel
  <2>2. 0 <= q
    <3>1. m * 0 < m * q + m
      BY <1>3, <1>5
    <3> QED
      BY <1>3, <3>1, Cancel
  <2>3. q = 0
    BY <1>3, <2>1, <2>2
  <2> QED
    BY <1>1, <1>4, <2>3 DEF r
<1>6. ASSUME - m <= x, x < 0 PROVE r = x + m
  <2>1. q <= -1
    <3>1. m * q < m * (-1) + m
      BY <1>3, <1>6
    <3> QED
      BY <1>3, <3>1, Cancel
  <2>2. -1 <= q
    <3>1. m * (-1) < m * q + m
      BY <1>3, <1>6
    <3> QED
      BY <1>3, <3>1, Cancel
  <2>3. q = -1
    BY <1>3, <2>1, <2>2
  <2> QED
    BY <1>1, <1>4, <2>3 DEF r
<1> QED
  BY <1>5, <1>6 DEF r

\* The first m bits of an address, with its sign and without.
LEMMA PrefixIs ==
  ASSUME NEW v, IsMask(v), NEW m \in 1..Width
  PROVE  /\ pow2[m - 1] \in Nat /\ Shifted(v, m) \in Int
         /\ - pow2[m - 1] <= Shifted(v, m) /\ Shifted(v, m) < pow2[m - 1]
         /\ Prefix(v, m) = IF Shifted(v, m) >= 0 THEN Shifted(v, m) ELSE Shifted(v, m) + 2 * pow2[m - 1]
<1> DEFINE d == pow2[Width - m]
           h == pow2[m - 1]
           M == pow2[Width]
           x == v.bits
           q == Shifted(v, m)
           y == x % M
           r == Prefix(v, m)
<1>0. /\ Width \in Nat /\ m \in Nat /\ m - 1 \in Nat /\ Width - m \in Nat /\ Width - 1 \in Nat
      /\ (Width - m) + (m - 1) = Width - 1 /\ (Width - 1) + 1 = Width
  BY WidthIsPositive
<1>1. d \in Nat \ {0} /\ h \in Nat \ {0} /\ M \in Nat \ {0}
  BY <1>0, PowersArePositive
<1>2. pow2[Width - 1] = d * h
  <2>1. pow2[(Width - m) + (m - 1)] = pow2[Width - m] * pow2[m - 1]
    BY <1>0, PowersAdd
  <2> QED
    BY <1>0, <2>1
<1>3. M = 2 * pow2[Width - 1]
  BY <1>0, PowersOfTwo
<1>4. x \in Int /\ - pow2[Width - 1] <= x /\ x < pow2[Width - 1]
  BY MaskFields
<1>5. q = x \div d /\ r = y \div d
  BY DEF Shifted, Prefix
<1> HIDE DEF d, h, M, x, q, r
<1>6. - (d * h) <= x /\ x < d * h /\ M = 2 * (d * h) /\ d * h \in Nat
  BY <1>1, <1>2, <1>3, <1>4
<1>7. q \in Int /\ d * q <= x /\ x < d * q + d
  BY <1>1, <1>4, <1>5, Division
<1>8. q <= h - 1
  <2>1. d * (h - 1) + d = d * h /\ h - 1 \in Int
    BY <1>1
  <2>2. d * q \in Int /\ d * (h - 1) \in Int
    BY <1>1, <1>7
  <2>3. d * q < d * (h - 1) + d
    BY <1>4, <1>6, <1>7, <2>1, <2>2
  <2> QED
    BY <1>1, <1>7, <2>1, <2>3, Cancel
<1>9. - h <= q
  <2>1. d * (- h) = - (d * h) /\ - h \in Int
    BY <1>1
  <2>2. d * q \in Int /\ d * (- h) \in Int
    BY <1>1, <1>7
  <2>3. d * (- h) < d * q + d
    BY <1>1, <1>4, <1>6, <1>7, <2>1, <2>2
  <2> QED
    BY <1>1, <1>7, <2>1, <2>3, Cancel
<1>10. y = IF x >= 0 THEN x ELSE x + M
  <2>1. - M <= x /\ x < M
    BY <1>4, <1>6
  <2> QED
    BY <1>1, <1>4, <2>1, Remainder
<1>11. CASE x >= 0
  <2>1. r = q
    BY <1>5, <1>10, <1>11
  <2>2. q >= 0
    <3>1. d * 0 = 0 /\ d * q \in Int
      BY <1>1, <1>7
    <3>2. d * 0 < d * q + d
      BY <1>1, <1>4, <1>7, <1>11, <3>1
    <3> QED
      BY <1>1, <1>7, <3>2, Cancel
  <2> QED
    BY <1>1, <1>7, <1>8, <1>9, <2>1, <2>2 DEF h, q, r
<1>12. CASE x < 0
  <2> DEFINE c == 2 * h
  <2>1. y \in Int /\ y = x + d * c /\ c \in Int
    BY <1>1, <1>4, <1>6, <1>10, <1>12
  <2> HIDE DEF y, c
  <2>2. r \in Int /\ d * r <= y /\ y < d * r + d
    BY <1>1, <1>5, <2>1, Division
  <2>3. d * (q + c) = d * q + d * c /\ q + c \in Int /\ d * c \in Int /\ d * q \in Int /\ d * r \in Int
    BY <1>1, <1>7, <2>1, <2>2
  <2>4. r <= q + c
    <3>1. d * r < d * (q + c) + d
      BY <1>1, <1>4, <1>7, <2>1, <2>2, <2>3
    <3> QED
      BY <1>1, <2>2, <2>3, <3>1, Cancel
  <2>5. q + c <= r
    <3>1. d * (q + c) < d * r + d
      BY <1>1, <1>4, <1>7, <2>1, <2>2, <2>3
    <3> QED
      BY <1>1, <2>2, <2>3, <3>1, Cancel
  <2>6. q < 0
    <3>1. d * (-1) + d = 0 /\ d * q \in Int
      BY <1>1, <1>7
    <3>2. d * q < d * (-1) + d
      BY <1>1, <1>4, <1>7, <1>12, <3>1
    <3>3. q <= -1
      BY <1>1, <1>7, <3>2, Cancel
    <3> QED
      BY <1>7, <3>3
  <2>7. r = q + 2 * h
    BY <1>1, <1>7, <2>2, <2>3, <2>4, <2>5 DEF c
  <2> QED
    BY <1>1, <1>7, <1>8, <1>9, <2>6, <2>7 DEF h, q, r
<1> QED
  BY <1>4, <1>11, <1>12

\* Masks agree on their first m bits when what is left after a shift agrees.
LEMMA SamePrefix ==
  ASSUME NEW a, IsMask(a), NEW b, IsMask(b), NEW m \in 1..Width
  PROVE  Prefix(a, m) = Prefix(b, m) <=> Shifted(a, m) = Shifted(b, m)
<1> DEFINE h == pow2[m - 1]
           p == Shifted(a, m)
           q == Shifted(b, m)
<1>1. /\ h \in Nat /\ p \in Int /\ - h <= p /\ p < h
      /\ Prefix(a, m) = IF p >= 0 THEN p ELSE p + 2 * h
  BY PrefixIs
<1>2. q \in Int /\ - h <= q /\ q < h /\ Prefix(b, m) = IF q >= 0 THEN q ELSE q + 2 * h
  BY PrefixIs
<1> HIDE DEF h, p, q
<1>3. Prefix(a, m) = Prefix(b, m) <=> p = q
  BY <1>1, <1>2
<1> QED
  BY <1>3 DEF p, q

\* A header that eval_pred accepts is one that the diagram's test accepts.
LEMMA HoldsIs ==
  ASSUME SomeBits, NEW hv \in Tests, NEW k \in AllPackets
  PROVE  Holds(hv, k) <=> Passes(k, hv)
<1> DEFINE a == k[hv[1]]
           b == hv[2]
<1>1. IsValue(b) /\ (a = Absent \/ IsValue(a)) /\ (b.kind = "mask" => b.len # 0)
  BY TestParts, PacketValues DEF SomeBits
<1>2. (Holds(hv, k) <=> LessEq(a, b)) /\ (Passes(k, hv) <=> SubsetEq(a, b))
  BY DEF Holds, Passes
<1> HIDE DEF a, b
<1>3. CASE IsMask(a) /\ IsMask(b)
  <2>1. /\ a.kind = "mask" /\ b.kind = "mask" /\ b.len \in 1..Width
    BY <1>1, <1>3, MaskFields
  <2>2. Prefix(a, b.len) = Prefix(b, b.len) <=> Shifted(a, b.len) = Shifted(b, b.len)
    BY <1>3, <2>1, SamePrefix
  <2> QED
    BY <1>2, <2>1, <2>2 DEF LessEq, SubsetEq
<1>4. CASE ~ (IsMask(a) /\ IsMask(b))
  <2>1. ~ (a.kind = "mask" /\ b.kind = "mask")
    BY <1>1, <1>4, PipeFields, AbsentFields DEF IsValue
  <2> QED
    BY <1>2, <2>1 DEF LessEq, SubsetEq
<1> QED
  BY <1>3, <1>4

OfPredBody(g, x) ==
  CASE x[2].op = "true"  -> Id
    [] x[2].op = "false" -> Drop
    [] x[2].op = "test"  -> Atom(x[2].hv, One, Zero)
    [] x[2].op = "and"   -> Prod(x[1], g[<<x[1], x[2].left>>], g[<<x[1], x[2].right>>])
    [] x[2].op = "or"    -> Sum(x[1], g[<<x[1], x[2].left>>], g[<<x[1], x[2].right>>])
    [] OTHER    -> MapR(Negation, g[<<x[1], x[2].arg>>])
OfPredRank(x) == PredDepth(x[2])
OfPreds == INSTANCE Recursion
             WITH Domain <- Ranks \X Preds, Rank <- OfPredRank, Body <- OfPredBody

\* OfPred has a function of its own for each order.
OfPredFor(o) ==
  CHOOSE of : of = [q \in Preds |->
    CASE q.op = "true"  -> Id
      [] q.op = "false" -> Drop
      [] q.op = "test"  -> Atom(q.hv, One, Zero)
      [] q.op = "and"   -> Prod(o, of[q.left], of[q.right])
      [] q.op = "or"    -> Sum(o, of[q.left], of[q.right])
      [] OTHER    -> MapR(Negation, of[q.arg])]

\* The recursion of of_pred is on the depth of the predicate.
LEMMA OfPredDescends == OfPreds!Descends
<1> DEFINE D == Ranks \X Preds
<1>1. \A x \in D : OfPredRank(x) \in Nat
  BY PredParts DEF OfPredRank
<1>2. ASSUME NEW x \in D, NEW p, NEW r,
             \A y \in D : OfPredRank(y) < OfPredRank(x) => p[y] = r[y]
      PROVE  OfPredBody(p, x) = OfPredBody(r, x)
  <2> DEFINE o == x[1]
             q == x[2]
  <2>1. o \in Ranks /\ q \in Preds
    OBVIOUS
  <2>2. ASSUME NEW a \in Preds, PredDepth(a) < PredDepth(q) PROVE p[<<o, a>>] = r[<<o, a>>]
    <3>1. <<o, a>> \in D /\ OfPredRank(<<o, a>>) < OfPredRank(x)
      BY <2>1, <2>2 DEF OfPredRank
    <3> QED
      BY <1>2, <3>1
  <2> HIDE DEF D
  <2>3. CASE q.op \in {"true", "false"}
    BY <2>3 DEF OfPredBody
  <2>4. CASE q.op = "test"
    BY <2>4 DEF OfPredBody
  <2>5. CASE q.op \in {"and", "or"}
    <3>1. p[<<o, q.left>>] = r[<<o, q.left>>] /\ p[<<o, q.right>>] = r[<<o, q.right>>]
      BY <2>1, <2>2, <2>5, PredParts
    <3> QED
      BY <2>5, <3>1 DEF OfPredBody
  <2>6. CASE q.op = "neg"
    <3>1. p[<<o, q.arg>>] = r[<<o, q.arg>>]
      BY <2>1, <2>2, <2>6, PredParts
    <3> QED
      BY <2>6, <3>1 DEF OfPredBody
  <2> QED
    BY <2>1, <2>3, <2>4, <2>5, <2>6, PredParts
<1> QED
  BY <1>1, <1>2 DEF OfPreds!Descends

\* of_pred satisfies its recursive definition.
LEMMA OfPredUnfolds ==
  ASSUME NEW o \in Ranks, NEW q \in Preds
  PROVE  /\ q.op = "true" => OfPred(o, q) = Id
         /\ q.op = "false" => OfPred(o, q) = Drop
         /\ q.op = "test" => OfPred(o, q) = Atom(q.hv, One, Zero)
         /\ q.op = "and" => OfPred(o, q) = Prod(o, OfPred(o, q.left), OfPred(o, q.right))
         /\ q.op = "or" => OfPred(o, q) = Sum(o, OfPred(o, q.left), OfPred(o, q.right))
         /\ q.op = "neg" => OfPred(o, q) = MapR(Negation, OfPred(o, q.arg))
<1>1. \A x \in Ranks \X Preds : OfPreds!f[x] = OfPredBody(OfPreds!f, x)
  BY OfPredDescends, OfPreds!UnfoldsAt
<1> DEFINE F == [a \in Preds |-> OfPreds!f[<<o, a>>]]
           body(g, a) ==
             CASE a.op = "true"  -> Id
               [] a.op = "false" -> Drop
               [] a.op = "test"  -> Atom(a.hv, One, Zero)
               [] a.op = "and"   -> Prod(o, g[a.left], g[a.right])
               [] a.op = "or"    -> Sum(o, g[a.left], g[a.right])
               [] OTHER    -> MapR(Negation, g[a.arg])
<1>2. ASSUME NEW a \in Preds PROVE F[a] = body(F, a)
  <2>1. F[a] = OfPredBody(OfPreds!f, <<o, a>>)
    BY <1>1
  <2>2. /\ a.op \in {"and", "or"} => /\ F[a.left] = OfPreds!f[<<o, a.left>>]
                                     /\ F[a.right] = OfPreds!f[<<o, a.right>>]
        /\ a.op = "neg" => F[a.arg] = OfPreds!f[<<o, a.arg>>]
    BY PredParts
  <2> HIDE DEF F
  <2>3. CASE a.op \in {"true", "false"}
    BY <2>1, <2>3 DEF OfPredBody
  <2>4. CASE a.op = "test"
    BY <2>1, <2>4 DEF OfPredBody
  <2>5. CASE a.op = "and"
    BY <2>1, <2>2, <2>5 DEF OfPredBody
  <2>6. CASE a.op = "or"
    BY <2>1, <2>2, <2>6 DEF OfPredBody
  <2>7. CASE a.op = "neg"
    BY <2>1, <2>2, <2>7 DEF OfPredBody
  <2> HIDE DEF body
  <2> QED
    BY <2>3, <2>4, <2>5, <2>6, <2>7, PredParts
<1>3. F = [a \in Preds |-> body(F, a)]
  <2>1. F = [a \in Preds |-> F[a]]
    OBVIOUS
  <2> HIDE DEF F, body
  <2> QED
    BY <1>2, <2>1
<1> DEFINE G == OfPredFor(o)
<1>4. G = [a \in Preds |-> body(G, a)]
  <2> HIDE DEF F
  <2> QED
    BY <1>3 DEF OfPredFor
<1>5. \A a : OfPred(o, a) = G[a]
  <2> HIDE DEF F, body
  <2> QED
    BY Zenon DEF OfPred, OfPredFor
<1> HIDE DEF G
<1>6. G[q] = body(G, q)
  <2> HIDE DEF body
  <2> QED
    BY <1>4
<1>7. /\ q.op = "true" => body(G, q) = Id
      /\ q.op = "false" => body(G, q) = Drop
      /\ q.op = "test" => body(G, q) = Atom(q.hv, One, Zero)
      /\ q.op = "and" => body(G, q) = Prod(o, G[q.left], G[q.right])
      /\ q.op = "or" => body(G, q) = Sum(o, G[q.left], G[q.right])
      /\ q.op = "neg" => body(G, q) = MapR(Negation, G[q.arg])
  OBVIOUS
<1> HIDE DEF body
<1> QED
  BY <1>5, <1>6, <1>7

\* The action of a filter.
OneOrZero(b) == IF b THEN One ELSE Zero

\* The diagram of a predicate is one on the packets that the predicate holds of.
LEMMA OfPredIs ==
  ASSUME NEW o, IsOrder(o), NEW pr \in Preds
  PROVE  /\ Good(o, OfPred(o, pr))
         /\ SomeBits => \A k \in AllPackets : Val(OfPred(o, pr), k) = OneOrZero(EvalPred(k, pr))
<1> DEFINE P(q) == /\ Good(o, OfPred(o, q))
                   /\ SomeBits => \A k \in AllPackets : Val(OfPred(o, q), k) = OneOrZero(EvalPred(k, q))
           D == Ranks \X Preds
           S == {x \in D : x[1] = o => P(x[2])}
<1>0. o \in Ranks
  BY DEF IsOrder, Ranks
<1>1. ASSUME NEW x \in D, \A y \in D : OfPredRank(y) < OfPredRank(x) => y \in S
      PROVE  x \in S
  <2> SUFFICES ASSUME x[1] = o PROVE P(x[2])
    OBVIOUS
  <2> DEFINE q == x[2]
             r == OfPred(o, q)
  <2>1. q \in Preds /\ x = <<o, q>>
    OBVIOUS
  <2>2. ASSUME NEW a \in Preds, PredDepth(a) < PredDepth(q) PROVE P(a)
    <3> DEFINE y == <<o, a>>
    <3>1. y \in D /\ OfPredRank(y) < OfPredRank(x)
      BY <1>0, <2>1, <2>2 DEF OfPredRank
    <3>2. y \in S
      <4> HIDE DEF y, S, D
      <4> QED
        BY <1>1, <3>1
    <3> QED
      BY <3>2
  <2> HIDE DEF D, S
  <2>3. CASE q.op \in {"true", "false"}
    <3>3. /\ Good(o, Id) /\ \A k \in AllPackets : Val(Id, k) = One
          /\ Good(o, Drop) /\ \A k \in AllPackets : Val(Drop, k) = Zero
      BY GoodLeaves, LeafVal, NothingIsSeq DEF Id, Drop
    <3>4. CASE q.op = "true"
      <4>1. r = Id
        BY <1>0, <2>1, <3>4, OfPredUnfolds
      <4>2. \A k \in AllPackets : OneOrZero(EvalPred(k, q)) = One
        BY <2>1, <3>4, EvalPredIs DEF OneOrZero
      <4> QED
        BY <3>3, <4>1, <4>2
    <3>5. CASE q.op = "false"
      <4>1. r = Drop
        BY <1>0, <2>1, <3>5, OfPredUnfolds
      <4>2. \A k \in AllPackets : OneOrZero(EvalPred(k, q)) = Zero
        BY <2>1, <3>5, EvalPredIs DEF OneOrZero
      <4> QED
        BY <3>3, <4>1, <4>2
    <3> QED
      BY <2>3, <3>4, <3>5
  <2>4. CASE q.op = "test"
    <3>0. q.hv \in Tests
      BY <2>1, <2>4, PredParts
    <3>1. r = Atom(q.hv, One, Zero)
      BY <1>0, <2>1, <2>4, OfPredUnfolds
    <3>2. \A k \in AllPackets : EvalPred(k, q) = Holds(q.hv, k)
      BY <2>1, <2>4, EvalPredIs
    <3>3. /\ Good(o, Atom(q.hv, One, Zero))
          /\ \A k \in AllPackets : Val(Atom(q.hv, One, Zero), k) = IF Passes(k, q.hv) THEN One ELSE Zero
      BY <3>0, AtomIs, NothingIsSeq
    <3>4. SomeBits => \A k \in AllPackets : Holds(q.hv, k) <=> Passes(k, q.hv)
      BY <3>0, HoldsIs
    <3>5. ASSUME SomeBits, NEW k \in AllPackets PROVE Val(r, k) = OneOrZero(EvalPred(k, q))
      <4>1. EvalPred(k, q) <=> Passes(k, q.hv)
        BY <3>2, <3>4, <3>5
      <4> QED
        BY <3>1, <3>3, <4>1 DEF OneOrZero
    <3> QED
      BY <3>1, <3>3, <3>5
  <2>5. CASE q.op \in {"and", "or"}
    <3> DEFINE a == OfPred(o, q.left)
               b == OfPred(o, q.right)
    <3>1. P(q.left) /\ P(q.right)
      BY <2>1, <2>2, <2>5, PredParts
    <3>2. r = IF q.op = "and" THEN Prod(o, a, b) ELSE Sum(o, a, b)
      BY <1>0, <2>1, <2>5, OfPredUnfolds
    <3>3. \A k \in AllPackets : EvalPred(k, q) = IF q.op = "and" THEN EvalPred(k, q.left) /\ EvalPred(k, q.right)
                                                ELSE EvalPred(k, q.left) \/ EvalPred(k, q.right)
      BY <2>1, <2>5, EvalPredIs
    <3>4. /\ Good(o, a) /\ Good(o, b)
          /\ SomeBits => \A k \in AllPackets : /\ Val(a, k) = OneOrZero(EvalPred(k, q.left))
                                               /\ Val(b, k) = OneOrZero(EvalPred(k, q.right))
      BY <3>1
    <3> HIDE DEF a, b, r
    <3>5. CASE q.op = "and"
      <4>1. Combines(o, "prod", a, b, r)
        BY <3>2, <3>4, <3>5, ProdIs
      <4>2. ASSUME SomeBits, NEW k \in AllPackets PROVE Val(r, k) = OneOrZero(EvalPred(k, q))
        <5>1. Val(r, k) = Combine("prod", Val(a, k), Val(b, k))
          BY <4>1 DEF Combines
        <5>2. Val(a, k) = OneOrZero(EvalPred(k, q.left)) /\ Val(b, k) = OneOrZero(EvalPred(k, q.right))
          BY <3>4, <4>2
        <5>3. EvalPred(k, q) <=> EvalPred(k, q.left) /\ EvalPred(k, q.right)
          BY <3>3, <3>5
        <5> QED
          BY <5>1, <5>2, <5>3, ProdWithOne, ProdWithZero DEF OneOrZero
      <4> QED
        BY <4>1, <4>2 DEF Combines, r
    <3>6. CASE q.op = "or"
      <4>1. Combines(o, "sum", a, b, r)
        BY <3>2, <3>4, <3>6, SumIs
      <4>2. ASSUME SomeBits, NEW k \in AllPackets PROVE Val(r, k) = OneOrZero(EvalPred(k, q))
        <5>1. Val(r, k) = Val(a, k) \cup Val(b, k)
          BY <4>1, CombineIs DEF Combines
        <5>2. Val(a, k) = OneOrZero(EvalPred(k, q.left)) /\ Val(b, k) = OneOrZero(EvalPred(k, q.right))
          BY <3>4, <4>2
        <5>3. EvalPred(k, q) <=> EvalPred(k, q.left) \/ EvalPred(k, q.right)
          BY <3>3, <3>6
        <5>4. One \cup One = One /\ One \cup Zero = One /\ Zero \cup One = One /\ Zero \cup Zero = Zero
          BY DEF Zero
        <5> QED
          BY <5>1, <5>2, <5>3, <5>4 DEF OneOrZero
      <4> QED
        BY <4>1, <4>2 DEF Combines, r
    <3> QED
      BY <2>5, <3>5, <3>6
  <2>6. CASE q.op = "neg"
    <3> DEFINE a == OfPred(o, q.arg)
    <3>1. P(q.arg)
      BY <2>1, <2>2, <2>6, PredParts
    <3>2. r = MapR(Negation, a)
      BY <1>0, <2>1, <2>6, OfPredUnfolds
    <3>3. \A k \in AllPackets : EvalPred(k, q) = (~ EvalPred(k, q.arg))
      BY <2>1, <2>6, EvalPredIs
    <3>4. Negation \in Maps /\ Negation[One] = Zero /\ Negation[Zero] = One
      <4>1. \A par \in Actions : Negate(par) \in Actions
        BY NothingIsSeq DEF Negate
      <4>2. Negate(One) = Zero /\ Negate(Zero) = One
        BY DEF Negate, One, Zero
      <4> QED
        BY <4>1, <4>2, NothingIsSeq DEF Negation, Maps
    <3>5. /\ Good(o, a)
          /\ SomeBits => \A k \in AllPackets : Val(a, k) = OneOrZero(EvalPred(k, q.arg))
      BY <3>1
    <3> HIDE DEF a, r
    <3>6. Good(o, r) /\ \A k \in AllPackets : Val(r, k) = Negation[Val(a, k)]
      BY <3>2, <3>4, <3>5, MapRGood
    <3>7. ASSUME SomeBits, NEW k \in AllPackets PROVE Val(r, k) = OneOrZero(EvalPred(k, q))
      <4>1. Val(r, k) = Negation[OneOrZero(EvalPred(k, q.arg))]
        BY <3>5, <3>6, <3>7
      <4>2. EvalPred(k, q) <=> ~ EvalPred(k, q.arg)
        BY <3>3
      <4> QED
        BY <3>4, <4>1, <4>2 DEF OneOrZero
    <3> QED
      BY <3>6, <3>7 DEF r
  <2> QED
    BY <2>1, <2>3, <2>4, <2>5, <2>6, PredParts
<1>2. \A x \in D : OfPredRank(x) \in Nat
  BY OfPredDescends DEF OfPreds!Descends
<1>3. D \subseteq S
  <2> HIDE DEF S
  <2> QED
    BY <1>1, <1>2, OfPreds!RankInduces
<1>4. <<o, pr>> \in S
  BY <1>0, <1>3
<1> QED
  BY <1>4

---------------------------------------------------------------------------
(* Policies: parts and meaning. *)

PolLevelBody(g, n) == IF n = 0 THEN AtomicPols ELSE PolsOver(g[n - 1])
PolLevels == INSTANCE Recursion WITH Domain <- Nat, Rank <- Identity, Body <- PolLevelBody

\* The levels of policies satisfy their recursive definition.
LEMMA PolLevelsUnfold ==
  /\ polsUpTo[0] = AtomicPols
  /\ \A n \in Nat : polsUpTo[n + 1] = PolsOver(polsUpTo[n])
<1>1. PolLevels!Descends
  <2> SUFFICES ASSUME NEW n \in Nat, NEW g, NEW h,
                      \A m \in Nat : Identity(m) < Identity(n) => g[m] = h[m]
               PROVE  PolLevelBody(g, n) = PolLevelBody(h, n)
    BY DEF PolLevels!Descends, Identity
  <2>1. n # 0 => n - 1 \in Nat /\ n - 1 < n
    OBVIOUS
  <2> QED
    BY <2>1 DEF PolLevelBody, Identity
<1>2. polsUpTo = PolLevels!f
  BY DEF polsUpTo, PolLevels!f, PolLevelBody
<1>3. \A n \in Nat : polsUpTo[n] = PolLevelBody(polsUpTo, n)
  BY <1>1, <1>2, PolLevels!UnfoldsAt
<1>4. polsUpTo[0] = AtomicPols
  BY <1>3 DEF PolLevelBody
<1>5. ASSUME NEW n \in Nat PROVE polsUpTo[n + 1] = PolsOver(polsUpTo[n])
  <2>1. n + 1 \in Nat /\ n + 1 # 0 /\ (n + 1) - 1 = n
    OBVIOUS
  <2> QED
    BY <1>3, <2>1 DEF PolLevelBody
<1> QED
  BY <1>4, <1>5

\* The policies of the next level, by their operators.
LEMMA PolsOverAre ==
  ASSUME NEW S, NEW q \in PolsOver(S)
  PROVE  \/ q.op = "filter" /\ q.pred \in Preds
         \/ q.op = "mod" /\ q.hv \in Modifications
         \/ q.op \in {"union", "seq"} /\ q.left \in S /\ q.right \in S
         \/ q.op = "star" /\ q.arg \in S
<1>1. CASE q \in [op : {"filter"}, pred : Preds]
  BY <1>1
<1>2. CASE q \in [op : {"mod"}, hv : Modifications]
  BY <1>2
<1>3. CASE q \in [op : {"union", "seq"}, left : S, right : S]
  BY <1>3
<1>4. CASE q \in [op : {"star"}, arg : S]
  BY <1>4
<1> QED
  BY <1>1, <1>2, <1>3, <1>4 DEF PolsOver, AtomicPols

\* More policies have more policies over them.
LEMMA PolsOverGrow == ASSUME NEW S, NEW T, S \subseteq T PROVE PolsOver(S) \subseteq PolsOver(T)
<1>1. [op : {"union", "seq"}, left : S, right : S] \subseteq [op : {"union", "seq"}, left : T, right : T]
  OBVIOUS
<1>2. [op : {"star"}, arg : S] \subseteq [op : {"star"}, arg : T]
  OBVIOUS
<1> QED
  BY <1>1, <1>2 DEF PolsOver

\* The levels of policies ascend.
LEMMA PolLevelsGrow ==
  ASSUME NEW m \in Nat, NEW n \in Nat, m <= n
  PROVE  polsUpTo[m] \subseteq polsUpTo[n]
<1> DEFINE S == {i \in Nat : polsUpTo[i] \subseteq polsUpTo[i + 1]}
<1>1. 0 \in S
  <2>1. polsUpTo[0 + 1] = PolsOver(polsUpTo[0])
    BY PolLevelsUnfold
  <2>2. AtomicPols \subseteq PolsOver(polsUpTo[0])
    BY DEF PolsOver
  <2> QED
    BY <2>1, <2>2, PolLevelsUnfold
<1>2. ASSUME NEW i \in Nat, i \in S PROVE i + 1 \in S
  <2>1. polsUpTo[i] \subseteq polsUpTo[i + 1] /\ i + 1 \in Nat
    BY <1>2
  <2>2. /\ polsUpTo[i + 1] = PolsOver(polsUpTo[i])
        /\ polsUpTo[(i + 1) + 1] = PolsOver(polsUpTo[i + 1])
    BY <2>1, PolLevelsUnfold
  <2>3. PolsOver(polsUpTo[i]) \subseteq PolsOver(polsUpTo[i + 1])
    BY <2>1, PolsOverGrow
  <2> QED
    BY <2>1, <2>2, <2>3
<1>3. Nat \subseteq S
  <2> HIDE DEF S
  <2> QED
    BY <1>1, <1>2, Powers!NatInduces
<1> QED
  BY <1>3, LevelsAscend

\* The depth of a policy, a rank for recursion.
PolDepth(q) == FirstLevel(polsUpTo, q)

\* The parts of a policy, which are policies of smaller depth.
LEMMA PolParts ==
  ASSUME NEW q \in Pols
  PROVE  /\ PolDepth(q) \in Nat
         /\ \/ q.op = "filter" /\ q.pred \in Preds
            \/ q.op = "mod" /\ q.hv \in Modifications
            \/ /\ q.op \in {"union", "seq"} /\ q.left \in Pols /\ q.right \in Pols
               /\ PolDepth(q.left) < PolDepth(q) /\ PolDepth(q.right) < PolDepth(q)
            \/ q.op = "star" /\ q.arg \in Pols /\ PolDepth(q.arg) < PolDepth(q)
<1> DEFINE d == PolDepth(q)
<1>1. MaxDepth \in Nat /\ Pols = polsUpTo[MaxDepth]
  BY WidthIsPositive DEF Pols
<1>2. d \in Nat /\ q \in polsUpTo[d] /\ d <= MaxDepth
  BY <1>1, FirstLevelIs DEF PolDepth
<1> HIDE DEF d
<1>3. CASE d = 0
  <2>1. q \in PolsOver({})
    BY <1>2, <1>3, PolLevelsUnfold DEF PolsOver
  <2> QED
    BY <1>2, <2>1, PolsOverAre DEF d
<1>4. CASE d # 0
  <2> DEFINE e == d - 1
  <2>1. e \in Nat /\ e + 1 = d /\ e <= MaxDepth /\ e < d
    BY <1>1, <1>2, <1>4
  <2> HIDE DEF e
  <2>2. q \in PolsOver(polsUpTo[e])
    BY <1>2, <2>1, PolLevelsUnfold
  <2>3. ASSUME NEW p \in polsUpTo[e] PROVE p \in Pols /\ PolDepth(p) < d
    <3>1. p \in Pols
      BY <1>1, <2>1, PolLevelsGrow
    <3>2. PolDepth(p) \in Nat /\ PolDepth(p) <= e
      BY <2>1, FirstLevelIs DEF PolDepth
    <3> QED
      BY <1>2, <2>1, <3>1, <3>2
  <2> QED
    BY <1>2, <2>2, <2>3, PolsOverAre DEF d
<1> QED
  BY <1>3, <1>4

EvalBody(g, q) ==
  CASE q.op = "filter" -> [k \in AllPackets |-> IF EvalPred(k, q.pred) THEN {k} ELSE {}]
    [] q.op = "mod" -> [k \in AllPackets |-> {[k EXCEPT ![q.hv[1]] = q.hv[2]]}]
    [] q.op = "union" -> [k \in AllPackets |-> g[q.left][k] \cup g[q.right][k]]
    [] q.op = "seq" -> [k \in AllPackets |-> UNION {g[q.right][i] : i \in g[q.left][k]}]
    [] OTHER -> [k \in AllPackets |-> Rounds(g[q.arg], {k})]
Evals == INSTANCE Recursion WITH Domain <- Pols, Rank <- PolDepth, Body <- EvalBody

\* The recursion of eval is on the depth of the policy.
LEMMA EvalDescends == Evals!Descends
<1>1. \A x \in Pols : PolDepth(x) \in Nat
  BY PolParts
<1>2. ASSUME NEW q \in Pols, NEW p, NEW r,
             \A y \in Pols : PolDepth(y) < PolDepth(q) => p[y] = r[y]
      PROVE  EvalBody(p, q) = EvalBody(r, q)
  <2>1. CASE q.op \in {"filter", "mod"}
    BY <2>1 DEF EvalBody
  <2>2. CASE q.op \in {"union", "seq"}
    <3>1. p[q.left] = r[q.left] /\ p[q.right] = r[q.right]
      BY <1>2, <2>2, PolParts
    <3> QED
      BY <2>2, <3>1 DEF EvalBody
  <2>3. CASE q.op = "star"
    <3>1. p[q.arg] = r[q.arg]
      BY <1>2, <2>3, PolParts
    <3> QED
      BY <2>3, <3>1 DEF EvalBody
  <2> QED
    BY <2>1, <2>2, <2>3, PolParts
<1> QED
  BY <1>1, <1>2 DEF Evals!Descends

\* eval satisfies its recursive definition.
LEMMA EvalUnfolds == \A q \in Pols : Eval(q) = Evals!f[q] /\ Evals!f[q] = EvalBody(Evals!f, q)
<1>1. \A q : Eval(q) = Evals!f[q]
  BY Zenon DEF Eval, Evals!f, EvalBody
<1> QED
  BY <1>1, EvalDescends, Evals!UnfoldsAt

\* What a policy means: what its parts mean, put together.
LEMMA EvalIs ==
  ASSUME NEW q \in Pols
  PROVE  /\ Eval(q) \in [AllPackets -> SUBSET AllPackets]
         /\ q.op = "filter" => \A k \in AllPackets : Eval(q)[k] = IF EvalPred(k, q.pred) THEN {k} ELSE {}
         /\ q.op = "mod" => \A k \in AllPackets : Eval(q)[k] = {[k EXCEPT ![q.hv[1]] = q.hv[2]]}
         /\ q.op = "union" => \A k \in AllPackets : Eval(q)[k] = Eval(q.left)[k] \cup Eval(q.right)[k]
         /\ q.op = "seq" => \A k \in AllPackets : Eval(q)[k] = UNION {Eval(q.right)[i] : i \in Eval(q.left)[k]}
         /\ q.op = "star" => \A k \in AllPackets : Eval(q)[k] = Rounds(Eval(q.arg), {k})
<1> DEFINE S == {p \in Pols : Eval(p) \in [AllPackets -> SUBSET AllPackets]}
<1>1. ASSUME NEW p \in Pols
      PROVE  /\ p.op = "filter" => Eval(p) = [k \in AllPackets |-> IF EvalPred(k, p.pred) THEN {k} ELSE {}]
             /\ p.op = "mod" => Eval(p) = [k \in AllPackets |-> {[k EXCEPT ![p.hv[1]] = p.hv[2]]}]
             /\ p.op = "union" => Eval(p) = [k \in AllPackets |-> Eval(p.left)[k] \cup Eval(p.right)[k]]
             /\ p.op = "seq" => Eval(p) = [k \in AllPackets |-> UNION {Eval(p.right)[i] : i \in Eval(p.left)[k]}]
             /\ p.op = "star" => Eval(p) = [k \in AllPackets |-> Rounds(Eval(p.arg), {k})]
  <2>1. Eval(p) = EvalBody(Evals!f, p)
    BY EvalUnfolds
  <2>2. /\ p.op \in {"union", "seq"} => Evals!f[p.left] = Eval(p.left) /\ Evals!f[p.right] = Eval(p.right)
        /\ p.op = "star" => Evals!f[p.arg] = Eval(p.arg)
    BY EvalUnfolds, PolParts
  <2>3. CASE p.op \in {"filter", "mod"}
    BY <2>1, <2>3 DEF EvalBody
  <2>4. CASE p.op \in {"union", "seq"}
    <3> DEFINE a == Eval(p.left)
               b == Eval(p.right)
    <3>1. Evals!f[p.left] = a /\ Evals!f[p.right] = b
      BY <2>2, <2>4
    <3> HIDE DEF a, b
    <3>2. CASE p.op = "union"
      <4>1. Eval(p) = [k \in AllPackets |-> a[k] \cup b[k]]
        BY <2>1, <3>1, <3>2 DEF EvalBody
      <4> QED
        BY <3>2, <4>1 DEF a, b
    <3>3. CASE p.op = "seq"
      <4>1. Eval(p) = [k \in AllPackets |-> UNION {b[i] : i \in a[k]}]
        BY <2>1, <3>1, <3>3 DEF EvalBody
      <4> QED
        BY <3>3, <4>1 DEF a, b
    <3> QED
      BY Zenon, <2>4, <3>2, <3>3
  <2>5. CASE p.op = "star"
    BY <2>1, <2>2, <2>5 DEF EvalBody
  <2>6. p.op \in {"filter", "mod"} \/ p.op \in {"union", "seq"} \/ p.op = "star"
    BY PolParts
  <2> QED
    BY Zenon, <2>3, <2>4, <2>5, <2>6
<1>2. ASSUME NEW p \in Pols, \A y \in Pols : PolDepth(y) < PolDepth(p) => y \in S
      PROVE  p \in S
  <2>1. CASE p.op = "filter"
    BY <1>1, <2>1
  <2>2. CASE p.op = "mod"
    <3>1. p.hv \in Modifications /\ p.hv[1] \in Fields
      BY <2>2, PolParts, ModificationsAreTests, TestParts
    <3>2. ASSUME NEW k \in AllPackets PROVE [k EXCEPT ![p.hv[1]] = p.hv[2]] \in AllPackets
      <4> DEFINE V == {hv[2] : hv \in Modifications} \cup {Absent}
      <4>1. k \in [Fields -> V] /\ p.hv[2] \in V
        BY <3>1 DEF AllPackets
      <4> HIDE DEF V
      <4>2. [k EXCEPT ![p.hv[1]] = p.hv[2]] \in [Fields -> V]
        BY <4>1
      <4> QED
        BY <4>2 DEF AllPackets, V
    <3>3. Eval(p) = [k \in AllPackets |-> {[k EXCEPT ![p.hv[1]] = p.hv[2]]}]
      BY <1>1, <2>2
    <3> QED
      BY <3>2, <3>3
  <2>3. CASE p.op \in {"union", "seq"}
    <3>1. /\ Eval(p.left) \in [AllPackets -> SUBSET AllPackets]
          /\ Eval(p.right) \in [AllPackets -> SUBSET AllPackets]
      BY <1>2, <2>3, PolParts
    <3>2. CASE p.op = "union"
      <4>1. Eval(p) = [k \in AllPackets |-> Eval(p.left)[k] \cup Eval(p.right)[k]]
        BY <1>1, <3>2
      <4> QED
        BY <3>1, <4>1
    <3>3. CASE p.op = "seq"
      <4>1. Eval(p) = [k \in AllPackets |-> UNION {Eval(p.right)[i] : i \in Eval(p.left)[k]}]
        BY <1>1, <3>3
      <4>2. ASSUME NEW k \in AllPackets
            PROVE  UNION {Eval(p.right)[i] : i \in Eval(p.left)[k]} \subseteq AllPackets
        BY <3>1
      <4> QED
        BY <4>1, <4>2
    <3> QED
      BY <2>3, <3>2, <3>3
  <2>4. CASE p.op = "star"
    <3>1. Eval(p.arg) \in [AllPackets -> SUBSET AllPackets]
      BY <1>2, <2>4, PolParts
    <3>2. Eval(p) = [k \in AllPackets |-> Rounds(Eval(p.arg), {k})]
      BY <1>1, <2>4
    <3>3. ASSUME NEW k \in AllPackets PROVE Rounds(Eval(p.arg), {k}) \subseteq AllPackets
      <4>1. AllPackets \in SUBSET AllPackets /\ {k} \in SUBSET AllPackets
        OBVIOUS
      <4> QED
        BY <3>1, <4>1, RoundsAre
    <3> QED
      BY <3>2, <3>3
  <2> QED
    BY <2>1, <2>2, <2>3, <2>4, PolParts
<1>3. \A x \in Pols : PolDepth(x) \in Nat
  BY PolParts
<1>4. Pols \subseteq S
  <2> HIDE DEF S
  <2> QED
    BY <1>2, <1>3, Evals!RankInduces
<1>5. Eval(q) \in [AllPackets -> SUBSET AllPackets]
  BY <1>4
<1>6. q.op = "filter" => \A k \in AllPackets : Eval(q)[k] = IF EvalPred(k, q.pred) THEN {k} ELSE {}
  BY <1>1
<1>7. q.op = "mod" => \A k \in AllPackets : Eval(q)[k] = {[k EXCEPT ![q.hv[1]] = q.hv[2]]}
  BY <1>1
<1>8. q.op = "union" => \A k \in AllPackets : Eval(q)[k] = Eval(q.left)[k] \cup Eval(q.right)[k]
  BY <1>1
<1>9. q.op = "seq" => \A k \in AllPackets : Eval(q)[k] = UNION {Eval(q.right)[i] : i \in Eval(q.left)[k]}
  BY <1>1
<1>10. q.op = "star" => \A k \in AllPackets : Eval(q)[k] = Rounds(Eval(q.arg), {k})
  BY <1>1
<1> QED
  BY Zenon, <1>5, <1>6, <1>7, <1>8, <1>9, <1>10

---------------------------------------------------------------------------
(* Policies as diagrams. *)

OfPolBody(g, x) ==
  CASE x[2].op = "filter" -> OfPred(x[1], x[2].pred)
    [] x[2].op = "mod"    -> MkLeaf({{x[2].hv}})
    [] x[2].op = "union"  -> Sum(x[1], g[<<x[1], x[2].left>>], g[<<x[1], x[2].right>>])
    [] x[2].op = "seq"    -> IF g[<<x[1], x[2].left>>] = Drop THEN Drop
                             ELSE SeqComp(x[1], g[<<x[1], x[2].left>>], g[<<x[1], x[2].right>>])
    [] OTHER              -> StarComp(x[1], g[<<x[1], x[2].arg>>])
OfPolRank(x) == PolDepth(x[2])
OfPols == INSTANCE Recursion WITH Domain <- Ranks \X Pols, Rank <- OfPolRank, Body <- OfPolBody

\* The recursion of of_local_pol is on the depth of the policy.
LEMMA OfPolDescends == OfPols!Descends
<1> DEFINE D == Ranks \X Pols
<1>1. \A x \in D : OfPolRank(x) \in Nat
  BY PolParts DEF OfPolRank
<1>2. ASSUME NEW x \in D, NEW p, NEW r,
             \A y \in D : OfPolRank(y) < OfPolRank(x) => p[y] = r[y]
      PROVE  OfPolBody(p, x) = OfPolBody(r, x)
  <2> DEFINE o == x[1]
             q == x[2]
  <2>1. o \in Ranks /\ q \in Pols
    OBVIOUS
  <2>2. ASSUME NEW a \in Pols, PolDepth(a) < PolDepth(q) PROVE p[<<o, a>>] = r[<<o, a>>]
    <3>1. <<o, a>> \in D /\ OfPolRank(<<o, a>>) < OfPolRank(x)
      BY <2>1, <2>2 DEF OfPolRank
    <3> QED
      BY <1>2, <3>1
  <2> HIDE DEF D
  <2>3. CASE q.op \in {"filter", "mod"}
    BY <2>3 DEF OfPolBody
  <2>4. CASE q.op \in {"union", "seq"}
    <3>1. p[<<o, q.left>>] = r[<<o, q.left>>] /\ p[<<o, q.right>>] = r[<<o, q.right>>]
      BY <2>1, <2>2, <2>4, PolParts
    <3> QED
      BY <2>4, <3>1 DEF OfPolBody
  <2>5. CASE q.op = "star"
    <3>1. p[<<o, q.arg>>] = r[<<o, q.arg>>]
      BY <2>1, <2>2, <2>5, PolParts
    <3> QED
      BY <2>5, <3>1 DEF OfPolBody
  <2> QED
    BY <2>1, <2>3, <2>4, <2>5, PolParts
<1> QED
  BY <1>1, <1>2 DEF OfPols!Descends

\* of_local_pol satisfies its recursive definition.
LEMMA OfPolUnfolds ==
  ASSUME NEW o \in Ranks, NEW q \in Pols
  PROVE  /\ q.op = "filter" => OfLocalPol(o, q) = OfPred(o, q.pred)
         /\ q.op = "mod" => OfLocalPol(o, q) = MkLeaf({{q.hv}})
         /\ q.op = "union" => OfLocalPol(o, q) = Sum(o, OfLocalPol(o, q.left), OfLocalPol(o, q.right))
         /\ q.op = "seq" => OfLocalPol(o, q) =
              IF OfLocalPol(o, q.left) = Drop THEN Drop
              ELSE SeqComp(o, OfLocalPol(o, q.left), OfLocalPol(o, q.right))
         /\ q.op = "star" => OfLocalPol(o, q) = StarComp(o, OfLocalPol(o, q.arg))
<1>1. ofPol = OfPols!f
  BY DEF ofPol, OfPols!f, OfPolBody
<1>2. ofPol[<<o, q>>] = OfPolBody(ofPol, <<o, q>>)
  BY <1>1, OfPolDescends, OfPols!UnfoldsAt
<1>3. \A a : OfLocalPol(o, a) = ofPol[<<o, a>>]
  BY DEF OfLocalPol
<1> QED
  BY <1>2, <1>3 DEF OfPolBody

\* One modification.
LEMMA ModIs ==
  ASSUME NEW o, IsOrder(o), NEW hv \in Modifications
  PROVE  /\ Good(o, MkLeaf({{hv}}))
         /\ \A k \in AllPackets : Out(MkLeaf({{hv}}), k) = {[k EXCEPT ![hv[1]] = hv[2]]}
<1>1. {hv} \in Seqs /\ {{hv}} \in Actions
  BY DEF Seqs, Functional, Actions
<1>2. Good(o, MkLeaf({{hv}}))
  BY <1>1, GoodLeaves
<1>3. ASSUME NEW k \in AllPackets PROVE Out(MkLeaf({{hv}}), k) = {[k EXCEPT ![hv[1]] = hv[2]]}
  <2> DEFINE j == Modify({hv}, k)
             i == [k EXCEPT ![hv[1]] = hv[2]]
  <2>1. Out(MkLeaf({{hv}}), k) = {j}
    BY <1>1, LeafVal DEF Out, Results
  <2>2. /\ j \in AllPackets /\ hv[1] \in Fields /\ j[hv[1]] = hv[2]
        /\ \A f \in Fields : f # hv[1] => j[f] = k[f]
    <3>1. hv \in {hv} /\ \A f \in Fields : f # hv[1] => f \notin FieldsOf({hv})
      BY DEF FieldsOf
    <3> QED
      BY <1>1, <3>1, ModifyIs
  <2>3. j = [f \in Fields |-> j[f]] /\ k = [f \in Fields |-> k[f]]
    BY <2>2, PacketIs
  <2> HIDE DEF j
  <2>4. i = j
    <3>1. i = [f \in Fields |-> IF f = hv[1] THEN hv[2] ELSE k[f]]
      BY <2>2, <2>3
    <3> QED
      BY <2>2, <2>3, <3>1
  <2> QED
    BY <2>1, <2>4
<1> QED
  BY <1>2, <1>3

\* A diagram with values One and Zero passes packets or drops them.
LEMMA FilterOut ==
  ASSUME NEW u, NEW k \in AllPackets, NEW b, Val(u, k) = OneOrZero(b)
  PROVE  Out(u, k) = IF b THEN {k} ELSE {}
<1>1. Results(One, k) = {k} /\ Results(Zero, k) = {}
  BY ModifyNothing DEF Results, One, Zero
<1> QED
  BY <1>1 DEF Out, OneOrZero

\* The diagram of a policy makes of a packet what the policy makes of it.
THEOREM OfPolIs ==
  ASSUME NEW o, IsOrder(o), NEW pol \in Pols
  PROVE  /\ Good(o, OfLocalPol(o, pol))
         /\ SomeBits => \A k \in AllPackets : Out(OfLocalPol(o, pol), k) = Eval(pol)[k]
<1> DEFINE P(q) == /\ Good(o, OfLocalPol(o, q))
                   /\ SomeBits => \A k \in AllPackets : Out(OfLocalPol(o, q), k) = Eval(q)[k]
           S == {q \in Pols : P(q)}
<1>0. o \in Ranks
  BY DEF IsOrder, Ranks
<1>1. ASSUME NEW q \in Pols, \A y \in Pols : PolDepth(y) < PolDepth(q) => y \in S
      PROVE  q \in S
  <2> SUFFICES P(q)
    OBVIOUS
  <2> DEFINE r == OfLocalPol(o, q)
  <2>1. \A a \in Pols : PolDepth(a) < PolDepth(q) => P(a)
    BY <1>1
  <2> HIDE DEF S
  <2>2. CASE q.op = "filter"
    <3> DEFINE pr == q.pred
    <3>1. pr \in Preds
      BY <2>2, PolParts
    <3>2. r = OfPred(o, pr)
      BY <1>0, <2>2, OfPolUnfolds
    <3>3. \A k \in AllPackets : Eval(q)[k] = IF EvalPred(k, pr) THEN {k} ELSE {}
      BY <2>2, EvalIs
    <3>4. /\ Good(o, r)
          /\ SomeBits => \A k \in AllPackets : Val(r, k) = OneOrZero(EvalPred(k, pr))
      BY <3>1, <3>2, OfPredIs
    <3> HIDE DEF r, pr
    <3>5. ASSUME SomeBits, NEW k \in AllPackets PROVE Out(r, k) = Eval(q)[k]
      <4>1. Val(r, k) = OneOrZero(EvalPred(k, pr))
        BY <3>4, <3>5
      <4>2. Out(r, k) = IF EvalPred(k, pr) THEN {k} ELSE {}
        BY <4>1, FilterOut
      <4> QED
        BY <3>3, <4>2
    <3> QED
      BY <3>4, <3>5 DEF r
  <2>3. CASE q.op = "mod"
    <3>1. q.hv \in Modifications
      BY <2>3, PolParts
    <3>2. r = MkLeaf({{q.hv}})
      BY <1>0, <2>3, OfPolUnfolds
    <3>3. \A k \in AllPackets : Eval(q)[k] = {[k EXCEPT ![q.hv[1]] = q.hv[2]]}
      BY <2>3, EvalIs
    <3>4. /\ Good(o, r)
          /\ \A k \in AllPackets : Out(r, k) = {[k EXCEPT ![q.hv[1]] = q.hv[2]]}
      BY <3>1, <3>2, ModIs
    <3> QED
      BY <3>3, <3>4
  <2>4. CASE q.op \in {"union", "seq"}
    <3> DEFINE a == OfLocalPol(o, q.left)
               b == OfLocalPol(o, q.right)
               g == Eval(q.left)
               h == Eval(q.right)
    <3>1. q.left \in Pols /\ q.right \in Pols /\ P(q.left) /\ P(q.right)
      BY <2>1, <2>4, PolParts
    <3>2. /\ Good(o, a) /\ Good(o, b)
          /\ SomeBits => \A k \in AllPackets : Out(a, k) = g[k] /\ Out(b, k) = h[k]
      BY <3>1
    <3>3. g \in [AllPackets -> SUBSET AllPackets]
      BY <3>1, EvalIs
    <3>4. CASE q.op = "union"
      <4>1. r = Sum(o, a, b)
        BY <1>0, <3>4, OfPolUnfolds
      <4>2. \A k \in AllPackets : Eval(q)[k] = g[k] \cup h[k]
        BY <3>4, EvalIs
      <4> HIDE DEF a, b, g, h, r
      <4>3. Good(o, r) /\ \A k \in AllPackets : Out(r, k) = Out(a, k) \cup Out(b, k)
        BY <3>2, <4>1, SumMakes
      <4>4. SomeBits => \A k \in AllPackets : Out(r, k) = Eval(q)[k]
        BY <3>2, <4>2, <4>3
      <4> QED
        BY <4>3, <4>4 DEF r
    <3>5. CASE q.op = "seq"
      <4>1. r = IF a = Drop THEN Drop ELSE SeqComp(o, a, b)
        BY <1>0, <3>5, OfPolUnfolds
      <4>2. \A k \in AllPackets : Eval(q)[k] = UNION {h[i] : i \in g[k]}
        BY <3>5, EvalIs
      <4> HIDE DEF a, b, g, h, r
      <4>3. Good(o, r) /\ \A k \in AllPackets : Out(r, k) = UNION {Out(b, j) : j \in Out(a, k)}
        <5>1. CASE a = Drop
          <6>1. Good(o, Drop) /\ \A k \in AllPackets : Out(Drop, k) = {}
            BY DropIs
          <6> QED
            BY <4>1, <5>1, <6>1
        <5>2. CASE a # Drop
          BY <3>2, <4>1, <5>2, SeqCompIs
        <5> QED
          BY <5>1, <5>2
      <4>4. ASSUME SomeBits, NEW k \in AllPackets PROVE Out(r, k) = Eval(q)[k]
        <5>1. Out(a, k) = g[k] /\ g[k] \subseteq AllPackets
          BY <3>2, <3>3, <4>4
        <5>2. \A j \in g[k] : Out(b, j) = h[j]
          BY <3>2, <4>4, <5>1
        <5>3. UNION {Out(b, j) : j \in g[k]} = UNION {h[i] : i \in g[k]}
          BY <5>2
        <5> QED
          BY <4>2, <4>3, <5>1, <5>3
      <4> QED
        BY <4>3, <4>4 DEF r
    <3> QED
      BY <2>4, <3>4, <3>5
  <2>5. CASE q.op = "star"
    <3> DEFINE a == OfLocalPol(o, q.arg)
               g == Eval(q.arg)
    <3>1. q.arg \in Pols /\ P(q.arg)
      BY <2>1, <2>5, PolParts
    <3>2. Good(o, a) /\ (SomeBits => \A k \in AllPackets : Out(a, k) = g[k])
      BY <3>1
    <3>3. g \in [AllPackets -> SUBSET AllPackets]
      BY <3>1, EvalIs
    <3>4. r = StarComp(o, a)
      BY <1>0, <2>5, OfPolUnfolds
    <3>5. \A k \in AllPackets : Eval(q)[k] = Rounds(g, {k})
      BY <2>5, EvalIs
    <3> HIDE DEF a, g, r
    <3>6. Good(o, r) /\ \A k \in AllPackets : IsClosure(Effect(a), {k}, Out(r, k))
      BY <3>2, <3>4, StarIs
    <3>7. ASSUME SomeBits, NEW k \in AllPackets PROVE Out(r, k) = Eval(q)[k]
      <4>1. IsClosure(g, {k}, Rounds(g, {k}))
        BY <3>3, RoundsAre, AllPackets \in SUBSET AllPackets, {k} \in SUBSET AllPackets
      <4>2. \A j \in AllPackets : Effect(a)[j] = g[j]
        BY <3>2, <3>7 DEF Effect
      <4>3. Closed(Effect(a), AllPackets)
        BY <3>3, <4>2 DEF Closed
      <4>4. Out(r, k) = Rounds(g, {k})
        BY <3>6, <4>1, <4>2, <4>3, ClosuresAgree, {k} \subseteq AllPackets
      <4> QED
        BY <3>5, <4>4
    <3> QED
      BY <3>6, <3>7 DEF r
  <2> QED
    BY <2>2, <2>3, <2>4, <2>5, PolParts
<1>2. \A x \in Pols : PolDepth(x) \in Nat
  BY PolParts
<1>3. Pols \subseteq S
  <2> HIDE DEF S
  <2> QED
    BY <1>1, <1>2, Evals!RankInduces
<1> QED
  BY <1>3

---------------------------------------------------------------------------
(* dedup. *)

\* Demod with one modification, as a function.
DemodMap(hv) == [r \in Actions |-> Demod(hv, r)]

\* To leave out a modification changes nothing for packets that have the value.
LEMMA DemodIs ==
  ASSUME NEW hv \in Modifications, NEW par \in Actions
  PROVE  /\ Demod(hv, par) \in Actions
         /\ \A k \in AllPackets : Passes(k, hv) => Results(Demod(hv, par), k) = Results(par, k)
<1>1. \A s \in par : s \in Seqs /\ s \ {hv} \in Seqs
  BY DEF Actions, Seqs, Functional
<1>2. ASSUME NEW k \in AllPackets, Passes(k, hv) PROVE k[hv[1]] = hv[2]
  <2> DEFINE a == k[hv[1]]
             b == hv[2]
  <2>1. hv[1] \in Fields /\ IsValue(b) /\ IsSingle(b)
    BY ModificationsAreTests, TestParts DEF Modifications
  <2>2. SubsetEq(a, b)
    BY <1>2 DEF Passes
  <2>3. a # Absent /\ a \in {x[2] : x \in Modifications} \cup {Absent}
    BY <2>1, <2>2, AbsentIsInNothing, PacketIs
  <2>4. IsValue(a) /\ IsSingle(a)
    <3>1. PICK x \in Modifications : a = x[2]
      BY <2>3
    <3> QED
      BY <3>1, ModificationsAreTests, TestParts DEF Modifications
  <2> HIDE DEF a, b
  <2>5. CASE IsPipe(b)
    <3>1. b.kind = "pipe" /\ a.kind = "pipe" /\ a.bits = b.bits
      BY <2>2, <2>4, <2>5, PipeFields, MaskFields DEF SubsetEq, IsValue
    <3>2. IsPipe(a)
      BY <2>4, <3>1, MaskFields DEF IsValue
    <3> QED
      BY <2>5, <3>1, <3>2 DEF IsPipe, Pipe, a, b
  <2>6. CASE IsMask(b)
    <3>1. b.kind = "mask" /\ a.kind = "mask" /\ a.len = Width /\ b.len = Width
      BY <2>1, <2>2, <2>4, <2>6, MaskFields, PipeFields DEF SubsetEq, IsSingle, IsValue
    <3>2. IsMask(a)
      BY <2>4, <3>1, PipeFields DEF IsValue
    <3>3. Shifted(a, Width) = Shifted(b, Width)
      BY <2>2, <3>1, WidthIsPositive DEF SubsetEq
    <3>4. a.bits = b.bits
      <4>1. pow2[Width - Width] = 1
        BY WidthIsPositive, PowersOfTwo
      <4>2. a.bits \in Int /\ b.bits \in Int
        BY <2>6, <3>2, MaskFields
      <4>3. \A i \in Int : i \div 1 = i
        OBVIOUS
      <4> QED
        BY <3>3, <4>1, <4>2, <4>3 DEF Shifted
    <3> QED
      BY <2>6, <3>1, <3>2, <3>4 DEF IsMask, Mask, a, b
  <2> QED
    BY <2>1, <2>5, <2>6 DEF IsValue
<1>3. ASSUME NEW k \in AllPackets, Passes(k, hv), NEW s \in par PROVE Modify(s \ {hv}, k) = Modify(s, k)
  <2> DEFINE t == s \ {hv}
             i == Modify(t, k)
             j == Modify(s, k)
  <2>1. s \in Seqs /\ t \in Seqs
    BY <1>1
  <2>2. /\ i \in AllPackets /\ j \in AllPackets
        /\ \A x \in t : x[1] \in Fields /\ i[x[1]] = x[2]
        /\ \A x \in s : x[1] \in Fields /\ j[x[1]] = x[2]
        /\ \A f \in Fields : f \notin FieldsOf(t) => i[f] = k[f]
        /\ \A f \in Fields : f \notin FieldsOf(s) => j[f] = k[f]
    BY <2>1, ModifyIs
  <2>3. k[hv[1]] = hv[2]
    BY <1>2, <1>3
  <2>4. ASSUME NEW f \in Fields PROVE i[f] = j[f]
    <3> HIDE DEF i, j
    <3>1. CASE f \in FieldsOf(t)
      BY <2>2, <3>1 DEF FieldsOf
    <3>2. CASE f \notin FieldsOf(t) /\ f \in FieldsOf(s)
      <4>1. hv \in s /\ f = hv[1]
        BY <3>2 DEF FieldsOf
      <4>2. i[f] = k[f]
        BY <2>2, <3>2
      <4>3. j[f] = hv[2]
        BY <2>2, <4>1
      <4> QED
        BY <2>3, <4>1, <4>2, <4>3
    <3>3. CASE f \notin FieldsOf(t) /\ f \notin FieldsOf(s)
      BY <2>2, <3>3
    <3> QED
      BY <3>1, <3>2, <3>3
  <2>5. i = [f \in Fields |-> i[f]] /\ j = [f \in Fields |-> j[f]]
    BY <2>2, PacketIs
  <2> HIDE DEF i, j, t
  <2>6. i = j
    BY <2>4, <2>5
  <2> QED
    BY <2>6 DEF i, j, t
<1>4. Demod(hv, par) \in Actions
  BY <1>1 DEF Demod, Actions
<1>5. ASSUME NEW k \in AllPackets, Passes(k, hv) PROVE Results(Demod(hv, par), k) = Results(par, k)
  <2>1. Results(Demod(hv, par), k) = {Modify(s \ {hv}, k) : s \in par}
    BY DEF Results, Demod
  <2> QED
    BY <1>3, <1>5, <2>1 DEF Results
<1> QED
  BY <1>4, <1>5

DedupBody(g, x) ==
  IF x[3] = {} THEN MkLeaf(x[2])
  ELSE LET hv == CHOOSE hv \in x[3] : TRUE
           u == g[<<x[1], x[2], x[3] \ {hv}>>]
       IN Cond(x[1], hv, MapR([r \in Actions |-> Demod(hv, r)], u), u)
DedupRank(x) == Cardinality(x[3])
DedupDomain == {x \in Ranks \X Actions \X (SUBSET Tests) : x[3] \subseteq Harmful(x[2])}
Dedups == INSTANCE Recursion
            WITH Domain <- DedupDomain, Rank <- DedupRank, Body <- DedupBody

\* DedupLeaf has a function of its own for each order and each action.
DedupFor(o, par) ==
  CHOOSE fold : fold = [S \in SUBSET Harmful(par) |->
    IF S = {} THEN MkLeaf(par)
    ELSE LET hv == CHOOSE hv \in S : TRUE
             u == fold[S \ {hv}]
         IN Cond(o, hv, MapR([r \in Actions |-> Demod(hv, r)], u), u)]

\* dedup goes through the harmful modifications one by one.
LEMMA DedupShrinks ==
  ASSUME NEW x \in DedupDomain, NEW hv \in x[3]
  PROVE  /\ <<x[1], x[2], x[3] \ {hv}>> \in DedupDomain
         /\ DedupRank(<<x[1], x[2], x[3] \ {hv}>>) < DedupRank(x)
<1> DEFINE S == x[3]
           T == S \ {hv}
           y == <<x[1], x[2], T>>
<1>1. x[1] \in Ranks /\ x[2] \in Actions /\ S \in SUBSET Tests /\ S \subseteq Harmful(x[2])
  BY DEF DedupDomain
<1>2. y \in DedupDomain
  BY <1>1 DEF DedupDomain
<1>3. Cardinality(T) \in Nat /\ Cardinality(S) \in Nat /\ Cardinality(T) + 1 <= Cardinality(S)
  BY <1>1, OneLessTest
<1> QED
  BY <1>2, <1>3 DEF DedupRank

\* The recursion of dedup is on the number of modifications left.
LEMMA DedupDescends == Dedups!Descends
<1>1. \A x \in DedupDomain : DedupRank(x) \in Nat
  BY SomeTestsAreFinite DEF DedupRank, DedupDomain
<1>2. ASSUME NEW x \in DedupDomain, NEW p, NEW r,
             \A y \in DedupDomain : DedupRank(y) < DedupRank(x) => p[y] = r[y]
      PROVE  DedupBody(p, x) = DedupBody(r, x)
  <2>1. CASE x[3] = {}
    BY <2>1 DEF DedupBody
  <2>2. CASE x[3] # {}
    <3> DEFINE hv == CHOOSE hv \in x[3] : TRUE
               y == <<x[1], x[2], x[3] \ {hv}>>
    <3>1. hv \in x[3]
      BY <2>2
    <3> HIDE DEF hv
    <3>2. p[y] = r[y]
      BY <1>2, <3>1, DedupShrinks
    <3> HIDE DEF y
    <3>3. \A g : DedupBody(g, x) = Cond(x[1], hv, MapR([a \in Actions |-> Demod(hv, a)], g[y]), g[y])
      BY <2>2 DEF DedupBody, hv, y
    <3> QED
      BY <3>2, <3>3
  <2> QED
    BY <2>1, <2>2
<1> QED
  BY <1>1, <1>2 DEF Dedups!Descends

\* dedup of a leaf, one modification at a time.
LEMMA DedupUnfolds ==
  ASSUME NEW o \in Ranks, NEW par \in Actions
  PROVE  /\ DedupLeaf(o, par) = DedupFor(o, par)[Harmful(par)]
         /\ DedupFor(o, par)[{}] = MkLeaf(par)
         /\ \A S \in SUBSET Harmful(par) : S # {} => \E hv \in S :
              DedupFor(o, par)[S] = Cond(o, hv, MapR(DemodMap(hv), DedupFor(o, par)[S \ {hv}]),
                                                DedupFor(o, par)[S \ {hv}])
<1>0. Harmful(par) \subseteq Tests
  BY ModificationsAreTests DEF Harmful, Actions, Seqs
<1>1. \A x \in DedupDomain : Dedups!f[x] = DedupBody(Dedups!f, x)
  BY DedupDescends, Dedups!UnfoldsAt
<1> DEFINE F == [S \in SUBSET Harmful(par) |-> Dedups!f[<<o, par, S>>]]
           body(g, S) ==
             IF S = {} THEN MkLeaf(par)
             ELSE LET hv == CHOOSE hv \in S : TRUE
                      u == g[S \ {hv}]
                  IN Cond(o, hv, MapR([r \in Actions |-> Demod(hv, r)], u), u)
<1>2. ASSUME NEW S \in SUBSET Harmful(par) PROVE F[S] = body(F, S)
  <2>1. <<o, par, S>> \in DedupDomain
    BY <1>0 DEF DedupDomain
  <2>2. F[S] = DedupBody(Dedups!f, <<o, par, S>>)
    BY <1>1, <2>1
  <2>3. \A T \in SUBSET Harmful(par) : F[T] = Dedups!f[<<o, par, T>>]
    OBVIOUS
  <2> HIDE DEF F
  <2>4. CASE S = {}
    BY <2>2, <2>4 DEF DedupBody
  <2>5. CASE S # {}
    <3> DEFINE hv == CHOOSE hv \in S : TRUE
               T == S \ {hv}
               u == F[T]
    <3>1. u = Dedups!f[<<o, par, T>>]
      BY <2>3
    <3> HIDE DEF u, T, hv
    <3>2. DedupBody(Dedups!f, <<o, par, S>>) = Cond(o, hv, MapR([r \in Actions |-> Demod(hv, r)], u), u)
      BY <2>5, <3>1 DEF DedupBody, T, hv
    <3>3. body(F, S) = Cond(o, hv, MapR([r \in Actions |-> Demod(hv, r)], u), u)
      BY <2>5 DEF u, T, hv
    <3> QED
      BY <2>2, <3>2, <3>3
  <2> QED
    BY <2>4, <2>5
<1>3. F = [S \in SUBSET Harmful(par) |-> body(F, S)]
  <2>1. F = [S \in SUBSET Harmful(par) |-> F[S]]
    OBVIOUS
  <2> HIDE DEF F, body
  <2> QED
    BY <1>2, <2>1
<1> DEFINE G == DedupFor(o, par)
<1>4. G = [S \in SUBSET Harmful(par) |-> body(G, S)]
  <2> HIDE DEF F
  <2> QED
    BY <1>3 DEF DedupFor
<1>5. DedupLeaf(o, par) = G[Harmful(par)]
  <2> HIDE DEF F, body
  <2> QED
    BY Zenon DEF DedupLeaf, DedupFor
<1> HIDE DEF G, F
<1>6. \A S \in SUBSET Harmful(par) : G[S] = body(G, S)
  <2> HIDE DEF body
  <2> QED
    BY <1>4
<1>7. G[{}] = MkLeaf(par)
  BY <1>6
<1>8. ASSUME NEW S \in SUBSET Harmful(par), S # {}
      PROVE  \E hv \in S : G[S] = Cond(o, hv, MapR(DemodMap(hv), G[S \ {hv}]), G[S \ {hv}])
  <2> DEFINE hv == CHOOSE hv \in S : TRUE
  <2>1. hv \in S
    BY <1>8
  <2>2. G[S] = body(G, S)
    BY <1>6
  <2>3. body(G, S) = Cond(o, hv, MapR(DemodMap(hv), G[S \ {hv}]), G[S \ {hv}])
    BY <1>8 DEF DemodMap
  <2> HIDE DEF body, hv
  <2> QED
    BY <2>1, <2>2, <2>3
<1> QED
  BY <1>5, <1>7, <1>8 DEF G

\* dedup of a leaf is ordered, and makes the packets that the leaf makes.
LEMMA DedupLeafIs ==
  ASSUME NEW o, IsOrder(o), NEW par \in Actions
  PROVE  /\ Good(o, DedupLeaf(o, par))
         /\ \A k \in AllPackets : Out(DedupLeaf(o, par), k) = Results(par, k)
<1> DEFINE G == DedupFor(o, par)
           P(v) == Good(o, v) /\ \A k \in AllPackets : Out(v, k) = Results(par, k)
           S == {x \in DedupDomain : x[1] = o /\ x[2] = par => P(G[x[3]])}
<1>0. o \in Ranks /\ Harmful(par) \subseteq Modifications
  BY DEF IsOrder, Ranks, Harmful, Actions, Seqs
<1>1. ASSUME NEW x \in DedupDomain, \A y \in DedupDomain : DedupRank(y) < DedupRank(x) => y \in S
      PROVE  x \in S
  <2> DEFINE T == x[3]
  <2> SUFFICES ASSUME x[1] = o, x[2] = par PROVE P(G[T])
    OBVIOUS
  <2>1. T \in SUBSET Harmful(par)
    BY DEF DedupDomain
  <2>2. CASE T = {}
    <3>1. G[T] = MkLeaf(par)
      BY <1>0, <2>2, DedupUnfolds
    <3>2. Good(o, MkLeaf(par)) /\ \A k \in AllPackets : Val(MkLeaf(par), k) = par
      BY GoodLeaves, LeafVal
    <3> QED
      BY <3>1, <3>2 DEF Out
  <2>3. CASE T # {}
    <3> HIDE DEF S, G, T
    <3>1. PICK hv \in T : G[T] = Cond(o, hv, MapR(DemodMap(hv), G[T \ {hv}]), G[T \ {hv}])
      BY <1>0, <2>1, <2>3, DedupUnfolds DEF G
    <3> DEFINE u == G[T \ {hv}]
               m == MapR(DemodMap(hv), u)
    <3>2. hv \in Modifications /\ hv \in Tests
      BY <1>0, <2>1, ModificationsAreTests
    <3>3. P(u)
      <4>1. <<o, par, T \ {hv}>> \in S
        BY <1>1, <3>1, DedupShrinks DEF T
      <4> QED
        BY <4>1 DEF S
    <3>4. DemodMap(hv) \in Maps /\ \A a \in Actions : DemodMap(hv)[a] = Demod(hv, a)
      BY <3>2, DemodIs DEF DemodMap, Maps
    <3> HIDE DEF u
    <3>5. Good(o, m) /\ \A k \in AllPackets : Val(m, k) = DemodMap(hv)[Val(u, k)]
      BY <3>3, <3>4, MapRGood
    <3> HIDE DEF m
    <3>6. /\ Good(o, Cond(o, hv, m, u))
          /\ \A k \in AllPackets : Val(Cond(o, hv, m, u), k) = IF Passes(k, hv) THEN Val(m, k) ELSE Val(u, k)
      BY <3>2, <3>3, <3>5, CondIs
    <3>7. ASSUME NEW k \in AllPackets PROVE Out(Cond(o, hv, m, u), k) = Results(par, k)
      <4>1. Val(u, k) \in Actions /\ Results(Val(u, k), k) = Results(par, k)
        BY <3>3, ValIsAction DEF Good, Out
      <4>2. CASE Passes(k, hv)
        <5>1. Out(Cond(o, hv, m, u), k) = Results(Demod(hv, Val(u, k)), k)
          BY <3>4, <3>5, <3>6, <4>1, <4>2 DEF Out
        <5> QED
          BY <3>2, <4>1, <4>2, <5>1, DemodIs
      <4>3. CASE ~ Passes(k, hv)
        BY <3>6, <4>1, <4>3 DEF Out
      <4> QED
        BY <4>2, <4>3
    <3> QED
      BY <3>1, <3>6, <3>7 DEF u, m
  <2> QED
    BY <2>2, <2>3
<1>2. \A x \in DedupDomain : DedupRank(x) \in Nat
  BY DedupDescends DEF Dedups!Descends
<1>3. DedupDomain \subseteq S
  <2> HIDE DEF S
  <2> QED
    BY <1>1, <1>2, Dedups!RankInduces
<1>4. <<o, par, Harmful(par)>> \in DedupDomain
  BY <1>0, ModificationsAreTests DEF DedupDomain
<1>5. P(G[Harmful(par)])
  BY <1>3, <1>4
<1> QED
  BY <1>0, <1>5, DedupUnfolds

\* dedup keeps diagrams ordered, and what they make of packets.
THEOREM DedupIs ==
  ASSUME NEW o, IsOrder(o), NEW u, Good(o, u)
  PROVE  /\ Good(o, Dedup(o, u))
         /\ \A k \in AllPackets : Out(Dedup(o, u), k) = Out(u, k)
<1> DEFINE g == [par \in Actions |-> DedupLeaf(o, par)]
<1>1. g \in DiagramMaps /\ \A par \in Actions : g[par] = DedupLeaf(o, par) /\ Good(o, g[par])
  BY DedupLeafIs DEF DiagramMaps, Good
<1>2. Dedup(o, u) = MapCond(o, g, u)
  BY DEF Dedup
<1> HIDE DEF g
<1>3. /\ Good(o, Dedup(o, u))
      /\ \A k \in AllPackets : Val(Dedup(o, u), k) = Val(g[Val(u, k)], k)
  BY <1>1, <1>2, MapCondIs DEF Good
<1>4. ASSUME NEW k \in AllPackets PROVE Out(Dedup(o, u), k) = Out(u, k)
  <2> DEFINE a == Val(u, k)
  <2>1. a \in Actions
    BY ValIsAction DEF Good
  <2>2. Out(DedupLeaf(o, a), k) = Results(a, k)
    BY <2>1, DedupLeafIs
  <2>3. Val(Dedup(o, u), k) = Val(DedupLeaf(o, a), k)
    BY <1>1, <1>3, <2>1
  <2> QED
    BY <2>2, <2>3 DEF Out
<1> QED
  BY <1>3, <1>4

---------------------------------------------------------------------------
(* The interpreter, and the specification. *)

\* The interpreter of diagrams ends at the leaf that the packet's tests lead to.
LEMMA EvalToActionIs ==
  ASSUME NEW o, IsOrder(o), NEW u, Good(o, u), NEW k \in AllPackets
  PROVE  IsLeaf(EvalToAction(o, k, u)) /\ EvalToAction(o, k, u).leaf = Val(u, k)
<1> DEFINE hvs == {<<f, k[f]>> : f \in Fields}
           r == EvalToAction(o, k, u)
<1>1. \A hv \in hvs : hv[1] \in Fields /\ hv[2] = k[hv[1]]
  OBVIOUS
<1>2. hvs \in HeaderSets
  <2>1. ASSUME NEW hv \in hvs PROVE hv \in Headers
    <3>1. PICK f \in Fields : hv = <<f, k[f]>>
      OBVIOUS
    <3>2. k[f] \in {x[2] : x \in Modifications} \cup {Absent}
      BY PacketIs
    <3> QED
      BY <3>1, <3>2 DEF Headers
  <2> QED
    BY <2>1 DEF HeaderSets
<1>3. \A f \in Fields : f \in FieldsOf(hvs) /\ \E hv \in hvs : hv[1] = f
  <2>1. ASSUME NEW f \in Fields PROVE \E hv \in hvs : hv[1] = f
    <3>1. <<f, k[f]>> \in hvs /\ <<f, k[f]>>[1] = f
      OBVIOUS
    <3> QED
      BY <3>1
  <2> HIDE DEF hvs
  <2> QED
    BY <2>1 DEF FieldsOf
<1>4. r = RestrictTo(o, hvs, u)
  BY DEF EvalToAction
<1> HIDE DEF hvs, r
<1>5. IsLeaf(r) /\ r \in Diagrams
  <2>1. Good(o, r) /\ (IsLeaf(r) \/ r.test[1] \notin FieldsOf(hvs))
    BY <1>2, <1>4, RestrictGood
  <2>2. ~ IsLeaf(r) => r.test[1] \in Fields
    BY <2>1, GoodParts, TestParts
  <2> QED
    BY <1>3, <2>1, <2>2 DEF Good
<1>6. SeesBelow(o, hvs, k, k, u)
  BY <1>1, <1>3, TestParts DEF SeesBelow, Sees, Passes
<1>7. Val(r, k) = Val(u, k)
  BY <1>2, <1>4, <1>6, RestrictVal
<1> QED
  BY <1>5, <1>7, ValIs DEF r

\* What holds of the compiler's state: it is one of the order, and the diagram one of
\* that order.
IndInv == IsOrder(order) /\ Good(order, diagram) /\ means \in [Packets -> SUBSET Packets]

\* The diagram makes of each packet what the policy makes of it.
Meaning == \A k \in Packets : Out(diagram, k) = means[k]

\* The policies of the model make packets of the model.
LEMMA PoliciesStay ==
  ASSUME NEW p \in Policies \cup Parts
  PROVE  /\ p \in Pols /\ Packets \subseteq AllPackets
         /\ Eval(p) \in [AllPackets -> SUBSET AllPackets]
         /\ \A k \in Packets : Eval(p)[k] \subseteq Packets
<1>1. p \in Pols /\ Packets \subseteq AllPackets /\ \A k \in Packets : Eval(p)[k] \subseteq Packets
  BY ConstantsAreTyped
<1> QED
  BY <1>1, EvalIs

\* The diagram of False is for the policy that drops every packet.
LEMMA InitHolds == Init => IndInv /\ (SomeBits => Meaning)
<1> SUFFICES ASSUME Init PROVE IndInv /\ (SomeBits => Meaning)
  OBVIOUS
<1>1. order = DefaultOrder /\ IsOrder(DefaultOrder) /\ Packets \subseteq AllPackets
  BY ConstantsAreTyped DEF Init
<1>2. False \in Preds /\ False.op = "false"
  <2>1. False \in AtomicPreds /\ False.op = "false"
    BY DEF AtomicPreds, False
  <2>2. predsUpTo[0] \subseteq predsUpTo[MaxDepth]
    BY WidthIsPositive, PredLevelsGrow
  <2> QED
    BY <2>1, <2>2, PredLevelsUnfold DEF Preds
<1>3. diagram = Drop
  BY <1>1, <1>2, OfPredUnfolds DEF Init, IsOrder, Ranks
<1>4. means = [k \in Packets |-> {}]
  BY DEF Init
<1> QED
  BY <1>1, <1>3, <1>4, DropIs DEF IndInv, Meaning

\* compile_local establishes the invariant.
LEMMA CompileKeeps ==
  ASSUME IndInv, NEW p \in Pushed, CompileLocal(p)
  PROVE  IndInv' /\ (SomeBits => Meaning')
<1> DEFINE u == OfLocalPol(order', p)
<1>1. /\ p \in Pols /\ Packets \subseteq AllPackets
      /\ Eval(p) \in [AllPackets -> SUBSET AllPackets]
      /\ \A k \in Packets : Eval(p)[k] \subseteq Packets
  BY PoliciesStay DEF Pushed
<1>2. IsOrder(order')
  BY ConstantsAreTyped DEF CompileLocal
<1>3. Good(order', u) /\ (SomeBits => \A k \in AllPackets : Out(u, k) = Eval(p)[k])
  BY <1>1, <1>2, OfPolIs
<1>4. diagram' = u /\ means' = [k \in Packets |-> Eval(p)[k]]
  BY DEF CompileLocal
<1> HIDE DEF u
<1>5. IndInv'
  BY <1>1, <1>2, <1>3, <1>4 DEF IndInv
<1>6. SomeBits => Meaning'
  BY <1>1, <1>3, <1>4 DEF Meaning
<1> QED
  BY <1>5, <1>6

\* union keeps the invariant.
LEMMA UnionKeeps ==
  ASSUME IndInv, SomeBits => Meaning, NEW p \in Added, UnionWith(p)
  PROVE  IndInv' /\ (SomeBits => Meaning')
<1> DEFINE o == order
           u == OfLocalPol(o, p)
<1>1. /\ p \in Pols /\ Packets \subseteq AllPackets
      /\ Eval(p) \in [AllPackets -> SUBSET AllPackets]
      /\ \A k \in Packets : Eval(p)[k] \subseteq Packets
  BY PoliciesStay DEF Added
<1>2. IsOrder(o) /\ Good(o, diagram) /\ means \in [Packets -> SUBSET Packets]
  BY DEF IndInv
<1>3. Good(o, u) /\ (SomeBits => \A k \in AllPackets : Out(u, k) = Eval(p)[k])
  BY <1>1, <1>2, OfPolIs
<1>4. diagram' = Sum(o, diagram, u) /\ order' = o /\ means' = [k \in Packets |-> means[k] \cup Eval(p)[k]]
  BY DEF UnionWith
<1> HIDE DEF o, u
<1>5. Good(o, diagram') /\ \A k \in AllPackets : Out(diagram', k) = Out(diagram, k) \cup Out(u, k)
  BY <1>2, <1>3, <1>4, SumMakes
<1>6. IndInv'
  BY <1>1, <1>2, <1>4, <1>5 DEF IndInv
<1>7. SomeBits => Meaning'
  BY <1>1, <1>3, <1>4, <1>5 DEF Meaning
<1> QED
  BY <1>6, <1>7

\* seq keeps the invariant.
LEMMA SeqKeeps ==
  ASSUME IndInv, SomeBits => Meaning, NEW p \in Added, SeqWith(p)
  PROVE  IndInv' /\ (SomeBits => Meaning')
<1> DEFINE o == order
           u == OfLocalPol(o, p)
<1>1. /\ p \in Pols /\ Packets \subseteq AllPackets
      /\ Eval(p) \in [AllPackets -> SUBSET AllPackets]
      /\ \A k \in Packets : Eval(p)[k] \subseteq Packets
  BY PoliciesStay DEF Added
<1>2. IsOrder(o) /\ Good(o, diagram) /\ means \in [Packets -> SUBSET Packets]
  BY DEF IndInv
<1>3. Good(o, u) /\ (SomeBits => \A k \in AllPackets : Out(u, k) = Eval(p)[k])
  BY <1>1, <1>2, OfPolIs
<1>4. /\ diagram' = SeqComp(o, diagram, u) /\ order' = o
      /\ means' = [k \in Packets |-> UNION {Eval(p)[j] : j \in means[k]}]
  BY DEF SeqWith
<1> HIDE DEF o, u
<1>5. Good(o, diagram') /\ \A k \in AllPackets : Out(diagram', k) = UNION {Out(u, j) : j \in Out(diagram, k)}
  BY <1>2, <1>3, <1>4, SeqCompIs
<1>6. IndInv'
  <2>1. ASSUME NEW k \in Packets PROVE UNION {Eval(p)[j] : j \in means[k]} \subseteq Packets
    BY <1>1, <1>2
  <2>2. means' \in [Packets -> SUBSET Packets]
    BY <1>4, <2>1
  <2> QED
    BY <1>2, <1>4, <1>5, <2>2 DEF IndInv
<1>7. ASSUME SomeBits, NEW k \in Packets PROVE Out(diagram', k) = means'[k]
  <2>1. Out(diagram, k) = means[k] /\ means[k] \subseteq AllPackets
    BY <1>1, <1>2, <1>7 DEF Meaning
  <2>2. \A j \in means[k] : Out(u, j) = Eval(p)[j]
    BY <1>3, <1>7, <2>1
  <2>3. UNION {Out(u, j) : j \in means[k]} = UNION {Eval(p)[j] : j \in means[k]}
    BY <2>2
  <2> QED
    BY <1>1, <1>4, <1>5, <2>1, <2>3
<1> QED
  BY <1>6, <1>7 DEF Meaning

\* star keeps the invariant.
LEMMA StarKeeps ==
  ASSUME IndInv, SomeBits => Meaning, StarOf
  PROVE  IndInv' /\ (SomeBits => Meaning')
<1> DEFINE o == order
<1>1. IsOrder(o) /\ Good(o, diagram) /\ means \in [Packets -> SUBSET Packets]
  BY DEF IndInv
<1>2. diagram' = StarComp(o, diagram) /\ order' = o /\ means' = [k \in Packets |-> Rounds(means, {k})]
  BY DEF StarOf
<1>3. Packets \in SUBSET AllPackets
  BY ConstantsAreTyped
<1> HIDE DEF o
<1>4. Good(o, diagram') /\ \A k \in AllPackets : IsClosure(Effect(diagram), {k}, Out(diagram', k))
  BY <1>1, <1>2, StarIs
<1>5. ASSUME NEW k \in Packets
      PROVE  IsClosure(means, {k}, Rounds(means, {k})) /\ Rounds(means, {k}) \subseteq Packets
  <2>1. {k} \in SUBSET Packets
    OBVIOUS
  <2> QED
    BY <1>1, <1>3, <2>1, RoundsAre
<1>6. IndInv'
  BY <1>1, <1>2, <1>4, <1>5 DEF IndInv
<1>7. ASSUME SomeBits, NEW k \in Packets PROVE Out(diagram', k) = means'[k]
  <2>1. \A j \in Packets : Effect(diagram)[j] = means[j]
    BY <1>3, <1>7 DEF Effect, Meaning
  <2>2. Closed(Effect(diagram), Packets)
    BY <1>1, <2>1 DEF Closed
  <2>3. Out(diagram', k) = Rounds(means, {k})
    <3>1. IsClosure(Effect(diagram), {k}, Out(diagram', k)) /\ {k} \subseteq Packets
      BY <1>3, <1>4
    <3> QED
      BY <1>5, <2>1, <2>2, <3>1, ClosuresAgree
  <2> QED
    BY <1>2, <2>3
<1> QED
  BY <1>6, <1>7 DEF Meaning

\* Every step keeps the invariant.
LEMMA StepKeeps ==
  ASSUME IndInv, SomeBits => Meaning, [Next]_vars
  PROVE  IndInv' /\ (SomeBits => Meaning')
<1>1. CASE \E p \in Pushed : CompileLocal(p)
  BY <1>1, CompileKeeps
<1>2. CASE \E p \in Added : UnionWith(p)
  BY <1>2, UnionKeeps
<1>3. CASE \E p \in Added : SeqWith(p)
  BY <1>3, SeqKeeps
<1>4. CASE StarOf
  BY <1>4, StarKeeps
<1>5. CASE UNCHANGED vars
  BY <1>5 DEF vars, IndInv, Meaning
<1> QED
  BY <1>1, <1>2, <1>3, <1>4, <1>5 DEF Next

\* Diagrams are ordered and reduced, also after dedup.
THEOREM DiagramsAreOrdered == Spec => []DiagramIsOrdered
<1> DEFINE Inv == IndInv /\ (SomeBits => Meaning)
<1>1. Init => Inv
  BY InitHolds
<1>2. Inv /\ [Next]_vars => Inv'
  BY StepKeeps
<1>3. Inv => DiagramIsOrdered
  BY DedupIs DEF IndInv, Good, DiagramIsOrdered
<1> QED
  BY <1>1, <1>2, <1>3, PTL DEF Spec

\* The diagram means what the policy means.
THEOREM DiagramsMeanPolicies == ASSUME SomeBits PROVE Spec => []DiagramMeansPolicy
<1> DEFINE Inv == IndInv /\ Meaning
<1>1. Init => Inv
  BY InitHolds
<1>2. Inv /\ [Next]_vars => Inv'
  BY StepKeeps
<1>3. Inv => DiagramMeansPolicy
  <2> SUFFICES ASSUME Inv, NEW k \in Packets
               PROVE  /\ IsLeaf(EvalToAction(order, k, diagram))
                      /\ {Modify(s, k) : s \in EvalToAction(order, k, diagram).leaf} = means[k]
    BY DEF DiagramMeansPolicy
  <2>1. k \in AllPackets
    BY ConstantsAreTyped
  <2>2. /\ IsLeaf(EvalToAction(order, k, diagram))
        /\ EvalToAction(order, k, diagram).leaf = Val(diagram, k)
    BY <2>1, EvalToActionIs DEF IndInv
  <2> QED
    BY <2>2 DEF Meaning, Out, Results
<1> QED
  BY <1>1, <1>2, <1>3, PTL DEF Spec
====
