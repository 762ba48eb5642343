--------------------------- MODULE EvaluationProofs ---------------------------
(***************************************************************************)
(* The theorems about Claims, Response, Resident, Design, Report and       *)
(* Evaluation: what a claim, a crossover, a table row and a marker stand   *)
(* on, which answers are accepted, when the optimized K1 is kept and that  *)
(* the trials of whole designs are balanced, for every number of trials,   *)
(* rounds, samples and sizes and every selection of paths a matrix         *)
(* accepts.                                                                *)
(***************************************************************************)
EXTENDS Evaluation, TLAPS, FiniteSetTheorems, FunctionTheorems, NaturalsInduction, WellFoundedInduction

-----------------------------------------------------------------------------
(* Counting samples *)

\* The samples of s that lie in Z, and their number.
Hits(s, Z) == {i \in DOMAIN s : s[i] \in Z}
Count(s, Z) == Cardinality(Hits(s, Z))

\* What one native process, and what one case, may have measured.
Samples == Seq(Nat) \ {<<>>}
Trials == Seq(Samples) \ {<<>>}

\* A set of natural numbers has a least element.
LEMMA LeastElement ==
  ASSUME NEW S \in SUBSET Nat, S # {}
  PROVE  \E i \in S : \A j \in S : i <= j
<1>1. PICK i \in S : \A j \in S : ~(<<j, i>> \in OpToRel(<, Nat))
  BY WFMin, NatLessThanWellFounded
<1>2. ASSUME NEW j \in S PROVE i <= j
  <2>1. ~(<<j, i>> \in {p \in Nat \X Nat : p[1] < p[2]})
    BY <1>1, <1>2 DEF OpToRel
  <2>2. <<j, i>> \in Nat \X Nat /\ <<j, i>>[1] = j /\ <<j, i>>[2] = i
    OBVIOUS
  <2>3. ~(j < i)
    BY <2>1, <2>2
  <2> QED
    BY <2>3
<1> QED
  BY <1>2

\* A function on 1..n, n not zero, takes a greatest and a least value.
LEMMA Extremes ==
  ASSUME NEW n \in Nat, n > 0, NEW f \in [1..n -> Nat]
  PROVE  /\ \E i \in 1..n : \A j \in 1..n : f[j] <= f[i]
         /\ \E i \in 1..n : \A j \in 1..n : f[i] <= f[j]
<1> DEFINE Top(m) == \E i \in 1..m : \A j \in 1..m : f[j] <= f[i]
           Bad == {m \in 1..n : ~Top(m)}
<1>1. Bad = {}
  <2>1. SUFFICES ASSUME Bad # {} PROVE FALSE
    OBVIOUS
  <2>2. Bad \in SUBSET Nat
    OBVIOUS
  <2> HIDE DEF Bad
  <2>3. PICK m \in Bad : \A k \in Bad : m <= k
    BY <2>1, <2>2, LeastElement
  <2>4. m \in 1..n /\ ~Top(m)
    BY DEF Bad
  <2>5. m # 1
    <3>1. Top(1)
      OBVIOUS
    <3> QED
      BY <2>4, <3>1
  <2>6. m - 1 \in 1..n /\ Top(m - 1)
    <3>1. m - 1 \in 1..n /\ m - 1 \notin Bad
      BY <2>3, <2>4, <2>5, <2>2
    <3> QED
      BY <3>1 DEF Bad
  <2>7. PICK i \in 1..(m - 1) : \A j \in 1..(m - 1) : f[j] <= f[i]
    BY <2>6
  <2>8. f[i] \in Nat /\ f[m] \in Nat
    BY <2>4, <2>6
  <2>9. CASE f[m] <= f[i]
    <3>1. i \in 1..m /\ \A j \in 1..m : f[j] <= f[i]
      BY <2>4, <2>6, <2>7, <2>9
    <3> QED
      BY <3>1, <2>4
  <2>10. CASE f[i] <= f[m]
    <3>1. ASSUME NEW j \in 1..m PROVE f[j] <= f[m]
      <4>1. CASE j = m
        BY <4>1, <2>8
      <4>2. CASE j \in 1..(m - 1)
        <5>1. f[j] <= f[i] /\ f[j] \in Nat
          BY <4>2, <2>7, <2>4
        <5> QED
          BY <5>1, <2>8, <2>10
      <4> QED
        BY <2>4, <4>1, <4>2
    <3>2. m \in 1..m
      BY <2>4
    <3> QED
      BY <3>1, <3>2, <2>4
  <2> QED
    BY <2>8, <2>9, <2>10
<1>2. Top(n)
  <2>1. n \in 1..n
    OBVIOUS
  <2> QED
    BY <1>1, <2>1
<1>3. \E i \in 1..n : \A j \in 1..n : f[i] <= f[j]
  <2> DEFINE V == {f[j] : j \in 1..n}
  <2>1. V \in SUBSET Nat /\ V # {}
    <3>1. 1 \in 1..n
      OBVIOUS
    <3> QED
      BY <3>1
  <2> HIDE DEF V
  <2>2. PICK v \in V : \A w \in V : v <= w
    BY <2>1, LeastElement
  <2> QED
    BY <2>2 DEF V
<1> QED
  BY <1>2, <1>3

\* Counting is bounded, monotonic, and a set and the rest share the samples.
LEMMA CountFacts ==
  ASSUME NEW s \in Seq(Nat), NEW Z
  PROVE  /\ IsFiniteSet(Hits(s, Z))
         /\ Count(s, Z) \in Nat /\ Count(s, Z) <= Len(s)
         /\ \A W : Z \subseteq W => Count(s, Z) <= Count(s, W)
         /\ Count(s, Z) + Count(s, Nat \ Z) = Len(s)
<1>0. DOMAIN s = 1..Len(s) /\ Len(s) \in Nat
  OBVIOUS
<1>1. IsFiniteSet(1..Len(s)) /\ Cardinality(1..Len(s)) = Len(s)
  <2>1. Cardinality(1..Len(s)) = IF 1 > Len(s) THEN 0 ELSE Len(s) - 1 + 1
    BY <1>0, FS_Interval
  <2>2. IsFiniteSet(1..Len(s))
    BY <1>0, FS_Interval
  <2> QED
    BY <1>0, <2>1, <2>2
<1>2. ASSUME NEW W PROVE /\ IsFiniteSet(Hits(s, W)) /\ Count(s, W) \in Nat /\ Count(s, W) <= Len(s)
  <2>1. Hits(s, W) \subseteq 1..Len(s)
    BY <1>0 DEF Hits
  <2>2. IsFiniteSet(Hits(s, W)) /\ Cardinality(Hits(s, W)) <= Len(s)
    BY <1>1, <2>1, FS_Subset
  <2>3. Cardinality(Hits(s, W)) \in Nat
    BY <2>2, FS_CardinalityType
  <2> QED
    BY <2>2, <2>3 DEF Count
<1>3. ASSUME NEW W, Z \subseteq W PROVE Count(s, Z) <= Count(s, W)
  <2>1. Hits(s, Z) \in SUBSET Hits(s, W)
    BY <1>3 DEF Hits
  <2>2. IsFiniteSet(Hits(s, W))
    BY <1>2
  <2>3. Cardinality(Hits(s, Z)) <= Cardinality(Hits(s, W))
    BY <2>1, <2>2, FS_Subset
  <2> QED
    BY <2>3 DEF Count
<1>4. Count(s, Z) + Count(s, Nat \ Z) = Len(s)
  <2>1. Hits(s, Z) \cup Hits(s, Nat \ Z) = 1..Len(s)
    BY <1>0 DEF Hits
  <2>2. Hits(s, Z) \cap Hits(s, Nat \ Z) = {}
    BY DEF Hits
  <2>3. Cardinality({}) = 0
    BY FS_EmptySet
  <2>4. Cardinality(Hits(s, Z) \cup Hits(s, Nat \ Z))
          = Cardinality(Hits(s, Z)) + Cardinality(Hits(s, Nat \ Z))
            - Cardinality(Hits(s, Z) \cap Hits(s, Nat \ Z))
    BY <1>2, FS_Union
  <2>5. Len(s) = Count(s, Z) + Count(s, Nat \ Z) - 0
    BY <1>1, <2>1, <2>2, <2>3, <2>4 DEF Count
  <2> QED
    BY <1>2, <2>5
<1> QED
  BY <1>2, <1>3, <1>4

\* Counting in two sequences one after the other.
LEMMA CountConcat ==
  ASSUME NEW s \in Seq(Nat), NEW t \in Seq(Nat), NEW Z
  PROVE  /\ s \o t \in Seq(Nat) /\ Len(s \o t) = Len(s) + Len(t)
         /\ Count(s \o t, Z) = Count(s, Z) + Count(t, Z)
<1> DEFINE n == Len(s)
           m == Len(t)
           u == s \o t
           Moved == {i \in (n + 1)..(n + m) : t[i - n] \in Z}
           move == [i \in Hits(t, Z) |-> i + n]
<1>0. /\ n \in Nat /\ m \in Nat /\ u \in Seq(Nat) /\ Len(u) = n + m
      /\ DOMAIN s = 1..n /\ DOMAIN t = 1..m /\ DOMAIN u = 1..(n + m)
  OBVIOUS
<1>1. /\ \A i \in 1..n : u[i] = s[i]
      /\ \A i \in (n + 1)..(n + m) : u[i] = t[i - n]
  OBVIOUS
<1> HIDE DEF u, n, m
<1>2. Hits(u, Z) = Hits(s, Z) \cup Moved
  BY <1>0, <1>1, SMTT(30) DEF Hits
<1>3. Hits(s, Z) \cap Moved = {}
  BY <1>0 DEF Hits
<1>4. move \in Bijection(Hits(t, Z), Moved)
  <2>1. move \in [Hits(t, Z) -> Moved]
    BY <1>0 DEF Hits
  <2>2. \A i, j \in Hits(t, Z) : move[i] = move[j] => i = j
    BY <1>0 DEF Hits
  <2>3. ASSUME NEW k \in Moved PROVE \E i \in Hits(t, Z) : move[i] = k
    <3>1. k - n \in Hits(t, Z) /\ (k - n) + n = k
      BY <1>0 DEF Hits
    <3> QED
      BY <3>1
  <2> HIDE DEF move, Moved
  <2> QED
    BY <2>1, <2>2, <2>3 DEF Bijection, Injection, Surjection, IsInjective
<1> HIDE DEF move, Moved
<1>5. /\ IsFiniteSet(Hits(t, Z)) /\ IsFiniteSet(Hits(s, Z))
      /\ Count(s, Z) \in Nat /\ Count(t, Z) \in Nat
  BY CountFacts
<1>6. IsFiniteSet(Moved) /\ Cardinality(Moved) = Cardinality(Hits(t, Z))
  <2>1. ExistsBijection(Hits(t, Z), Moved)
    BY <1>4 DEF ExistsBijection
  <2> QED
    BY <1>5, <2>1, FS_Bijection
<1>7. Cardinality(Hits(s, Z) \cup Moved)
        = Cardinality(Hits(s, Z)) + Cardinality(Moved) - Cardinality(Hits(s, Z) \cap Moved)
  BY <1>5, <1>6, FS_Union
<1>8. Count(u, Z) = Count(s, Z) + Count(t, Z) - 0
  BY <1>2, <1>3, <1>6, <1>7, FS_EmptySet DEF Count
<1>9. Count(u, Z) = Count(s, Z) + Count(t, Z)
  BY <1>5, <1>8
<1> QED
  BY <1>0, <1>9 DEF u, n, m

\* Smallest is an order statistic: at least k samples are no greater, and less
\* than k are smaller.
LEMMA Rank ==
  ASSUME NEW s \in Samples, NEW k \in 1..Len(s)
  PROVE  /\ Smallest(s, k) \in Nat
         /\ Count(s, 0..Smallest(s, k)) >= k
         /\ Count(s, 0..(Smallest(s, k) - 1)) < k
<1> DEFINE x == Smallest(s, k)
           C == {y \in Range(s) : AtMost(s, y) >= k}
<1>0. /\ s \in Seq(Nat) /\ Len(s) \in Nat /\ Len(s) > 0
      /\ DOMAIN s = 1..Len(s) /\ s \in [1..Len(s) -> Nat]
  BY DEF Samples
<1>1. Range(s) = {s[i] : i \in 1..Len(s)} /\ Range(s) \subseteq Nat
  BY <1>0 DEF Range
<1>2. ASSUME NEW y \in Nat PROVE AtMost(s, y) = Count(s, 0..y)
  <2>1. {i \in DOMAIN s : s[i] <= y} = Hits(s, 0..y)
    BY <1>0 DEF Hits
  <2> QED
    BY <2>1 DEF AtMost, Count
<1>3. C # {}
  <2>1. PICK i \in 1..Len(s) : \A j \in 1..Len(s) : s[j] <= s[i]
    BY <1>0, Extremes
  <2>2. Hits(s, Nat \ 0..s[i]) = {}
    BY <1>0, <2>1 DEF Hits
  <2>3. Count(s, Nat \ 0..s[i]) = 0
    BY <2>2, FS_EmptySet DEF Count
  <2>4. Count(s, 0..s[i]) \in Nat /\ Count(s, 0..s[i]) + Count(s, Nat \ 0..s[i]) = Len(s)
    BY <1>0, CountFacts
  <2>5. Count(s, 0..s[i]) >= k
    BY <1>0, <2>3, <2>4
  <2>6. s[i] \in Nat /\ s[i] \in Range(s)
    BY <1>0, <1>1
  <2> QED
    BY <1>2, <2>5, <2>6
<1>4. x \in C /\ \A y \in C : x <= y
  <2>1. C \in SUBSET Nat
    BY <1>1
  <2>2. x = Min(C)
    BY DEF Smallest
  <2> HIDE DEF C, x
  <2>3. \E y \in C : \A z \in C : y <= z
    BY <1>3, <2>1, LeastElement
  <2> QED
    BY <2>2, <2>3 DEF Min
<1> HIDE DEF x
<1>5. x \in Nat /\ x \in Range(s) /\ Count(s, 0..x) >= k
  BY <1>1, <1>2, <1>4
<1>6. Count(s, 0..(x - 1)) \in Nat
  BY <1>0, CountFacts
<1>7. SUFFICES ASSUME ~(Count(s, 0..(x - 1)) < k) PROVE FALSE
  BY <1>5 DEF x
<1> DEFINE D == {d \in Nat : \E i \in Hits(s, 0..(x - 1)) : d = x - s[i]}
<1>8. Hits(s, 0..(x - 1)) # {}
  BY <1>6, <1>7, FS_EmptySet DEF Count
<1>9. \A i \in Hits(s, 0..(x - 1)) : i \in 1..Len(s) /\ s[i] \in Nat /\ s[i] < x /\ x - s[i] \in Nat
  BY <1>0, <1>5 DEF Hits
<1>10. D # {} /\ D \in SUBSET Nat
  BY <1>8, <1>9
<1> HIDE DEF D
<1>11. PICK d \in D : \A e \in D : d <= e
  BY <1>10, LeastElement
<1>12. PICK i \in Hits(s, 0..(x - 1)) : d = x - s[i]
  BY DEF D
<1>13. ASSUME NEW j \in Hits(s, 0..(x - 1)) PROVE s[j] <= s[i]
  <2>1. x - s[j] \in D
    BY <1>9 DEF D
  <2>2. x - s[i] <= x - s[j]
    BY <1>11, <1>12, <2>1
  <2> QED
    BY <2>2, <1>5, <1>9
<1>14. Hits(s, 0..(x - 1)) \subseteq Hits(s, 0..s[i])
  BY <1>0, <1>9, <1>13 DEF Hits
<1>15. Count(s, 0..(x - 1)) <= Count(s, 0..s[i]) /\ Count(s, 0..s[i]) \in Nat
  <2>1. IsFiniteSet(Hits(s, 0..s[i])) /\ Count(s, 0..s[i]) \in Nat
    BY <1>0, CountFacts
  <2>2. Hits(s, 0..(x - 1)) \in SUBSET Hits(s, 0..s[i])
    BY <1>14
  <2>3. Cardinality(Hits(s, 0..(x - 1))) <= Cardinality(Hits(s, 0..s[i]))
    BY <2>1, <2>2, FS_Subset
  <2> QED
    BY <2>1, <2>3 DEF Count
<1>16. s[i] \in C
  <2>1. s[i] \in Nat /\ s[i] \in Range(s)
    BY <1>1, <1>9
  <2>2. Count(s, 0..s[i]) >= k
    BY <1>6, <1>7, <1>15
  <2> QED
    BY <1>2, <2>1, <2>2
<1> QED
  BY <1>4, <1>5, <1>9, <1>16

-----------------------------------------------------------------------------
(* Medians *)

Lower(s) == Smallest(s, (Len(s) + 1) \div 2)
Upper(s) == Smallest(s, (Len(s) \div 2) + 1)

\* The two middle samples, by how many samples lie on either side of them.
LEMMA Middle ==
  ASSUME NEW s \in Samples
  PROVE  /\ Lower(s) \in Nat /\ Upper(s) \in Nat /\ Median(s) = Lower(s) + Upper(s)
         /\ 2 * Count(s, 0..Lower(s)) >= Len(s) /\ 2 * Count(s, 0..Upper(s)) > Len(s)
         /\ 2 * Count(s, 0..(Lower(s) - 1)) < Len(s) /\ 2 * Count(s, 0..(Upper(s) - 1)) <= Len(s)
         /\ Lower(s) <= Upper(s)
<1> DEFINE n == Len(s)
           a == (n + 1) \div 2
           b == (n \div 2) + 1
<1>0. s \in Seq(Nat) /\ n \in Nat /\ n > 0
  BY DEF Samples
<1>1. /\ a \in 1..n /\ b \in 1..n /\ 2 * a >= n /\ 2 * a <= n + 1
      /\ 2 * b > n /\ 2 * b <= n + 2 /\ a <= b
  <2> HIDE DEF n
  <2> QED
    BY <1>0
<1> HIDE DEF a, b
<1>2. /\ Lower(s) \in Nat
      /\ Count(s, 0..Lower(s)) >= a /\ Count(s, 0..(Lower(s) - 1)) < a
  BY <1>1, Rank DEF Lower, a
<1>3. /\ Upper(s) \in Nat
      /\ Count(s, 0..Upper(s)) >= b /\ Count(s, 0..(Upper(s) - 1)) < b
  BY <1>1, Rank DEF Upper, b
<1>4. /\ Count(s, 0..Lower(s)) \in Nat /\ Count(s, 0..(Lower(s) - 1)) \in Nat
      /\ Count(s, 0..Upper(s)) \in Nat /\ Count(s, 0..(Upper(s) - 1)) \in Nat
  BY <1>0, CountFacts
<1>5. Lower(s) <= Upper(s)
  <2>1. SUFFICES ASSUME Upper(s) <= Lower(s) - 1 PROVE FALSE
    BY <1>2, <1>3
  <2>2. 0..Upper(s) \subseteq 0..(Lower(s) - 1)
    BY <1>2, <1>3, <2>1
  <2>3. Count(s, 0..Upper(s)) <= Count(s, 0..(Lower(s) - 1))
    BY <1>0, <2>2, CountFacts
  <2> QED
    BY <1>1, <1>2, <1>3, <1>4, <2>3
<1>6. Median(s) = Lower(s) + Upper(s)
  BY DEF Median, Lower, Upper
<1> HIDE DEF n
<1>7. /\ 2 * Count(s, 0..Lower(s)) >= n /\ 2 * Count(s, 0..(Lower(s) - 1)) < n
  BY <1>0, <1>1, <1>2, <1>4
<1>8. /\ 2 * Count(s, 0..Upper(s)) > n /\ 2 * Count(s, 0..(Upper(s) - 1)) <= n
  BY <1>0, <1>1, <1>3, <1>4
<1> QED
  BY <1>2, <1>3, <1>5, <1>6, <1>7, <1>8 DEF n

\* ... and how a count bounds them.
LEMMA MiddleBounds ==
  ASSUME NEW s \in Samples, NEW v \in Nat
  PROVE  /\ 2 * Count(s, 0..v) >= Len(s) => Lower(s) <= v
         /\ 2 * Count(s, 0..v) > Len(s) => Upper(s) <= v
         /\ 2 * Count(s, 0..(v - 1)) < Len(s) => Lower(s) >= v
         /\ 2 * Count(s, 0..(v - 1)) <= Len(s) => Upper(s) >= v
<1>0. s \in Seq(Nat) /\ Len(s) \in Nat
  BY DEF Samples
<1>1. \A z \in Int : Count(s, 0..z) \in Nat
  BY <1>0, CountFacts
<1>2. ASSUME NEW y \in Int, NEW z \in Int, y <= z PROVE Count(s, 0..y) <= Count(s, 0..z)
  <2>1. 0..y \subseteq 0..z
    BY <1>2
  <2> QED
    BY <1>0, <2>1, CountFacts
<1>3. /\ Lower(s) \in Nat /\ Upper(s) \in Nat
      /\ 2 * Count(s, 0..Lower(s)) >= Len(s) /\ 2 * Count(s, 0..Upper(s)) > Len(s)
      /\ 2 * Count(s, 0..(Lower(s) - 1)) < Len(s) /\ 2 * Count(s, 0..(Upper(s) - 1)) <= Len(s)
  BY Middle
<1>4. ASSUME NEW m \in Nat
      PROVE /\ v < m => Count(s, 0..v) <= Count(s, 0..(m - 1))
            /\ m < v => Count(s, 0..m) <= Count(s, 0..(v - 1))
  <2>1. v < m => v \in Int /\ m - 1 \in Int /\ v <= m - 1
    OBVIOUS
  <2>2. m < v => m \in Int /\ v - 1 \in Int /\ m <= v - 1
    OBVIOUS
  <2> QED
    BY <1>2, <2>1, <2>2
<1>5. /\ Count(s, 0..v) \in Nat /\ Count(s, 0..(v - 1)) \in Nat
      /\ Count(s, 0..Lower(s)) \in Nat /\ Count(s, 0..(Lower(s) - 1)) \in Nat
      /\ Count(s, 0..Upper(s)) \in Nat /\ Count(s, 0..(Upper(s) - 1)) \in Nat
  <2>1. v \in Int /\ v - 1 \in Int
    OBVIOUS
  <2>2. /\ Lower(s) \in Int /\ Lower(s) - 1 \in Int /\ Upper(s) \in Int /\ Upper(s) - 1 \in Int
    BY <1>3
  <2> QED
    BY <1>1, <2>1, <2>2
<1>6. /\ v < Lower(s) => Count(s, 0..v) <= Count(s, 0..(Lower(s) - 1))
      /\ Lower(s) < v => Count(s, 0..Lower(s)) <= Count(s, 0..(v - 1))
      /\ v < Upper(s) => Count(s, 0..v) <= Count(s, 0..(Upper(s) - 1))
      /\ Upper(s) < v => Count(s, 0..Upper(s)) <= Count(s, 0..(v - 1))
  BY <1>3, <1>4
<1> DEFINE n == Len(s)
           lo == Lower(s)
           up == Upper(s)
           c == Count(s, 0..v)
           c0 == Count(s, 0..(v - 1))
           l == Count(s, 0..lo)
           l0 == Count(s, 0..(lo - 1))
           u == Count(s, 0..up)
           u0 == Count(s, 0..(up - 1))
<1>7. /\ n \in Nat /\ lo \in Nat /\ up \in Nat /\ c \in Nat /\ c0 \in Nat
      /\ l \in Nat /\ l0 \in Nat /\ u \in Nat /\ u0 \in Nat
      /\ 2 * l >= n /\ 2 * u > n /\ 2 * l0 < n /\ 2 * u0 <= n
  BY <1>0, <1>3, <1>5
<1>8. /\ v < lo => c <= l0
      /\ lo < v => l <= c0
      /\ v < up => c <= u0
      /\ up < v => u <= c0
  BY <1>6
<1> HIDE DEF n, lo, up, c, c0, l, l0, u, u0
<1>9. /\ 2 * c >= n => lo <= v
      /\ 2 * c > n => up <= v
      /\ 2 * c0 < n => lo >= v
      /\ 2 * c0 <= n => up >= v
  BY <1>7, <1>8
<1> QED
  BY <1>9 DEF n, lo, up, c, c0, l, l0, u, u0

\* FlattenSeq puts the parts one after the other; S contains the parts and
\* what they are put together to.
LEMMA Flatten ==
  ASSUME NEW S, \A s \in S, t \in S : s \o t \in S,
         NEW T \in Seq(S) \ {<<>>}
  PROVE  \E f \in [1..Len(T) -> S] :
           /\ f[1] = T[1]
           /\ \A i \in 2..Len(T) : f[i] = f[i - 1] \o T[i]
           /\ FlattenSeq(T) = f[Len(T)]
<1> DEFINE n == Len(T)
           Body(g, m) == [i \in 1..m |-> IF i = 1 THEN T[i] ELSE g[i - 1] \o T[i]]
           Good(m) == \E g \in [1..m -> S] : g = Body(g, m)
           Bad == {m \in 1..n : ~Good(m)}
<1>0. n \in Nat /\ n > 0 /\ \A i \in 1..n : T[i] \in S
  OBVIOUS
<1> HIDE DEF n
<1>2. Bad = {}
  <2>1. SUFFICES ASSUME Bad # {} PROVE FALSE
    OBVIOUS
  <2>2. Bad \in SUBSET Nat
    <3> HIDE DEF Good
    <3> QED
      BY <1>0
  <2> HIDE DEF Bad
  <2>3. PICK m \in Bad : \A k \in Bad : m <= k
    BY <2>1, <2>2, LeastElement
  <2>4. m \in 1..n /\ ~Good(m)
    BY DEF Bad
  <2>5. m # 1
    <3> DEFINE g == [i \in 1..1 |-> T[1]]
    <3>1. g \in [1..1 -> S] /\ g = Body(g, 1)
      BY <1>0
    <3>2. Good(1)
      BY <3>1
    <3> QED
      BY <2>4, <3>2
  <2>6. m - 1 \in 1..n /\ Good(m - 1)
    <3>1. m - 1 \in 1..n /\ m - 1 \notin Bad
      BY <1>0, <2>2, <2>3, <2>4, <2>5
    <3> QED
      BY <3>1 DEF Bad
  <2>7. PICK g \in [1..(m - 1) -> S] : g = Body(g, m - 1)
    BY <2>6
  <2>8. /\ \A i \in 1..(m - 1) : g[i] \in S
        /\ \A i \in 1..(m - 1) : g[i] = IF i = 1 THEN T[i] ELSE g[i - 1] \o T[i]
    BY <2>7
  <2> DEFINE h == [i \in 1..m |-> IF i = m THEN g[m - 1] \o T[m] ELSE g[i]]
  <2>9. h \in [1..m -> S]
    <3>1. g[m - 1] \o T[m] \in S
      BY <1>0, <2>4, <2>6, <2>8
    <3> QED
      BY <1>0, <2>4, <2>6, <2>8, <3>1
  <2>10. ASSUME NEW i \in 1..m PROVE h[i] = IF i = 1 THEN T[i] ELSE h[i - 1] \o T[i]
    <3>1. CASE i = m
      <4>1. m - 1 \in 1..m /\ m - 1 # m /\ m \in 1..m
        BY <1>0, <2>4, <2>6
      <4>2. h[m - 1] = g[m - 1] /\ h[m] = g[m - 1] \o T[m]
        BY <4>1
      <4> QED
        BY <2>5, <3>1, <4>2
    <3>2. CASE i # m
      <4>1. i \in 1..(m - 1)
        BY <1>0, <2>4, <3>2
      <4>2. i # 1 => i - 1 \in 1..m /\ i - 1 # m
        BY <1>0, <2>4, <3>2
      <4>3. h[i] = g[i] /\ (i # 1 => h[i - 1] = g[i - 1])
        BY <3>2, <4>1, <4>2
      <4> QED
        BY <2>8, <4>1, <4>3
    <3> QED
      BY <3>1, <3>2
  <2>11. h = Body(h, m)
    BY <2>9, <2>10
  <2> QED
    BY <2>4, <2>9, <2>11
<1>3. Good(n)
  <2>1. n \in 1..n
    BY <1>0
  <2> HIDE DEF Good
  <2> QED
    BY <1>2, <2>1
<1> DEFINE f == CHOOSE g : g = Body(g, n)
<1>4. f = Body(f, n)
  BY <1>3
<1>5. FlattenSeq(T) = f[n]
  BY <1>0 DEF FlattenSeq, n
<1> HIDE DEF f
<1>6. \A i \in 1..n : f[i] = IF i = 1 THEN T[i] ELSE f[i - 1] \o T[i]
  BY <1>4
<1>7. ASSUME NEW i \in 1..n PROVE f[i] \in S
  <2> DEFINE Out == {j \in 1..n : f[j] \notin S}
  <2>1. SUFFICES ASSUME Out # {} PROVE FALSE
    OBVIOUS
  <2>2. Out \in SUBSET Nat
    BY <1>0
  <2> HIDE DEF Out
  <2>3. PICK m \in Out : \A k \in Out : m <= k
    BY <2>1, <2>2, LeastElement
  <2>4. m \in 1..n /\ f[m] \notin S
    BY DEF Out
  <2>5. m # 1
    BY <1>0, <1>6, <2>4
  <2>6. m - 1 \in 1..n /\ m - 1 \notin Out
    BY <1>0, <2>2, <2>3, <2>4, <2>5
  <2>7. f[m - 1] \in S
    BY <2>6 DEF Out
  <2> QED
    BY <1>0, <1>6, <2>4, <2>5, <2>7
<1>8. f \in [1..n -> S]
  <2>1. DOMAIN f = 1..n /\ f = [i \in 1..n |-> f[i]]
    BY <1>4
  <2> QED
    BY <1>7, <2>1
<1>9. f[1] = T[1] /\ \A i \in 2..n : f[i] = f[i - 1] \o T[i]
  <2>1. 1 \in 1..n /\ \A i \in 2..n : i \in 1..n /\ i # 1
    BY <1>0
  <2> QED
    BY <1>6, <2>1
<1> QED
  BY <1>5, <1>8, <1>9 DEF n

\* The samples of two processes together.
LEMMA SamplesConcat ==
  ASSUME NEW s \in Samples, NEW t \in Samples
  PROVE  s \o t \in Samples
<1>1. s \in Seq(Nat) /\ t \in Seq(Nat) /\ Len(s) \in Nat /\ Len(t) \in Nat /\ Len(s) > 0
  BY DEF Samples
<1>2. s \o t \in Seq(Nat) /\ Len(s \o t) = Len(s) + Len(t)
  BY <1>1, CountConcat
<1>3. s \o t # <<>>
  BY <1>1, <1>2
<1> QED
  BY <1>2, <1>3 DEF Samples

\* If in every trial at least half of the samples lie in Z, then so does half
\* of all samples, and more than half if it is more in one trial.
LEMMA PooledCount ==
  ASSUME NEW T \in Trials, NEW Z,
         \A i \in 1..Len(T) : 2 * Count(T[i], Z) >= Len(T[i])
  PROVE  /\ FlattenSeq(T) \in Samples
         /\ 2 * Count(FlattenSeq(T), Z) >= Len(FlattenSeq(T))
         /\ \A b \in 1..Len(T) : 2 * Count(T[b], Z) > Len(T[b])
              => 2 * Count(FlattenSeq(T), Z) > Len(FlattenSeq(T))
<1> DEFINE n == Len(T)
<1>0. n \in Nat /\ n > 0 /\ \A i \in 1..n : T[i] \in Samples
  BY DEF Trials
<1>1. PICK f \in [1..n -> Samples] :
        /\ f[1] = T[1]
        /\ \A i \in 2..n : f[i] = f[i - 1] \o T[i]
        /\ FlattenSeq(T) = f[n]
  <2>1. T \in Seq(Samples) \ {<<>>} /\ \A s \in Samples, t \in Samples : s \o t \in Samples
    BY SamplesConcat DEF Trials
  <2> QED
    BY <2>1, Flatten
<1>2. \A i \in 1..n : 2 * Count(T[i], Z) >= Len(T[i])
  OBVIOUS
<1> HIDE DEF n
<1>3. ASSUME NEW s \in Samples PROVE s \in Seq(Nat) /\ Count(s, Z) \in Nat /\ Len(s) \in Nat
  <2>1. s \in Seq(Nat) /\ Len(s) \in Nat
    BY DEF Samples
  <2>2. Count(s, Z) \in Nat
    BY <2>1, CountFacts
  <2> QED
    BY <2>1, <2>2
<1>4. ASSUME NEW i \in 2..n
      PROVE  /\ Count(f[i], Z) = Count(f[i - 1], Z) + Count(T[i], Z)
             /\ Len(f[i]) = Len(f[i - 1]) + Len(T[i])
             /\ Count(f[i - 1], Z) \in Nat /\ Count(T[i], Z) \in Nat
             /\ Len(f[i - 1]) \in Nat /\ Len(T[i]) \in Nat
  <2>1. i - 1 \in 1..n /\ i \in 1..n
    BY <1>0
  <2>2. f[i - 1] \in Samples /\ T[i] \in Samples /\ f[i] = f[i - 1] \o T[i]
    BY <1>0, <1>1, <2>1
  <2>3. /\ f[i - 1] \in Seq(Nat) /\ T[i] \in Seq(Nat)
        /\ Count(f[i - 1], Z) \in Nat /\ Count(T[i], Z) \in Nat
        /\ Len(f[i - 1]) \in Nat /\ Len(T[i]) \in Nat
    BY <1>3, <2>2
  <2>4. /\ Len(f[i - 1] \o T[i]) = Len(f[i - 1]) + Len(T[i])
        /\ Count(f[i - 1] \o T[i], Z) = Count(f[i - 1], Z) + Count(T[i], Z)
    BY <2>3, CountConcat
  <2> QED
    BY <2>2, <2>3, <2>4
<1>5. ASSUME NEW b \in 1..n, NEW strict \in BOOLEAN,
             strict => 2 * Count(T[b], Z) > Len(T[b])
      PROVE  /\ 2 * Count(f[n], Z) >= Len(f[n])
             /\ strict => 2 * Count(f[n], Z) > Len(f[n])
  <2> DEFINE Holds(i) == /\ 2 * Count(f[i], Z) >= Len(f[i])
                         /\ strict /\ b <= i => 2 * Count(f[i], Z) > Len(f[i])
             Bad == {i \in 1..n : ~Holds(i)}
  <2>1. SUFFICES ASSUME Bad # {} PROVE FALSE
    <3>1. n \in 1..n /\ b <= n
      BY <1>0
    <3>2. Bad = {} => Holds(n)
      BY <3>1
    <3> QED
      BY <3>1, <3>2
  <2>2. Bad \in SUBSET Nat
    <3> HIDE DEF Holds
    <3> QED
      BY <1>0
  <2> HIDE DEF Bad
  <2>3. PICK m \in Bad : \A k \in Bad : m <= k
    BY <2>1, <2>2, LeastElement
  <2>4. m \in 1..n /\ ~Holds(m)
    BY DEF Bad
  <2>5. m # 1
    <3>1. b <= 1 => b = 1
      BY <1>0
    <3>2. Holds(1)
      BY <1>0, <1>1, <1>2, <1>5, <3>1
    <3> QED
      BY <2>4, <3>2
  <2>6. m - 1 \in 1..n /\ m \in 2..n /\ Holds(m - 1)
    <3>1. m - 1 \in 1..n /\ m \in 2..n /\ m - 1 \notin Bad
      BY <1>0, <2>2, <2>3, <2>4, <2>5
    <3> HIDE DEF Holds
    <3> QED
      BY <3>1 DEF Bad
  <2> DEFINE c == Count(f[m - 1], Z)
             d == Count(T[m], Z)
             x == Len(f[m - 1])
             y == Len(T[m])
  <2>7. /\ Count(f[m], Z) = c + d /\ Len(f[m]) = x + y
        /\ c \in Nat /\ d \in Nat /\ x \in Nat /\ y \in Nat
    BY <1>4, <2>6
  <2>8. 2 * c >= x /\ 2 * d >= y
    BY <1>2, <2>6
  <2>9. /\ strict /\ b <= m - 1 => 2 * c > x
        /\ strict /\ b = m => 2 * d > y
    BY <1>5, <2>6
  <2> HIDE DEF c, d, x, y
  <2>10. b <= m => b <= m - 1 \/ b = m
    BY <1>0, <2>4
  <2>11. 2 * (c + d) >= x + y /\ (strict /\ b <= m => 2 * (c + d) > x + y)
    BY <2>7, <2>8, <2>9, <2>10
  <2> QED
    BY <2>4, <2>7, <2>11
<1>6. f[n] \in Samples
  BY <1>0, <1>1
<1>7. 2 * Count(f[n], Z) >= Len(f[n])
  <2>1. 1 \in 1..n /\ FALSE \in BOOLEAN
    BY <1>0
  <2> QED
    BY <1>5, <2>1
<1>8. ASSUME NEW b \in 1..n, 2 * Count(T[b], Z) > Len(T[b]) PROVE 2 * Count(f[n], Z) > Len(f[n])
  <2>1. TRUE \in BOOLEAN
    OBVIOUS
  <2> QED
    BY <1>5, <1>8, <2>1
<1> QED
  BY <1>1, <1>6, <1>7, <1>8 DEF n

\* The pooled median lies between the least and the greatest trial median.
LEMMA PooledMedian ==
  ASSUME NEW T \in Trials
  PROVE  /\ \A i \in 1..Len(T) : Median(T[i]) \in Nat
         /\ Median(FlattenSeq(T)) \in Nat
         /\ \E i \in 1..Len(T) : Median(FlattenSeq(T)) <= Median(T[i])
         /\ \E i \in 1..Len(T) : Median(T[i]) <= Median(FlattenSeq(T))
<1> DEFINE n == Len(T)
           F == FlattenSeq(T)
           lower == [i \in 1..n |-> Lower(T[i])]
           upper == [i \in 1..n |-> Upper(T[i])]
<1>0. n \in Nat /\ n > 0 /\ \A i \in 1..n : T[i] \in Samples /\ T[i] \in Seq(Nat)
  BY DEF Trials, Samples
<1>1. F \in Samples /\ F \in Seq(Nat)
  <2>1. \A i \in 1..n : 2 * Count(T[i], Nat) >= Len(T[i])
    <3> SUFFICES ASSUME NEW i \in 1..n PROVE 2 * Count(T[i], Nat) >= Len(T[i])
      OBVIOUS
    <3>1. T[i] \in Seq(Nat)
      BY <1>0
    <3>2. Hits(T[i], {}) = {}
      BY DEF Hits
    <3>3. /\ Count(T[i], {}) + Count(T[i], Nat \ {}) = Len(T[i])
          /\ Count(T[i], Nat) \in Nat
      BY <3>1, CountFacts
    <3>4. Nat \ {} = Nat /\ Count(T[i], {}) = 0
      BY <3>2, FS_EmptySet DEF Count
    <3>5. Count(T[i], Nat) = Len(T[i]) /\ Count(T[i], Nat) \in Nat
      BY <3>3, <3>4
    <3> QED
      BY <3>5
  <2>2. F \in Samples
    BY <2>1, PooledCount
  <2> QED
    BY <2>2 DEF Samples
<1> HIDE DEF n
<1>2. /\ \A i \in 1..n : /\ lower[i] \in Nat /\ upper[i] \in Nat
                         /\ Median(T[i]) = lower[i] + upper[i] /\ lower[i] <= upper[i]
      /\ Lower(F) \in Nat /\ Upper(F) \in Nat /\ Median(F) = Lower(F) + Upper(F)
  BY <1>0, <1>1, Middle
<1>3. lower \in [1..n -> Nat] /\ upper \in [1..n -> Nat]
  BY <1>2
<1>4. \E b \in 1..n : Lower(F) <= lower[b] /\ Upper(F) <= upper[b]
  <2>1. PICK b \in 1..n : \A i \in 1..n : lower[i] <= lower[b]
    BY <1>0, <1>3, Extremes
  <2>2. lower[b] \in Nat /\ upper[b] \in Nat /\ lower[b] <= upper[b]
    BY <1>2
  <2>3. ASSUME NEW i \in 1..n, NEW v \in Nat, lower[b] <= v PROVE 2 * Count(T[i], 0..v) >= Len(T[i])
    <3>1. lower[i] \in Nat /\ lower[i] <= v
      BY <1>2, <2>1, <2>2, <2>3
    <3>2. 0..lower[i] \subseteq 0..v
      BY <3>1
    <3>3. /\ Count(T[i], 0..lower[i]) <= Count(T[i], 0..v)
          /\ Count(T[i], 0..lower[i]) \in Nat /\ Count(T[i], 0..v) \in Nat /\ Len(T[i]) \in Nat
      <4>1. T[i] \in Seq(Nat) /\ Len(T[i]) \in Nat
        BY <1>0
      <4>2. Count(T[i], 0..lower[i]) \in Nat /\ Count(T[i], 0..v) \in Nat
        BY <4>1, CountFacts
      <4>3. Count(T[i], 0..lower[i]) <= Count(T[i], 0..v)
        <5> HIDE DEF lower
        <5> QED
          BY <4>1, <3>2, CountFacts
      <4> QED
        BY <4>1, <4>2, <4>3
    <3>4. 2 * Count(T[i], 0..lower[i]) >= Len(T[i])
      BY <1>0, Middle
    <3> QED
      BY <3>3, <3>4
  <2>4. 2 * Count(F, 0..lower[b]) >= Len(F)
    <3>1. \A i \in 1..n : 2 * Count(T[i], 0..lower[b]) >= Len(T[i])
      BY <2>2, <2>3
    <3> QED
      BY <3>1, PooledCount DEF n
  <2>5. 2 * Count(F, 0..upper[b]) > Len(F)
    <3>1. \A i \in 1..n : 2 * Count(T[i], 0..upper[b]) >= Len(T[i])
      BY <2>2, <2>3
    <3>2. 2 * Count(T[b], 0..upper[b]) > Len(T[b])
      BY <1>0, Middle
    <3> QED
      BY <3>1, <3>2, PooledCount DEF n
  <2> QED
    BY <1>1, <2>2, <2>4, <2>5, MiddleBounds
<1>5. \E b \in 1..n : Lower(F) >= lower[b] /\ Upper(F) >= upper[b]
  <2>1. PICK b \in 1..n : \A i \in 1..n : upper[b] <= upper[i]
    BY <1>0, <1>3, Extremes
  <2>2. lower[b] \in Nat /\ upper[b] \in Nat /\ lower[b] <= upper[b]
    BY <1>2
  <2>3. ASSUME NEW s \in Samples, NEW v \in Nat
        PROVE  LET Z == Nat \ 0..(v - 1) IN
               /\ 2 * Count(s, 0..(v - 1)) <= Len(s) <=> 2 * Count(s, Z) >= Len(s)
               /\ 2 * Count(s, 0..(v - 1)) < Len(s) <=> 2 * Count(s, Z) > Len(s)
    <3> DEFINE Z == Nat \ 0..(v - 1)
               c == Count(s, 0..(v - 1))
               d == Count(s, Z)
    <3>1. s \in Seq(Nat) /\ Len(s) \in Nat
      BY DEF Samples
    <3>2. c \in Nat /\ d \in Nat /\ c + d = Len(s)
      BY <3>1, CountFacts
    <3> HIDE DEF c, d
    <3>3. (2 * c <= Len(s) <=> 2 * d >= Len(s)) /\ (2 * c < Len(s) <=> 2 * d > Len(s))
      BY <3>1, <3>2
    <3> QED
      BY <3>3 DEF c, d
  <2>4. ASSUME NEW i \in 1..n, NEW v \in Nat, v <= upper[b]
        PROVE  2 * Count(T[i], Nat \ 0..(v - 1)) >= Len(T[i])
    <3>1. upper[i] \in Nat /\ v - 1 <= upper[i] - 1
      BY <1>2, <2>1, <2>2, <2>4
    <3>2. 0..(v - 1) \subseteq 0..(upper[i] - 1)
      BY <3>1
    <3>3. /\ Count(T[i], 0..(v - 1)) <= Count(T[i], 0..(upper[i] - 1))
          /\ Count(T[i], 0..(v - 1)) \in Nat /\ Count(T[i], 0..(upper[i] - 1)) \in Nat
          /\ Len(T[i]) \in Nat
      <4>1. T[i] \in Seq(Nat) /\ Len(T[i]) \in Nat
        BY <1>0
      <4>2. Count(T[i], 0..(v - 1)) \in Nat /\ Count(T[i], 0..(upper[i] - 1)) \in Nat
        BY <4>1, CountFacts
      <4>3. Count(T[i], 0..(v - 1)) <= Count(T[i], 0..(upper[i] - 1))
        <5> HIDE DEF upper
        <5> QED
          BY <4>1, <3>2, CountFacts
      <4> QED
        BY <4>1, <4>2, <4>3
    <3>4. 2 * Count(T[i], 0..(upper[i] - 1)) <= Len(T[i])
      BY <1>0, Middle
    <3>5. 2 * Count(T[i], 0..(v - 1)) <= Len(T[i])
      BY <3>3, <3>4
    <3> QED
      BY <1>0, <2>3, <3>5
  <2>5. 2 * Count(F, 0..(upper[b] - 1)) <= Len(F)
    <3>1. \A i \in 1..n : 2 * Count(T[i], Nat \ 0..(upper[b] - 1)) >= Len(T[i])
      <4>1. upper[b] <= upper[b]
        BY <2>2
      <4> HIDE DEF upper
      <4> QED
        BY <2>2, <2>4, <4>1
    <3>2. 2 * Count(F, Nat \ 0..(upper[b] - 1)) >= Len(F)
      BY <3>1, PooledCount DEF n
    <3> QED
      BY <1>1, <2>2, <2>3, <3>2
  <2>6. 2 * Count(F, 0..(lower[b] - 1)) < Len(F)
    <3>1. \A i \in 1..n : 2 * Count(T[i], Nat \ 0..(lower[b] - 1)) >= Len(T[i])
      BY <2>2, <2>4
    <3>2. 2 * Count(T[b], 0..(lower[b] - 1)) < Len(T[b])
      BY <1>0, Middle
    <3>3. 2 * Count(T[b], Nat \ 0..(lower[b] - 1)) > Len(T[b])
      BY <1>0, <2>2, <2>3, <3>2
    <3>4. 2 * Count(F, Nat \ 0..(lower[b] - 1)) > Len(F)
      BY <3>1, <3>3, PooledCount DEF n
    <3> QED
      BY <1>1, <2>2, <2>3, <3>4
  <2> QED
    BY <1>1, <2>2, <2>5, <2>6, MiddleBounds
<1> HIDE DEF lower, upper, F
<1>6. \A i \in 1..n : Median(T[i]) \in Nat
  BY <1>2
<1>7. \E i \in 1..n : Median(F) <= Median(T[i])
  BY <1>2, <1>4
<1>8. \E i \in 1..n : Median(T[i]) <= Median(F)
  BY <1>2, <1>5
<1>9. Median(F) \in Nat
  BY <1>2
<1> QED
  BY <1>6, <1>7, <1>8, <1>9 DEF n, F

\* compute_case_statistics: the least and the greatest trial median are trial
\* medians and bound them all, and the pooled median lies between them.
LEMMA CaseFacts ==
  ASSUME NEW T \in Trials
  PROVE  LET c == CaseStatistics(T) IN
         /\ c # None
         /\ c.low \in Nat /\ c.high \in Nat
         /\ c.median \in Nat /\ c.median = Median(FlattenSeq(T))
         /\ c.low <= c.median /\ c.median <= c.high
         /\ c.stable \in BOOLEAN /\ c.unstableRev2 \in BOOLEAN
         /\ DOMAIN T = 1..Len(T) /\ Len(T) \in Nat /\ Len(T) > 0
         /\ \A i \in 1..Len(T) : /\ Median(T[i]) \in Nat
                                 /\ c.low <= Median(T[i]) /\ Median(T[i]) <= c.high
         /\ \E i \in 1..Len(T) : c.low = Median(T[i])
         /\ \E i \in 1..Len(T) : c.high = Median(T[i])
<1> DEFINE n == Len(T)
           c == CaseStatistics(T)
           medians == [t \in DOMAIN T |-> Median(T[t])]
           pooled == Median(FlattenSeq(T))
<1>0. n \in Nat /\ n > 0 /\ DOMAIN T = 1..n
  BY DEF Trials
<1>1. /\ \A i \in 1..n : Median(T[i]) \in Nat
      /\ pooled \in Nat
      /\ \E i \in 1..n : pooled <= Median(T[i])
      /\ \E i \in 1..n : Median(T[i]) <= pooled
  BY PooledMedian
<1>2. c.median = pooled /\ c.low = Min(Range(medians)) /\ c.high = Max(Range(medians))
  BY DEF CaseStatistics
<1>3. c # None
  <2>1. DOMAIN None = {"none"} /\ DOMAIN c = {"median", "trialMedians", "low", "high", "unstableRev2", "stable"}
    BY DEF None, CaseStatistics
  <2> QED
    BY <2>1
<1>4. c.stable \in BOOLEAN /\ c.unstableRev2 \in BOOLEAN
  BY DEF CaseStatistics
<1> HIDE DEF c, pooled, n
<1>5. medians \in [1..n -> Nat] /\ Range(medians) = {Median(T[i]) : i \in 1..n}
  BY <1>0, <1>1 DEF Range
<1>6. \A i \in 1..n : medians[i] = Median(T[i])
  BY <1>0
<1> HIDE DEF medians
<1>7. /\ \E i \in 1..n : \A j \in 1..n : Median(T[j]) <= Median(T[i])
      /\ \E i \in 1..n : \A j \in 1..n : Median(T[i]) <= Median(T[j])
  BY <1>0, <1>5, <1>6, Extremes
<1>8. c.low \in Range(medians) /\ \A v \in Range(medians) : c.low <= v
  <2>1. \E v \in Range(medians) : \A w \in Range(medians) : v <= w
    BY <1>5, <1>7
  <2> QED
    BY <1>2, <2>1 DEF Min
<1>9. c.high \in Range(medians) /\ \A v \in Range(medians) : v <= c.high
  <2>1. \E v \in Range(medians) : \A w \in Range(medians) : v >= w
    <3>1. PICK i \in 1..n : \A j \in 1..n : Median(T[j]) <= Median(T[i])
      BY <1>7
    <3>2. \A j \in 1..n : Median(T[i]) >= Median(T[j])
      BY <1>1, <3>1
    <3> QED
      BY <1>5, <3>2
  <2>2. c.high \in Range(medians) /\ \A v \in Range(medians) : c.high >= v
    BY <1>2, <2>1 DEF Max
  <2> QED
    BY <1>1, <1>5, <2>2
<1>10. c.low \in Nat /\ c.high \in Nat
  BY <1>1, <1>5, <1>8, <1>9
<1>11. c.low <= c.median /\ c.median <= c.high
  <2>1. PICK i \in 1..n : pooled <= Median(T[i])
    BY <1>1
  <2>2. PICK j \in 1..n : Median(T[j]) <= pooled
    BY <1>1
  <2>3. Median(T[i]) <= c.high /\ c.low <= Median(T[j]) /\ Median(T[i]) \in Nat /\ Median(T[j]) \in Nat
    BY <1>1, <1>5, <1>8, <1>9
  <2> QED
    BY <1>1, <1>2, <1>10, <2>1, <2>2, <2>3
<1>12. /\ \A i \in 1..n : c.low <= Median(T[i]) /\ Median(T[i]) <= c.high
       /\ \E i \in 1..n : c.low = Median(T[i])
       /\ \E i \in 1..n : c.high = Median(T[i])
  BY <1>5, <1>8, <1>9
<1> QED
  BY <1>0, <1>1, <1>2, <1>3, <1>4, <1>10, <1>11, <1>12 DEF c, n, pooled

-----------------------------------------------------------------------------
(* Comparisons *)

\* Every trial of A lies below every trial of B, and takes some time.
Below(A, B) == \A x \in {Median(A[t]) : t \in DOMAIN A}, y \in {Median(B[t]) : t \in DOMAIN B} :
                 0 < x /\ x < y

\* Order of the extremes and order of the trials are the same thing, and the
\* pooled medians follow it.
LEMMA Separation ==
  ASSUME NEW A \in Trials, NEW B \in Trials
  PROVE  /\ Below(A, B) <=> (0 < CaseStatistics(A).low /\ CaseStatistics(A).high < CaseStatistics(B).low)
         /\ Below(A, B) => ~Below(B, A)
         /\ Below(A, B) => /\ 0 < CaseStatistics(A).median
                           /\ CaseStatistics(A).median < CaseStatistics(B).median
                           /\ 0 < CaseStatistics(B).low
<1> DEFINE a == CaseStatistics(A)
           b == CaseStatistics(B)
<1>1. /\ a.low \in Nat /\ a.high \in Nat /\ a.median \in Nat
      /\ a.low <= a.median /\ a.median <= a.high
      /\ DOMAIN A = 1..Len(A)
      /\ \A i \in 1..Len(A) : Median(A[i]) \in Nat /\ a.low <= Median(A[i]) /\ Median(A[i]) <= a.high
      /\ \E i \in 1..Len(A) : a.low = Median(A[i])
      /\ \E i \in 1..Len(A) : a.high = Median(A[i])
  BY CaseFacts
<1>2. /\ b.low \in Nat /\ b.high \in Nat /\ b.median \in Nat
      /\ b.low <= b.median /\ b.median <= b.high
      /\ DOMAIN B = 1..Len(B)
      /\ \A i \in 1..Len(B) : Median(B[i]) \in Nat /\ b.low <= Median(B[i]) /\ Median(B[i]) <= b.high
      /\ \E i \in 1..Len(B) : b.low = Median(B[i])
      /\ \E i \in 1..Len(B) : b.high = Median(B[i])
  BY CaseFacts
<1> HIDE DEF a, b
<1>3. Below(A, B) => 0 < a.low /\ a.high < b.low
  BY <1>1, <1>2 DEF Below
<1>4. 0 < a.low /\ a.high < b.low => Below(A, B)
  <2> SUFFICES ASSUME 0 < a.low, a.high < b.low,
                      NEW i \in DOMAIN A, NEW j \in DOMAIN B
               PROVE  0 < Median(A[i]) /\ Median(A[i]) < Median(B[j])
    BY DEF Below
  <2> QED
    BY <1>1, <1>2
<1>5. Below(B, A) => 0 < b.low /\ b.high < a.low
  BY <1>1, <1>2 DEF Below
<1>6. Below(A, B) => ~Below(B, A)
  BY <1>1, <1>2, <1>3, <1>5
<1>7. Below(A, B) => 0 < a.median /\ a.median < b.median /\ 0 < b.low
  BY <1>1, <1>2, <1>3
<1> QED
  BY <1>3, <1>4, <1>6, <1>7 DEF a, b

\* The directions a comparison may claim.
Directions == {"faster", "slower"}

\* compare_speedup and claim_support: the direction is claimed exactly when
\* the trials are separated and nothing is inverted.
LEMMA ComparedSound ==
  ASSUME NEW A \in Trials, NEW B \in Trials, NEW inversion
  PROVE  LET c == Compared(CaseStatistics(A), CaseStatistics(B), inversion) IN
         /\ c.verdict \in {"faster", "slower", "inconclusive"}
         /\ c.point \in BOOLEAN /\ c.direction \in BOOLEAN
         /\ c.magnitude \in BOOLEAN /\ c.rev2 \in BOOLEAN
         /\ c.direction <=> (~inversion /\ (Below(B, A) \/ Below(A, B)))
         /\ Below(B, A) => c.verdict = "faster"
         /\ Below(A, B) => c.verdict = "slower"
         /\ c.direction => c.point
         /\ c.magnitude \/ c.rev2 => c.direction
<1> DEFINE a == CaseStatistics(A)
           b == CaseStatistics(B)
           s == CompareSpeedup(a, b)
           c == Compared(a, b, inversion)
<1>1. /\ a.low \in Nat /\ a.high \in Nat /\ a.median \in Nat /\ a.low <= a.median /\ a.low <= a.high
      /\ b.low \in Nat /\ b.high \in Nat /\ b.median \in Nat /\ b.low <= b.median /\ b.low <= b.high
  <2>1. /\ a.low \in Nat /\ a.high \in Nat /\ a.median \in Nat /\ a.low <= a.median /\ a.median <= a.high
    BY CaseFacts
  <2>2. /\ b.low \in Nat /\ b.high \in Nat /\ b.median \in Nat /\ b.low <= b.median /\ b.median <= b.high
    BY CaseFacts
  <2> HIDE DEF a, b
  <2> QED
    BY <2>1, <2>2
<1>2. /\ Below(A, B) <=> (0 < a.low /\ a.high < b.low)
      /\ Below(B, A) <=> (0 < b.low /\ b.high < a.low)
  BY Separation
<1> HIDE DEF a, b
<1>3. /\ s.point <=> a.low > 0 /\ b.low > 0 /\ a.median > 0 /\ b.median > 0
      /\ s.point \in BOOLEAN
      /\ s.verdict \in {"faster", "slower", "inconclusive"}
      /\ s.verdict = "faster" <=> (s.point /\ a.low > b.high)
      /\ s.verdict = "slower" <=> (s.point /\ ~(a.low > b.high) /\ a.high < b.low)
  BY DEF CompareSpeedup
<1>4. /\ c.point = s.point /\ c.verdict = s.verdict
      /\ c.direction = (s.verdict # "inconclusive" /\ ~inversion)
      /\ c.magnitude = ((s.verdict # "inconclusive" /\ ~inversion) /\ a.stable /\ b.stable)
      /\ c.rev2 = ((s.verdict # "inconclusive" /\ ~inversion) /\ ~a.unstableRev2 /\ ~b.unstableRev2)
  BY DEF Compared, ClaimSupport, Claim
<1> HIDE DEF s, c
<1>5. s.verdict = "faster" <=> Below(B, A)
  BY <1>1, <1>2, <1>3
<1>6. s.verdict = "slower" <=> Below(A, B)
  BY <1>1, <1>2, <1>3
<1>7. s.verdict # "inconclusive" <=> s.verdict = "faster" \/ s.verdict = "slower"
  BY <1>3
<1> QED
  BY <1>3, <1>4, <1>5, <1>6, <1>7 DEF a, b, s, c

-----------------------------------------------------------------------------
(* Paths *)

KnownPaths ==
  {COMPARATOR, AVX2_COMPARATOR, CUDA_RESIDENT, CUDA_RESIDENT_GRAPH}
  \cup {HostOrigin(policy) : policy \in TRANSFER_POLICIES}
  \cup {CpuGpuOrigin(policy) : policy \in TRANSFER_POLICIES}
  \cup {CudaGpuOrigin(policy) : policy \in TRANSFER_POLICIES}

\* A selection of paths that compare_case_group can work on: with a path come
\* the ones it contains, its baseline and its pageable twin.
Closed(P) ==
  /\ P \subseteq KnownPaths
  /\ COMPARATOR \in P
  /\ CUDA_RESIDENT_GRAPH \in P => CUDA_RESIDENT \in P
  /\ \A policy \in TRANSFER_POLICIES :
       /\ HostOrigin(policy) \in P => {CUDA_RESIDENT, HostOrigin("pageable")} \subseteq P
       /\ CpuGpuOrigin(policy) \in P => CpuGpuOrigin("pageable") \in P
       /\ CudaGpuOrigin(policy) \in P =>
            {CUDA_RESIDENT, CpuGpuOrigin(policy), CudaGpuOrigin("pageable")} \subseteq P

\* The elements of a concatenation are those of its two parts.
LEMMA RangeOfConcat ==
  ASSUME NEW S, NEW s \in Seq(S), NEW t \in Seq(S)
  PROVE  s \o t \in Seq(S) /\ Range(s \o t) = Range(s) \cup Range(t)
<1>1. /\ Len(s) \in Nat /\ Len(t) \in Nat
      /\ DOMAIN s = 1..Len(s) /\ DOMAIN t = 1..Len(t)
      /\ s \o t \in Seq(S) /\ DOMAIN (s \o t) = 1..(Len(s) + Len(t))
  OBVIOUS
<1>2. /\ \A i \in 1..Len(s) : i \in 1..(Len(s) + Len(t)) /\ (s \o t)[i] = s[i]
      /\ \A i \in 1..Len(t) : i + Len(s) \in 1..(Len(s) + Len(t)) /\ (s \o t)[i + Len(s)] = t[i]
  OBVIOUS
<1>3. ASSUME NEW i \in 1..(Len(s) + Len(t))
      PROVE  \/ i \in 1..Len(s) /\ (s \o t)[i] = s[i]
             \/ i - Len(s) \in 1..Len(t) /\ (s \o t)[i] = t[i - Len(s)]
  BY <1>1
<1> DEFINE u == s \o t
<1> HIDE DEF u
<1>4. Range(u) \subseteq Range(s) \cup Range(t)
  BY <1>1, <1>3 DEF Range, u
<1>5. Range(s) \subseteq Range(u)
  BY <1>1, <1>2 DEF Range, u
<1>6. Range(t) \subseteq Range(u)
  BY <1>1, <1>2 DEF Range, u
<1> QED
  BY <1>1, <1>4, <1>5, <1>6 DEF u

\* build_paths, for the arguments it does not refuse.
LEMMA PathsClosed ==
  ASSUME NEW a, ~PathsRefused(a)
  PROVE  Closed(Range(BuildPaths(a))) /\ BuildPaths(a) \in Seq(KnownPaths)
<1> DEFINE avx2 == "cpu-avx2" \in a.backends
           cuda == "cuda" \in a.backends
           pinned == "pinned" \in a.policies
           origin == "gpu-origin" \in a.boundaries
           pair(policy) == <<CpuGpuOrigin(policy), CudaGpuOrigin(policy)>>
           s1 == <<COMPARATOR>>
           s2 == Only(avx2, <<AVX2_COMPARATOR>>)
           s3a == <<CUDA_RESIDENT, CUDA_RESIDENT_GRAPH, HostOrigin("pageable")>>
           s3b == Only(pinned, <<HostOrigin("pinned")>>)
           s3 == Only(cuda, s3a \o s3b)
           s4a == pair("pageable")
           s4b == Only(pinned, pair("pinned"))
           s4 == Only(origin, s4a \o s4b)
<1>1. BuildPaths(a) = ((s1 \o s2) \o s3) \o s4
  BY DEF BuildPaths
<1>2. origin \/ pinned => cuda
  BY DEF PathsRefused
<1> HIDE DEF avx2, cuda, pinned, origin
<1>3. /\ {"pageable", "pinned"} = TRANSFER_POLICIES
      /\ {COMPARATOR, AVX2_COMPARATOR, CUDA_RESIDENT, CUDA_RESIDENT_GRAPH} \subseteq KnownPaths
      /\ \A policy \in TRANSFER_POLICIES :
           {HostOrigin(policy), CpuGpuOrigin(policy), CudaGpuOrigin(policy)} \subseteq KnownPaths
  BY DEF KnownPaths, TRANSFER_POLICIES
<1>4. /\ s1 \in Seq(KnownPaths) /\ Range(s1) = {COMPARATOR}
      /\ s2 \in Seq(KnownPaths) /\ Range(s2) = IF avx2 THEN {AVX2_COMPARATOR} ELSE {}
  BY <1>3 DEF Only, Range
<1>5. /\ s3a \in Seq(KnownPaths)
      /\ Range(s3a) = {CUDA_RESIDENT, CUDA_RESIDENT_GRAPH, HostOrigin("pageable")}
      /\ s3b \in Seq(KnownPaths) /\ Range(s3b) = IF pinned THEN {HostOrigin("pinned")} ELSE {}
  BY <1>3 DEF Only, Range
<1>6. /\ s4a \in Seq(KnownPaths) /\ Range(s4a) = {CpuGpuOrigin("pageable"), CudaGpuOrigin("pageable")}
      /\ s4b \in Seq(KnownPaths)
      /\ Range(s4b) = IF pinned THEN {CpuGpuOrigin("pinned"), CudaGpuOrigin("pinned")} ELSE {}
  BY <1>3 DEF Only, Range
<1> HIDE DEF s1, s2, s3a, s3b, s4a, s4b
<1>7. s3 \in Seq(KnownPaths) /\ Range(s3) = IF cuda THEN Range(s3a) \cup Range(s3b) ELSE {}
  <2>1. s3a \o s3b \in Seq(KnownPaths) /\ Range(s3a \o s3b) = Range(s3a) \cup Range(s3b)
    BY <1>5, RangeOfConcat
  <2>2. <<>> \in Seq(KnownPaths) /\ Range(<<>>) = {}
    BY DEF Range
  <2> QED
    BY <2>1, <2>2 DEF Only
<1>8. s4 \in Seq(KnownPaths) /\ Range(s4) = IF origin THEN Range(s4a) \cup Range(s4b) ELSE {}
  <2>1. s4a \o s4b \in Seq(KnownPaths) /\ Range(s4a \o s4b) = Range(s4a) \cup Range(s4b)
    BY <1>6, RangeOfConcat
  <2>2. <<>> \in Seq(KnownPaths) /\ Range(<<>>) = {}
    BY DEF Range
  <2> QED
    BY <2>1, <2>2 DEF Only
<1> HIDE DEF s3, s4
<1>9. /\ Range(BuildPaths(a)) = ((Range(s1) \cup Range(s2)) \cup Range(s3)) \cup Range(s4)
      /\ BuildPaths(a) \in Seq(KnownPaths)
  <2> DEFINE t == s1 \o s2
             u == t \o s3
  <2>1. t \in Seq(KnownPaths) /\ Range(t) = Range(s1) \cup Range(s2)
    BY <1>4, RangeOfConcat
  <2>2. BuildPaths(a) = u \o s4
    BY <1>1
  <2> HIDE DEF t
  <2>3. s3 \in Seq(KnownPaths) /\ s4 \in Seq(KnownPaths)
    BY <1>7, <1>8
  <2>4. u \in Seq(KnownPaths) /\ Range(u) = Range(t) \cup Range(s3)
    BY <2>1, <2>3, RangeOfConcat
  <2> HIDE DEF u
  <2>5. Range(u \o s4) = Range(u) \cup Range(s4) /\ u \o s4 \in Seq(KnownPaths)
    BY <2>3, <2>4, RangeOfConcat
  <2> QED
    BY <2>1, <2>2, <2>4, <2>5
<1> DEFINE P == Range(BuildPaths(a))
<1> HIDE DEF P
<1>10. P = {COMPARATOR}
            \cup (IF avx2 THEN {AVX2_COMPARATOR} ELSE {})
            \cup (IF cuda THEN {CUDA_RESIDENT, CUDA_RESIDENT_GRAPH, HostOrigin("pageable")}
                               \cup (IF pinned THEN {HostOrigin("pinned")} ELSE {})
                  ELSE {})
            \cup (IF origin THEN {CpuGpuOrigin("pageable"), CudaGpuOrigin("pageable")}
                                 \cup (IF pinned THEN {CpuGpuOrigin("pinned"), CudaGpuOrigin("pinned")}
                                       ELSE {})
                  ELSE {})
  BY <1>4, <1>5, <1>6, <1>7, <1>8, <1>9 DEF P
<1>11. P \subseteq KnownPaths /\ COMPARATOR \in P
  BY <1>3, <1>10
<1>12. \A p \in P : p.backend = "cuda" => cuda
  BY <1>2, <1>10 DEF BenchPath, COMPARATOR, AVX2_COMPARATOR, CpuGpuOrigin
<1>13. CUDA_RESIDENT_GRAPH \in P \/ HostOrigin("pageable") \in P \/ HostOrigin("pinned") \in P
         \/ CudaGpuOrigin("pageable") \in P \/ CudaGpuOrigin("pinned") \in P => cuda
  BY <1>12 DEF BenchPath, CUDA_RESIDENT_GRAPH, HostOrigin, CudaGpuOrigin
<1>14. cuda => CUDA_RESIDENT \in P /\ HostOrigin("pageable") \in P
  BY <1>10
<1>15. \A p \in P : p.boundary = "gpu-origin" => origin
  BY <1>10 DEF BenchPath, COMPARATOR, AVX2_COMPARATOR, CUDA_RESIDENT, CUDA_RESIDENT_GRAPH, HostOrigin
<1>16. \A p \in P : p.policy = "pinned" => pinned
  BY <1>10 DEF BenchPath, COMPARATOR, AVX2_COMPARATOR, CUDA_RESIDENT, CUDA_RESIDENT_GRAPH, HostOrigin,
       CpuGpuOrigin, CudaGpuOrigin
<1>17. \A policy : /\ CpuGpuOrigin(policy).boundary = "gpu-origin" /\ CpuGpuOrigin(policy).policy = policy
                   /\ CudaGpuOrigin(policy).boundary = "gpu-origin" /\ CudaGpuOrigin(policy).policy = policy
  BY DEF BenchPath, CpuGpuOrigin, CudaGpuOrigin
<1>18. origin => /\ CpuGpuOrigin("pageable") \in P /\ CudaGpuOrigin("pageable") \in P
                 /\ pinned => CpuGpuOrigin("pinned") \in P
  BY <1>10
<1>19. ASSUME NEW policy \in TRANSFER_POLICIES
       PROVE /\ HostOrigin(policy) \in P => {CUDA_RESIDENT, HostOrigin("pageable")} \subseteq P
             /\ CpuGpuOrigin(policy) \in P => CpuGpuOrigin("pageable") \in P
             /\ CudaGpuOrigin(policy) \in P =>
                  {CUDA_RESIDENT, CpuGpuOrigin(policy), CudaGpuOrigin("pageable")} \subseteq P
  <2>1. policy = "pageable" \/ policy = "pinned"
    BY DEF TRANSFER_POLICIES
  <2>2. HostOrigin(policy) \in P \/ CudaGpuOrigin(policy) \in P => CUDA_RESIDENT \in P /\ HostOrigin("pageable") \in P
    BY <1>13, <1>14, <2>1
  <2>3. CpuGpuOrigin(policy) \in P \/ CudaGpuOrigin(policy) \in P
          => CpuGpuOrigin("pageable") \in P /\ CudaGpuOrigin("pageable") \in P
    BY <1>15, <1>17, <1>18
  <2>4. CudaGpuOrigin(policy) \in P => CpuGpuOrigin(policy) \in P
    BY <1>15, <1>16, <1>17, <1>18, <2>1
  <2> QED
    BY <2>2, <2>3, <2>4
<1>20. CUDA_RESIDENT_GRAPH \in P => CUDA_RESIDENT \in P
  BY <1>13, <1>14
<1> QED
  BY <1>9, <1>11, <1>19, <1>20 DEF Closed, P

-----------------------------------------------------------------------------
(* Answers and what is expected of them *)

\* What the legality table in C says of a request, and what Python expects.
AsExpected(r) ==
  /\ RequestSupported(r)
  /\ BenchRow(r).boundary = ExpectedBoundary(r)
  /\ BenchRow(r).transfers <=> Transfers(r)
  /\ BenchRow(r).columns \ {"capture"} = RequiredStages(r)
  /\ "capture" \in BenchRow(r).columns <=> ExpectedBoundary(r) = "resident-graph"
  /\ BenchRow(r).step = (IF ExpectedBoundary(r) = "resident-graph" THEN 0 ELSE 1)
  /\ r.policy = "none" \/ Transfers(r)

\* It is enough that the only row a request names agrees with Python.
LEMMA RowAgrees ==
  ASSUME NEW r, NEW row, RowsFor(r) = {row},
         r.backend \in {"cpu", "cpu-avx2", "cuda"},
         r.policy \in {"none", "pinned"}, r.policy = "pinned" => Transfers(r),
         row.boundary = ExpectedBoundary(r),
         row.transfers <=> Transfers(r),
         row.columns \ {"capture"} = RequiredStages(r),
         "capture" \in row.columns <=> ExpectedBoundary(r) = "resident-graph",
         row.step = (IF ExpectedBoundary(r) = "resident-graph" THEN 0 ELSE 1)
  PROVE  AsExpected(r)
<1>1. BenchRow(r) = row
  BY DEF BenchRow
<1>2. RequestSupported(r)
  BY DEF RequestSupported, ExpectedPolicy
<1> QED
  BY <1>1, <1>2 DEF AsExpected

\* Every path of a matrix is requested as the response table has it.
LEMMA RowAsExpected ==
  ASSUME NEW p \in KnownPaths, NEW k1, NEW count, NEW bits, NEW warmups, NEW reps
  PROVE  AsExpected(Request(p, k1, count, bits, warmups, reps))
<1> DEFINE r == Request(p, k1, count, bits, warmups, reps)
<1> SUFFICES AsExpected(r)
  OBVIOUS
<1>1. /\ r.backend = p.backend
      /\ r.boundary = (IF p.boundary \in HOST_BOUNDARIES THEN "none" ELSE p.boundary)
      /\ r.policy = (IF p.policy = "pinned" THEN "pinned" ELSE "none")
  BY DEF Request
<1>2. /\ p.policy \in {"none", "pageable", "pinned"}
      /\ \/ p.backend = "cpu" /\ p.boundary = "comparator" /\ p.policy = "none"
         \/ p.backend = "cpu-avx2" /\ p.boundary = "optimized" /\ p.policy = "none"
         \/ p.backend = "cuda" /\ p.boundary = "resident" /\ p.policy = "none"
         \/ p.backend = "cuda" /\ p.boundary = "resident-graph" /\ p.policy = "none"
         \/ p.backend = "cuda" /\ p.boundary = "host-origin"
         \/ p.backend = "cpu" /\ p.boundary = "gpu-origin"
         \/ p.backend = "cuda" /\ p.boundary = "gpu-origin"
  BY DEF KnownPaths, TRANSFER_POLICIES, COMPARATOR, AVX2_COMPARATOR, CUDA_RESIDENT, CUDA_RESIDENT_GRAPH,
         HostOrigin, CpuGpuOrigin, CudaGpuOrigin, BenchPath
<1> HIDE DEF r
<1>3. \/ r.backend = "cpu" /\ r.boundary = "none" /\ r.policy = "none"
      \/ r.backend = "cpu-avx2" /\ r.boundary = "none" /\ r.policy = "none"
      \/ r.backend = "cuda" /\ r.boundary = "resident" /\ r.policy = "none"
      \/ r.backend = "cuda" /\ r.boundary = "resident-graph" /\ r.policy = "none"
      \/ r.backend = "cuda" /\ r.boundary = "host-origin" /\ r.policy \in {"none", "pinned"}
      \/ r.backend = "cpu" /\ r.boundary = "gpu-origin" /\ r.policy \in {"none", "pinned"}
      \/ r.backend = "cuda" /\ r.boundary = "gpu-origin" /\ r.policy \in {"none", "pinned"}
  BY <1>1, <1>2 DEF HOST_BOUNDARIES
<1>4. CASE r.backend = "cpu" /\ r.boundary = "none" /\ r.policy = "none"
  <2> DEFINE row == Row("cpu", "host-host", {}, FALSE, FALSE, TRUE, 1)
  <2>1. RowsFor(r) = {row}
    BY <1>4 DEF RowsFor, LegalityTable, Row
  <2>2. ExpectedBoundary(r) = "host-host" /\ (Transfers(r) <=> FALSE)
    BY <1>4 DEF ExpectedBoundary, Transfers, CUDA_RESIDENT, BenchPath
  <2>3. row.boundary = "host-host" /\ (row.transfers <=> FALSE) /\ row.step = 1
    BY DEF Row
  <2>4. row.columns \ {"capture"} = RequiredStages(r)
    BY <1>4, <2>2 DEF RequiredStages, KERNEL_COLUMNS, Row
  <2>5. "capture" \in row.columns <=> "host-host" = "resident-graph"
    BY DEF KERNEL_COLUMNS, Row
  <2> HIDE DEF row
  <2>6. row.transfers <=> Transfers(r)
    BY <2>2, <2>3
  <2> QED
    BY <1>4, <2>1, <2>2, <2>3, <2>4, <2>5, <2>6, RowAgrees
<1>5. CASE r.backend = "cpu-avx2" /\ r.boundary = "none" /\ r.policy = "none"
  <2> DEFINE row == Row("cpu-avx2", "host-host", {}, FALSE, FALSE, TRUE, 1)
  <2>1. RowsFor(r) = {row}
    BY <1>5 DEF RowsFor, LegalityTable, Row
  <2>2. ExpectedBoundary(r) = "host-host" /\ (Transfers(r) <=> FALSE)
    BY <1>5 DEF ExpectedBoundary, Transfers, CUDA_RESIDENT, BenchPath
  <2>3. row.boundary = "host-host" /\ (row.transfers <=> FALSE) /\ row.step = 1
    BY DEF Row
  <2>4. row.columns \ {"capture"} = RequiredStages(r)
    BY <1>5, <2>2 DEF RequiredStages, KERNEL_COLUMNS, Row
  <2>5. "capture" \in row.columns <=> "host-host" = "resident-graph"
    BY DEF KERNEL_COLUMNS, Row
  <2> HIDE DEF row
  <2>6. row.transfers <=> Transfers(r)
    BY <2>2, <2>3
  <2> QED
    BY <1>5, <2>1, <2>2, <2>3, <2>4, <2>5, <2>6, RowAgrees
<1>6. CASE r.backend = "cuda" /\ r.boundary = "resident" /\ r.policy = "none"
  <2> DEFINE row == Row("cuda", "resident", KERNEL_COLUMNS, FALSE, TRUE, FALSE, 1)
  <2>1. RowsFor(r) = {row}
    BY <1>6 DEF RowsFor, LegalityTable, Row
  <2>2. ExpectedBoundary(r) = "resident" /\ (Transfers(r) <=> FALSE)
    BY <1>6 DEF ExpectedBoundary, Transfers, CUDA_RESIDENT, BenchPath
  <2>3. row.boundary = "resident" /\ (row.transfers <=> FALSE) /\ row.step = 1
    BY DEF Row
  <2>4. row.columns \ {"capture"} = RequiredStages(r)
    BY <1>6, <2>2 DEF RequiredStages, KERNEL_COLUMNS, Row
  <2>5. "capture" \in row.columns <=> "resident" = "resident-graph"
    BY DEF KERNEL_COLUMNS, Row
  <2> HIDE DEF row
  <2>6. row.transfers <=> Transfers(r)
    BY <2>2, <2>3
  <2> QED
    BY <1>6, <2>1, <2>2, <2>3, <2>4, <2>5, <2>6, RowAgrees
<1>7. CASE r.backend = "cuda" /\ r.boundary = "resident-graph" /\ r.policy = "none"
  <2> DEFINE row == Row("cuda", "resident-graph", {"capture"}, FALSE, TRUE, FALSE, 0)
  <2>1. RowsFor(r) = {row}
    BY <1>7 DEF RowsFor, LegalityTable, Row
  <2>2. ExpectedBoundary(r) = "resident-graph" /\ (Transfers(r) <=> FALSE)
    BY <1>7 DEF ExpectedBoundary, Transfers, CUDA_RESIDENT, BenchPath
  <2>3. row.boundary = "resident-graph" /\ (row.transfers <=> FALSE) /\ row.step = 0
    BY DEF Row
  <2>4. row.columns \ {"capture"} = RequiredStages(r)
    BY <1>7, <2>2 DEF RequiredStages, KERNEL_COLUMNS, Row
  <2>5. "capture" \in row.columns <=> "resident-graph" = "resident-graph"
    BY DEF KERNEL_COLUMNS, Row
  <2> HIDE DEF row
  <2>6. row.transfers <=> Transfers(r)
    BY <2>2, <2>3
  <2> QED
    BY <1>7, <2>1, <2>2, <2>3, <2>4, <2>5, <2>6, RowAgrees
<1>8. CASE r.backend = "cuda" /\ r.boundary = "host-origin" /\ r.policy \in {"none", "pinned"}
  <2> DEFINE row == Row("cuda", "host-origin", KERNEL_COLUMNS \cup {"h2d_ms", "d2h_ms"}, TRUE, TRUE, TRUE, 1)
  <2>1. RowsFor(r) = {row}
    BY <1>8 DEF RowsFor, LegalityTable, Row
  <2>2. ExpectedBoundary(r) = "host-origin" /\ (Transfers(r) <=> TRUE)
    BY <1>8 DEF ExpectedBoundary, Transfers, CUDA_RESIDENT, BenchPath
  <2>3. row.boundary = "host-origin" /\ (row.transfers <=> TRUE) /\ row.step = 1
    BY DEF Row
  <2>4. row.columns \ {"capture"} = RequiredStages(r)
    BY <1>8, <2>2 DEF RequiredStages, KERNEL_COLUMNS, Row
  <2>5. "capture" \in row.columns <=> "host-origin" = "resident-graph"
    BY DEF KERNEL_COLUMNS, Row
  <2> HIDE DEF row
  <2>6. row.transfers <=> Transfers(r)
    BY <2>2, <2>3
  <2> QED
    BY <1>8, <2>1, <2>2, <2>3, <2>4, <2>5, <2>6, RowAgrees
<1>9. CASE r.backend = "cpu" /\ r.boundary = "gpu-origin" /\ r.policy \in {"none", "pinned"}
  <2> DEFINE row == Row("cpu", "gpu-origin", {"d2h_ms", "cpu_ms"}, TRUE, TRUE, FALSE, 1)
  <2>1. RowsFor(r) = {row}
    BY <1>9 DEF RowsFor, LegalityTable, Row
  <2>2. ExpectedBoundary(r) = "gpu-origin" /\ (Transfers(r) <=> TRUE)
    BY <1>9 DEF ExpectedBoundary, Transfers, CUDA_RESIDENT, BenchPath
  <2>3. row.boundary = "gpu-origin" /\ (row.transfers <=> TRUE) /\ row.step = 1
    BY DEF Row
  <2>4. row.columns \ {"capture"} = RequiredStages(r)
    BY <1>9, <2>2 DEF RequiredStages, KERNEL_COLUMNS, Row
  <2>5. "capture" \in row.columns <=> "gpu-origin" = "resident-graph"
    BY DEF KERNEL_COLUMNS, Row
  <2> HIDE DEF row
  <2>6. row.transfers <=> Transfers(r)
    BY <2>2, <2>3
  <2> QED
    BY <1>9, <2>1, <2>2, <2>3, <2>4, <2>5, <2>6, RowAgrees
<1>10. CASE r.backend = "cuda" /\ r.boundary = "gpu-origin" /\ r.policy \in {"none", "pinned"}
  <2> DEFINE row == Row("cuda", "gpu-origin", KERNEL_COLUMNS \cup {"d2h_ms"}, TRUE, TRUE, FALSE, 1)
  <2>1. RowsFor(r) = {row}
    BY <1>10 DEF RowsFor, LegalityTable, Row
  <2>2. ExpectedBoundary(r) = "gpu-origin" /\ (Transfers(r) <=> TRUE)
    BY <1>10 DEF ExpectedBoundary, Transfers, CUDA_RESIDENT, BenchPath
  <2>3. row.boundary = "gpu-origin" /\ (row.transfers <=> TRUE) /\ row.step = 1
    BY DEF Row
  <2>4. row.columns \ {"capture"} = RequiredStages(r)
    BY <1>10, <2>2 DEF RequiredStages, KERNEL_COLUMNS, Row
  <2>5. "capture" \in row.columns <=> "gpu-origin" = "resident-graph"
    BY DEF KERNEL_COLUMNS, Row
  <2> HIDE DEF row
  <2>6. row.transfers <=> Transfers(r)
    BY <2>2, <2>3
  <2> QED
    BY <1>10, <2>1, <2>2, <2>3, <2>4, <2>5, <2>6, RowAgrees
<1> QED
  BY <1>3, <1>4, <1>5, <1>6, <1>7, <1>8, <1>9, <1>10

\* The identifiers of a calibration: the repetitions come first.
LEMMA CalibrationIds ==
  ASSUME NEW index \in 0..2, NEW increment \in {0, 1}
  PROVE  RunInvocationId(0, 1, 2, index, increment)
           = (IF index = 0 THEN 2 ELSE index - 1) * increment
<1>1. W64 \in Nat /\ W64 > 3
  <2>1. W32 \in Nat /\ W32 >= 3 /\ W64 = W32 * W32
    BY WidthAssumption, ResponseAssumption
  <2>2. \A a \in Nat : a >= 3 => a * a \in Nat /\ a * a > 3
    OBVIOUS
  <2> QED
    BY <2>1, <2>2
<1>2. Offset(1, 2, index) = IF index = 0 THEN 2 ELSE index - 1
  BY <1>1 DEF Offset
<1> DEFINE offset == IF index = 0 THEN 2 ELSE index - 1
<1>3. offset \in 0..2
  OBVIOUS
<1> HIDE DEF offset
<1>4. offset * increment \in 0..2
  BY <1>3
<1>5. \A a \in 0..2 : a % W64 = a
  BY <1>1
<1>6. RunInvocationId(0, 1, 2, index, increment) = (0 + ((offset * increment) % W64)) % W64
  BY <1>2 DEF RunInvocationId, offset
<1> QED
  BY <1>3, <1>4, <1>5, <1>6 DEF offset

\* The request of a calibration, and the configuration every answer to it
\* has in common with what Python expects.
Calibration(p, k1) == Request(p, k1, 1, 8, 1, 2)
Increment(r) == IF ExpectedBoundary(r) = "resident-graph" THEN 0 ELSE 1
Common(r) ==
  Configuration(r, ExpectedBoundary(r), ExpectedPolicy(r),
                [i \in 1..2 |-> (i - 1) * Increment(r)], [i \in 1..1 |-> (2 + i - 1) * Increment(r)])

\* What Python expects of the answer to a calibration.
LEMMA CalibrationExpected ==
  ASSUME NEW p, NEW k1, NEW r, r = Calibration(p, k1)
  PROVE  ExpectedConfiguration(r) = (IF r.backend = "cuda" THEN Plus(Common(r), "k1", r.k1) ELSE Common(r))
<1>1. r.reps = 2 /\ r.warmups = 1
  BY DEF Calibration, Request
<1> QED
  BY <1>1 DEF ExpectedConfiguration, Common, Increment

\* What the native side answers to a calibration.
LEMMA CalibrationAnswered ==
  ASSUME NEW p, NEW k1, NEW r, r = Calibration(p, k1), AsExpected(r)
  PROVE  LET answer == NativeAnswer(r, 3) IN
         /\ answer.configuration = (IF r.backend = "cuda" THEN Plus(Common(r), "k1", r.k1)
                                    ELSE IF r.backend = "cpu-avx2" THEN Plus(Common(r), "threads", 3)
                                    ELSE Common(r))
         /\ answer.samples = 2
         /\ answer.stages = [s \in RequiredStages(r) |-> 2]
         /\ answer.capture <=> ExpectedBoundary(r) = "resident-graph"
<1>1. r.reps = 2 /\ r.warmups = 1
  BY DEF Calibration, Request
<1> DEFINE row == BenchRow(r)
           policy == IF ~row.transfers THEN "none" ELSE IF r.policy = "none" THEN "pageable" ELSE r.policy
           repetitions == [i \in 1..r.reps |-> RunInvocationId(0, r.warmups, r.reps, r.warmups + i - 1, row.step)]
           warmups == [i \in 1..r.warmups |-> RunInvocationId(0, r.warmups, r.reps, i - 1, row.step)]
           base == Configuration(r, row.boundary, policy, repetitions, warmups)
<1>2. row.boundary = ExpectedBoundary(r) /\ row.step = Increment(r) /\ Increment(r) \in {0, 1}
  BY DEF AsExpected, Increment
<1>3. policy = ExpectedPolicy(r)
  BY DEF AsExpected, ExpectedPolicy
<1>4. repetitions = [i \in 1..2 |-> (i - 1) * Increment(r)]
  <2>1. \A i \in 1..2 : 1 + i - 1 \in 0..2 /\ 1 + i - 1 # 0 /\ (1 + i - 1) - 1 = i - 1
    OBVIOUS
  <2>2. ASSUME NEW i \in 1..2
        PROVE  RunInvocationId(0, 1, 2, 1 + i - 1, Increment(r)) = (i - 1) * Increment(r)
    BY <1>2, <2>1, CalibrationIds
  <2> QED
    BY <1>1, <1>2, <2>2
<1>5. warmups = [i \in 1..1 |-> (2 + i - 1) * Increment(r)]
  <2>1. \A i \in 1..1 : i - 1 = 0 /\ 2 + i - 1 = 2 /\ 0 \in 0..2
    OBVIOUS
  <2>2. ASSUME NEW i \in 1..1
        PROVE  RunInvocationId(0, 1, 2, i - 1, Increment(r)) = (2 + i - 1) * Increment(r)
    BY <1>2, <2>1, CalibrationIds
  <2> QED
    BY <1>1, <1>2, <2>2
<1>6. base = Common(r)
  BY <1>2, <1>3, <1>4, <1>5 DEF Common
<1>7. NativeAnswer(r, 3) =
        [configuration |-> IF r.backend = "cuda" THEN Plus(base, "k1", r.k1)
                           ELSE IF r.backend = "cpu-avx2" THEN Plus(base, "threads", 3) ELSE base,
         samples |-> r.reps,
         stages |-> [s \in row.columns \ {"capture"} |-> r.reps],
         capture |-> "capture" \in row.columns]
  BY DEF NativeAnswer
<1> HIDE DEF base
<1>8. row.columns \ {"capture"} = RequiredStages(r)
  BY DEF AsExpected
<1>9. NativeAnswer(r, 3).capture <=> "capture" \in row.columns
  <2> DEFINE configuration == IF r.backend = "cuda" THEN Plus(base, "k1", r.k1)
                              ELSE IF r.backend = "cpu-avx2" THEN Plus(base, "threads", 3) ELSE base
             stages == [s \in row.columns \ {"capture"} |-> r.reps]
             capture == "capture" \in row.columns
  <2>1. NativeAnswer(r, 3)
          = [configuration |-> configuration, samples |-> r.reps, stages |-> stages, capture |-> capture]
    BY <1>7
  <2> HIDE DEF configuration, stages, capture
  <2>2. NativeAnswer(r, 3).capture = capture
    BY <2>1
  <2> QED
    BY <2>2, Zenon DEF capture
<1>10. "capture" \in row.columns <=> ExpectedBoundary(r) = "resident-graph"
  BY DEF AsExpected
<1> HIDE DEF row
<1>11. NativeAnswer(r, 3).stages = [s \in RequiredStages(r) |-> 2] /\ NativeAnswer(r, 3).samples = 2
  BY <1>1, <1>7, <1>8
<1>12. NativeAnswer(r, 3).configuration = (IF r.backend = "cuda" THEN Plus(Common(r), "k1", r.k1)
                                    ELSE IF r.backend = "cpu-avx2" THEN Plus(Common(r), "threads", 3)
                                    ELSE Common(r))
  BY <1>6, <1>7
<1> QED
  BY <1>9, <1>10, <1>11, <1>12

\* What the fields of an honest answer to a calibration are.
Textual == {"backend", "boundary", "transfer_policy", "k1", "prescribed_scale"}
Identifiers == {"repetition_invocation_ids", "warmup_invocation_ids"}
Counted == {"bits", "count", "seed", "tensor_id", "invocation_id", "warmup", "reps", "block_size", "grid_size"}

\* They are the same in what is answered and in what is expected.
LEMMA CommonFields ==
  ASSUME NEW p \in KnownPaths, NEW k1, NEW r, r = Calibration(p, k1)
  PROVE  /\ DOMAIN Common(r) = (Textual \ {"k1"}) \cup Identifiers \cup Counted
         /\ \A f \in Textual \ {"k1"} : Common(r)[f] # "another"
         /\ \A f \in Identifiers : Common(r)[f] \in Seq(Nat)
         /\ \A f \in Counted : Common(r)[f] \in Nat
<1>1. /\ r.backend \in {"cpu", "cpu-avx2", "cuda"}
      /\ r.bits = 8 /\ r.count = 1 /\ r.warmups = 1 /\ r.reps = 2 /\ r.seed \in Nat
      /\ r.policy \in {"none", "pinned"}
  BY ResponseAssumption DEF Calibration, Request, KnownPaths, COMPARATOR, AVX2_COMPARATOR, CUDA_RESIDENT,
     CUDA_RESIDENT_GRAPH, HostOrigin, CpuGpuOrigin, CudaGpuOrigin, BenchPath
<1>2. r.boundary \in {"none", "resident", "resident-graph", "host-origin", "gpu-origin"}
  BY DEF Calibration, Request, KnownPaths, COMPARATOR, AVX2_COMPARATOR, CUDA_RESIDENT,
     CUDA_RESIDENT_GRAPH, HostOrigin, CpuGpuOrigin, CudaGpuOrigin, BenchPath, HOST_BOUNDARIES
<1>3. ExpectedBoundary(r) # "another"
  BY <1>2 DEF ExpectedBoundary, CUDA_RESIDENT, BenchPath
<1>4. ExpectedPolicy(r) # "another"
  BY <1>1 DEF ExpectedPolicy
<1>5. [i \in 1..2 |-> (i - 1) * Increment(r)] \in Seq(Nat) /\ [i \in 1..1 |-> (2 + i - 1) * Increment(r)] \in Seq(Nat)
  <2>1. Increment(r) \in {0, 1}
    BY DEF Increment
  <2>2. \A i \in 1..2 : (i - 1) * Increment(r) \in Nat
    BY <2>1
  <2>3. \A i \in 1..1 : (2 + i - 1) * Increment(r) \in Nat
    BY <2>1
  <2> QED
    BY <2>2, <2>3
<1> DEFINE repetitions == [i \in 1..2 |-> (i - 1) * Increment(r)]
           warmups == [i \in 1..1 |-> (2 + i - 1) * Increment(r)]
<1> HIDE DEF repetitions, warmups
<1>6. Common(r) = Configuration(r, ExpectedBoundary(r), ExpectedPolicy(r), repetitions, warmups)
  BY DEF Common, repetitions, warmups
<1>7. repetitions \in Seq(Nat) /\ warmups \in Seq(Nat)
  BY <1>5 DEF repetitions, warmups
<1>8. DOMAIN Common(r) = (Textual \ {"k1"}) \cup Identifiers \cup Counted
  BY <1>6 DEF Configuration, Textual, Identifiers, Counted
<1>9. \A f \in Textual \ {"k1"} : Common(r)[f] # "another"
  BY <1>1, <1>3, <1>4, <1>6 DEF Configuration, Textual
<1>10. \A f \in Identifiers : Common(r)[f] \in Seq(Nat)
  BY <1>6, <1>7 DEF Configuration, Identifiers
<1>11. \A f \in Counted : Common(r)[f] \in Nat
  BY <1>1, <1>6 DEF Configuration, Counted
<1> QED
  BY <1>8, <1>9, <1>10, <1>11

\* The answer to a calibration passes its checks, and with one thing changed
\* it does not.
LEMMA CalibrationChecked ==
  ASSUME NEW p \in KnownPaths, NEW k1 \in K1_VARIANTS
  PROVE  LET r == Calibration(p, k1)
             honest == NativeAnswer(r, 3)
         IN /\ ValidateBenchResponse(honest, r)
            /\ \A answer \in Faults(honest) : ~ValidateBenchResponse(answer, r)
<1> DEFINE r == Calibration(p, k1)
           honest == NativeAnswer(r, 3)
           C == honest.configuration
           E == ExpectedConfiguration(r)
           B == Common(r)
           K == Plus(B, "k1", r.k1)
           T == Plus(B, "threads", 3)
           keys == (Textual \ {"k1"}) \cup Identifiers \cup Counted
<1> SUFFICES /\ ValidateBenchResponse(honest, r)
             /\ \A answer \in Faults(honest) : ~ValidateBenchResponse(answer, r)
  OBVIOUS
<1>1. AsExpected(r)
  BY RowAsExpected DEF Calibration
<1>2. r.reps = 2 /\ (r.backend = "cuda" => r.k1 # "another")
  BY DEF Calibration, Request, K1_VARIANTS
<1>3. E = IF r.backend = "cuda" THEN Plus(B, "k1", r.k1) ELSE B
  BY CalibrationExpected
<1>4. /\ C = (IF r.backend = "cuda" THEN Plus(B, "k1", r.k1)
              ELSE IF r.backend = "cpu-avx2" THEN Plus(B, "threads", 3) ELSE B)
      /\ honest.samples = 2
      /\ honest.stages = [s \in RequiredStages(r) |-> 2]
      /\ honest.capture <=> ExpectedBoundary(r) = "resident-graph"
  BY <1>1, CalibrationAnswered
<1>5. /\ DOMAIN B = keys
      /\ \A f \in Textual \ {"k1"} : B[f] # "another"
      /\ \A f \in Identifiers : B[f] \in Seq(Nat)
      /\ \A f \in Counted : B[f] \in Nat
  BY CommonFields
<1> HIDE DEF r, honest, C, E, B
<1>6. /\ "k1" \notin keys /\ "threads" \notin keys
      /\ \A f \in Textual : f # "threads"
  BY DEF Textual, Identifiers, Counted
<1> HIDE DEF keys
<1>20. /\ DOMAIN K = DOMAIN B \cup {"k1"} /\ K["k1"] = r.k1
       /\ \A f \in DOMAIN B \ {"k1"} : K[f] = B[f]
       /\ DOMAIN T = DOMAIN B \cup {"threads"} /\ T["threads"] = 3
       /\ \A f \in DOMAIN B \ {"threads"} : T[f] = B[f]
  BY DEF Plus
<1>21. /\ E = IF r.backend = "cuda" THEN K ELSE B
       /\ C = IF r.backend = "cuda" THEN K ELSE IF r.backend = "cpu-avx2" THEN T ELSE B
  BY <1>3, <1>4
<1> HIDE DEF K, T
<1>7. /\ DOMAIN E \subseteq DOMAIN C /\ DOMAIN C \subseteq DOMAIN E \cup {"threads"}
      /\ "threads" \notin DOMAIN E
      /\ "k1" \in DOMAIN C <=> r.backend = "cuda"
      /\ "threads" \in DOMAIN C <=> r.backend = "cpu-avx2"
      /\ r.backend = "cpu-avx2" => C["threads"] = 3
      /\ \A f \in DOMAIN E : C[f] = E[f]
  <2>1. CASE r.backend = "cuda"
    BY <1>5, <1>6, <1>20, <1>21, <2>1
  <2>2. CASE r.backend = "cpu-avx2"
    BY <1>5, <1>6, <1>20, <1>21, <2>2
  <2>3. CASE r.backend \notin {"cuda", "cpu-avx2"}
    BY <1>5, <1>6, <1>20, <1>21, <2>3
  <2> QED
    BY <2>1, <2>2, <2>3
<1>8. ASSUME NEW f \in DOMAIN E PROVE Altered(C[f], f) # C[f]
  <2>1. \/ f = "k1" /\ r.backend = "cuda" /\ E[f] = r.k1
        \/ f \in keys /\ E[f] = B[f]
    BY <1>5, <1>6, <1>20, <1>21
  <2>2. CASE f = "k1" /\ r.backend = "cuda" /\ E[f] = r.k1
    BY <1>2, <1>7, <2>2 DEF Altered
  <2>3. CASE f \in Textual \ {"k1"} /\ E[f] = B[f]
    BY <1>5, <1>7, <2>3 DEF Altered, Textual
  <2>4. CASE f \in Identifiers /\ E[f] = B[f]
    <3>1. Altered(C[f], f) = Append(C[f], 0)
      BY <2>4 DEF Altered, Identifiers
    <3>2. C[f] \in Seq(Nat)
      BY <1>5, <1>7, <2>4
    <3>3. Len(Append(C[f], 0)) = Len(C[f]) + 1 /\ Len(C[f]) \in Nat
      BY <3>2
    <3> QED
      BY <3>1, <3>3
  <2>5. CASE f \in Counted /\ E[f] = B[f]
    <3>1. Altered(C[f], f) = C[f] + 1
      BY <2>5 DEF Altered, Counted
    <3>2. C[f] \in Nat
      BY <1>5, <1>7, <2>5
    <3> QED
      BY <3>1, <3>2
  <2> QED
    BY <2>1, <2>2, <2>3, <2>4, <2>5 DEF keys
<1>9. EchoesEveryValue(C, r)
  BY <1>7 DEF EchoesEveryValue, E
<1>10. ASSUME NEW D, EchoesEveryValue(D, r)
       PROVE  /\ \A f \in DOMAIN E : f \in DOMAIN D /\ D[f] = E[f]
              /\ r.backend = "cpu-avx2" => "threads" \in DOMAIN D
  BY <1>10 DEF EchoesEveryValue, E
<1>11. ValidateBenchResponse(honest, r)
  BY <1>1, <1>2, <1>4, <1>9 DEF ValidateBenchResponse, AsExpected, C
<1>12. ASSUME NEW answer, ValidateBenchResponse(answer, r)
       PROVE  /\ EchoesEveryValue(answer.configuration, r)
              /\ answer.samples = 2
              /\ DOMAIN answer.stages = RequiredStages(r)
              /\ answer.capture <=> ExpectedBoundary(r) = "resident-graph"
  BY <1>2, <1>12 DEF ValidateBenchResponse
<1>13. honest = [configuration |-> C, samples |-> honest.samples, stages |-> honest.stages,
                 capture |-> honest.capture]
  BY DEF honest, NativeAnswer, C
<1>14. ASSUME NEW f \in DOMAIN C \ {"threads"}
       PROVE  ~ValidateBenchResponse([honest EXCEPT !.configuration = [C EXCEPT ![f] = Altered(C[f], f)]], r)
  <2> DEFINE D == [C EXCEPT ![f] = Altered(C[f], f)]
             answer == [honest EXCEPT !.configuration = D]
  <2>1. f \in DOMAIN E /\ D[f] # E[f]
    BY <1>7, <1>8
  <2> HIDE DEF D
  <2>2. answer.configuration = D
    BY <1>13
  <2> HIDE DEF answer
  <2>3. ValidateBenchResponse(answer, r) => EchoesEveryValue(D, r)
    BY <1>12, <2>2
  <2>4. ~ValidateBenchResponse(answer, r)
    BY <1>10, <2>1, <2>3
  <2> QED
    BY <2>4 DEF answer, D
<1>15. ASSUME NEW f \in DOMAIN C
       PROVE  ~ValidateBenchResponse([honest EXCEPT !.configuration = [g \in DOMAIN C \ {f} |-> C[g]]], r)
  <2> DEFINE D == [g \in DOMAIN C \ {f} |-> C[g]]
             answer == [honest EXCEPT !.configuration = D]
  <2>1. f \notin DOMAIN D /\ (f \in DOMAIN E \/ (f = "threads" /\ r.backend = "cpu-avx2"))
    BY <1>7
  <2> HIDE DEF D
  <2>2. answer.configuration = D
    BY <1>13
  <2> HIDE DEF answer
  <2>3. ValidateBenchResponse(answer, r) => EchoesEveryValue(D, r)
    BY <1>12, <2>2
  <2>4. ~ValidateBenchResponse(answer, r)
    BY <1>10, <2>1, <2>3
  <2> QED
    BY <2>4 DEF answer, D
<1>16. ~ValidateBenchResponse([honest EXCEPT !.samples = honest.samples - 1], r)
  <2> DEFINE answer == [honest EXCEPT !.samples = honest.samples - 1]
  <2>1. answer.samples = 1
    BY <1>4, <1>13
  <2> HIDE DEF answer
  <2>2. ~ValidateBenchResponse(answer, r)
    BY <1>12, <2>1
  <2> QED
    BY <2>2 DEF answer
<1>17. ~ValidateBenchResponse([honest EXCEPT !.capture = ~honest.capture], r)
  <2> DEFINE flipped == ~honest.capture
             answer == [honest EXCEPT !.capture = flipped]
  <2>1. flipped <=> ~honest.capture
    OBVIOUS
  <2> HIDE DEF flipped
  <2>2. answer.capture = flipped
    BY <1>13
  <2> HIDE DEF answer
  <2>3. answer.capture <=> ~honest.capture
    BY <2>1, <2>2, Zenon
  <2>4. ~ValidateBenchResponse(answer, r)
    BY <1>4, <1>12, <2>3
  <2> QED
    BY <2>4 DEF answer, flipped
<1>18. ASSUME NEW stages, DOMAIN stages # RequiredStages(r)
       PROVE  ~ValidateBenchResponse([honest EXCEPT !.stages = stages], r)
  <2> DEFINE answer == [honest EXCEPT !.stages = stages]
  <2>1. answer.stages = stages
    BY <1>13
  <2> HIDE DEF answer
  <2>2. ~ValidateBenchResponse(answer, r)
    BY <1>12, <1>18, <2>1
  <2> QED
    BY <2>2 DEF answer
<1>19. ASSUME NEW answer \in Faults(honest) PROVE ~ValidateBenchResponse(answer, r)
  <2>1. DOMAIN honest.stages = RequiredStages(r)
    BY <1>4
  <2>2. \/ \E f \in DOMAIN C \ {"threads"} :
             answer = [honest EXCEPT !.configuration = [C EXCEPT ![f] = Altered(C[f], f)]]
        \/ \E f \in DOMAIN C : answer = [honest EXCEPT !.configuration = [g \in DOMAIN C \ {f} |-> C[g]]]
        \/ answer = [honest EXCEPT !.samples = honest.samples - 1]
        \/ answer = [honest EXCEPT !.capture = ~honest.capture]
        \/ \E s \in DOMAIN honest.stages :
             answer = [honest EXCEPT !.stages = [t \in DOMAIN honest.stages \ {s} |-> honest.stages[t]]]
        \/ \E s \in {"h2d_ms", "cpu_ms"} \ DOMAIN honest.stages :
             answer = [honest EXCEPT !.stages = [t \in DOMAIN honest.stages \cup {s} |-> honest.samples]]
    BY <1>19, Zenon DEF Faults, C
  <2>3. ASSUME NEW s \in DOMAIN honest.stages
        PROVE  DOMAIN [t \in DOMAIN honest.stages \ {s} |-> honest.stages[t]] # RequiredStages(r)
    BY <2>1
  <2>4. ASSUME NEW s \in {"h2d_ms", "cpu_ms"} \ DOMAIN honest.stages
        PROVE  DOMAIN [t \in DOMAIN honest.stages \cup {s} |-> honest.samples] # RequiredStages(r)
    BY <2>1
  <2>5. CASE \E f \in DOMAIN C \ {"threads"} :
               answer = [honest EXCEPT !.configuration = [C EXCEPT ![f] = Altered(C[f], f)]]
    BY <1>14, <2>5, Zenon
  <2>6. CASE \E f \in DOMAIN C : answer = [honest EXCEPT !.configuration = [g \in DOMAIN C \ {f} |-> C[g]]]
    BY <1>15, <2>6, Zenon
  <2>7. CASE answer = [honest EXCEPT !.samples = honest.samples - 1]
    BY <1>16, <2>7, Zenon
  <2>8. CASE answer = [honest EXCEPT !.capture = ~honest.capture]
    BY <1>17, <2>8, Zenon
  <2>9. CASE \E s \in DOMAIN honest.stages :
               answer = [honest EXCEPT !.stages = [t \in DOMAIN honest.stages \ {s} |-> honest.stages[t]]]
    BY <1>18, <2>3, <2>9, Zenon
  <2>10. CASE \E s \in {"h2d_ms", "cpu_ms"} \ DOMAIN honest.stages :
                answer = [honest EXCEPT !.stages = [t \in DOMAIN honest.stages \cup {s} |-> honest.samples]]
    BY <1>18, <2>4, <2>10, Zenon
  <2> QED
    BY <2>2, <2>5, <2>6, <2>7, <2>8, <2>9, <2>10, Zenon
<1> QED
  BY <1>11, <1>19

-----------------------------------------------------------------------------
(* A group of cases *)

\* What compare_case_group is given and what it has written.
GroupStats == [p \in DOMAIN runs |-> IF runs[p] = NoRuns THEN None ELSE CaseStatistics(runs[p])]
GroupRuns ==
  /\ Closed(DOMAIN runs)
  /\ runs \in [DOMAIN runs -> Trials \cup {NoRuns}]
GroupState == GroupRuns /\ claims = CompareCaseGroup(GroupStats)

\* A nested pair that was selected and is inverted or incomplete.
PairVeto(a, b) ==
  /\ {a, b} \subseteq DOMAIN runs
  /\ runs[a] = NoRuns \/ runs[b] = NoRuns \/ Pooled(a) < Pooled(b)

\* An entry of the group's statistics.
LEMMA GroupEntries ==
  ASSUME GroupRuns
  PROVE  /\ DOMAIN GroupStats = DOMAIN runs
         /\ \A p \in DOMAIN runs :
              /\ GroupStats[p] = None <=> runs[p] = NoRuns
              /\ runs[p] # NoRuns => /\ runs[p] \in Trials
                                     /\ GroupStats[p] = CaseStatistics(runs[p])
                                     /\ GroupStats[p].median = Pooled(p)
<1>1. DOMAIN GroupStats = DOMAIN runs
  BY DEF GroupStats
<1>2. ASSUME NEW p \in DOMAIN runs
      PROVE  /\ GroupStats[p] = None <=> runs[p] = NoRuns
             /\ runs[p] # NoRuns => /\ runs[p] \in Trials
                                    /\ GroupStats[p] = CaseStatistics(runs[p])
                                    /\ GroupStats[p].median = Pooled(p)
  <2>1. GroupStats[p] = IF runs[p] = NoRuns THEN None ELSE CaseStatistics(runs[p])
    BY DEF GroupStats
  <2>2. runs[p] # NoRuns => runs[p] \in Trials
    BY DEF GroupRuns
  <2>3. runs[p] \in Trials => /\ CaseStatistics(runs[p]) # None
                              /\ CaseStatistics(runs[p]).median = Pooled(p)
    BY CaseFacts DEF Pooled
  <2> QED
    BY <2>1, <2>2, <2>3
<1> QED
  BY <1>1, <1>2

\* Inverts is a veto by one of the nested pairs.
LEMMA InvertsPairs ==
  ASSUME GroupRuns, NEW a, a \in DOMAIN runs => NestedPaths(a) \cap DOMAIN runs # {}
  PROVE  Inverts(GroupStats, a) <=> \E q \in NestedPaths(a) : PairVeto(a, q)
<1> DEFINE S == GroupStats
<1>1. /\ DOMAIN S = DOMAIN runs
      /\ \A p \in DOMAIN runs : /\ S[p] = None <=> runs[p] = NoRuns
                                /\ runs[p] # NoRuns => S[p].median = Pooled(p)
  BY GroupEntries
<1> HIDE DEF S
<1>2. ASSUME Inverts(S, a) PROVE \E q \in NestedPaths(a) : PairVeto(a, q)
  <2>1. a \in DOMAIN runs
    BY <1>1, <1>2 DEF Inverts
  <2>2. CASE S[a] = None
    BY <1>1, <2>1, <2>2 DEF PairVeto
  <2>3. CASE S[a] # None
    <3>1. PICK q \in NestedPaths(a) \cap DOMAIN S : S[q] = None \/ S[a].median < S[q].median
      BY <1>2, <2>3 DEF Inverts
    <3>2. runs[q] = NoRuns \/ Pooled(a) < Pooled(q)
      BY <1>1, <2>1, <2>3, <3>1
    <3> QED
      BY <1>1, <2>1, <3>1, <3>2 DEF PairVeto
  <2> QED
    BY <2>2, <2>3
<1>3. ASSUME NEW q \in NestedPaths(a), PairVeto(a, q) PROVE Inverts(S, a)
  <2>1. a \in DOMAIN S /\ q \in DOMAIN S
    BY <1>1, <1>3 DEF PairVeto
  <2>2. runs[a] = NoRuns \/ runs[q] = NoRuns \/ Pooled(a) < Pooled(q)
    BY <1>3 DEF PairVeto
  <2>3. S[a] = None \/ S[q] = None \/ S[a].median < S[q].median
    BY <1>1, <2>1, <2>2
  <2> QED
    BY <2>1, <2>3 DEF Inverts
<1> QED
  BY <1>2, <1>3 DEF S

\* The nested pairs of one transfer policy.
CpuVeto(policy) == PairVeto(CpuGpuOrigin(policy), COMPARATOR)
CudaVeto(policy) ==
  \/ PairVeto(HostOrigin(policy), CUDA_RESIDENT)
  \/ PairVeto(HostOrigin(policy), CUDA_RESIDENT_GRAPH)
  \/ PairVeto(HostOrigin(policy), CudaGpuOrigin(policy))
  \/ PairVeto(CudaGpuOrigin(policy), CUDA_RESIDENT)

\* boundary_inversion and its CPU counterpart are vetoes of nested pairs.
LEMMA InversionIsVeto ==
  ASSUME GroupRuns, NEW policy \in TRANSFER_POLICIES
  PROVE  /\ CpuInversion(GroupStats, policy) <=> CpuVeto(policy)
         /\ BoundaryInversion(GroupStats, policy) <=> CudaVeto(policy)
<1>1. /\ NestedPaths(CpuGpuOrigin(policy)) = {COMPARATOR}
      /\ NestedPaths(CudaGpuOrigin(policy)) = {CUDA_RESIDENT}
      /\ NestedPaths(HostOrigin(policy)) = {CUDA_RESIDENT, CUDA_RESIDENT_GRAPH, CudaGpuOrigin(policy)}
  BY DEF NestedPaths, CpuGpuOrigin, CudaGpuOrigin, HostOrigin, BenchPath
<1>2. /\ COMPARATOR \in DOMAIN runs
      /\ HostOrigin(policy) \in DOMAIN runs \/ CudaGpuOrigin(policy) \in DOMAIN runs
           => CUDA_RESIDENT \in DOMAIN runs
  BY DEF GroupRuns, Closed
<1>3. Inverts(GroupStats, CpuGpuOrigin(policy)) <=> CpuVeto(policy)
  <2>1. NestedPaths(CpuGpuOrigin(policy)) \cap DOMAIN runs # {}
    BY <1>1, <1>2
  <2>2. Inverts(GroupStats, CpuGpuOrigin(policy))
          <=> \E q \in NestedPaths(CpuGpuOrigin(policy)) : PairVeto(CpuGpuOrigin(policy), q)
    BY <2>1, InvertsPairs
  <2> QED
    BY <1>1, <2>2 DEF CpuVeto
<1>4. Inverts(GroupStats, CudaGpuOrigin(policy)) <=> PairVeto(CudaGpuOrigin(policy), CUDA_RESIDENT)
  <2>1. CudaGpuOrigin(policy) \in DOMAIN runs => NestedPaths(CudaGpuOrigin(policy)) \cap DOMAIN runs # {}
    BY <1>1, <1>2
  <2>2. Inverts(GroupStats, CudaGpuOrigin(policy))
          <=> \E q \in NestedPaths(CudaGpuOrigin(policy)) : PairVeto(CudaGpuOrigin(policy), q)
    BY <2>1, InvertsPairs
  <2> QED
    BY <1>1, <2>2
<1>5. Inverts(GroupStats, HostOrigin(policy))
        <=> \/ PairVeto(HostOrigin(policy), CUDA_RESIDENT)
            \/ PairVeto(HostOrigin(policy), CUDA_RESIDENT_GRAPH)
            \/ PairVeto(HostOrigin(policy), CudaGpuOrigin(policy))
  <2>1. HostOrigin(policy) \in DOMAIN runs => NestedPaths(HostOrigin(policy)) \cap DOMAIN runs # {}
    BY <1>1, <1>2
  <2>2. Inverts(GroupStats, HostOrigin(policy))
          <=> \E q \in NestedPaths(HostOrigin(policy)) : PairVeto(HostOrigin(policy), q)
    BY <2>1, InvertsPairs
  <2> QED
    BY <1>1, <2>2
<1>6. CpuInversion(GroupStats, policy) <=> CpuVeto(policy)
  BY <1>3 DEF CpuInversion
<1>7. BoundaryInversion(GroupStats, policy)
        <=> Inverts(GroupStats, HostOrigin(policy)) \/ Inverts(GroupStats, CudaGpuOrigin(policy))
  BY DEF BoundaryInversion
<1> QED
  BY <1>4, <1>5, <1>6, <1>7 DEF CudaVeto

\* The policy whose nested pairs decide over a path.
PolicyOf(p) == IF p.policy = "pinned" THEN "pinned" ELSE "pageable"

\* The reference's veto, written out.
LEMMA VetoedPairs ==
  ASSUME NEW p
  PROVE  Vetoed(p) <=> IF p.backend = "cpu" THEN CpuVeto(PolicyOf(p))
                       ELSE IF p.boundary = "gpu-origin"
                       THEN CudaVeto(PolicyOf(p)) \/ CpuVeto(PolicyOf(p))
                       ELSE CudaVeto(PolicyOf(p))
<1> DEFINE o == PolicyOf(p)
           cpu == {<<CpuGpuOrigin(o), COMPARATOR>>}
           cuda == {<<HostOrigin(o), CUDA_RESIDENT>>, <<HostOrigin(o), CUDA_RESIDENT_GRAPH>>,
                    <<HostOrigin(o), CudaGpuOrigin(o)>>, <<CudaGpuOrigin(o), CUDA_RESIDENT>>}
<1>1. VetoPairs(p) = IF p.backend = "cpu" THEN cpu
                     ELSE IF p.boundary = "gpu-origin" THEN cuda \cup cpu ELSE cuda
  BY DEF VetoPairs, PolicyOf
<1>2. Vetoed(p) <=> \E pair \in VetoPairs(p) : PairVeto(pair[1], pair[2])
  BY DEF Vetoed, PairVeto
<1> HIDE DEF o
<1>3. (\E pair \in cpu : PairVeto(pair[1], pair[2])) <=> CpuVeto(o)
  BY DEF CpuVeto
<1>4. (\E pair \in cuda : PairVeto(pair[1], pair[2])) <=> CudaVeto(o)
  BY DEF CudaVeto
<1> HIDE DEF cpu, cuda
<1>5. (\E pair \in cuda \cup cpu : PairVeto(pair[1], pair[2]))
        <=> \/ \E pair \in cuda : PairVeto(pair[1], pair[2])
            \/ \E pair \in cpu : PairVeto(pair[1], pair[2])
  OBVIOUS
<1> QED
  BY <1>1, <1>2, <1>3, <1>4, <1>5 DEF o

\* For every path that claims something, the code's inversion is the veto of
\* the protocol.
LEMMA PathInversionIsVeto ==
  ASSUME GroupRuns, NEW p \in KnownPaths, p # AVX2_COMPARATOR
  PROVE  PathInversion(GroupStats, p) <=> Vetoed(p)
<1>1. PolicyOf(p) \in TRANSFER_POLICIES
  BY DEF PolicyOf, TRANSFER_POLICIES
<1>2. /\ CpuInversion(GroupStats, PolicyOf(p)) <=> CpuVeto(PolicyOf(p))
      /\ BoundaryInversion(GroupStats, PolicyOf(p)) <=> CudaVeto(PolicyOf(p))
  BY <1>1, InversionIsVeto
<1>3. p.backend = "cpu" \/ p.backend = "cuda"
  BY DEF KnownPaths, COMPARATOR, AVX2_COMPARATOR, CUDA_RESIDENT, CUDA_RESIDENT_GRAPH, HostOrigin,
       CpuGpuOrigin, CudaGpuOrigin, BenchPath
<1>4. CASE p.backend = "cpu"
  <2>1. PathInversion(GroupStats, p) <=> CpuInversion(GroupStats, PolicyOf(p))
    BY <1>4 DEF PathInversion, PolicyOf
  <2> QED
    BY <1>2, <1>4, <2>1, VetoedPairs
<1>5. CASE p.backend = "cuda" /\ p.boundary = "gpu-origin"
  <2>1. PathInversion(GroupStats, p)
          <=> BoundaryInversion(GroupStats, PolicyOf(p)) \/ CpuInversion(GroupStats, PolicyOf(p))
    BY <1>5 DEF PathInversion, PolicyOf
  <2> QED
    BY <1>2, <1>5, <2>1, VetoedPairs
<1>6. CASE p.backend = "cuda" /\ p.boundary # "gpu-origin"
  <2>1. PathInversion(GroupStats, p) <=> BoundaryInversion(GroupStats, PolicyOf(p))
    BY <1>6 DEF PathInversion, PolicyOf
  <2> QED
    BY <1>2, <1>6, <2>1, VetoedPairs
<1> QED
  BY <1>3, <1>4, <1>5, <1>6

\* The statement of the protocol about one comparison of two measured paths.
LEMMA OneClaim ==
  ASSUME GroupRuns, NEW p \in DOMAIN runs, NEW q \in DOMAIN runs,
         runs[p] # NoRuns, runs[q] # NoRuns,
         NEW inversion, NEW vetoed, inversion <=> vetoed
  PROVE  LET c == Compared(GroupStats[q], GroupStats[p], inversion) IN
         /\ ClaimIsSound(c, p, q, vetoed)
         /\ c.verdict \in {"faster", "slower", "inconclusive"}
         /\ c.point \in BOOLEAN /\ c.direction \in BOOLEAN
         /\ c.magnitude \in BOOLEAN /\ c.rev2 \in BOOLEAN
<1> DEFINE A == runs[q]
           B == runs[p]
           c == Compared(GroupStats[q], GroupStats[p], inversion)
<1>1. /\ A \in Trials /\ B \in Trials
      /\ GroupStats[q] = CaseStatistics(A) /\ GroupStats[p] = CaseStatistics(B)
      /\ CaseStatistics(A).median = Pooled(q) /\ CaseStatistics(B).median = Pooled(p)
  BY GroupEntries
<1>2. /\ c.verdict \in {"faster", "slower", "inconclusive"}
      /\ c.point \in BOOLEAN /\ c.direction \in BOOLEAN
      /\ c.magnitude \in BOOLEAN /\ c.rev2 \in BOOLEAN
      /\ c.direction <=> (~inversion /\ (Below(B, A) \/ Below(A, B)))
      /\ Below(B, A) => c.verdict = "faster"
      /\ Below(A, B) => c.verdict = "slower"
      /\ c.magnitude \/ c.rev2 => c.direction
  <2> HIDE DEF A, B
  <2>1. c = Compared(CaseStatistics(A), CaseStatistics(B), inversion)
    BY <1>1
  <2> HIDE DEF c
  <2> QED
    BY <1>1, <2>1, ComparedSound
<1>3. /\ Below(A, B) => ~Below(B, A)
      /\ Below(B, A) => Pooled(p) < Pooled(q)
      /\ Below(A, B) => Pooled(q) < Pooled(p)
  <2> HIDE DEF A, B
  <2> QED
    BY <1>1, Separation
<1>4. Pooled(p) \in Nat /\ Pooled(q) \in Nat
  <2> HIDE DEF A, B
  <2> QED
    BY <1>1, CaseFacts
<1>5. RawOrder(p, q) = IF Below(B, A) THEN "faster" ELSE IF Below(A, B) THEN "slower" ELSE "none"
  BY DEF RawOrder, TrialMedians, Below
<1> HIDE DEF A, B, c
<1>6. c.direction <=> (~vetoed /\ RawOrder(p, q) # "none")
  BY <1>2, <1>5
<1>7. ASSUME c.direction
      PROVE  /\ c.verdict = RawOrder(p, q)
             /\ c.verdict = "faster" <=> Pooled(p) < Pooled(q)
             /\ c.verdict = "slower" <=> Pooled(p) > Pooled(q)
  <2>1. CASE Below(B, A)
    BY <1>2, <1>3, <1>4, <1>5, <2>1
  <2>2. CASE Below(A, B)
    BY <1>2, <1>3, <1>4, <1>5, <2>2
  <2> QED
    BY <1>2, <1>7, <2>1, <2>2
<1>8. ClaimIsSound(c, p, q, vetoed)
  BY <1>2, <1>6, <1>7 DEF ClaimIsSound
<1> QED
  BY <1>2, <1>8 DEF c

\* What is known of every claim.
IsClaim(c) ==
  /\ c.verdict \in {"faster", "slower", "inconclusive", "comparator", "missing"}
  /\ c.point \in BOOLEAN /\ c.direction \in BOOLEAN /\ c.magnitude \in BOOLEAN /\ c.rev2 \in BOOLEAN

\* NoVerdict is a claim that prints no ratio and no verdict.
LEMMA NoVerdictFacts ==
  /\ NoVerdict.verdict = "missing" /\ NoVerdict.point = FALSE /\ NoVerdict.direction = FALSE
  /\ NoVerdict.magnitude = FALSE /\ NoVerdict.rev2 = FALSE /\ IsClaim(NoVerdict)
BY DEF NoVerdict, Descriptive, Claim, IsClaim

\* The claim of a path against its baseline.
LEMMA OwnClaim ==
  ASSUME GroupRuns, NEW p \in DOMAIN runs, runs[p] # NoRuns,
         p # COMPARATOR, p # AVX2_COMPARATOR
  PROVE  /\ ClaimIsSound(Verdict(GroupStats, p), p, Baseline(p), Vetoed(p))
         /\ IsClaim(Verdict(GroupStats, p))
<1> DEFINE q == Baseline(p)
           c == Verdict(GroupStats, p)
<1>0. p \in KnownPaths
  BY DEF GroupRuns, Closed
<1>1. q \in DOMAIN runs
  <2>1. CASE p.backend = "cuda" /\ p.boundary = "gpu-origin"
    <3>1. PICK o \in TRANSFER_POLICIES : p = CudaGpuOrigin(o)
      BY <1>0, <2>1 DEF KnownPaths, COMPARATOR, AVX2_COMPARATOR, CUDA_RESIDENT, CUDA_RESIDENT_GRAPH,
           HostOrigin, CpuGpuOrigin, CudaGpuOrigin, BenchPath
    <3>2. q = CpuGpuOrigin(o)
      BY <2>1, <3>1 DEF Baseline, CudaGpuOrigin, BenchPath
    <3> QED
      BY <3>1, <3>2 DEF GroupRuns, Closed
  <2>2. CASE ~(p.backend = "cuda" /\ p.boundary = "gpu-origin")
    BY <2>2 DEF Baseline, GroupRuns, Closed
  <2> QED
    BY <2>1, <2>2
<1>2. Measured(GroupStats, q) <=> runs[q] # NoRuns
  BY <1>1, GroupEntries DEF Measured
<1>3. CASE runs[q] = NoRuns
  <2>1. c = NoVerdict
    BY <1>2, <1>3 DEF Verdict
  <2>2. RawOrder(p, q) = "none"
    BY <1>3 DEF RawOrder
  <2> HIDE DEF q, c
  <2>3. ClaimIsSound(c, p, q, Vetoed(p)) /\ IsClaim(c)
    BY <2>1, <2>2, NoVerdictFacts DEF ClaimIsSound
  <2> QED
    BY <2>3 DEF q, c
<1>4. CASE runs[q] # NoRuns
  <2> DEFINE i == PathInversion(GroupStats, p)
             v == Vetoed(p)
  <2>1. c = Compared(GroupStats[q], GroupStats[p], i)
    BY <1>2, <1>4 DEF Verdict
  <2>2. i <=> v
    BY <1>0, PathInversionIsVeto
  <2> HIDE DEF q, c, i, v
  <2>3. /\ ClaimIsSound(c, p, q, v)
        /\ c.verdict \in {"faster", "slower", "inconclusive"}
        /\ c.point \in BOOLEAN /\ c.direction \in BOOLEAN
        /\ c.magnitude \in BOOLEAN /\ c.rev2 \in BOOLEAN
    BY <1>1, <1>4, <2>1, <2>2, OneClaim
  <2> QED
    BY <2>3 DEF q, c, v, IsClaim
<1> QED
  BY <1>3, <1>4

\* The claim of a pinned path against its pageable twin, and that of the graph
\* path against the resident one.
LEMMA RivalClaim ==
  ASSUME GroupRuns, NEW p \in DOMAIN runs, HasRivalVerdict(GroupStats, p)
  PROVE  /\ ClaimIsSound(RivalVerdict(GroupStats, p), p, Rival(p), Vetoed(p) \/ Vetoed(Rival(p)))
         /\ IsClaim(RivalVerdict(GroupStats, p))
         /\ RivalVerdict(GroupStats, p).verdict # "missing"
<1> DEFINE q == Rival(p)
           c == RivalVerdict(GroupStats, p)
           i == IF p = CUDA_RESIDENT_GRAPH THEN BoundaryInversion(GroupStats, "pageable")
                ELSE PathInversion(GroupStats, p) \/ PathInversion(GroupStats, q)
           v == Vetoed(p) \/ Vetoed(q)
<1>1. c = Compared(GroupStats[q], GroupStats[p], i)
  BY DEF RivalVerdict
<1>2. q \in DOMAIN runs /\ runs[p] # NoRuns /\ runs[q] # NoRuns
  BY GroupEntries DEF HasRivalVerdict, Measured
<1>3. p \in KnownPaths /\ q \in KnownPaths
  BY <1>2 DEF GroupRuns, Closed
<1>4. p # AVX2_COMPARATOR /\ q # AVX2_COMPARATOR
  <2>1. p.policy = "pinned" \/ p = CUDA_RESIDENT_GRAPH
    BY DEF HasRivalVerdict
  <2>2. p # AVX2_COMPARATOR
    BY <2>1 DEF AVX2_COMPARATOR, CUDA_RESIDENT_GRAPH, BenchPath
  <2>3. q.policy = "pageable" \/ q = CUDA_RESIDENT
    BY DEF Rival, PageableTwin, BenchPath
  <2> QED
    BY <2>2, <2>3 DEF AVX2_COMPARATOR, CUDA_RESIDENT, BenchPath
<1>5. /\ PathInversion(GroupStats, p) <=> Vetoed(p)
      /\ PathInversion(GroupStats, q) <=> Vetoed(q)
  BY <1>3, <1>4, PathInversionIsVeto
<1>6. i <=> v
  <2>1. CASE p = CUDA_RESIDENT_GRAPH
    <3>1. q = CUDA_RESIDENT /\ p.backend = "cuda" /\ q.backend = "cuda"
           /\ p.boundary # "gpu-origin" /\ q.boundary # "gpu-origin"
           /\ PolicyOf(p) = "pageable" /\ PolicyOf(q) = "pageable"
      BY <2>1 DEF Rival, CUDA_RESIDENT, CUDA_RESIDENT_GRAPH, BenchPath, PolicyOf
    <3>2. (Vetoed(p) <=> CudaVeto("pageable")) /\ (Vetoed(q) <=> CudaVeto("pageable"))
      BY <3>1, VetoedPairs
    <3>3. BoundaryInversion(GroupStats, "pageable") <=> CudaVeto("pageable")
      BY InversionIsVeto DEF TRANSFER_POLICIES
    <3> QED
      BY <2>1, <3>2, <3>3
  <2>2. CASE p # CUDA_RESIDENT_GRAPH
    BY <1>5, <2>2
  <2> QED
    BY <2>1, <2>2
<1> HIDE DEF q, c, i, v
<1>7. /\ ClaimIsSound(c, p, q, v)
      /\ c.verdict \in {"faster", "slower", "inconclusive"}
      /\ c.point \in BOOLEAN /\ c.direction \in BOOLEAN
      /\ c.magnitude \in BOOLEAN /\ c.rev2 \in BOOLEAN
  BY <1>1, <1>2, <1>6, OneClaim
<1>8. IsClaim(c) /\ c.verdict # "missing"
  BY <1>7 DEF IsClaim
<1> QED
  BY <1>7, <1>8 DEF q, c, v

\* compare_case_group, for a whole group.
LEMMA GroupSound ==
  ASSUME GroupState
  PROVE  /\ DOMAIN claims = {p \in DOMAIN runs : runs[p] # NoRuns}
         /\ \A p \in DOMAIN claims \ {COMPARATOR, AVX2_COMPARATOR} :
              ClaimIsSound(claims[p].own, p, Baseline(p), Vetoed(p)) /\ IsClaim(claims[p].own)
         /\ \A p \in DOMAIN claims :
              IF claims[p].rival.verdict = "missing" THEN claims[p].rival = NoVerdict
              ELSE /\ ClaimIsSound(claims[p].rival, p, Rival(p), Vetoed(p) \/ Vetoed(Rival(p)))
                   /\ IsClaim(claims[p].rival)
         /\ \A p \in DOMAIN claims \cap {COMPARATOR, AVX2_COMPARATOR} : ~claims[p].own.direction
<1> DEFINE S == GroupStats
<1>0. GroupRuns
  BY DEF GroupState
<1>1. DOMAIN S = DOMAIN runs /\ \A p \in DOMAIN runs : S[p] = None <=> runs[p] = NoRuns
  BY <1>0, GroupEntries
<1> HIDE DEF S
<1>2. claims = [p \in {p \in DOMAIN S : S[p] # None} |->
                  [own |-> Verdict(S, p),
                   rival |-> IF HasRivalVerdict(S, p) THEN RivalVerdict(S, p) ELSE NoVerdict]]
  BY DEF GroupState, CompareCaseGroup, S
<1>3. DOMAIN claims = {p \in DOMAIN runs : runs[p] # NoRuns}
  BY <1>1, <1>2
<1>4. \A p \in DOMAIN claims :
        /\ claims[p].own = Verdict(S, p)
        /\ claims[p].rival = IF HasRivalVerdict(S, p) THEN RivalVerdict(S, p) ELSE NoVerdict
  BY <1>2
<1>5. ASSUME NEW p \in DOMAIN claims \ {COMPARATOR, AVX2_COMPARATOR}
      PROVE  ClaimIsSound(claims[p].own, p, Baseline(p), Vetoed(p)) /\ IsClaim(claims[p].own)
  <2>1. p \in DOMAIN runs /\ runs[p] # NoRuns /\ p # COMPARATOR /\ p # AVX2_COMPARATOR
    BY <1>3
  <2>2. ClaimIsSound(Verdict(S, p), p, Baseline(p), Vetoed(p)) /\ IsClaim(Verdict(S, p))
    BY <1>0, <2>1, OwnClaim DEF S
  <2>3. claims[p].own = Verdict(S, p)
    BY <1>4
  <2> QED
    BY <2>2, <2>3
<1>6. ASSUME NEW p \in DOMAIN claims
      PROVE  IF claims[p].rival.verdict = "missing" THEN claims[p].rival = NoVerdict
             ELSE /\ ClaimIsSound(claims[p].rival, p, Rival(p), Vetoed(p) \/ Vetoed(Rival(p)))
                  /\ IsClaim(claims[p].rival)
  <2>1. p \in DOMAIN runs
    BY <1>3
  <2>2. CASE HasRivalVerdict(S, p)
    <3>1. claims[p].rival = RivalVerdict(S, p)
      BY <1>4, <2>2
    <3>2. /\ ClaimIsSound(RivalVerdict(S, p), p, Rival(p), Vetoed(p) \/ Vetoed(Rival(p)))
          /\ IsClaim(RivalVerdict(S, p)) /\ RivalVerdict(S, p).verdict # "missing"
      BY <1>0, <2>1, <2>2, RivalClaim DEF S
    <3> QED
      BY <3>1, <3>2
  <2>3. CASE ~HasRivalVerdict(S, p)
    BY <1>4, <2>3, NoVerdictFacts
  <2> QED
    BY <2>2, <2>3
<1>7. ASSUME NEW p \in DOMAIN claims \cap {COMPARATOR, AVX2_COMPARATOR} PROVE ~claims[p].own.direction
  <2>1. claims[p].own = Verdict(S, p)
    BY <1>4
  <2>2. \A comparison : Descriptive(comparison).direction = FALSE
    BY DEF Descriptive, Claim
  <2>3. CASE p = COMPARATOR
    BY <2>1, <2>2, <2>3 DEF Verdict
  <2>4. CASE p = AVX2_COMPARATOR
    <3>1. p # COMPARATOR /\ Baseline(p) = COMPARATOR
      BY <2>4 DEF AVX2_COMPARATOR, COMPARATOR, BenchPath, Baseline
    <3>2. CASE Measured(S, COMPARATOR)
      BY <2>1, <2>2, <2>4, <3>1, <3>2 DEF Verdict
    <3>3. CASE ~Measured(S, COMPARATOR)
      BY <2>1, <2>4, <3>1, <3>3, NoVerdictFacts DEF Verdict
    <3> QED
      BY <3>2, <3>3
  <2> QED
    BY <2>3, <2>4
<1> QED
  BY <1>3, <1>5, <1>6, <1>7

-----------------------------------------------------------------------------
(* What is printed *)

\* An entry of the watched path's column, beside what its raw samples say.
CaseSound(c) ==
  c # None =>
    /\ IsClaim(c.own) /\ IsClaim(c.rival)
    /\ c.raw \in {"none", "faster", "slower"}
    /\ c.own.direction <=> c.raw # "none"
    /\ c.own.direction => c.own.verdict = c.raw
    /\ c.own.magnitude => c.own.direction
    /\ c.rival.direction => c.rivalRaw = c.rival.verdict /\ c.rivalRaw # "none"
    /\ c.rival.magnitude => c.rival.direction

IsColumn(col) == col \in Seq(Range(col)) /\ \A i \in DOMAIN col : CaseSound(col[i])

\* Flip and PrintedIsMeasured, of any column and report.
FlipIn(col, i, j) ==
  /\ i < j
  /\ col[i] # None /\ col[j] # None
  /\ {col[i].raw, col[j].raw} = {"faster", "slower"}
  /\ \A k \in (i + 1)..(j - 1) : col[k] = None
CrossoverMeasured(x, col) ==
  x # <<>> => \A i, j \in DOMAIN col : FlipIn(col, i, j) <=> <<i, j>> = x
EntryMeasured(rep, col, i) ==
  /\ rep.markers[i] \cap {"filled", "hollow"} # {} \/ "direction" \in rep.table[i] =>
       col[i] # None /\ col[i].raw \in rep.table[i]
  /\ rep.graph[i] \cap {"filled", "hollow"} # {} => col[i].rivalRaw # "none"
  /\ "direction" \in rep.transfer[i] => col[i].rivalRaw \in rep.transfer[i]

\* find_crossovers resolves exactly the flips of the raw samples.
LEMMA CrossoverSound ==
  ASSUME NEW col, IsColumn(col)
  PROVE  CrossoverMeasured(FindCrossovers(col, "direction"), col)
<1> DEFINE n == Len(col)
           flips == {pair \in Pairwise(col) :
                       /\ col[pair[1]].own["direction"] /\ col[pair[2]].own["direction"]
                       /\ Opposite(col[pair[1]], col[pair[2]])}
           x == FindCrossovers(col, "direction")
<1>0. n \in Nat /\ DOMAIN col = 1..n /\ \A i \in 1..n : CaseSound(col[i])
  BY DEF IsColumn
<1>1. x = IF Cardinality(flips) = 1 THEN CHOOSE pair \in flips : TRUE ELSE <<>>
  BY DEF FindCrossovers
<1> HIDE DEF n, x
<1>2. flips \subseteq (1..n) \X (1..n)
  BY <1>0 DEF Pairwise, Points
<1>3. ASSUME NEW i \in 1..n, NEW j \in 1..n PROVE FlipIn(col, i, j) <=> <<i, j>> \in flips
  <2> DEFINE a == col[i]
             b == col[j]
             Between == \E k \in Points(col) : i < k /\ k < j
  <2>1. <<i, j>> \in Pairwise(col) <=> a # None /\ b # None /\ i < j /\ ~Between
    BY <1>0 DEF Pairwise, Points
  <2>2. Between <=> ~(\A k \in (i + 1)..(j - 1) : col[k] = None)
    BY <1>0 DEF Points
  <2>3. <<i, j>> \in flips <=> /\ <<i, j>> \in Pairwise(col)
                               /\ a.own.direction /\ b.own.direction
                               /\ Opposite(a, b)
    OBVIOUS
  <2>4. FlipIn(col, i, j) <=> /\ <<i, j>> \in Pairwise(col)
                              /\ {a.raw, b.raw} = {"faster", "slower"}
    BY <2>1, <2>2 DEF FlipIn
  <2>5. CaseSound(a) /\ CaseSound(b)
    BY <1>0
  <2> HIDE DEF a, b, flips, Between
  <2>6. ASSUME a # None, b # None
        PROVE  {a.raw, b.raw} = {"faster", "slower"}
                 <=> a.own.direction /\ b.own.direction /\ Opposite(a, b)
    <3>1. /\ a.raw \in {"none", "faster", "slower"} /\ b.raw \in {"none", "faster", "slower"}
          /\ a.own.direction <=> a.raw # "none"
          /\ b.own.direction <=> b.raw # "none"
          /\ a.own.direction => a.own.verdict = a.raw
          /\ b.own.direction => b.own.verdict = b.raw
      BY <2>5, <2>6 DEF CaseSound
    <3>2. {a.raw, b.raw} = {"faster", "slower"} => a.raw # "none" /\ b.raw # "none"
      OBVIOUS
    <3>3. ASSUME a.raw # "none", b.raw # "none"
          PROVE Opposite(a, b) <=> {a.raw, b.raw} = {"faster", "slower"}
      BY <3>1, <3>3 DEF Opposite
    <3> QED
      BY <3>1, <3>2, <3>3
  <2> QED
    BY <2>1, <2>3, <2>4, <2>6
<1>4. IsFiniteSet(flips)
  <2>1. IsFiniteSet(1..n)
    BY <1>0, FS_Interval
  <2>2. IsFiniteSet((1..n) \X (1..n))
    BY <2>1, FS_Product
  <2> HIDE DEF flips
  <2>3. flips \in SUBSET ((1..n) \X (1..n))
    BY <1>2
  <2> QED
    BY <2>2, <2>3, FS_Subset
<1> HIDE DEF flips
<1>5. ASSUME x # <<>>, NEW i \in 1..n, NEW j \in 1..n PROVE FlipIn(col, i, j) <=> <<i, j>> = x
  <2>1. Cardinality(flips) = 1
    BY <1>1, <1>5
  <2>2. PICK y : flips = {y}
    BY <1>4, <2>1, FS_Singleton
  <2>3. x = y
    BY <1>1, <2>1, <2>2
  <2> QED
    BY <1>3, <2>2, <2>3
<1> QED
  BY <1>0, <1>5 DEF CrossoverMeasured, x

\* _mark_claims draws no filled or hollow marker without a direction.
LEMMA MarkersSound ==
  ASSUME NEW c, IsClaim(c), c.magnitude => c.direction, Markers(c) \cap {"filled", "hollow"} # {}
  PROVE  c.point /\ c.direction
BY DEF Markers, DirectionSupported, MagnitudeSupported, IsClaim

\* Both kinds of report print of an entry only what its samples carry.
LEMMA RenderedEntry ==
  ASSUME NEW col, IsColumn(col), NEW i \in DOMAIN col
  PROVE  EntryMeasured(Rendered(col), col, i)
<1> DEFINE c == col[i]
           rep == Rendered(col)
<1>1. CaseSound(c)
  BY DEF IsColumn
<1>2. /\ rep.markers[i] = (IF c = None THEN {} ELSE Markers(c.own))
      /\ rep.graph[i] = (IF c = None \/ watch # CUDA_RESIDENT_GRAPH THEN {} ELSE Markers(c.rival))
      /\ rep.table[i] = TableRow(c)
      /\ rep.transfer[i] = {}
  BY DEF Rendered, OwnMarkers, GraphMarkers
<1> HIDE DEF c, rep
<1>3. ASSUME c # None, c.own.direction PROVE c.raw \in TableRow(c)
  <2>1. c.own.verdict = c.raw /\ c.raw \in {"faster", "slower"}
    BY <1>1, <1>3 DEF CaseSound
  <2> QED
    BY <1>3, <2>1 DEF TableRow
<1>4. ASSUME "direction" \in TableRow(c) PROVE c # None /\ c.own.direction
  <2>1. c # None
    BY <1>4 DEF TableRow
  <2>2. c.own.verdict # "direction"
    BY <1>1, <2>1 DEF CaseSound, IsClaim
  <2> QED
    BY <1>4, <2>1, <2>2 DEF TableRow, DirectionSupported
<1>5. ASSUME rep.markers[i] \cap {"filled", "hollow"} # {} PROVE c # None /\ c.own.direction
  <2>1. c # None /\ Markers(c.own) \cap {"filled", "hollow"} # {}
    BY <1>2, <1>5
  <2>2. IsClaim(c.own) /\ (c.own.magnitude => c.own.direction)
    BY <1>1, <2>1 DEF CaseSound
  <2> QED
    BY <2>1, <2>2, MarkersSound
<1>6. ASSUME rep.graph[i] \cap {"filled", "hollow"} # {} PROVE c.rivalRaw # "none"
  <2>1. c # None /\ Markers(c.rival) \cap {"filled", "hollow"} # {}
    BY <1>2, <1>6
  <2>2. IsClaim(c.rival) /\ (c.rival.magnitude => c.rival.direction)
    BY <1>1, <2>1 DEF CaseSound
  <2>3. c.rival.direction
    BY <2>1, <2>2, MarkersSound
  <2> QED
    BY <1>1, <2>1, <2>3 DEF CaseSound
<1> QED
  BY <1>2, <1>3, <1>4, <1>5, <1>6 DEF EntryMeasured, c, rep

\* The markers and the table rows of a published case stand on raw samples.
LEMMA PublishedEntry ==
  ASSUME NEW col, IsColumn(col), NEW i \in DOMAIN col, col[i] # None
  PROVE  EntryMeasured(Published(col), col, i)
<1> DEFINE c == col[i]
           rep == Published(col)
<1>1. CaseSound(c) /\ c # None
  BY DEF IsColumn
<1>2. /\ rep.markers[i] = Markers(c.own)
      /\ rep.graph[i] = (IF watch # CUDA_RESIDENT_GRAPH THEN {} ELSE Markers(c.rival))
      /\ rep.table[i] = Comparison(c.own)
      /\ rep.transfer[i] = (IF watch.policy = "pinned" THEN Comparison(c.rival) ELSE {})
  BY <1>1 DEF Published, OwnMarkers, GraphMarkers
<1> HIDE DEF c, rep
<1>3. /\ IsClaim(c.own) /\ (c.own.magnitude => c.own.direction)
      /\ IsClaim(c.rival) /\ (c.rival.magnitude => c.rival.direction)
      /\ c.own.direction => c.own.verdict = c.raw
      /\ c.rival.direction => c.rivalRaw = c.rival.verdict /\ c.rivalRaw # "none"
  BY <1>1 DEF CaseSound
<1>4. ASSUME NEW d, IsClaim(d), "direction" \in Comparison(d) PROVE d.direction /\ d.point
  <2>1. d.verdict # "direction"
    BY <1>4 DEF IsClaim
  <2> QED
    BY <1>4, <2>1 DEF Comparison, DirectionSupported
<1>5. ASSUME NEW d, d.point PROVE d.verdict \in Comparison(d)
  BY <1>5 DEF Comparison
<1>6. ASSUME rep.markers[i] \cap {"filled", "hollow"} # {} \/ "direction" \in rep.table[i]
      PROVE  c.raw \in rep.table[i]
  <2>1. c.own.direction /\ c.own.point
    BY <1>2, <1>3, <1>4, <1>6, MarkersSound
  <2> QED
    BY <1>2, <1>3, <1>5, <2>1
<1>7. ASSUME rep.graph[i] \cap {"filled", "hollow"} # {} PROVE c.rivalRaw # "none"
  <2>1. Markers(c.rival) \cap {"filled", "hollow"} # {}
    BY <1>2, <1>7
  <2>2. c.rival.direction
    BY <1>3, <2>1, MarkersSound
  <2> QED
    BY <1>3, <2>2
<1>8. ASSUME "direction" \in rep.transfer[i] PROVE c.rivalRaw \in rep.transfer[i]
  <2>1. rep.transfer[i] = Comparison(c.rival)
    BY <1>2, <1>8
  <2>2. c.rival.direction /\ c.rival.point
    BY <1>3, <1>4, <1>8, <2>1
  <2> QED
    BY <1>3, <1>5, <2>1, <2>2
<1> QED
  BY <1>1, <1>6, <1>7, <1>8 DEF EntryMeasured, c, rep

-----------------------------------------------------------------------------
(* Sizes of sets *)

\* S has h elements.
Size(S, h) == IsFiniteSet(S) /\ Cardinality(S) = h

\* f parts X into classes of h elements, one for each v in V.
EvenParts(f, X, V, h) == f \in [X -> V] /\ \A v \in V : Size({x \in X : f[x] = v}, h)

\* A set whose elements fall into parts of one size has as many as the parts
\* together.
LEMMA Fibres ==
  ASSUME NEW X, NEW V, NEW a \in Nat, Size(V, a), NEW f, NEW h \in Nat, EvenParts(f, X, V, h)
  PROVE  Size(X, a * h)
<1> DEFINE Part(v) == {x \in X : f[x] = v}
           B == [v \in V |-> CHOOSE b : b \in Bijection(1..h, Part(v))]
           g == [z \in V \X (1..h) |-> B[z[1]][z[2]]]
<1>0. IsFiniteSet(V) /\ Cardinality(V) = a /\ f \in [X -> V]
  BY DEF Size, EvenParts
<1>1. ASSUME NEW v \in V PROVE B[v] \in Bijection(1..h, Part(v))
  <2>1. IsFiniteSet(Part(v)) /\ Cardinality(Part(v)) = h
    BY DEF EvenParts, Size
  <2> HIDE DEF Part
  <2>2. ExistsBijection(1..h, Part(v))
    BY <2>1, FS_CardinalityType
  <2> QED
    BY <2>2 DEF ExistsBijection
<1> HIDE DEF B
<1>2. \A v \in V : /\ B[v] \in [1..h -> Part(v)]
                   /\ \A i, j \in 1..h : B[v][i] = B[v][j] => i = j
                   /\ \A x \in Part(v) : \E i \in 1..h : B[v][i] = x
  <2> HIDE DEF Part
  <2> QED
    BY <1>1 DEF Bijection, Injection, Surjection, IsInjective
<1>3. \A v \in V, i \in 1..h : B[v][i] \in X /\ f[B[v][i]] = v
  BY <1>2
<1>4. g \in Injection(V \X (1..h), X)
  <2>1. g \in [V \X (1..h) -> X]
    BY <1>3
  <2>2. ASSUME NEW y \in V \X (1..h), NEW z \in V \X (1..h), g[y] = g[z] PROVE y = z
    <3>1. /\ y[1] \in V /\ y[2] \in 1..h /\ z[1] \in V /\ z[2] \in 1..h
          /\ y = <<y[1], y[2]>> /\ z = <<z[1], z[2]>>
          /\ B[y[1]][y[2]] = B[z[1]][z[2]]
      BY <2>2
    <3>2. y[1] = z[1]
      BY <1>3, <3>1
    <3>3. y[2] = z[2]
      <4>1. B[y[1]][y[2]] = B[y[1]][z[2]]
        BY <3>1, <3>2
      <4>2. \A i, j \in 1..h : B[y[1]][i] = B[y[1]][j] => i = j
        BY <1>2, <3>1
      <4> QED
        BY <3>1, <4>1, <4>2
    <3> QED
      BY <3>1, <3>2, <3>3
  <2> QED
    BY <2>1, <2>2 DEF Injection, IsInjective
<1>5. g \in Surjection(V \X (1..h), X)
  <2>1. ASSUME NEW x \in X PROVE \E z \in V \X (1..h) : g[z] = x
    <3>1. f[x] \in V /\ x \in Part(f[x])
      BY <1>0
    <3>2. PICK i \in 1..h : B[f[x]][i] = x
      BY <1>2, <3>1
    <3>3. <<f[x], i>> \in V \X (1..h) /\ g[<<f[x], i>>] = x
      BY <3>1, <3>2
    <3> QED
      BY <3>3
  <2> QED
    BY <1>4, <2>1 DEF Injection, Surjection
<1>6. IsFiniteSet(1..h) /\ Cardinality(1..h) = h
  BY FS_Interval
<1>7. IsFiniteSet(V \X (1..h)) /\ Cardinality(V \X (1..h)) = Cardinality(V) * h
  <2>1. /\ IsFiniteSet(V \X (1..h))
        /\ Cardinality(V \X (1..h)) = Cardinality(V) * Cardinality(1..h)
    BY <1>0, <1>6, FS_Product
  <2> QED
    BY <1>6, <2>1
<1>8. ExistsBijection(V \X (1..h), X)
  <2> HIDE DEF g
  <2> QED
    BY <1>4, <1>5 DEF ExistsBijection, Bijection
<1> QED
  BY <1>0, <1>7, <1>8, FS_Bijection DEF Size

-----------------------------------------------------------------------------
(* Jobs *)

\* Parts put together are a sequence of what the parts hold.
LEMMA FlattenTyped ==
  ASSUME NEW S, NEW T \in Seq(Seq(S))
  PROVE  FlattenSeq(T) \in Seq(S)
<1>1. CASE T = <<>>
  BY <1>1 DEF FlattenSeq
<1>2. CASE T # <<>>
  <2>1. \A s \in Seq(S), t \in Seq(S) : s \o t \in Seq(S)
    OBVIOUS
  <2>2. PICK f \in [1..Len(T) -> Seq(S)] : FlattenSeq(T) = f[Len(T)]
    <3> DEFINE B == Seq(S)
    <3>1. T \in Seq(B) \ {<<>>} /\ \A s \in B, t \in B : s \o t \in B
      BY <1>2, <2>1
    <3> HIDE DEF B
    <3>2. \E f \in [1..Len(T) -> B] : FlattenSeq(T) = f[Len(T)]
      BY <3>1, Flatten
    <3> QED
      BY <3>2 DEF B
  <2>3. Len(T) \in 1..Len(T)
    BY <1>2
  <2> QED
    BY <2>2, <2>3
<1> QED
  BY <1>1, <1>2

\* Where the elements of two sequences stand when they are put together.
LEMMA ConcatIndex ==
  ASSUME NEW S, NEW s \in Seq(S), NEW t \in Seq(S)
  PROVE  /\ Len(s \o t) = Len(s) + Len(t)
         /\ \A k \in 1..Len(s) : (s \o t)[k] = s[k]
         /\ \A k \in 1..Len(t) : (s \o t)[Len(s) + k] = t[k]
OBVIOUS

\* Of parts of length two, the parts so far hold twice as many elements.
LEMMA FlattenPairs ==
  ASSUME NEW S, NEW T \in Seq(Seq(S)), T # <<>>, \A i \in 1..Len(T) : Len(T[i]) = 2
  PROVE  /\ Len(FlattenSeq(T)) = 2 * Len(T)
         /\ \A i \in 1..Len(T), s \in 1..2 : FlattenSeq(T)[2 * (i - 1) + s] = T[i][s]
<1> DEFINE n == Len(T)
           B == Seq(S)
<1>0. n \in Nat /\ n > 0 /\ \A i \in 1..n : T[i] \in Seq(S) /\ Len(T[i]) = 2
  OBVIOUS
<1>1. PICK f \in [1..n -> B] :
        /\ f[1] = T[1]
        /\ \A i \in 2..n : f[i] = f[i - 1] \o T[i]
        /\ FlattenSeq(T) = f[n]
  <2>1. T \in Seq(B) \ {<<>>} /\ \A s \in B, t \in B : s \o t \in B
    OBVIOUS
  <2> HIDE DEF B
  <2> QED
    BY <2>1, Flatten
<1> HIDE DEF n
<1> DEFINE Good(m) == /\ Len(f[m]) = 2 * m
                      /\ \A i \in 1..m, s \in 1..2 : f[m][2 * (i - 1) + s] = T[i][s]
           Bad == {m \in 1..n : ~Good(m)}
<1>2. ASSUME Bad # {} PROVE FALSE
  <2>1. Bad \in SUBSET Nat
    <3> HIDE DEF Good
    <3> QED
      BY <1>0
  <2> HIDE DEF Bad
  <2>2. PICK m \in Bad : \A k \in Bad : m <= k
    BY <1>2, <2>1, LeastElement
  <2>3. m \in 1..n /\ ~Good(m)
    BY DEF Bad
  <2>4. m # 1
    <3>1. Len(f[1]) = 2 * 1
      BY <1>0, <1>1
    <3>2. ASSUME NEW i \in 1..1, NEW s \in 1..2 PROVE f[1][2 * (i - 1) + s] = T[i][s]
      <4>1. i = 1 /\ 2 * (i - 1) + s = s
        OBVIOUS
      <4> QED
        BY <1>1, <4>1
    <3> QED
      BY <2>3, <3>1, <3>2
  <2>5. m - 1 \in 1..n /\ Good(m - 1) /\ m \in 2..n
    <3>1. m - 1 \in 1..n /\ m - 1 \notin Bad /\ m \in 2..n
      BY <1>0, <2>1, <2>2, <2>3, <2>4
    <3> QED
      BY <3>1 DEF Bad
  <2> DEFINE g == f[m - 1]
             t == T[m]
             h == f[m]
  <2>6. /\ g \in Seq(S) /\ t \in Seq(S) /\ Len(t) = 2 /\ Len(g) = 2 * (m - 1) /\ h = g \o t
        /\ \A i \in 1..(m - 1), s \in 1..2 : g[2 * (i - 1) + s] = T[i][s]
    BY <1>0, <1>1, <2>3, <2>5
  <2> HIDE DEF g, t
  <2>7. /\ Len(g \o t) = Len(g) + 2
        /\ \A k \in 1..Len(g) : (g \o t)[k] = g[k]
        /\ \A s \in 1..2 : (g \o t)[Len(g) + s] = t[s]
    <3>1. /\ Len(g \o t) = Len(g) + Len(t)
          /\ \A k \in 1..Len(g) : (g \o t)[k] = g[k]
          /\ \A k \in 1..Len(t) : (g \o t)[Len(g) + k] = t[k]
      <4>1. g \in Seq(S) /\ t \in Seq(S)
        BY <2>6
      <4> QED
        BY <4>1, ConcatIndex
    <3> QED
      BY <2>6, <3>1
  <2>8. Len(h) = 2 * m
    BY <2>3, <2>6, <2>7
  <2>9. ASSUME NEW i \in 1..m, NEW s \in 1..2 PROVE h[2 * (i - 1) + s] = T[i][s]
    <3>1. CASE i = m
      BY <2>3, <2>6, <2>7, <3>1 DEF t
    <3>2. CASE i # m
      <4>1. i \in 1..(m - 1) /\ 2 * (i - 1) + s \in 1..Len(g)
        BY <2>3, <2>6, <3>2
      <4> QED
        BY <2>6, <2>7, <4>1
    <3> QED
      BY <3>1, <3>2
  <2> QED
    BY <2>3, <2>8, <2>9
<1>3. Good(n)
  <2>1. n \in 1..n
    BY <1>0
  <2> HIDE DEF Good
  <2> QED
    BY <1>2, <2>1
<1> QED
  BY <1>1, <1>3 DEF n

\* The jobs of a round in which each of two arms takes its turn on every cell.
JobsOf(S) == [cell : S, slot : 1..2, variant : K1_VARIANTS]
JobIs(job, cell, slot, variant) == job.cell = cell /\ job.slot = slot /\ job.variant = variant

\* Two variants on every cell make two jobs a cell, in the order they were put.
LEMMA JobsFacts ==
  ASSUME NEW S, NEW cells \in Seq(S), NEW variants \in Seq(K1_VARIANTS), Len(variants) = 2
  PROVE  /\ Jobs(cells, variants) \in Seq(JobsOf(S))
         /\ Len(Jobs(cells, variants)) = 2 * Len(cells)
         /\ \A i \in 1..Len(cells), s \in 1..2 :
              JobIs(Jobs(cells, variants)[2 * (i - 1) + s], cells[i], s, variants[s])
<1> DEFINE n == Len(cells)
           Part(i) == [s \in DOMAIN variants |-> [cell |-> cells[i], slot |-> s, variant |-> variants[s]]]
           T == [i \in DOMAIN cells |-> Part(i)]
<1>1. n \in Nat /\ DOMAIN cells = 1..n /\ DOMAIN variants = 1..2 /\ \A i \in 1..n : cells[i] \in S
  OBVIOUS
<1>2. ASSUME NEW i \in 1..n
      PROVE  /\ Part(i) \in Seq(JobsOf(S)) /\ Len(Part(i)) = 2
             /\ \A s \in 1..2 : JobIs(Part(i)[s], cells[i], s, variants[s])
  <2>1. ASSUME NEW s \in 1..2 PROVE [cell |-> cells[i], slot |-> s, variant |-> variants[s]] \in JobsOf(S)
    <3>1. variants[s] \in K1_VARIANTS
      <4>1. \A S0 : \A q \in Seq(S0) : \A i0 \in 1..Len(q) : q[i0] \in S0
        OBVIOUS
      <4>2. s \in 1..Len(variants) /\ variants \in Seq(K1_VARIANTS)
        OBVIOUS
      <4> QED
        BY <4>1, <4>2
    <3> QED
      BY <1>1, <3>1 DEF JobsOf
  <2>2. Part(i) \in [1..2 -> JobsOf(S)]
    BY <1>1, <2>1
  <2>3. \A s \in 1..2 : JobIs(Part(i)[s], cells[i], s, variants[s])
    BY <1>1 DEF JobIs
  <2> QED
    BY <1>1, <2>2, <2>3
<1> HIDE DEF Part
<1>3. T \in Seq(Seq(JobsOf(S))) /\ Len(T) = n /\ \A i \in 1..n : T[i] = Part(i)
  <2>1. T \in [1..n -> Seq(JobsOf(S))]
    BY <1>1, <1>2
  <2>2. DOMAIN T = 1..n /\ \A i \in 1..n : T[i] = Part(i)
    BY <1>1
  <2> HIDE DEF T
  <2> QED
    BY <1>1, <2>1, <2>2
<1>4. Jobs(cells, variants) = FlattenSeq(T)
  BY DEF Jobs, Part
<1> HIDE DEF T
<1>5. FlattenSeq(T) \in Seq(JobsOf(S))
  BY <1>3, FlattenTyped
<1>6. CASE n = 0
  <2>1. T = <<>>
    BY <1>3, <1>6
  <2>2. Len(FlattenSeq(T)) = 0
    BY <2>1 DEF FlattenSeq
  <2> QED
    BY <1>4, <1>5, <1>6, <2>2
<1>7. CASE n # 0
  <2>1. T # <<>> /\ \A i \in 1..Len(T) : Len(T[i]) = 2
    BY <1>1, <1>2, <1>3, <1>7
  <2>2. /\ Len(FlattenSeq(T)) = 2 * n
        /\ \A i \in 1..n, s \in 1..2 : FlattenSeq(T)[2 * (i - 1) + s] = T[i][s]
    BY <1>3, <2>1, FlattenPairs
  <2>3. ASSUME NEW i \in 1..n, NEW s \in 1..2
        PROVE  JobIs(FlattenSeq(T)[2 * (i - 1) + s], cells[i], s, variants[s])
    <3>1. FlattenSeq(T)[2 * (i - 1) + s] = Part(i)[s]
      BY <1>3, <2>2
    <3>2. JobIs(Part(i)[s], cells[i], s, variants[s])
      BY <1>2
    <3> QED
      BY <3>1, <3>2, Zenon
  <2> QED
    BY <1>4, <1>5, <2>2, <2>3
<1> QED
  BY <1>6, <1>7

\* The jobs that are one arm of one cell.
Asked(jobs, cell, variant) == {k \in DOMAIN jobs : jobs[k].cell = cell /\ jobs[k].variant = variant}

\* Two arms that differ have as many jobs on a cell as the cells name it,
\* whatever order the cells are put in.
LEMMA RoundJobs ==
  ASSUME NEW S, NEW cells \in Seq(S), NEW order \in Shuffles(cells),
         NEW variants \in Seq(K1_VARIANTS), Len(variants) = 2, variants[1] # variants[2]
  PROVE  LET jobs == Jobs(order, variants) IN
         /\ jobs \in Seq(JobsOf(S))
         /\ \A k \in DOMAIN jobs : jobs[k].variant = variants[jobs[k].slot]
         /\ \A c \in S, v \in K1_VARIANTS :
              LET Named == {i \in DOMAIN cells : cells[i] = c} IN Size(Asked(jobs, c, v), Cardinality(Named))
<1> DEFINE n == Len(cells)
           jobs == Jobs(order, variants)
<1>1. n \in Nat /\ DOMAIN cells = 1..n /\ \A i \in 1..n : cells[i] \in S
  OBVIOUS
<1>2. PICK p \in Bijection(1..n, 1..n) : order = [i \in 1..n |-> cells[p[i]]]
  BY <1>1 DEF Shuffles
<1>3. /\ \A i \in 1..n : p[i] \in 1..n
      /\ \A i, j \in 1..n : p[i] = p[j] => i = j
      /\ \A j \in 1..n : \E i \in 1..n : p[i] = j
  BY DEF Bijection, Injection, Surjection, IsInjective
<1> HIDE DEF n
<1>4. order \in Seq(S) /\ Len(order) = n
  <2>1. order \in [1..n -> S]
    BY <1>1, <1>2, <1>3
  <2> QED
    BY <1>1, <2>1
<1>5. /\ jobs \in Seq(JobsOf(S)) /\ Len(jobs) = 2 * n
      /\ \A i \in 1..n, s \in 1..2 :
           JobIs(jobs[2 * (i - 1) + s], order[i], s, variants[s])
  BY <1>4, JobsFacts
<1> SUFFICES /\ jobs \in Seq(JobsOf(S))
             /\ \A k \in DOMAIN jobs : jobs[k].variant = variants[jobs[k].slot]
             /\ \A c \in S, v \in K1_VARIANTS :
                  Size(Asked(jobs, c, v), Cardinality({i \in DOMAIN cells : cells[i] = c}))
  OBVIOUS
<1> HIDE DEF jobs
<1>6. \A i \in 1..n, s \in 1..2 : /\ 2 * (i - 1) + s \in DOMAIN jobs
                                 /\ jobs[2 * (i - 1) + s].cell = order[i]
                                 /\ jobs[2 * (i - 1) + s].slot = s
                                 /\ jobs[2 * (i - 1) + s].variant = variants[s]
  <2>1. DOMAIN jobs = 1..(2 * n)
    BY <1>1, <1>5
  <2>2. \A i \in 1..n, s \in 1..2 : 2 * (i - 1) + s \in 1..(2 * n)
    BY <1>1
  <2> QED
    BY <1>5, <2>1, <2>2 DEF JobIs
<1>12. variants[1] \in K1_VARIANTS /\ variants[2] \in K1_VARIANTS
  <2>1. \A S0 : \A q \in Seq(S0) : \A i0 \in 1..Len(q) : q[i0] \in S0
    OBVIOUS
  <2>2. 1 \in 1..Len(variants) /\ 2 \in 1..Len(variants)
    OBVIOUS
  <2> QED
    BY <2>1, <2>2
<1> DEFINE Of(k) == (k + 1) \div 2
<1>7. \A k \in DOMAIN jobs : Of(k) \in 1..n /\ \E s \in 1..2 : k = 2 * (Of(k) - 1) + s
  <2> SUFFICES ASSUME NEW k \in 1..(2 * n) PROVE Of(k) \in 1..n /\ \E s \in 1..2 : k = 2 * (Of(k) - 1) + s
    <3>1. DOMAIN jobs = 1..(2 * n)
      BY <1>1, <1>5
    <3> QED
      BY <3>1
  <2>1. Of(k) \in 1..n /\ k - 2 * (Of(k) - 1) \in 1..2
    BY <1>1
  <2> QED
    BY <2>1
<1>11. \A i \in 1..n, s \in 1..2 : Of(2 * (i - 1) + s) = i
  <2>1. \A i \in Nat, s \in 1..2 : Of(2 * (i - 1) + s) = i
    OBVIOUS
  <2>2. \A i \in 1..n : i \in Nat
    BY <1>1
  <2> HIDE DEF Of
  <2> QED
    BY <2>1, <2>2
<1> HIDE DEF Of
<1>8. ASSUME NEW k \in DOMAIN jobs PROVE jobs[k].variant = variants[jobs[k].slot]
  <2>1. PICK s \in 1..2 : k = 2 * (Of(k) - 1) + s
    BY <1>7
  <2>2. Of(k) \in 1..n
    BY <1>7
  <2>3. jobs[2 * (Of(k) - 1) + s].slot = s /\ jobs[2 * (Of(k) - 1) + s].variant = variants[s]
    BY <1>6, <2>2
  <2> QED
    BY <2>1, <2>3
<1>9. ASSUME NEW c \in S, NEW v \in K1_VARIANTS
      PROVE  Size(Asked(jobs, c, v), Cardinality({i \in DOMAIN cells : cells[i] = c}))
  <2> DEFINE A == Asked(jobs, c, v)
             C == {i \in DOMAIN cells : cells[i] = c}
             f == [k \in A |-> p[Of(k)]]
  <2>1. ASSUME NEW k \in A
        PROVE  /\ Of(k) \in 1..n /\ order[Of(k)] = c
               /\ \E s \in 1..2 : k = 2 * (Of(k) - 1) + s /\ variants[s] = v
    <3>1. k \in DOMAIN jobs /\ jobs[k].cell = c /\ jobs[k].variant = v
      BY DEF Asked
    <3>2. PICK s \in 1..2 : k = 2 * (Of(k) - 1) + s
      BY <1>7, <3>1
    <3>3. Of(k) \in 1..n
      BY <1>7, <3>1
    <3>4. jobs[2 * (Of(k) - 1) + s].cell = order[Of(k)] /\ jobs[2 * (Of(k) - 1) + s].variant = variants[s]
      BY <1>6, <3>3
    <3> QED
      BY <3>1, <3>2, <3>3, <3>4
  <2>2. f \in [A -> C]
    <3>1. ASSUME NEW k \in A PROVE p[Of(k)] \in C
      <4>1. Of(k) \in 1..n /\ order[Of(k)] = c
        BY <2>1
      <4>2. p[Of(k)] \in 1..n /\ order[Of(k)] = cells[p[Of(k)]]
        BY <1>2, <1>3, <4>1
      <4> QED
        BY <1>1, <4>1, <4>2
    <3> QED
      BY <3>1
  <2>3. ASSUME NEW k \in A, NEW l \in A, f[k] = f[l] PROVE k = l
    <3>1. Of(k) = Of(l)
      <4>1. Of(k) \in 1..n /\ Of(l) \in 1..n
        BY <2>1
      <4>2. p[Of(k)] = p[Of(l)]
        BY <2>3
      <4> QED
        BY <1>3, <4>1, <4>2
    <3>2. PICK s \in 1..2 : k = 2 * (Of(k) - 1) + s /\ variants[s] = v
      BY <2>1
    <3>3. PICK t \in 1..2 : l = 2 * (Of(l) - 1) + t /\ variants[t] = v
      BY <2>1
    <3>4. s = t
      BY <3>2, <3>3
    <3> QED
      BY <3>1, <3>2, <3>3, <3>4
  <2>4. ASSUME NEW j \in C PROVE \E k \in A : f[k] = j
    <3>1. PICK i \in 1..n : p[i] = j
      BY <1>1, <1>3
    <3>2. PICK s \in 1..2 : variants[s] = v
      BY <1>12 DEF K1_VARIANTS
    <3>3. order[i] = c
      BY <1>2, <3>1
    <3>4. 2 * (i - 1) + s \in A
      BY <1>6, <3>2, <3>3 DEF Asked
    <3>5. f[2 * (i - 1) + s] = j
      BY <1>11, <3>1, <3>4
    <3> QED
      BY <3>4, <3>5
  <2>5. IsFiniteSet(C)
    <3>1. IsFiniteSet(1..n) /\ C \subseteq 1..n
      BY <1>1, FS_Interval
    <3> QED
      BY <3>1, FS_Subset
  <2> HIDE DEF A, C
  <2>6. f \in Injection(A, C) /\ f \in Surjection(A, C)
    BY <2>2, <2>3, <2>4 DEF Injection, Surjection, IsInjective
  <2> HIDE DEF f
  <2>7. IsFiniteSet(A) /\ Cardinality(A) = Cardinality(C)
    BY <2>5, <2>6, FS_Injection
  <2> QED
    BY <2>7 DEF Size, A, C
<1> QED
  BY <1>5, <1>8, <1>9

-----------------------------------------------------------------------------
(* The samples of an arm *)

\* The place of i among the members of A.
Place(A, i) == Cardinality({j \in A : j <= i})

\* Every member has a place of its own, and no place is left empty.
LEMMA Places ==
  ASSUME NEW A \in SUBSET Nat, IsFiniteSet(A)
  PROVE  /\ Cardinality(A) \in Nat
         /\ \A i \in A : Place(A, i) \in 1..Cardinality(A)
         /\ \A i, j \in A : Place(A, i) = Place(A, j) => i = j
         /\ \A n \in 1..Cardinality(A) : \E i \in A : Place(A, i) = n
<1> DEFINE N == Cardinality(A)
           Upto(i) == {j \in A : j <= i}
<1>1. N \in Nat /\ IsFiniteSet(1..N) /\ Cardinality(1..N) = N
  BY FS_CardinalityType, FS_Interval
<1>2. ASSUME NEW i \in A
      PROVE  /\ IsFiniteSet(Upto(i)) /\ Cardinality(Upto(i)) \in 1..N
             /\ Place(A, i) = Cardinality(Upto(i))
  <2>1. Upto(i) \in SUBSET A /\ i \in Upto(i)
    OBVIOUS
  <2>2. IsFiniteSet(Upto(i)) /\ Cardinality(Upto(i)) <= N
    BY <2>1, FS_Subset
  <2>3. Cardinality(Upto(i)) \in Nat /\ Cardinality(Upto(i)) # 0
    BY <2>1, <2>2, FS_CardinalityType, FS_EmptySet
  <2> QED
    BY <1>1, <2>2, <2>3 DEF Place
<1>3. ASSUME NEW i \in A, NEW j \in A, i < j PROVE Cardinality(Upto(i)) < Cardinality(Upto(j))
  <2>1. Upto(i) \in SUBSET Upto(j) /\ j \in Upto(j) /\ j \notin Upto(i)
    <3>1. i \in Nat /\ j \in Nat /\ \A k \in A : k \in Nat
      OBVIOUS
    <3>2. \A k \in A : k <= i => k <= j
      BY <1>3, <3>1
    <3>3. j <= j /\ ~(j <= i)
      BY <1>3, <3>1
    <3> QED
      BY <3>2, <3>3
  <2>2. /\ Cardinality(Upto(i)) <= Cardinality(Upto(j))
        /\ Cardinality(Upto(j)) = Cardinality(Upto(i)) => Upto(j) = Upto(i)
    <3> HIDE DEF Upto
    <3> QED
      BY <1>2, <2>1, FS_Subset
  <2> QED
    BY <1>2, <2>1, <2>2
<1> DEFINE place == [i \in A |-> Cardinality(Upto(i))]
<1> HIDE DEF Upto
<1>4. place \in Injection(A, 1..N)
  <2>1. place \in [A -> 1..N]
    BY <1>2
  <2>2. ASSUME NEW i \in A, NEW j \in A, i # j PROVE place[i] # place[j]
    <3>1. i < j \/ j < i
      BY <2>2
    <3>2. Cardinality(Upto(i)) \in Nat /\ Cardinality(Upto(j)) \in Nat
      BY <1>1, <1>2
    <3> QED
      BY <1>3, <3>1, <3>2
  <2> QED
    BY <2>1, <2>2 DEF Injection, IsInjective
<1>5. place \in Surjection(A, 1..N)
  BY <1>1, <1>4, FS_Injection
<1>6. \A n \in 1..N : \E i \in A : place[i] = n
  BY <1>5 DEF Surjection
<1>7. \A i, j \in A : place[i] = place[j] => i = j
  BY <1>4 DEF Injection, IsInjective
<1>8. \A i \in A : place[i] = Place(A, i) /\ Place(A, i) \in 1..N
  BY <1>2
<1> HIDE DEF place
<1> QED
  BY <1>1, <1>6, <1>7, <1>8

\* summarize_ab_cell finds the samples of every process of an arm, and
\* nothing else.
LEMMA ArmRunsFacts ==
  ASSUME NEW rows, NEW cell, NEW variant, NEW A \in SUBSET Nat, A = ArmRows(rows, cell, variant),
         IsFiniteSet(A), A # {}, \A i \in A : rows[i].k1 \in Samples
  PROVE  /\ ArmRuns(rows, cell, variant) \in Trials
         /\ \A i \in A : \E t \in DOMAIN ArmRuns(rows, cell, variant) :
              ArmRuns(rows, cell, variant)[t] = rows[i].k1
<1> DEFINE N == Cardinality(A)
           Nth(n) == CHOOSE i \in A : Place(A, i) = n
           found == [n \in 1..N |-> rows[Nth(n)].k1]
<1>1. N \in Nat /\ N > 0
  BY FS_CardinalityType, FS_EmptySet
<1>2. ArmRuns(rows, cell, variant) = found
  BY DEF ArmRuns, Place
<1>3. ASSUME NEW n \in 1..N PROVE Nth(n) \in A /\ Place(A, Nth(n)) = n
  BY Places
<1>4. ASSUME NEW i \in A PROVE Place(A, i) \in 1..N /\ Nth(Place(A, i)) = i
  <2>1. Place(A, i) \in 1..N
    BY Places
  <2>2. Nth(Place(A, i)) \in A /\ Place(A, Nth(Place(A, i))) = Place(A, i)
    BY <1>3, <2>1
  <2> HIDE DEF Nth
  <2> QED
    BY <2>1, <2>2, Places
<1> HIDE DEF Nth, N
<1>5. found \in [1..N -> Samples]
  BY <1>3
<1>6. DOMAIN found = 1..N /\ \A n \in 1..N : found[n] = rows[Nth(n)].k1
  OBVIOUS
<1> HIDE DEF found
<1>7. found \in Seq(Samples) /\ found # <<>>
  BY <1>1, <1>5
<1>8. \A i \in A : \E t \in DOMAIN found : found[t] = rows[i].k1
  BY <1>4, <1>6
<1> QED
  BY <1>2, <1>7, <1>8 DEF Trials

-----------------------------------------------------------------------------
(* Rounds *)

\* The arms of an A/B experiment, and the rows its processes may leave.
BothVariants == <<"reference", "optimized">>

\* variant_order: both variants, the reference first in the even rounds.
LEMMA OrderOfVariants ==
  ASSUME NEW q \in Nat
  PROVE  /\ VariantOrder(q, BothVariants) \in Seq(K1_VARIANTS)
         /\ Len(VariantOrder(q, BothVariants)) = 2
         /\ VariantOrder(q, BothVariants)[1] = (IF q % 2 = 0 THEN "reference" ELSE "optimized")
         /\ VariantOrder(q, BothVariants)[2] = (IF q % 2 = 0 THEN "optimized" ELSE "reference")
<1>1. BothVariants \in Seq(K1_VARIANTS) /\ Len(BothVariants) = 2
  BY DEF BothVariants, K1_VARIANTS
<1>2. Reverse(BothVariants) = <<"optimized", "reference">>
  BY DEF BothVariants, Reverse
<1>3. <<"reference", "optimized">> \in Seq(K1_VARIANTS) /\ <<"optimized", "reference">> \in Seq(K1_VARIANTS)
  BY DEF K1_VARIANTS
<1>4. VariantOrder(q, BothVariants) = IF q % 2 = 0 THEN BothVariants ELSE <<"optimized", "reference">>
  BY <1>1, <1>2 DEF VariantOrder
<1>5. CASE q % 2 = 0
  <2>1. VariantOrder(q, BothVariants) = <<"reference", "optimized">>
    BY <1>4, <1>5 DEF BothVariants
  <2> QED
    BY <1>3, <1>5, <2>1
<1>6. CASE q % 2 # 0
  <2>1. VariantOrder(q, BothVariants) = <<"optimized", "reference">>
    BY <1>4, <1>6
  <2> QED
    BY <1>3, <1>6, <2>1
<1> QED
  BY <1>5, <1>6

RowsOf(S) ==
  [cell : S, variant : K1_VARIANTS, slot : 1..2, round : Nat, ran : K1_VARIANTS, k1 : K1Samples]
RanIn(rows, cell, variant, q) ==
  {i \in DOMAIN rows : rows[i].cell = cell /\ rows[i].variant = variant /\ rows[i].round = q}

\* What is left of the n-th round.
JobsState(S, n, jobs) ==
  /\ jobs \in Seq(JobsOf(S))
  /\ \A k \in DOMAIN jobs : jobs[k].variant = VariantOrder(n - 1, BothVariants)[jobs[k].slot]

\* What n rounds have measured: every process in the slot of its variant,
\* which is the one that ran.
RowsState(S, n, rows) ==
  /\ rows \in Seq(RowsOf(S))
  /\ \A i \in DOMAIN rows :
       /\ rows[i].round < n
       /\ rows[i].ran = rows[i].variant
       /\ rows[i].variant = VariantOrder(rows[i].round, BothVariants)[rows[i].slot]

\* Round q measured an arm of a cell as often as the cell is named; the last
\* round did or still will.
Whole(rows, cell, variant, q, left, total) ==
  \E a, b \in Nat : Size(RanIn(rows, cell, variant, q), a) /\ Size(left, b) /\ a + b = total
RoundState(S, K, n, rows, jobs) ==
  /\ JobsState(S, n, jobs)
  /\ RowsState(S, n, rows)
  /\ \A c \in S, v \in K1_VARIANTS :
       /\ \A q \in 0..(n - 2) : Size(RanIn(rows, c, v, q), K[c])
       /\ n > 0 => Whole(rows, c, v, n - 1, Asked(jobs, c, v), K[c])

\* The empty set has no element.
LEMMA SizeOfNothing == Size({}, 0)
BY FS_EmptySet DEF Size

\* A set has one size.
LEMMA SizeIsOne ==
  ASSUME NEW A, NEW a, NEW b, Size(A, a), Size(A, b)
  PROVE  a = b /\ a \in Nat
BY FS_CardinalityType DEF Size

\* Before the first round nothing is measured.
LEMMA NoRound ==
  ASSUME NEW S, NEW K
  PROVE  RoundState(S, K, 0, <<>>, <<>>)
BY DEF RoundState, JobsState, RowsState

\* When nothing is left of a round, it has measured every arm.
LEMMA RoundOver ==
  ASSUME NEW S, NEW K, NEW n \in Nat, NEW rows, RoundState(S, K, n, rows, <<>>),
         NEW c \in S, NEW v \in K1_VARIANTS, NEW q \in 0..(n - 1)
  PROVE  Size(RanIn(rows, c, v, q), K[c])
<1>1. CASE q = n - 1
  <2>1. Whole(rows, c, v, q, Asked(<<>>, c, v), K[c])
    BY <1>1 DEF RoundState
  <2>2. PICK a \in Nat, b \in Nat : Size(RanIn(rows, c, v, q), a) /\ Size(Asked(<<>>, c, v), b) /\ a + b = K[c]
    BY <2>1 DEF Whole
  <2>3. Asked(<<>>, c, v) = {}
    BY DEF Asked
  <2>4. b = 0
    BY <2>2, <2>3, SizeOfNothing, SizeIsOne
  <2>5. a = K[c]
    BY <2>2, <2>4
  <2> QED
    BY <2>2, <2>5
<1>2. CASE q # n - 1
  <2>1. q \in 0..(n - 2)
    BY <1>2
  <2> QED
    BY <2>1 DEF RoundState
<1> QED
  BY <1>1, <1>2

\* How often a list of cells names each.
NamesOf(cells, S) == [c \in S |-> Cardinality({i \in DOMAIN cells : cells[i] = c})]

\* A round that begins when nothing is left of the last one.
LEMMA NewRound ==
  ASSUME NEW S, NEW cells \in Seq(S), NEW n \in Nat, NEW rows,
         RoundState(S, NamesOf(cells, S), n, rows, <<>>), NEW order \in Shuffles(cells)
  PROVE  RoundState(S, NamesOf(cells, S), n + 1, rows, Jobs(order, VariantOrder(n, BothVariants)))
<1> DEFINE variants == VariantOrder(n, BothVariants)
           jobs == Jobs(order, variants)
           K == NamesOf(cells, S)
<1>1. variants \in Seq(K1_VARIANTS) /\ Len(variants) = 2 /\ variants[1] # variants[2]
  BY OrderOfVariants
<1>2. (n + 1) - 1 = n /\ (n + 1) - 2 = n - 1 /\ n + 1 > 0
  OBVIOUS
<1> HIDE DEF variants
<1>3. /\ jobs \in Seq(JobsOf(S))
      /\ \A k \in DOMAIN jobs : jobs[k].variant = variants[jobs[k].slot]
      /\ \A c \in S, v \in K1_VARIANTS :
           LET Named == {i \in DOMAIN cells : cells[i] = c} IN Size(Asked(jobs, c, v), Cardinality(Named))
  BY <1>1, RoundJobs
<1>9. \A c \in S, v \in K1_VARIANTS : Size(Asked(jobs, c, v), K[c])
  <2> HIDE DEF jobs
  <2> QED
    BY <1>3 DEF NamesOf
<1> HIDE DEF jobs, K
<1>4. JobsState(S, n + 1, jobs)
  BY <1>2, <1>3 DEF JobsState, variants
<1>5. /\ rows \in Seq(RowsOf(S))
      /\ \A i \in DOMAIN rows : rows[i].round < n /\ rows[i].round \in Nat
  <2>1. rows \in Seq(RowsOf(S)) /\ \A i \in DOMAIN rows : rows[i].round < n
    BY DEF RoundState, RowsState
  <2>2. \A i \in DOMAIN rows : rows[i] \in RowsOf(S)
    BY <2>1
  <2> QED
    BY <2>1, <2>2 DEF RowsOf
<1>6. RowsState(S, n + 1, rows)
  BY <1>5 DEF RoundState, RowsState
<1>7. ASSUME NEW c \in S, NEW v \in K1_VARIANTS, NEW q \in 0..(n - 1) PROVE Size(RanIn(rows, c, v, q), K[c])
  BY RoundOver DEF K
<1>8. ASSUME NEW c \in S, NEW v \in K1_VARIANTS PROVE Whole(rows, c, v, n, Asked(jobs, c, v), K[c])
  <2>1. RanIn(rows, c, v, n) = {}
    BY <1>5 DEF RanIn
  <2>2. Size(RanIn(rows, c, v, n), 0)
    BY <2>1, SizeOfNothing
  <2>3. Size(Asked(jobs, c, v), K[c])
    BY <1>9
  <2>4. K[c] \in Nat /\ 0 + K[c] = K[c]
    <3>1. K[c] \in Nat
      BY <2>3, SizeIsOne
    <3> QED
      BY <3>1
  <2> QED
    BY <2>2, <2>3, <2>4 DEF Whole
<1>10. RoundState(S, K, n + 1, rows, jobs)
  BY <1>2, <1>4, <1>6, <1>7, <1>8 DEF RoundState
<1> QED
  BY <1>10 DEF K, jobs, variants

\* What is left of the jobs of an arm when the first job is done.
LEMMA JobDone ==
  ASSUME NEW S, NEW jobs \in Seq(JobsOf(S)), jobs # <<>>, NEW c, NEW v, NEW b, Size(Asked(jobs, c, v), b)
  PROVE  IF jobs[1].cell = c /\ jobs[1].variant = v
         THEN b \in Nat \ {0} /\ Size(Asked(Tail(jobs), c, v), b - 1)
         ELSE Size(Asked(Tail(jobs), c, v), b)
<1> DEFINE A == Asked(jobs, c, v)
           R == Asked(Tail(jobs), c, v)
           m == Len(jobs)
           back == [k \in R |-> k + 1]
<1>1. /\ m \in Nat /\ m > 0 /\ DOMAIN jobs = 1..m /\ DOMAIN Tail(jobs) = 1..(m - 1)
      /\ \A k \in 1..(m - 1) : Tail(jobs)[k] = jobs[k + 1]
  OBVIOUS
<1> HIDE DEF m
<1>2. \A k \in R : k \in Int /\ k + 1 \in A \ {1}
  BY <1>1 DEF Asked
<1>3. \A k \in A \ {1} : k - 1 \in R /\ (k - 1) + 1 = k
  BY <1>1 DEF Asked
<1>4. IsFiniteSet(A) /\ Cardinality(A) = b /\ b \in Nat
  BY FS_CardinalityType DEF Size
<1>5. 1 \in A <=> jobs[1].cell = c /\ jobs[1].variant = v
  BY <1>1 DEF Asked
<1> HIDE DEF A, R
<1>6. back \in Bijection(R, A \ {1})
  <2>1. back \in [R -> A \ {1}]
    BY <1>2
  <2>2. \A k, l \in R : back[k] = back[l] => k = l
    BY <1>2
  <2>3. \A k \in A \ {1} : \E l \in R : back[l] = k
    BY <1>3
  <2> QED
    BY <2>1, <2>2, <2>3 DEF Bijection, Injection, Surjection, IsInjective
<1>7. IsFiniteSet(A \ {1}) /\ Cardinality(A \ {1}) = (IF 1 \in A THEN b - 1 ELSE b)
  BY <1>4, FS_RemoveElement
<1> HIDE DEF back
<1>8. IsFiniteSet(R) /\ Cardinality(R) = Cardinality(A \ {1})
  <2>1. back \in Injection(R, A \ {1}) /\ back \in Surjection(R, A \ {1})
    BY <1>6 DEF Bijection
  <2> QED
    BY <1>7, <2>1, FS_Injection
<1>9. 1 \in A => b # 0
  <2>1. A # {} => Cardinality(A) # 0
    BY <1>4, FS_EmptySet
  <2> QED
    BY <1>4, <2>1
<1> QED
  BY <1>4, <1>5, <1>7, <1>8, <1>9 DEF Size, R

\* A process of the round that ran the variant it was asked for.
LEMMA NextJob ==
  ASSUME NEW S, NEW K, NEW n \in Nat \ {0}, NEW rows, NEW jobs, RoundState(S, K, n, rows, jobs), jobs # <<>>,
         NEW row \in RowsOf(S),
         row.cell = Head(jobs).cell, row.variant = Head(jobs).variant, row.slot = Head(jobs).slot,
         row.round = n - 1, row.ran = row.variant
  PROVE  RoundState(S, K, n, Append(rows, row), Tail(jobs))
<1> DEFINE more == Append(rows, row)
           rest == Tail(jobs)
           L == Len(rows)
           m == Len(jobs)
<1>1. /\ jobs \in Seq(JobsOf(S)) /\ m \in Nat /\ m > 0 /\ DOMAIN jobs = 1..m
      /\ rest \in Seq(JobsOf(S)) /\ DOMAIN rest = 1..(m - 1)
      /\ \A k \in 1..(m - 1) : k + 1 \in 1..m /\ rest[k] = jobs[k + 1]
      /\ 1 \in 1..m /\ Head(jobs) = jobs[1]
  <2>1. jobs \in Seq(JobsOf(S))
    BY DEF RoundState, JobsState
  <2> QED
    BY <2>1
<1>2. /\ rows \in Seq(RowsOf(S)) /\ L \in Nat /\ DOMAIN rows = 1..L
      /\ more \in Seq(RowsOf(S)) /\ DOMAIN more = 1..(L + 1)
      /\ \A i \in 1..L : more[i] = rows[i]
      /\ more[L + 1] = row
  <2>1. rows \in Seq(RowsOf(S))
    BY DEF RoundState, RowsState
  <2> QED
    BY <2>1
<1>5. ASSUME NEW c, NEW v, NEW b, Size(Asked(jobs, c, v), b)
      PROVE  /\ row.cell = c /\ row.variant = v => b \in Nat \ {0} /\ Size(Asked(rest, c, v), b - 1)
             /\ ~(row.cell = c /\ row.variant = v) => Size(Asked(rest, c, v), b)
  <2>1. IF jobs[1].cell = c /\ jobs[1].variant = v
        THEN b \in Nat \ {0} /\ Size(Asked(rest, c, v), b - 1)
        ELSE Size(Asked(rest, c, v), b)
    BY <1>1, <1>5, JobDone
  <2> HIDE DEF rest
  <2> QED
    BY <1>1, <2>1
<1> HIDE DEF more, rest, L, m
<1>9. \A k \in 1..m : jobs[k].variant = VariantOrder(n - 1, BothVariants)[jobs[k].slot]
  BY <1>1 DEF RoundState, JobsState
<1>3. JobsState(S, n, rest)
  BY <1>1, <1>9 DEF JobsState
<1>4. RowsState(S, n, more)
  <2>1. \A i \in 1..L : /\ rows[i].round < n
                        /\ rows[i].ran = rows[i].variant
                        /\ rows[i].variant = VariantOrder(rows[i].round, BothVariants)[rows[i].slot]
    BY <1>2 DEF RoundState, RowsState
  <2>2. /\ row.round < n
        /\ row.variant = VariantOrder(row.round, BothVariants)[row.slot]
    BY <1>1, <1>9
  <2>4. ASSUME NEW i \in 1..(L + 1)
        PROVE  /\ more[i].round < n
               /\ more[i].ran = more[i].variant
               /\ more[i].variant = VariantOrder(more[i].round, BothVariants)[more[i].slot]
    <3>1. i \in 1..L \/ i = L + 1
      BY <1>2
    <3> QED
      BY <1>2, <2>1, <2>2, <3>1
  <2> QED
    BY <1>2, <2>4 DEF RowsState
<1>6. ASSUME NEW c, NEW v, NEW q
      PROVE  /\ row.cell = c /\ row.variant = v /\ row.round = q =>
                   RanIn(more, c, v, q) = RanIn(rows, c, v, q) \cup {L + 1}
             /\ ~(row.cell = c /\ row.variant = v /\ row.round = q) =>
                   RanIn(more, c, v, q) = RanIn(rows, c, v, q)
  BY <1>2 DEF RanIn
<1>7. ASSUME NEW c \in S, NEW v \in K1_VARIANTS, NEW q \in 0..(n - 2) PROVE Size(RanIn(more, c, v, q), K[c])
  <2>1. row.round # q
    OBVIOUS
  <2>2. RanIn(more, c, v, q) = RanIn(rows, c, v, q)
    BY <1>6, <2>1
  <2> QED
    BY <2>2 DEF RoundState
<1>8. ASSUME NEW c \in S, NEW v \in K1_VARIANTS PROVE Whole(more, c, v, n - 1, Asked(rest, c, v), K[c])
  <2> DEFINE A == RanIn(rows, c, v, n - 1)
  <2>1. Whole(rows, c, v, n - 1, Asked(jobs, c, v), K[c])
    BY DEF RoundState
  <2>2. PICK a \in Nat, b \in Nat : Size(A, a) /\ Size(Asked(jobs, c, v), b) /\ a + b = K[c]
    BY <2>1 DEF Whole
  <2>3. CASE row.cell = c /\ row.variant = v
    <3>1. RanIn(more, c, v, n - 1) = A \cup {L + 1}
      BY <1>6, <2>3
    <3>2. L + 1 \notin A
      BY <1>2 DEF RanIn
    <3> HIDE DEF A
    <3>3. Size(A \cup {L + 1}, a + 1)
      BY <2>2, <3>2, FS_AddElement DEF Size
    <3>4. b \in Nat \ {0} /\ Size(Asked(rest, c, v), b - 1)
      BY <1>5, <2>2, <2>3
    <3>5. a + 1 \in Nat /\ b - 1 \in Nat /\ (a + 1) + (b - 1) = K[c]
      BY <2>2, <3>4
    <3> QED
      BY <3>1, <3>3, <3>4, <3>5 DEF Whole
  <2>4. CASE ~(row.cell = c /\ row.variant = v)
    <3>1. RanIn(more, c, v, n - 1) = A
      BY <1>6, <2>4
    <3>2. Size(Asked(rest, c, v), b)
      BY <1>5, <2>2, <2>4
    <3> QED
      BY <2>2, <3>1, <3>2 DEF Whole
  <2> QED
    BY <2>3, <2>4
<1> QED
  BY <1>3, <1>4, <1>7, <1>8 DEF RoundState, more, rest

\* Half of an even number of rounds are even, and half are odd.
LEMMA HalfOfTheRounds ==
  ASSUME NEW P \in Nat, P % 2 = 0, NEW parity \in {0, 1}
  PROVE  /\ IsFiniteSet({q \in 0..(P - 1) : q % 2 = parity})
         /\ 2 * Cardinality({q \in 0..(P - 1) : q % 2 = parity}) = P
<1> DEFINE h == P \div 2
           Q == {q \in 0..(P - 1) : q % 2 = parity}
           number == [m \in 1..h |-> 2 * (m - 1) + parity]
<1>1. h \in Nat /\ P = 2 * h
  OBVIOUS
<1> HIDE DEF h
<1>2. ASSUME NEW m \in 1..h PROVE 2 * (m - 1) + parity \in Q
  BY <1>1
<1>3. ASSUME NEW q \in Q PROVE (q \div 2) + 1 \in 1..h /\ q = 2 * (((q \div 2) + 1) - 1) + parity
  BY <1>1
<1> HIDE DEF Q
<1>4. number \in Bijection(1..h, Q)
  <2>1. number \in [1..h -> Q]
    BY <1>2
  <2>2. \A m, l \in 1..h : number[m] = number[l] => m = l
    BY <1>1
  <2>3. \A q \in Q : \E m \in 1..h : number[m] = q
    BY <1>3
  <2> QED
    BY <2>1, <2>2, <2>3 DEF Bijection, Injection, Surjection, IsInjective
<1>5. IsFiniteSet(1..h) /\ Cardinality(1..h) = h
  BY <1>1, FS_Interval
<1>6. IsFiniteSet(Q) /\ Cardinality(Q) = h
  <2>1. ExistsBijection(1..h, Q)
    BY <1>4 DEF ExistsBijection
  <2> QED
    BY <1>5, <2>1, FS_Bijection
<1> QED
  BY <1>1, <1>6 DEF Q

\* A is an arm of P rounds with k processes each: every one of them with its
\* samples, and first in half of them.
WholeArm(rows, A, P, k) ==
  /\ A \in SUBSET Nat /\ IsFiniteSet(A)
  /\ \A i \in A : rows[i].round \in 0..(P - 1) /\ rows[i].k1 \in Samples
  /\ \A q \in 0..(P - 1) : Size({i \in A : rows[i].round = q}, k)
  /\ P % 2 = 0 => 2 * Cardinality({i \in A : rows[i].slot = 1}) = P * k

\* After all rounds an arm of a cell has as many processes in each as the cell
\* is named, and went first in half of them.
LEMMA ArmComplete ==
  ASSUME NEW S, NEW K \in [S -> Nat], NEW P \in Nat, NEW rows, RoundState(S, K, P, rows, <<>>),
         NEW c \in S, NEW v \in K1_VARIANTS
  PROVE  WholeArm(rows, ArmRows(rows, c, v), P, K[c])
<1> DEFINE A == ArmRows(rows, c, v)
           Q == 0..(P - 1)
           k == K[c]
<1> SUFFICES /\ A \in SUBSET Nat /\ IsFiniteSet(A)
             /\ \A i \in A : rows[i].round \in Q /\ rows[i].k1 \in Samples
             /\ \A q \in Q : Size({i \in A : rows[i].round = q}, k)
             /\ P % 2 = 0 => 2 * Cardinality({i \in A : rows[i].slot = 1}) = P * k
  BY DEF WholeArm
<1>1. /\ rows \in Seq(RowsOf(S)) /\ Len(rows) \in Nat /\ DOMAIN rows = 1..Len(rows)
      /\ \A i \in DOMAIN rows : rows[i] \in RowsOf(S)
  <2>1. rows \in Seq(RowsOf(S))
    BY DEF RoundState, RowsState
  <2> QED
    BY <2>1
<1>2. A \subseteq DOMAIN rows /\ \A i \in A : rows[i].cell = c /\ rows[i].variant = v
  BY DEF ArmRows
<1>3. ASSUME NEW i \in A
      PROVE  /\ rows[i].round \in Q /\ rows[i].slot \in 1..2 /\ rows[i].k1 \in K1Samples
             /\ v = VariantOrder(rows[i].round, BothVariants)[rows[i].slot]
  <2>1. rows[i] \in RowsOf(S) /\ rows[i].round < P
    BY <1>1, <1>2 DEF RoundState, RowsState
  <2>2. rows[i].round \in Nat /\ rows[i].slot \in 1..2 /\ rows[i].k1 \in K1Samples
    BY <2>1 DEF RowsOf
  <2>3. v = VariantOrder(rows[i].round, BothVariants)[rows[i].slot]
    BY <1>2 DEF RoundState, RowsState
  <2> QED
    BY <2>1, <2>2, <2>3
<1>4. ASSUME NEW q \in Q PROVE Size({i \in A : rows[i].round = q}, k)
  <2>1. {i \in A : rows[i].round = q} = RanIn(rows, c, v, q)
    BY DEF ArmRows, RanIn
  <2>2. Size(RanIn(rows, c, v, q), K[c])
    BY RoundOver
  <2> QED
    BY <2>1, <2>2
<1>6. A \in SUBSET Nat /\ IsFiniteSet(A)
  <2>1. IsFiniteSet(1..Len(rows)) /\ A \in SUBSET (1..Len(rows))
    BY <1>1, <1>2, FS_Interval
  <2> HIDE DEF A
  <2>2. IsFiniteSet(A)
    BY <2>1, FS_Subset
  <2>3. A \in SUBSET Nat
    BY <1>1, <2>1
  <2> QED
    BY <2>2, <2>3
<1>11. \A i \in A : rows[i].k1 \in Samples
  BY <1>3, ResidentAssumption DEF Samples
<1>0. k \in Nat
  OBVIOUS
<1> HIDE DEF A, Q, k
<1>12. ASSUME P % 2 = 0 PROVE 2 * Cardinality({i \in A : rows[i].slot = 1}) = P * k
  <2> DEFINE parity == IF v = "reference" THEN 0 ELSE 1
             F == {i \in A : rows[i].slot = 1}
             G == {q \in Q : q % 2 = parity}
             h == Cardinality(G)
             f == [i \in F |-> rows[i].round]
  <2>1. parity \in {0, 1}
    OBVIOUS
  <2>2. ASSUME NEW i \in A PROVE rows[i].slot = 1 <=> rows[i].round % 2 = parity
    <3>1. rows[i].round \in Nat /\ rows[i].slot \in 1..2
      BY <1>3 DEF Q
    <3>2. /\ VariantOrder(rows[i].round, BothVariants)[1]
               = (IF rows[i].round % 2 = 0 THEN "reference" ELSE "optimized")
          /\ VariantOrder(rows[i].round, BothVariants)[2]
               = (IF rows[i].round % 2 = 0 THEN "optimized" ELSE "reference")
      BY <3>1, OrderOfVariants
    <3>3. rows[i].round % 2 \in {0, 1}
      BY <3>1
    <3>4. v = "reference" \/ v = "optimized"
      BY DEF K1_VARIANTS
    <3>5. CASE rows[i].slot = 1
      BY <1>3, <3>2, <3>3, <3>4, <3>5
    <3>6. CASE rows[i].slot = 2
      BY <1>3, <3>2, <3>3, <3>4, <3>6
    <3> QED
      BY <3>1, <3>5, <3>6
  <2> HIDE DEF parity
  <2>3. IsFiniteSet(G) /\ 2 * h = P /\ h \in Nat
    <3>1. IsFiniteSet(G) /\ 2 * h = P
      BY <1>12, <2>1, HalfOfTheRounds DEF Q
    <3> QED
      BY <3>1, FS_CardinalityType
  <2>4. ASSUME NEW q \in G PROVE {i \in F : f[i] = q} = {i \in A : rows[i].round = q}
    BY <2>2
  <2>5. f \in [F -> G]
    BY <1>3, <2>2
  <2>6. \A q \in G : Size({i \in F : f[i] = q}, k)
    <3>1. \A q \in G : q \in Q
      OBVIOUS
    <3> HIDE DEF G, F, f
    <3> QED
      BY <1>4, <2>4, <3>1
  <2> HIDE DEF G, F, f
  <2>7. EvenParts(f, F, G, k) /\ Size(G, h)
    BY <2>3, <2>5, <2>6 DEF EvenParts, Size
  <2> HIDE DEF h
  <2>8. Size(F, h * k)
    BY <1>0, <2>3, <2>7, Fibres
  <2>9. 2 * (h * k) = P * k
    BY <1>0, <2>3
  <2> QED
    BY <2>8, <2>9 DEF Size, F
<1> QED
  BY <1>3, <1>4, <1>6, <1>11, <1>12

-----------------------------------------------------------------------------
(* The K1 A/B experiment *)

\* run_resident_arm refuses the samples of another variant.
LEMMA ArmAsked ==
  ASSUME NEW job, NEW ran, NEW reps, ArmAccepted(job, ran, reps)
  PROVE  ran = job.variant
<1> DEFINE r == ArmRequest(job, job.variant, reps)
           a == ArmRequest(job, ran, reps)
           C == NativeAnswer(a, 0).configuration
           E == ExpectedConfiguration(r)
<1>1. r.backend = "cuda" /\ r.k1 = job.variant /\ a.backend = "cuda" /\ a.k1 = ran
  BY DEF ArmRequest, Request, CUDA_RESIDENT, BenchPath
<1>2. EchoesEveryValue(C, r)
  BY DEF ArmAccepted, ValidateBenchResponse
<1> HIDE DEF r, a
<1>3. \A base, value : "k1" \in DOMAIN Plus(base, "k1", value) /\ Plus(base, "k1", value)["k1"] = value
  BY DEF Plus
<1>4. "k1" \in DOMAIN E /\ E["k1"] = job.variant
  BY <1>1, <1>3 DEF ExpectedConfiguration
<1>5. C["k1"] = ran
  BY <1>1, <1>3 DEF NativeAnswer
<1>6. C["k1"] = E["k1"]
  <2> HIDE DEF C
  <2> QED
    BY <1>2, <1>4 DEF EchoesEveryValue
<1> QED
  BY <1>4, <1>5, <1>6

\* What argparse takes for an experiment, and the machine has.
Sized(e) == e.counts \in Seq(Int) /\ e.bits \in Seq(Int) /\ e.processes \in Int /\ e.l2Bytes \in Nat

\* Its cells are pairs of a size and a width.
LEMMA CellsFacts ==
  ASSUME NEW e, Sized(e)
  PROVE  /\ Cells(e) \in Seq(Range(Cells(e)))
         /\ IsFiniteSet(Range(Cells(e)))
         /\ \A c \in Range(Cells(e)) : c.count \in Int
<1> DEFINE S == [count : Int, bits : Int]
           Part(i) == [j \in DOMAIN e.bits |-> [count |-> e.counts[i], bits |-> e.bits[j]]]
           T == [i \in DOMAIN e.counts |-> Part(i)]
           n == Len(e.counts)
           m == Len(e.bits)
<1>1. /\ n \in Nat /\ DOMAIN e.counts = 1..n /\ \A i \in 1..n : e.counts[i] \in Int
      /\ m \in Nat /\ DOMAIN e.bits = 1..m /\ \A j \in 1..m : e.bits[j] \in Int
  BY DEF Sized
<1> HIDE DEF n, m
<1>2. ASSUME NEW i \in 1..n PROVE Part(i) \in Seq(S)
  <2>1. Part(i) \in [1..m -> S]
    BY <1>1
  <2> QED
    BY <1>1, <2>1
<1> HIDE DEF S, Part
<1>3. T \in Seq(Seq(S))
  <2>1. T \in [1..n -> Seq(S)]
    BY <1>1, <1>2
  <2> HIDE DEF T
  <2> QED
    BY <1>1, <2>1
<1>4. Cells(e) = FlattenSeq(T)
  BY DEF Cells, Part
<1> DEFINE cells == Cells(e)
<1> HIDE DEF T
<1>5. cells \in Seq(S)
  BY <1>3, <1>4, FlattenTyped
<1> HIDE DEF cells
<1>6. /\ Len(cells) \in Nat /\ DOMAIN cells = 1..Len(cells)
      /\ \A k \in 1..Len(cells) : cells[k] \in S
  BY <1>5
<1>7. Range(cells) = {cells[k] : k \in 1..Len(cells)} /\ Range(cells) \subseteq S
  BY <1>6 DEF Range
<1>8. cells \in Seq(Range(cells))
  <2>1. cells \in [1..Len(cells) -> Range(cells)]
    BY <1>5, <1>6, <1>7
  <2> QED
    BY <1>6, <2>1
<1>9. IsFiniteSet(Range(cells))
  <2>1. cells \in Surjection(1..Len(cells), Range(cells))
    BY <1>5, <1>6, <1>7 DEF Surjection
  <2>2. IsFiniteSet(1..Len(cells))
    BY <1>6, FS_Interval
  <2> QED
    BY <2>1, <2>2, FS_Surjection
<1>10. \A c \in Range(cells) : c.count \in Int
  BY <1>7 DEF S
<1> QED
  BY <1>8, <1>9, <1>10 DEF cells

\* Both variants wrote the same records before anything is timed, and every
\* round so far has measured both on every cell, or is about to.
AbState ==
  LET S == Range(Cells(experiment)) IN
  /\ step # "warm"
  /\ step \in {"start", "identity", "calibrate"} => round = 0 /\ records = <<>>
  /\ step = "identity" => todo \in Seq(S) /\ S \cap Differ \subseteq Range(todo)
  /\ step \in {"calibrate", "rounds", "published"} => S \cap Differ = {}
  /\ step \in {"rounds", "published"} =>
       /\ round \in 1..experiment.processes
       /\ RoundState(S, NamesOf(Cells(experiment), S), round, records, todo)
  /\ step = "published" => round = experiment.processes /\ todo = <<>>

\* What a published summary was made of, and how far an A/B experiment is.
ExperimentState ==
  /\ experiment = NoExperiment \/ Sized(experiment)
  /\ step = "published" => summary = Analysis(experiment, records)
  /\ experiment.kind = "k1-ab" => AbState

\* The steps of an A/B experiment, one lemma each.  Every cell is put on the
\* list of those whose records are compared.
LEMMA AbStart ==
  ASSUME experiment.kind = "k1-ab", Sized(experiment), AbState, StartExperiment
  PROVE  AbState'
<1> DEFINE S == Range(Cells(experiment))
<1>1. S' = S /\ experiment' = experiment
  BY DEF StartExperiment, Raised
<1>2. Len(Variants(experiment)) > 1
  BY DEF Variants
<1>3. Cells(experiment) \in Seq(S)
  BY CellsFacts
<1> HIDE DEF S
<1>4. CASE Raised
  BY <1>4 DEF AbState, Raised
<1>5. CASE step' = "identity" /\ todo' = Cells(experiment) /\ UNCHANGED <<round, records>>
  BY <1>1, <1>3, <1>5 DEF AbState, StartExperiment, S
<1> QED
  BY <1>2, <1>4, <1>5 DEF StartExperiment

\* A cell on which the variants differ stays on the list.
LEMMA AbVerify ==
  ASSUME AbState, VerifyVariantRecords
  PROVE  AbState'
<1> DEFINE S == Range(Cells(experiment))
<1>1. S' = S /\ experiment' = experiment
  BY DEF VerifyVariantRecords, Raised
<1>2. CASE Raised
  BY <1>2 DEF AbState, Raised
<1>3. CASE Head(todo) \notin Differ /\ todo' = Tail(todo) /\ UNCHANGED <<step, round, records>>
  <2>1. step = "identity" /\ step' = "identity" /\ todo # <<>>
    BY <1>3 DEF VerifyVariantRecords
  <2>2. todo \in Seq(S) /\ S \cap Differ \subseteq Range(todo) /\ round = 0 /\ records = <<>>
    BY <2>1 DEF AbState
  <2> HIDE DEF S
  <2>3. todo' \in Seq(S)
    BY <1>3, <2>1, <2>2
  <2>4. Range(todo) \subseteq {Head(todo)} \cup Range(todo')
    <3>1. /\ Len(todo) \in Nat /\ DOMAIN todo = 1..Len(todo) /\ Head(todo) = todo[1]
          /\ DOMAIN (todo') = 1..(Len(todo) - 1)
          /\ \A k \in 1..(Len(todo) - 1) : todo'[k] = todo[k + 1]
      BY <1>3, <2>1, <2>2
    <3>2. ASSUME NEW k \in 1..Len(todo) PROVE todo[k] \in {Head(todo)} \cup Range(todo')
      <4>1. CASE k = 1
        BY <3>1, <4>1
      <4>2. CASE k # 1
        <5>1. k - 1 \in DOMAIN (todo') /\ todo'[k - 1] = todo[k]
          BY <3>1, <4>2
        <5> QED
          BY <5>1 DEF Range
      <4> QED
        BY <4>1, <4>2
    <3> QED
      BY <3>1, <3>2 DEF Range
  <2>5. S \cap Differ \subseteq Range(todo')
    BY <1>3, <2>2, <2>4
  <2> QED
    BY <1>1, <1>3, <2>1, <2>2, <2>3, <2>5 DEF AbState, S
<1> QED
  BY <1>2, <1>3 DEF VerifyVariantRecords

\* All cells were compared before anything is timed.
LEMMA AbWarmUp ==
  ASSUME AbState, WarmUpAndProbe
  PROVE  AbState'
<1>1. CASE Raised
  BY <1>1 DEF AbState, Raised
<1>2. CASE step' = "calibrate" /\ UNCHANGED <<experiment, round, records>>
  <2>1. step = "identity" /\ todo = <<>>
    BY DEF AbState, WarmUpAndProbe
  <2>2. Range(todo) = {}
    BY <2>1 DEF Range
  <2> QED
    BY <1>2, <2>1, <2>2 DEF AbState
<1> QED
  BY <1>1, <1>2 DEF WarmUpAndProbe

\* Calibrations leave no row.
LEMMA AbCalibrate ==
  ASSUME AbState, Calibrate
  PROVE  AbState'
<1>1. CASE Raised
  BY <1>1 DEF AbState, Raised
<1>2. CASE UNCHANGED <<experiment, step, round, records>>
  BY <1>2 DEF AbState, Calibrate
<1> QED
  BY <1>1, <1>2 DEF Calibrate

\* A round puts both variants of every cell on the list.
LEMMA AbBeginRound ==
  ASSUME experiment.kind = "k1-ab", Sized(experiment), AbState, BeginRound
  PROVE  AbState'
<1> DEFINE S == Range(Cells(experiment))
           K == NamesOf(Cells(experiment), S)
<1>1. /\ experiment' = experiment /\ records' = records /\ step' = "rounds" /\ round' = round + 1
      /\ step \in {"calibrate", "rounds"} /\ todo = <<>> /\ round < experiment.processes
      /\ experiment.processes \in Int
  BY DEF BeginRound, Sized
<1>2. Cells(experiment) \in Seq(S)
  BY CellsFacts
<1>3. PICK order \in Shuffles(Cells(experiment)) : todo' = Jobs(order, VariantOrder(round, BothVariants))
  BY DEF BeginRound, Variants, BothVariants
<1>4. S \cap Differ = {}
  BY <1>1 DEF AbState
<1>5. round \in Nat /\ RoundState(S, K, round, records, <<>>)
  <2>1. CASE step = "calibrate"
    <3>1. round = 0 /\ records = <<>>
      BY <2>1 DEF AbState
    <3> QED
      BY <3>1, NoRound
  <2>2. CASE step = "rounds"
    BY <1>1, <2>2 DEF AbState
  <2> QED
    BY <1>1, <2>1, <2>2
<1>6. S' = S /\ K' = K
  BY <1>1
<1> HIDE DEF S, K
<1>7. RoundState(S, K, round + 1, records, Jobs(order, VariantOrder(round, BothVariants)))
  BY <1>2, <1>5, NewRound DEF K
<1>8. round' \in 1..experiment.processes
  BY <1>1, <1>5
<1>9. RoundState(S, K, round', records', todo')
  BY <1>1, <1>3, <1>7
<1> QED
  BY <1>1, <1>4, <1>6, <1>8, <1>9 DEF AbState, S, K

\* An accepted process ran the variant that the row names.
LEMMA AbRunArm ==
  ASSUME AbState, RunArm
  PROVE  AbState'
<1> DEFINE S == Range(Cells(experiment))
           K == NamesOf(Cells(experiment), S)
<1>1. CASE Raised
  BY <1>1 DEF AbState, Raised
<1>2. CASE \E ran \in K1_VARIANTS, k1 \in K1Samples :
             /\ ArmAccepted(Head(todo), ran, Len(k1))
             /\ records' = Append(records,
                  [cell |-> Head(todo).cell, variant |-> Head(todo).variant, slot |-> Head(todo).slot,
                   round |-> round - 1, ran |-> ran, k1 |-> k1])
             /\ todo' = Tail(todo)
             /\ UNCHANGED <<experiment, step, round, summary>>
  <2>1. PICK ran \in K1_VARIANTS, k1 \in K1Samples :
             /\ ArmAccepted(Head(todo), ran, Len(k1))
             /\ records' = Append(records,
                  [cell |-> Head(todo).cell, variant |-> Head(todo).variant, slot |-> Head(todo).slot,
                   round |-> round - 1, ran |-> ran, k1 |-> k1])
             /\ todo' = Tail(todo)
             /\ UNCHANGED <<experiment, step, round, summary>>
    BY <1>2
  <2> DEFINE job == Head(todo)
             row == [cell |-> job.cell, variant |-> job.variant, slot |-> job.slot,
                     round |-> round - 1, ran |-> ran, k1 |-> k1]
  <2>2. ran = job.variant
    BY <2>1, ArmAsked
  <2>3. step = "rounds" /\ todo # <<>>
    BY DEF RunArm
  <2>4. /\ S \cap Differ = {} /\ round \in 1..experiment.processes
        /\ RoundState(S, K, round, records, todo)
    BY <2>3 DEF AbState
  <2>5. S' = S /\ K' = K /\ experiment' = experiment /\ step' = step /\ round' = round
    BY <2>1
  <2> HIDE DEF S, K
  <2>6. job \in JobsOf(S)
    <3>1. todo \in Seq(JobsOf(S))
      BY <2>4 DEF RoundState, JobsState
    <3> QED
      BY <2>3, <3>1
  <2>7. round \in Nat \ {0} /\ round - 1 \in Nat
    BY <2>4
  <2>8. /\ row \in RowsOf(S)
        /\ row.cell = job.cell /\ row.variant = job.variant /\ row.slot = job.slot
        /\ row.round = round - 1 /\ row.ran = row.variant
    BY <2>2, <2>6, <2>7 DEF JobsOf, RowsOf
  <2>9. records' = Append(records, row) /\ todo' = Tail(todo)
    BY <2>1
  <2> HIDE DEF row
  <2>10. RoundState(S, K, round, Append(records, row), Tail(todo))
    BY <2>3, <2>4, <2>7, <2>8, NextJob
  <2>11. RoundState(S, K, round', records', todo')
    BY <2>5, <2>9, <2>10
  <2>12. round' \in 1..experiment'.processes
    BY <2>4, <2>5
  <2> QED
    BY <2>3, <2>4, <2>5, <2>11, <2>12 DEF AbState, S, K
<1> QED
  BY <1>1, <1>2 DEF RunArm

\* The summary is written after the last round.
LEMMA AbAnalyze ==
  ASSUME AbState, Analyze
  PROVE  AbState'
<1>1. CASE Raised
  BY <1>1 DEF AbState, Raised
<1>2. CASE step' = "published" /\ UNCHANGED <<experiment, todo, round, records>>
  BY <1>2 DEF AbState, Analyze
<1> QED
  BY <1>1, <1>2 DEF Analyze

\* The experiment runs as the code orders it, until its process ends.
LEMMA ExperimentStep ==
  ASSUME ExperimentState, ResidentNext
  PROVE  ExperimentState'
<1>1. experiment' = experiment
  BY DEF ResidentNext, StartExperiment, VerifyVariantRecords, WarmUpAndProbe, Calibrate, BeginRound, RunArm,
         Analyze, ExitExperiment, Raised
<1>2. (step = "published" => summary = Analysis(experiment, records))'
  <2>1. step' # "published" \/ Analyze
    BY DEF ResidentNext, StartExperiment, VerifyVariantRecords, WarmUpAndProbe, Calibrate, BeginRound, RunArm,
           ExitExperiment, Raised
  <2>2. Analyze => step' = "raised" \/ summary' = Analysis(experiment', records')
    BY DEF Analyze, Raised
  <2> QED
    BY <2>1, <2>2
<1>3. ASSUME experiment.kind = "k1-ab" PROVE AbState'
  <2>1. AbState /\ Sized(experiment)
    BY <1>3 DEF ExperimentState, NoExperiment
  <2>2. CASE ExitExperiment
    BY <2>1, <2>2 DEF AbState, ExitExperiment
  <2> QED
    BY <1>3, <2>1, <2>2, AbStart, AbVerify, AbWarmUp, AbCalibrate, AbBeginRound, AbRunArm, AbAnalyze
       DEF ResidentNext
<1>4. experiment' = NoExperiment \/ Sized(experiment')
  BY <1>1 DEF ExperimentState
<1> QED
  BY <1>1, <1>2, <1>3, <1>4 DEF ExperimentState, Sized

\* keep_decision, for a cell in DRAM: every process of the optimized arm beat
\* every process of the reference arm.
LEMMA ArmsSeparated ==
  ASSUME NEW A \in Trials, NEW B \in Trials,
         CompareArms(A, B).verdict = "faster", CompareArms(A, B).direction
  PROVE  Below(B, A)
<1>1. LET c == Compared(CaseStatistics(A), CaseStatistics(B), FALSE) IN
      /\ c.direction <=> (~FALSE /\ (Below(B, A) \/ Below(A, B)))
      /\ Below(A, B) => c.verdict = "slower"
  BY ComparedSound
<1>2. CompareArms(A, B) = Compared(CaseStatistics(A), CaseStatistics(B), FALSE)
  BY DEF CompareArms
<1> QED
  BY <1>1, <1>2

\* What a summary that keeps the optimized K1 says.
LEMMA KeptSummary ==
  ASSUME NEW e, NEW rows, Analysis(e, rows).kept
  PROVE  e.kind = "k1-ab" /\ Kept(e, Comparisons(e, rows))
<1> DEFINE kept == e.kind = "k1-ab" /\ Kept(e, Comparisons(e, rows))
           evidence == Evidence(e)
           ceiling == ~CeilingMissing(e)
<1>1. Analysis(e, rows) = [written |-> TRUE, kind |-> e.kind, evidence |-> evidence, dirty |-> e.dirty,
                           device |-> e.device, ceiling |-> ceiling, kept |-> kept]
  BY DEF Analysis
<1> HIDE DEF kept, evidence, ceiling
<1>2. Analysis(e, rows).kept = kept
  BY <1>1
<1>3. kept
  BY <1>2, Zenon
<1> QED
  BY <1>3 DEF kept

\* Evidence has the registered number of processes.
LEMMA EvidenceSummary ==
  ASSUME NEW e, NEW rows, Analysis(e, rows).evidence
  PROVE  e.processes = DEFAULT_PROCESSES
<1> DEFINE kept == e.kind = "k1-ab" /\ Kept(e, Comparisons(e, rows))
           evidence == Evidence(e)
           ceiling == ~CeilingMissing(e)
<1>1. Analysis(e, rows) = [written |-> TRUE, kind |-> e.kind, evidence |-> evidence, dirty |-> e.dirty,
                           device |-> e.device, ceiling |-> ceiling, kept |-> kept]
  BY DEF Analysis
<1> HIDE DEF kept, evidence, ceiling
<1>2. Analysis(e, rows).evidence = evidence
  BY <1>1
<1>3. evidence
  BY <1>2, Zenon
<1> QED
  BY <1>3 DEF evidence, Evidence, IsDefaultDesign

\* A published decision to keep the optimized K1 is a unanimous one.
LEMMA KeptIsUnanimous ==
  ASSUME ExperimentState
  PROVE  KeepIsUnanimous
<1> SUFFICES ASSUME step = "published", summary.kept
             PROVE  /\ summary.evidence =>
                         \A c \in Range(Cells(experiment)), v \in K1_VARIANTS :
                           2 * Cardinality({i \in ArmOf(c, v) : records[i].slot = 1})
                             = experiment.processes * Copies(c)
                    /\ Range(Cells(experiment)) \cap Differ = {}
                    /\ \A i \in DOMAIN records : records[i].ran = records[i].variant
                    /\ \A c \in Range(Cells(experiment)), v \in K1_VARIANTS :
                         /\ {records[i].round : i \in ArmOf(c, v)} = 0..(experiment.processes - 1)
                         /\ \A q \in 0..(experiment.processes - 1) :
                              Cardinality({i \in ArmOf(c, v) : records[i].round = q}) = Copies(c)
                    /\ \E c \in Range(Cells(experiment)) : c.count >= experiment.l2Bytes
                    /\ \A c \in Range(Cells(experiment)) : c.count >= experiment.l2Bytes =>
                         \A i \in ArmOf(c, "reference"), j \in ArmOf(c, "optimized") :
                           Median(records[i].k1) > Median(records[j].k1)
  BY DEF KeepIsUnanimous
<1> DEFINE S == Range(Cells(experiment))
           P == experiment.processes
           K == NamesOf(Cells(experiment), S)
<1>1. summary = Analysis(experiment, records)
  BY DEF ExperimentState
<1>2. experiment.kind = "k1-ab" /\ Kept(experiment, Comparisons(experiment, records))
  BY <1>1, KeptSummary
<1>3. Sized(experiment) /\ AbState
  BY <1>2 DEF ExperimentState, NoExperiment
<1>4. /\ S \cap Differ = {}
      /\ P \in Nat /\ P > 0
      /\ RoundState(S, K, P, records, <<>>)
  BY <1>3 DEF AbState, Sized
<1>5. \A c \in S : c.count \in Int /\ (Regime(c.count, experiment.l2Bytes) = "dram" <=> c.count >= experiment.l2Bytes)
  <2>1. \A c \in S : c.count \in Int
    BY <1>3, CellsFacts
  <2>2. experiment.l2Bytes \in Nat
    BY <1>3 DEF Sized
  <2>3. ASSUME NEW a \in Int, NEW b \in Nat PROVE Regime(a, b) = "dram" <=> a >= b
    BY DEF Regime, RegimeForBytes, BYTES_PER_VALUE, DRAM_L2_MULTIPLE
  <2> QED
    BY <2>1, <2>2, <2>3
<1>6. /\ \E c \in S : Regime(c.count, experiment.l2Bytes) = "dram"
      /\ \A c \in S : Regime(c.count, experiment.l2Bytes) = "dram" =>
           CompareArms(ArmRuns(records, c, "reference"), ArmRuns(records, c, "optimized")).verdict = "faster"
           /\ CompareArms(ArmRuns(records, c, "reference"), ArmRuns(records, c, "optimized")).direction
  <2>1. \A c \in S : Comparisons(experiment, records)[c]
                       = CompareArms(ArmRuns(records, c, "reference"), ArmRuns(records, c, "optimized"))
    BY DEF Comparisons
  <2>2. LET dram == {c \in S : Regime(c.count, experiment.l2Bytes) = "dram"} IN
        /\ dram # {}
        /\ \A c \in dram : /\ Comparisons(experiment, records)[c].verdict = "faster"
                           /\ Comparisons(experiment, records)[c].direction
    BY <1>2 DEF Kept
  <2> HIDE DEF S
  <2> QED
    BY <2>1, <2>2
<1>13. K \in [S -> Nat \ {0}] /\ \A c \in S : K[c] = Copies(c)
  <2> DEFINE cells == Cells(experiment)
             Named(c) == {i \in DOMAIN cells : cells[i] = c}
  <2>1. cells \in Seq(S)
    BY <1>3, CellsFacts
  <2>2. IsFiniteSet(DOMAIN cells)
    <3>1. DOMAIN cells = 1..Len(cells) /\ Len(cells) \in Nat
      BY <2>1
    <3> QED
      BY <3>1, FS_Interval
  <2>3. ASSUME NEW c \in S PROVE Cardinality(Named(c)) \in Nat \ {0}
    <3>1. Named(c) # {}
      BY DEF Range
    <3>2. IsFiniteSet(Named(c))
      BY <2>2, FS_Subset
    <3> HIDE DEF Named
    <3> QED
      BY <3>1, <3>2, FS_CardinalityType, FS_EmptySet
  <2>4. K = [c \in S |-> Cardinality(Named(c))] /\ \A c : Copies(c) = Cardinality(Named(c))
    BY DEF NamesOf, Copies
  <2> HIDE DEF Named, S, K
  <2> QED
    BY <2>3, <2>4
<1> HIDE DEF S, P, K
<1>7. ASSUME NEW c \in S, NEW v \in K1_VARIANTS
      PROVE  /\ ArmOf(c, v) \in SUBSET Nat /\ IsFiniteSet(ArmOf(c, v)) /\ ArmOf(c, v) # {}
             /\ {records[i].round : i \in ArmOf(c, v)} = 0..(P - 1)
             /\ \A q \in 0..(P - 1) : Cardinality({i \in ArmOf(c, v) : records[i].round = q}) = Copies(c)
             /\ \A i \in ArmOf(c, v) : records[i].k1 \in Samples
             /\ P % 2 = 0 => 2 * Cardinality({i \in ArmOf(c, v) : records[i].slot = 1}) = P * Copies(c)
  <2> DEFINE A == ArmOf(c, v)
  <2>1. A = ArmRows(records, c, v)
    BY DEF ArmOf
  <2>2. P \in Nat /\ RoundState(S, K, P, records, <<>>) /\ K \in [S -> Nat]
    BY <1>4, <1>13
  <2>3. WholeArm(records, ArmRows(records, c, v), P, K[c])
    BY <2>2, ArmComplete
  <2>4. K[c] = Copies(c) /\ K[c] \in Nat \ {0}
    BY <1>13
  <2> HIDE DEF A
  <2>5. /\ A \in SUBSET Nat /\ IsFiniteSet(A)
        /\ \A i \in A : records[i].round \in 0..(P - 1) /\ records[i].k1 \in Samples
        /\ \A q \in 0..(P - 1) : Size({i \in A : records[i].round = q}, Copies(c))
        /\ P % 2 = 0 => 2 * Cardinality({i \in A : records[i].slot = 1}) = P * Copies(c)
    BY <2>1, <2>3, <2>4 DEF WholeArm
  <2>6. ASSUME NEW q \in 0..(P - 1) PROVE \E i \in A : records[i].round = q
    <3>1. Cardinality({i \in A : records[i].round = q}) # 0
      BY <2>4, <2>5 DEF Size
    <3>2. {i \in A : records[i].round = q} # {}
      BY <3>1, FS_EmptySet
    <3> QED
      BY <3>2
  <2>7. {records[i].round : i \in A} = 0..(P - 1) /\ A # {}
    <3>1. 0 \in 0..(P - 1)
      BY <1>4
    <3> QED
      BY <2>5, <2>6, <3>1
  <2> QED
    BY <2>5, <2>7 DEF A, Size
<1>8. ASSUME NEW c \in S, NEW v \in K1_VARIANTS
      PROVE  /\ ArmRuns(records, c, v) \in Trials
             /\ \A i \in ArmOf(c, v) : \E t \in DOMAIN ArmRuns(records, c, v) :
                  ArmRuns(records, c, v)[t] = records[i].k1
  <2>1. ArmOf(c, v) = ArmRows(records, c, v)
    BY DEF ArmOf
  <2>2. ArmOf(c, v) # {}
    BY <1>7
  <2>3. /\ ArmOf(c, v) \in SUBSET Nat /\ IsFiniteSet(ArmOf(c, v))
        /\ \A i \in ArmOf(c, v) : records[i].k1 \in Samples
    BY <1>7
  <2> QED
    BY <2>1, <2>2, <2>3, ArmRunsFacts
<1>9. summary.evidence => P % 2 = 0
  BY <1>1, EvidenceSummary, ResidentAssumption DEF P
<1>10. \A i \in DOMAIN records : records[i].ran = records[i].variant
  BY <1>4 DEF RoundState, RowsState
<1>11. ASSUME NEW c \in S, c.count >= experiment.l2Bytes,
              NEW i \in ArmOf(c, "reference"), NEW j \in ArmOf(c, "optimized")
       PROVE  Median(records[i].k1) > Median(records[j].k1)
  <2> DEFINE reference == ArmRuns(records, c, "reference")
             optimized == ArmRuns(records, c, "optimized")
  <2>1. "reference" \in K1_VARIANTS /\ "optimized" \in K1_VARIANTS
    BY DEF K1_VARIANTS
  <2>2. /\ reference \in Trials /\ optimized \in Trials
        /\ \E t \in DOMAIN reference : reference[t] = records[i].k1
        /\ \E t \in DOMAIN optimized : optimized[t] = records[j].k1
    BY <1>8, <2>1
  <2>3. CompareArms(reference, optimized).verdict = "faster" /\ CompareArms(reference, optimized).direction
    BY <1>5, <1>6, <1>11
  <2> HIDE DEF reference, optimized
  <2>4. Below(optimized, reference)
    BY <2>2, <2>3, ArmsSeparated
  <2>5. Median(records[j].k1) < Median(records[i].k1)
    BY <2>2, <2>4 DEF Below
  <2>6. Median(records[i].k1) \in Nat /\ Median(records[j].k1) \in Nat
    BY <2>2, CaseFacts, ZenonT(40)
  <2> QED
    BY <2>5, <2>6
<1>12. \E c \in S : c.count >= experiment.l2Bytes
  BY <1>5, <1>6
<1> QED
  BY <1>4, <1>7, <1>9, <1>10, <1>11, <1>12 DEF S, P

-----------------------------------------------------------------------------
(* Trial orders *)

\* A sum of multiples and a rest below the modulus.
LEMMA Remainder ==
  ASSUME NEW R \in Nat \ {0}, NEW c \in Nat, NEW r \in 0..(R - 1)
  PROVE  (c * R + r) % R = r /\ (c * R + r) \div R = c
OBVIOUS

\* The row that trial t runs, if R rows are gone round.
Turn(t, R) == ((t - 1) % R) + 1

\* In m rounds every one of R rows is run m times.
LEMMA Turns ==
  ASSUME NEW R \in Nat \ {0}, NEW m \in Nat, NEW j \in 1..R
  PROVE  /\ IsFiniteSet({t \in 1..(m * R) : Turn(t, R) = j})
         /\ Cardinality({t \in 1..(m * R) : Turn(t, R) = j}) = m
<1> DEFINE T == {t \in 1..(m * R) : Turn(t, R) = j}
           f == [c \in 0..(m - 1) |-> c * R + j]
<1>1. ASSUME NEW c \in 0..(m - 1) PROVE c * R + j \in T
  <2>1. c * R \in Nat /\ m * R \in Nat /\ (c + 1) * R <= m * R /\ (c + 1) * R = c * R + R
    BY Z3
  <2>2. c * R + j \in 1..(m * R) /\ c * R + j - 1 = c * R + (j - 1)
    BY <2>1
  <2>3. (c * R + (j - 1)) % R = j - 1
    BY Remainder
  <2> QED
    BY <2>2, <2>3 DEF Turn
<1>2. ASSUME NEW t \in T PROVE \E c \in 0..(m - 1) : c * R + j = t
  <2> DEFINE c == (t - 1) \div R
  <2>1. t - 1 \in Nat /\ (t - 1) % R = j - 1 /\ t <= m * R
    BY Z3 DEF Turn
  <2>2. c \in Int /\ c >= 0 /\ t - 1 = c * R + ((t - 1) % R)
    BY <2>1, Z3
  <2> HIDE DEF c
  <2>3. t = c * R + j /\ c * R < m * R
    BY <2>1, <2>2, Z3
  <2>4. c < m
    BY <2>2, <2>3, Z3
  <2>5. c \in 0..(m - 1)
    BY <2>2, <2>4
  <2> QED
    BY <2>3, <2>5
<1>3. f \in Injection(0..(m - 1), T)
  <2>1. f \in [0..(m - 1) -> T]
    BY <1>1
  <2>2. ASSUME NEW a \in 0..(m - 1), NEW b \in 0..(m - 1), a * R + j = b * R + j PROVE a = b
    BY <2>2, Z3
  <2> QED
    BY <2>1, <2>2 DEF Injection, IsInjective
<1>4. f \in Surjection(0..(m - 1), T)
  BY <1>2, <1>3 DEF Injection, Surjection
<1>5. IsFiniteSet(0..(m - 1)) /\ Cardinality(0..(m - 1)) = m
  BY FS_Interval
<1> HIDE DEF f, T
<1>6. ExistsBijection(0..(m - 1), T)
  BY <1>3, <1>4 DEF ExistsBijection, Bijection
<1> QED
  BY <1>5, <1>6, FS_Bijection DEF T

\* The rows with value p at place k, and the places at which q follows p.
HoldsIn(rows, k, p) == {j \in DOMAIN rows : rows[j][k] = p}
FollowsIn(rows, n, p, q) ==
  {x \in (DOMAIN rows) \X (2..n) : rows[x[1]][x[2] - 1] = p /\ rows[x[1]][x[2]] = q}

\* Each of n values stands at each place of h rows, and follows every other
\* value h times.
Balanced(rows, n, h) ==
  \A p \in 0..(n - 1) :
    /\ \A k \in 1..n : Size(HoldsIn(rows, k, p), h)
    /\ \A q \in (0..(n - 1)) \ {p} : Size(FollowsIn(rows, n, p, q), h)

\* A trial runs one of the rows.
LEMMA TurnIsRow ==
  ASSUME NEW R \in Nat \ {0}, NEW m \in Nat, NEW t \in 1..(m * R)
  PROVE  Turn(t, R) \in 1..R
<1>1. t - 1 \in Nat
  BY Z3
<1> DEFINE s == t - 1
<1>2. s \in Nat /\ Turn(t, R) = (s % R) + 1
  BY <1>1 DEF Turn
<1> HIDE DEF s
<1> QED
  BY <1>2

\* Going round balanced rows a whole number of times is balanced.
LEMMA RoundsBalanced ==
  ASSUME NEW n \in Nat, NEW h \in Nat, NEW R \in Nat \ {0}, NEW m \in Nat,
         NEW rows, DOMAIN rows = 1..R, Balanced(rows, n, h),
         NEW turns, DOMAIN turns = 1..(m * R), \A t \in 1..(m * R) : turns[t] = rows[Turn(t, R)]
  PROVE  Balanced(turns, n, h * m)
<1>1. ASSUME NEW p \in 0..(n - 1), NEW k \in 1..n PROVE Size(HoldsIn(turns, k, p), h * m)
  <2> DEFINE X == HoldsIn(turns, k, p)
             V == HoldsIn(rows, k, p)
             f == [t \in X |-> Turn(t, R)]
  <2>1. Size(V, h)
    BY DEF Balanced
  <2>2. \A t \in X : t \in 1..(m * R) /\ turns[t][k] = p /\ Turn(t, R) \in 1..R
    BY TurnIsRow DEF HoldsIn
  <2>3. f \in [X -> V]
    <3>1. \A t \in X : Turn(t, R) \in V
      BY <2>2 DEF HoldsIn
    <3> HIDE DEF X, V
    <3> QED
      BY <3>1
  <2>4. ASSUME NEW j \in V PROVE Size({x \in X : f[x] = j}, m)
    <3>1. j \in 1..R /\ rows[j][k] = p
      BY DEF HoldsIn
    <3>2. {x \in X : f[x] = j} = {t \in 1..(m * R) : Turn(t, R) = j}
      BY <3>1 DEF HoldsIn
    <3>3. Size({t \in 1..(m * R) : Turn(t, R) = j}, m)
      BY <3>1, Turns DEF Size
    <3> QED
      BY <3>2, <3>3, Zenon
  <2> HIDE DEF X, V, f
  <2>5. EvenParts(f, X, V, m)
    BY <2>3, <2>4 DEF EvenParts
  <2> QED
    BY <2>1, <2>5, Fibres DEF X
<1>2. ASSUME NEW p \in 0..(n - 1), NEW q \in (0..(n - 1)) \ {p} PROVE Size(FollowsIn(turns, n, p, q), h * m)
  <2> DEFINE X == FollowsIn(turns, n, p, q)
             V == FollowsIn(rows, n, p, q)
             f == [x \in X |-> <<Turn(x[1], R), x[2]>>]
  <2>1. Size(V, h)
    BY DEF Balanced
  <2>2. \A x \in X : /\ x[1] \in 1..(m * R) /\ x[2] \in 2..n /\ x = <<x[1], x[2]>> /\ Turn(x[1], R) \in 1..R
                     /\ turns[x[1]][x[2] - 1] = p /\ turns[x[1]][x[2]] = q
    BY TurnIsRow DEF FollowsIn
  <2>3. f \in [X -> V]
    <3>1. \A x \in X : <<Turn(x[1], R), x[2]>> \in V
      BY <2>2 DEF FollowsIn
    <3> HIDE DEF X, V
    <3> QED
      BY <3>1
  <2>4. ASSUME NEW v \in V PROVE Size({x \in X : f[x] = v}, m)
    <3>1. /\ v[1] \in 1..R /\ v[2] \in 2..n /\ v = <<v[1], v[2]>>
          /\ rows[v[1]][v[2] - 1] = p /\ rows[v[1]][v[2]] = q
      BY DEF FollowsIn
    <3> DEFINE T == {t \in 1..(m * R) : Turn(t, R) = v[1]}
               Y == {x \in X : f[x] = v}
               g == [t \in T |-> <<t, v[2]>>]
    <3>2. IsFiniteSet(T) /\ Cardinality(T) = m
      BY <3>1, Turns
    <3>3. \A t \in T : <<t, v[2]>> \in Y
      BY <3>1 DEF FollowsIn
    <3>4. \A x \in Y : x[1] \in T /\ x = <<x[1], v[2]>>
      <4>1. \A x \in Y : x \in X /\ <<Turn(x[1], R), x[2]>> = <<v[1], v[2]>>
        BY <3>1
      <4> QED
        BY <2>2, <4>1
    <3> HIDE DEF T, Y
    <3>5. g \in Bijection(T, Y)
      BY <3>3, <3>4 DEF Bijection, Injection, Surjection, IsInjective
    <3> HIDE DEF g
    <3>6. ExistsBijection(T, Y)
      BY <3>5 DEF ExistsBijection
    <3>7. IsFiniteSet(Y) /\ Cardinality(Y) = m
      BY <3>2, <3>6, FS_Bijection
    <3> QED
      BY <3>7 DEF Y, Size
  <2> HIDE DEF X, V, f
  <2>5. EvenParts(f, X, V, m)
    BY <2>3, <2>4 DEF EvenParts
  <2> QED
    BY <2>1, <2>5, Fibres DEF X
<1> QED
  BY <1>1, <1>2 DEF Balanced

\* The first Williams row, and the step from one place to the next modulo n.
WilliamsStep(n, k) == IF k % 2 = 0 THEN k - 1 ELSE n + 1 - k

\* Successive entries of the first row are that step apart.
LEMMA FirstRow ==
  ASSUME NEW n \in Nat \ {0}
  PROVE  /\ \A k \in 1..n : WilliamsFirst(n, k) \in 0..(n - 1)
         /\ \A k \in 2..n :
              /\ WilliamsStep(n, k) \in 1..(n - 1)
              /\ \/ WilliamsFirst(n, k) = WilliamsFirst(n, k - 1) + WilliamsStep(n, k)
                 \/ WilliamsFirst(n, k) = WilliamsFirst(n, k - 1) + WilliamsStep(n, k) - n
BY DEF WilliamsFirst, WilliamsStep

\* The entries of the other rows.
WilliamsEntry(n, i, k) == (WilliamsFirst(n, k) + i - 1) % n

\* An entry is reduced by n at most once.
LEMMA Entry ==
  ASSUME NEW n \in Nat \ {0}, NEW i \in 1..n, NEW k \in 1..n
  PROVE  /\ WilliamsEntry(n, i, k) \in 0..(n - 1)
         /\ WilliamsFirst(n, k) + i - 1 < n => WilliamsEntry(n, i, k) = WilliamsFirst(n, k) + i - 1
         /\ WilliamsFirst(n, k) + i - 1 >= n => WilliamsEntry(n, i, k) = WilliamsFirst(n, k) + i - 1 - n
<1> DEFINE w == WilliamsFirst(n, k)
           s == w + i - 1
<1>1. w \in 0..(n - 1)
  BY FirstRow
<1> HIDE DEF w
<1>2. s \in 0..(2 * n - 2)
  BY <1>1
<1>3. WilliamsEntry(n, i, k) = s % n
  BY DEF WilliamsEntry, w
<1>4. s < n => s % n = s
  <2> HIDE DEF s
  <2> QED
    BY <1>2
<1>5. s >= n => s % n = s - n
  <2> HIDE DEF s
  <2> SUFFICES ASSUME s >= n PROVE s % n = s - n
    OBVIOUS
  <2>1. s - n \in 0..(n - 1) /\ s = 1 * n + (s - n)
    BY <1>2
  <2>2. (1 * n + (s - n)) % n = s - n
    BY <2>1, Remainder
  <2> QED
    BY <2>1, <2>2
<1>6. /\ WilliamsEntry(n, i, k) \in 0..(n - 1)
      /\ s < n => WilliamsEntry(n, i, k) = s
      /\ s >= n => WilliamsEntry(n, i, k) = s - n
  <2> HIDE DEF s
  <2> QED
    BY <1>2, <1>3, <1>4, <1>5
<1>7. WilliamsFirst(n, k) \in 0..(n - 1)
  BY FirstRow
<1> QED
  BY <1>6, <1>7 DEF w

\* The row that has p at place k.
WilliamsRow(n, k, p) ==
  IF p >= WilliamsFirst(n, k) THEN p - WilliamsFirst(n, k) + 1 ELSE p - WilliamsFirst(n, k) + n + 1

\* It is the only one.
LEMMA RowOf ==
  ASSUME NEW n \in Nat \ {0}, NEW k \in 1..n, NEW p \in 0..(n - 1)
  PROVE  /\ WilliamsRow(n, k, p) \in 1..n
         /\ \A i \in 1..n : WilliamsEntry(n, i, k) = p <=> i = WilliamsRow(n, k, p)
<1>1. WilliamsFirst(n, k) \in 0..(n - 1)
  BY FirstRow
<1>2. WilliamsRow(n, k, p) \in 1..n
  BY <1>1 DEF WilliamsRow
<1>3. ASSUME NEW i \in 1..n PROVE WilliamsEntry(n, i, k) = p <=> i = WilliamsRow(n, k, p)
  <2> DEFINE w == WilliamsFirst(n, k)
             e == WilliamsEntry(n, i, k)
  <2>1. (w + i - 1 < n => e = w + i - 1) /\ (w + i - 1 >= n => e = w + i - 1 - n)
    BY Entry
  <2>2. WilliamsRow(n, k, p) = IF p >= w THEN p - w + 1 ELSE p - w + n + 1
    BY DEF WilliamsRow
  <2>3. w \in 0..(n - 1)
    BY <1>1
  <2> HIDE DEF w, e
  <2> QED
    BY <2>1, <2>2, <2>3 DEF e
<1> QED
  BY <1>2, <1>3

\* How far q lies behind p, modulo n.
Ahead(n, p, q) == IF q > p THEN q - p ELSE q - p + n

\* p and q stand at neighbouring places exactly where the step is from p to q.
LEMMA Neighbours ==
  ASSUME NEW n \in Nat \ {0}, NEW k \in 2..n, NEW p \in 0..(n - 1), NEW q \in (0..(n - 1)) \ {p}, NEW i \in 1..n
  PROVE  WilliamsEntry(n, i, k - 1) = p /\ WilliamsEntry(n, i, k) = q
           <=> i = WilliamsRow(n, k - 1, p) /\ WilliamsStep(n, k) = Ahead(n, p, q)
<1> DEFINE a == WilliamsFirst(n, k - 1)
           b == WilliamsFirst(n, k)
           d == WilliamsStep(n, k)
<1>1. /\ a \in 0..(n - 1) /\ b \in 0..(n - 1) /\ d \in 1..(n - 1)
      /\ b = a + d \/ b = a + d - n
  BY FirstRow
<1>2. /\ a + i - 1 < n => WilliamsEntry(n, i, k - 1) = a + i - 1
      /\ a + i - 1 >= n => WilliamsEntry(n, i, k - 1) = a + i - 1 - n
      /\ b + i - 1 < n => WilliamsEntry(n, i, k) = b + i - 1
      /\ b + i - 1 >= n => WilliamsEntry(n, i, k) = b + i - 1 - n
  BY Entry
<1>3. WilliamsRow(n, k - 1, p) = IF p >= a THEN p - a + 1 ELSE p - a + n + 1
  BY DEF WilliamsRow
<1> HIDE DEF a, b, d
<1>4. WilliamsEntry(n, i, k - 1) = p <=> i = WilliamsRow(n, k - 1, p)
  BY <1>1, <1>2, <1>3
<1>5. ASSUME WilliamsEntry(n, i, k - 1) = p PROVE WilliamsEntry(n, i, k) = q <=> d = Ahead(n, p, q)
  BY <1>1, <1>2, <1>5 DEF Ahead
<1> QED
  BY <1>4, <1>5 DEF d

\* Of one element, and of two.
LEMMA OneOrTwo ==
  /\ \A a : Size({a}, 1)
  /\ \A a, b : a # b => Size({a, b}, 2)
<1>1. ASSUME NEW a PROVE Size({a}, 1)
  BY FS_Singleton DEF Size
<1>2. ASSUME NEW a, NEW b, a # b PROVE Size({a, b}, 2)
  <2>1. IsFiniteSet({a}) /\ Cardinality({a}) = 1 /\ b \notin {a}
    BY <1>1, <1>2 DEF Size
  <2>2. IsFiniteSet({a} \cup {b}) /\ Cardinality({a} \cup {b}) = 1 + 1
    BY <2>1, FS_AddElement
  <2>3. {a} \cup {b} = {a, b}
    OBVIOUS
  <2> QED
    BY <2>2, <2>3 DEF Size
<1> QED
  BY <1>1, <1>2

\* williams_rows: n rows, and for an odd n each of them backwards.
LEMMA RowsOfWilliams ==
  ASSUME NEW n \in Nat \ {0}
  PROVE  /\ n % 2 = 0 => DOMAIN WilliamsRows(n) = 1..n /\ Len(WilliamsRows(n)) = n
         /\ n % 2 = 1 => DOMAIN WilliamsRows(n) = 1..(2 * n) /\ Len(WilliamsRows(n)) = 2 * n
         /\ \A j \in 1..n, k \in 1..n : WilliamsRows(n)[j][k] = WilliamsEntry(n, j, k)
         /\ n % 2 = 1 => \A j \in 1..n, k \in 1..n : WilliamsRows(n)[n + j][k] = WilliamsEntry(n, j, n + 1 - k)
<1> DEFINE S == [1..n -> 0..(n - 1)]
           one == [i \in 1..n |-> [k \in 1..n |-> WilliamsEntry(n, i, k)]]
           two == [i \in 1..n |-> Reverse(one[i])]
<1>1. WilliamsRows(n) = one \o Only(n % 2 = 1, two)
  BY DEF WilliamsRows, WilliamsEntry
<1>2. /\ DOMAIN one = 1..n /\ \A i \in 1..n : one[i] \in S
      /\ \A i, k \in 1..n : one[i][k] = WilliamsEntry(n, i, k)
  BY Entry
<1> HIDE DEF one
<1>3. one \in Seq(S) /\ Len(one) = n
  <2>1. one = [i \in 1..n |-> one[i]]
    BY DEF one
  <2>2. one \in [1..n -> S]
    BY <1>2, <2>1
  <2> HIDE DEF S
  <2> QED
    BY <2>2
<1>4. ASSUME NEW i \in 1..n
      PROVE  two[i] \in S /\ \A k \in 1..n : two[i][k] = one[i][n + 1 - k]
  <2>1. one[i] \in S
    BY <1>2
  <2>2. one[i] \in Seq(0..(n - 1)) /\ Len(one[i]) = n
    <3> DEFINE r == one[i]
    <3> HIDE DEF r
    <3> SUFFICES ASSUME r \in S PROVE r \in Seq(0..(n - 1)) /\ Len(r) = n
      BY <2>1 DEF r
    <3> QED
      OBVIOUS
  <2>3. two[i] = [k \in 1..n |-> one[i][(n - k) + 1]]
    BY <2>2 DEF Reverse
  <2>4. \A k \in 1..n : (n - k) + 1 = n + 1 - k /\ n + 1 - k \in 1..n
    OBVIOUS
  <2> HIDE DEF two
  <2> QED
    BY <2>1, <2>3, <2>4
<1>5. two \in Seq(S) /\ Len(two) = n
  <2>1. two \in [1..n -> S]
    BY <1>4
  <2> HIDE DEF S, two
  <2> QED
    BY <2>1
<1> HIDE DEF S, two
<1>6. CASE n % 2 = 1
  <2>1. WilliamsRows(n) = one \o two
    BY <1>1, <1>6 DEF Only
  <2>2. /\ DOMAIN (one \o two) = 1..(2 * n) /\ Len(one \o two) = 2 * n
        /\ \A j \in 1..n : (one \o two)[j] = one[j] /\ (one \o two)[n + j] = two[j]
    BY <1>3, <1>5
  <2>3. \A j \in 1..n, k \in 1..n : two[j][k] = WilliamsEntry(n, j, n + 1 - k)
    <3>1. \A k \in 1..n : n + 1 - k \in 1..n
      OBVIOUS
    <3> QED
      BY <1>2, <1>4, <3>1
  <2>4. DOMAIN WilliamsRows(n) = 1..(2 * n) /\ Len(WilliamsRows(n)) = 2 * n
    BY <2>1, <2>2
  <2>5. \A j \in 1..n, k \in 1..n : WilliamsRows(n)[j][k] = WilliamsEntry(n, j, k)
    BY <1>2, <2>1, <2>2
  <2>6. ASSUME NEW j \in 1..n, NEW k \in 1..n
        PROVE  WilliamsRows(n)[n + j][k] = WilliamsEntry(n, j, n + 1 - k)
    <3>1. WilliamsRows(n)[n + j] = two[j]
      BY <2>1, <2>2
    <3>2. two[j][k] = WilliamsEntry(n, j, n + 1 - k)
      BY <2>3
    <3> QED
      BY <3>1, <3>2
  <2> QED
    BY <1>6, <2>4, <2>5, <2>6
<1>7. CASE n % 2 = 0
  <2>1. WilliamsRows(n) = one \o <<>>
    <3>1. ~(n % 2 = 1)
      BY <1>7
    <3> QED
      BY <1>1, <3>1 DEF Only
  <2>2. one \o <<>> = one
    BY <1>3
  <2> QED
    BY <1>2, <1>3, <1>7, <2>1, <2>2
<1>8. n % 2 = 0 \/ n % 2 = 1
  OBVIOUS
<1> QED
  BY <1>6, <1>7, <1>8

\* The places at which the first row of an even Williams design takes a step.
LEMMA StepsEven ==
  ASSUME NEW n \in Nat \ {0}, n % 2 = 0, NEW d \in 1..(n - 1)
  PROVE  \E k0 \in 2..n : \A k \in 2..n : WilliamsStep(n, k) = d <=> k = k0
<1>1. CASE d % 2 = 1
  <2>1. \A k \in 2..n : WilliamsStep(n, k) = d <=> k = d + 1
    BY <1>1 DEF WilliamsStep
  <2>2. d + 1 \in 2..n
    OBVIOUS
  <2> QED
    BY <2>1, <2>2
<1>2. CASE d % 2 = 0
  <2>1. \A k \in 2..n : WilliamsStep(n, k) = d <=> k = n + 1 - d
    BY <1>2 DEF WilliamsStep
  <2>2. n + 1 - d \in 2..n
    OBVIOUS
  <2> QED
    BY <2>1, <2>2
<1> QED
  BY <1>1, <1>2

\* The first row of an odd one takes every odd step twice, and no even one.
LEMMA StepsOdd ==
  ASSUME NEW n \in Nat \ {0}, n % 2 = 1, NEW d \in 1..(n - 1)
  PROVE  /\ d % 2 = 1 => \A k \in 2..n : WilliamsStep(n, k) = d <=> k \in {d + 1, n + 1 - d}
         /\ d % 2 = 1 => d + 1 \in 2..n /\ n + 1 - d \in 2..n /\ d + 1 # n + 1 - d
         /\ d % 2 = 0 => \A k \in 2..n : WilliamsStep(n, k) # d
<1>1. d % 2 = 1 => \A k \in 2..n : WilliamsStep(n, k) = d <=> k \in {d + 1, n + 1 - d}
  BY DEF WilliamsStep
<1>2. d % 2 = 1 => d + 1 \in 2..n /\ n + 1 - d \in 2..n /\ d + 1 # n + 1 - d
  OBVIOUS
<1>3. d % 2 = 0 => \A k \in 2..n : WilliamsStep(n, k) # d
  BY DEF WilliamsStep
<1> QED
  BY <1>1, <1>2, <1>3

\* Of two different values one is an odd number of steps ahead of the other if
\* there is an odd number of values.
LEMMA AheadFacts ==
  ASSUME NEW n \in Nat \ {0}, NEW p \in 0..(n - 1), NEW q \in (0..(n - 1)) \ {p}
  PROVE  /\ Ahead(n, p, q) \in 1..(n - 1) /\ Ahead(n, q, p) \in 1..(n - 1)
         /\ n % 2 = 1 => (Ahead(n, p, q) % 2 = 1 <=> Ahead(n, q, p) % 2 = 0)
BY DEF Ahead

\* q follows p in rows N at the places Z.
PlacesAre(rows, N, n, p, q, Z) ==
  /\ DOMAIN rows = N
  /\ Z \in SUBSET (N \X (2..n))
  /\ \A j \in N, k \in 2..n : rows[j][k - 1] = p /\ rows[j][k] = q <=> <<j, k>> \in Z

\* They are then all the places at which it does.
LEMMA OnlyPlaces ==
  ASSUME NEW n, NEW N, NEW rows, NEW p, NEW q, NEW Z, PlacesAre(rows, N, n, p, q, Z)
  PROVE  FollowsIn(rows, n, p, q) = Z
<1>1. \A x \in N \X (2..n) : x[1] \in N /\ x[2] \in 2..n /\ x = <<x[1], x[2]>>
  OBVIOUS
<1>2. \A x \in N \X (2..n) : rows[x[1]][x[2] - 1] = p /\ rows[x[1]][x[2]] = q <=> x \in Z
  BY <1>1 DEF PlacesAre
<1> QED
  BY <1>2 DEF FollowsIn, PlacesAre

\* An even number of paths.
LEMMA EvenBalanced ==
  ASSUME NEW n \in Nat \ {0}, n % 2 = 0
  PROVE  Balanced(WilliamsRows(n), n, 1)
<1> DEFINE rows == WilliamsRows(n)
<1>1. DOMAIN rows = 1..n /\ \A j \in 1..n, k \in 1..n : rows[j][k] = WilliamsEntry(n, j, k)
  BY RowsOfWilliams
<1> HIDE DEF rows
<1>2. ASSUME NEW p \in 0..(n - 1), NEW k \in 1..n PROVE Size(HoldsIn(rows, k, p), 1)
  <2>1. HoldsIn(rows, k, p) = {WilliamsRow(n, k, p)}
    <3>1. /\ WilliamsRow(n, k, p) \in 1..n
          /\ \A j \in 1..n : WilliamsEntry(n, j, k) = p <=> j = WilliamsRow(n, k, p)
      BY RowOf, ZenonT(40)
    <3> QED
      BY <1>1, <3>1 DEF HoldsIn
  <2> QED
    BY <2>1, OneOrTwo
<1>3. ASSUME NEW p \in 0..(n - 1), NEW q \in (0..(n - 1)) \ {p} PROVE Size(FollowsIn(rows, n, p, q), 1)
  <2>1. PICK k0 \in 2..n : \A k \in 2..n : WilliamsStep(n, k) = Ahead(n, p, q) <=> k = k0
    BY StepsEven, AheadFacts
  <2> DEFINE i0 == WilliamsRow(n, k0 - 1, p)
  <2>2. i0 \in 1..n
    <3>1. k0 - 1 \in 1..n
      OBVIOUS
    <3> QED
      BY <3>1, RowOf
  <2>3. ASSUME NEW j \in 1..n, NEW k \in 2..n
        PROVE  rows[j][k - 1] = p /\ rows[j][k] = q <=> j = i0 /\ k = k0
    <3>1. rows[j][k - 1] = WilliamsEntry(n, j, k - 1) /\ rows[j][k] = WilliamsEntry(n, j, k)
      BY <1>1
    <3>2. WilliamsEntry(n, j, k - 1) = p /\ WilliamsEntry(n, j, k) = q
            <=> j = WilliamsRow(n, k - 1, p) /\ WilliamsStep(n, k) = Ahead(n, p, q)
      BY Neighbours, SMTT(30)
    <3>3. WilliamsStep(n, k) = Ahead(n, p, q) <=> k = k0
      BY <2>1
    <3> QED
      BY <3>1, <3>2, <3>3
  <2> HIDE DEF i0
  <2> DEFINE Z == {<<i0, k0>>}
  <2>4. /\ Z \in SUBSET ((1..n) \X (2..n))
        /\ \A j \in 1..n, k \in 2..n : rows[j][k - 1] = p /\ rows[j][k] = q <=> <<j, k>> \in Z
    BY <2>2, <2>3
  <2>5. Size(Z, 1)
    BY OneOrTwo
  <2> HIDE DEF Z
  <2>6. PlacesAre(rows, 1..n, n, p, q, Z)
    BY <1>1, <2>4 DEF PlacesAre
  <2> QED
    BY <2>5, <2>6, OnlyPlaces
<1> QED
  BY <1>2, <1>3 DEF Balanced, rows

\* An odd number of paths.
LEMMA OddBalanced ==
  ASSUME NEW n \in Nat \ {0}, n % 2 = 1
  PROVE  Balanced(WilliamsRows(n), n, 2)
<1> DEFINE rows == WilliamsRows(n)
<1>1. /\ DOMAIN rows = 1..(2 * n)
      /\ \A j \in 1..n, k \in 1..n : rows[j][k] = WilliamsEntry(n, j, k)
      /\ \A j \in 1..n, k \in 1..n : rows[n + j][k] = WilliamsEntry(n, j, n + 1 - k)
  BY RowsOfWilliams
<1> HIDE DEF rows
<1>2. \A j \in 1..(2 * n) : j \in 1..n \/ (j - n \in 1..n /\ j = n + (j - n))
  OBVIOUS
<1>3. ASSUME NEW p \in 0..(n - 1), NEW k \in 1..n PROVE Size(HoldsIn(rows, k, p), 2)
  <2> DEFINE l == n + 1 - k
             a == WilliamsRow(n, k, p)
             b == WilliamsRow(n, l, p)
  <2>1. l \in 1..n
    OBVIOUS
  <2>2. /\ a \in 1..n /\ b \in 1..n
        /\ \A j \in 1..n : WilliamsEntry(n, j, k) = p <=> j = a
        /\ \A j \in 1..n : WilliamsEntry(n, j, l) = p <=> j = b
    <3> HIDE DEF l
    <3>1. a \in 1..n /\ \A j \in 1..n : WilliamsEntry(n, j, k) = p <=> j = a
      BY RowOf, ZenonT(40)
    <3>2. b \in 1..n /\ \A j \in 1..n : WilliamsEntry(n, j, l) = p <=> j = b
      BY <2>1, RowOf, ZenonT(40)
    <3> QED
      BY <3>1, <3>2
  <2>3. /\ \A j \in 1..n : rows[j][k] = p <=> j = a
        /\ \A j \in 1..n : rows[n + j][k] = p <=> j = b
    BY <1>1, <2>2, SMTT(30)
  <2> HIDE DEF a, b, l
  <2>4. \A j \in 1..(2 * n) : rows[j][k] = p <=> j \in {a, n + b}
    <3> SUFFICES ASSUME NEW j \in 1..(2 * n) PROVE rows[j][k] = p <=> j \in {a, n + b}
      OBVIOUS
    <3>1. CASE j \in 1..n
      BY <2>2, <2>3, <3>1
    <3>2. CASE j - n \in 1..n /\ j = n + (j - n)
      <4>1. rows[j][k] = p <=> j - n = b
        BY <2>3, <3>2
      <4> QED
        BY <2>2, <3>2, <4>1
    <3> QED
      BY <1>2, <3>1, <3>2
  <2>5. a \in 1..(2 * n) /\ n + b \in 1..(2 * n) /\ a # n + b
    BY <2>2
  <2>6. HoldsIn(rows, k, p) = {a, n + b}
    BY <1>1, <2>4, <2>5 DEF HoldsIn
  <2> QED
    BY <2>5, <2>6, OneOrTwo
<1>4. ASSUME NEW p \in 0..(n - 1), NEW q \in (0..(n - 1)) \ {p} PROVE Size(FollowsIn(rows, n, p, q), 2)
  <2> DEFINE d == Ahead(n, p, q)
             c == Ahead(n, q, p)
  <2>1. d \in 1..(n - 1) /\ c \in 1..(n - 1) /\ (d % 2 = 1 <=> c % 2 = 0)
    BY AheadFacts
  <2>2. ASSUME NEW j \in 1..n, NEW k \in 2..n
        PROVE  /\ rows[j][k - 1] = p /\ rows[j][k] = q
                    <=> j = WilliamsRow(n, k - 1, p) /\ WilliamsStep(n, k) = d
               /\ rows[n + j][k - 1] = p /\ rows[n + j][k] = q
                    <=> j = WilliamsRow(n, n + 1 - k, q) /\ WilliamsStep(n, n + 2 - k) = c
    <3>1. /\ k - 1 \in 1..n /\ k \in 1..n /\ n + 2 - k \in 2..n /\ n + 1 - k \in 1..n
          /\ n + 1 - (k - 1) = n + 2 - k /\ (n + 2 - k) - 1 = n + 1 - k /\ n + 2 - k \in 1..n
      OBVIOUS
    <3>2. /\ rows[j][k - 1] = WilliamsEntry(n, j, k - 1) /\ rows[j][k] = WilliamsEntry(n, j, k)
          /\ rows[n + j][k - 1] = WilliamsEntry(n, j, n + 2 - k)
          /\ rows[n + j][k] = WilliamsEntry(n, j, n + 1 - k)
      BY <1>1, <3>1
    <3>3. WilliamsEntry(n, j, k - 1) = p /\ WilliamsEntry(n, j, k) = q
            <=> j = WilliamsRow(n, k - 1, p) /\ WilliamsStep(n, k) = d
      BY Neighbours, SMTT(30)
    <3> DEFINE l == n + 2 - k
    <3>4. l \in 2..n /\ l - 1 = n + 1 - k
      BY <3>1
    <3> HIDE DEF l
    <3>5. WilliamsEntry(n, j, l - 1) = q /\ WilliamsEntry(n, j, l) = p
            <=> j = WilliamsRow(n, l - 1, q) /\ WilliamsStep(n, l) = c
      BY <3>4, Neighbours, SMTT(30)
    <3> QED
      BY <3>2, <3>3, <3>4, <3>5 DEF l
  <2> HIDE DEF d, c
  <2>3. CASE d % 2 = 1
    <3> DEFINE a == WilliamsRow(n, d, p)
               b == WilliamsRow(n, n - d, p)
               u == d + 1
               v == n + 1 - d
    <3>1. /\ u \in 2..n /\ v \in 2..n /\ u # v /\ u - 1 = d /\ v - 1 = n - d
          /\ \A k \in 2..n : WilliamsStep(n, k) = d <=> k \in {u, v}
      BY <2>1, <2>3, StepsOdd
    <3>2. \A k \in 2..n : WilliamsStep(n, k) # c
      BY <2>1, <2>3, StepsOdd
    <3>3. a \in 1..n /\ b \in 1..n
      <4>1. d \in 1..n /\ n - d \in 1..n
        BY <2>1
      <4> QED
        BY <4>1, RowOf
    <3>4. ASSUME NEW j \in 1..(2 * n), NEW k \in 2..n
          PROVE  rows[j][k - 1] = p /\ rows[j][k] = q <=> <<j, k>> \in {<<a, u>>, <<b, v>>}
      <4>1. CASE j \in 1..n
        <5>1. rows[j][k - 1] = p /\ rows[j][k] = q <=> j = WilliamsRow(n, k - 1, p) /\ k \in {u, v}
          BY <2>2, <3>1, <4>1
        <5>2. k = u => (j = WilliamsRow(n, k - 1, p) <=> j = a)
          BY <3>1
        <5>3. k = v => (j = WilliamsRow(n, k - 1, p) <=> j = b)
          BY <3>1
        <5> HIDE DEF a, b, u, v
        <5> QED
          BY <3>1, <5>1, <5>2, <5>3
      <4>2. CASE j - n \in 1..n /\ j = n + (j - n)
        <5> DEFINE i == j - n
        <5>1. i \in 1..n /\ j = n + i
          BY <4>2
        <5> HIDE DEF i
        <5>2. n + 2 - k \in 2..n
          OBVIOUS
        <5>3. ~(rows[j][k - 1] = p /\ rows[j][k] = q)
          BY <2>2, <3>2, <5>1, <5>2
        <5>4. j # a /\ j # b
          BY <3>3, <4>2
        <5> HIDE DEF a, b, u, v
        <5> QED
          BY <5>3, <5>4
      <4> QED
        BY <1>2, <4>1, <4>2
    <3> HIDE DEF a, b, u, v
    <3> DEFINE Z == {<<a, u>>, <<b, v>>}
    <3>5. Z \in SUBSET ((1..(2 * n)) \X (2..n))
      <4>1. a \in 1..(2 * n) /\ b \in 1..(2 * n)
        BY <3>3
      <4> QED
        BY <3>1, <4>1
    <3>6. Size(Z, 2)
      <4>1. <<a, u>> # <<b, v>>
        BY <3>1
      <4> QED
        BY <4>1, OneOrTwo
    <3>7. \A j \in 1..(2 * n), k \in 2..n : rows[j][k - 1] = p /\ rows[j][k] = q <=> <<j, k>> \in Z
      BY <3>4
    <3> HIDE DEF Z
    <3>8. PlacesAre(rows, 1..(2 * n), n, p, q, Z)
      BY <1>1, <3>5, <3>7 DEF PlacesAre
    <3> QED
      BY <3>6, <3>8, OnlyPlaces
  <2>4. CASE d % 2 = 0
    <3> DEFINE a == n + WilliamsRow(n, n - c, q)
               b == n + WilliamsRow(n, c, q)
               u == c + 1
               v == n + 1 - c
    <3>0. c % 2 = 1
      BY <2>1, <2>4
    <3>1. /\ u \in 2..n /\ v \in 2..n /\ u # v /\ n + 1 - u = n - c /\ n + 1 - v = c
          /\ \A k \in 2..n : WilliamsStep(n, n + 2 - k) = c <=> k \in {u, v}
      <4>1. /\ u \in 2..n /\ v \in 2..n /\ u # v
            /\ \A k \in 2..n : WilliamsStep(n, k) = c <=> k \in {u, v}
        BY <2>1, <3>0, StepsOdd
      <4>2. \A k \in 2..n : n + 2 - k \in 2..n /\ (n + 2 - k \in {u, v} <=> k \in {u, v})
        BY <2>1
      <4>3. n + 1 - u = n - c /\ n + 1 - v = c
        BY <2>1
      <4> HIDE DEF u, v
      <4> QED
        BY <4>1, <4>2, <4>3
    <3>2. \A k \in 2..n : WilliamsStep(n, k) # d
      BY <2>1, <2>4, StepsOdd
    <3>9. WilliamsRow(n, n - c, q) \in 1..n /\ WilliamsRow(n, c, q) \in 1..n
      <4>1. c \in 1..n /\ n - c \in 1..n
        BY <2>1
      <4> QED
        BY <4>1, RowOf
    <3>3. a \in (n + 1)..(2 * n) /\ b \in (n + 1)..(2 * n)
      BY <3>9
    <3>4. ASSUME NEW j \in 1..(2 * n), NEW k \in 2..n
          PROVE  rows[j][k - 1] = p /\ rows[j][k] = q <=> <<j, k>> \in {<<a, u>>, <<b, v>>}
      <4>1. CASE j \in 1..n
        <5>1. ~(rows[j][k - 1] = p /\ rows[j][k] = q)
          BY <2>2, <3>2, <4>1
        <5>2. j # a /\ j # b
          BY <3>3, <4>1
        <5> HIDE DEF a, b, u, v
        <5> QED
          BY <5>1, <5>2
      <4>2. CASE j - n \in 1..n /\ j = n + (j - n)
        <5> DEFINE i == j - n
        <5>1. i \in 1..n /\ j = n + i
          BY <4>2
        <5> HIDE DEF i
        <5>2. rows[j][k - 1] = p /\ rows[j][k] = q <=> i = WilliamsRow(n, n + 1 - k, q) /\ k \in {u, v}
          BY <2>2, <3>1, <5>1
        <5>3. ASSUME k = u PROVE i = WilliamsRow(n, n + 1 - k, q) <=> j = a
          <6>1. n + 1 - k = n - c
            BY <3>1, <5>3
          <6>2. i = WilliamsRow(n, n - c, q) <=> j = n + WilliamsRow(n, n - c, q)
            BY <3>9, <5>1
          <6> QED
            BY <6>1, <6>2
        <5>4. ASSUME k = v PROVE i = WilliamsRow(n, n + 1 - k, q) <=> j = b
          <6>1. n + 1 - k = c
            BY <3>1, <5>4
          <6>2. i = WilliamsRow(n, c, q) <=> j = n + WilliamsRow(n, c, q)
            BY <3>9, <5>1
          <6> QED
            BY <6>1, <6>2
        <5> HIDE DEF a, b, u, v
        <5> QED
          BY <3>1, <5>2, <5>3, <5>4
      <4> QED
        BY <1>2, <4>1, <4>2
    <3> HIDE DEF a, b, u, v
    <3> DEFINE Z == {<<a, u>>, <<b, v>>}
    <3>5. Z \in SUBSET ((1..(2 * n)) \X (2..n))
      <4>1. a \in 1..(2 * n) /\ b \in 1..(2 * n)
        BY <3>3
      <4> QED
        BY <3>1, <4>1
    <3>6. Size(Z, 2)
      <4>1. <<a, u>> # <<b, v>>
        BY <3>1
      <4> QED
        BY <4>1, OneOrTwo
    <3>7. \A j \in 1..(2 * n), k \in 2..n : rows[j][k - 1] = p /\ rows[j][k] = q <=> <<j, k>> \in Z
      BY <3>4
    <3> HIDE DEF Z
    <3>8. PlacesAre(rows, 1..(2 * n), n, p, q, Z)
      BY <1>1, <3>5, <3>7 DEF PlacesAre
    <3> QED
      BY <3>6, <3>8, OnlyPlaces
  <2> QED
    BY <2>1, <2>3, <2>4
<1> QED
  BY <1>3, <1>4 DEF Balanced, rows

\* itertools.permutations: the permutations of n values.
Perms(n) == {p \in [1..n -> 0..(n - 1)] : IsInjective(p)}

\* Their entries are values, each once.
LEMMA PermFacts ==
  ASSUME NEW n \in Nat, NEW p \in Perms(n)
  PROVE  /\ DOMAIN p = 1..n /\ p \in [1..n -> 0..(n - 1)]
         /\ \A k \in 1..n : p[k] \in 0..(n - 1)
         /\ \A k, l \in 1..n : p[k] = p[l] => k = l
BY DEF Perms, IsInjective

\* There are finitely many.
LEMMA PermsFinite ==
  ASSUME NEW n \in Nat
  PROVE  IsFiniteSet(Perms(n)) /\ Cardinality(Perms(n)) \in Nat
<1> DEFINE U == (1..n) \X (0..(n - 1))
           f == [p \in Perms(n) |-> {<<k, p[k]>> : k \in 1..n}]
<1>1. IsFiniteSet(SUBSET U)
  <2>1. IsFiniteSet(1..n) /\ IsFiniteSet(0..(n - 1))
    BY FS_Interval
  <2>2. IsFiniteSet(U)
    BY <2>1, FS_Product
  <2> QED
    BY <2>2, FS_SUBSET
<1>2. \A p \in Perms(n) : f[p] \in SUBSET U
  BY PermFacts
<1>3. ASSUME NEW p \in Perms(n), NEW q \in Perms(n), f[p] = f[q] PROVE p = q
  <2>1. ASSUME NEW k \in 1..n PROVE p[k] = q[k]
    <3>1. <<k, p[k]>> \in f[q]
      BY <1>3
    <3>2. PICK l \in 1..n : <<k, p[k]>> = <<l, q[l]>>
      BY <3>1
    <3> QED
      BY <3>2
  <2> QED
    BY <2>1, PermFacts
<1>4. f \in Injection(Perms(n), SUBSET U)
  <2>1. f \in [Perms(n) -> SUBSET U]
    BY <1>2
  <2> QED
    BY <1>3, <2>1 DEF Injection, IsInjective
<1>5. IsFiniteSet(Perms(n))
  <2> HIDE DEF f, U
  <2> QED
    BY <1>1, <1>4, FS_Injection
<1> QED
  BY <1>5, FS_CardinalityType

\* Two values exchanged.
Swapped(x, a, b) == IF x = a THEN b ELSE IF x = b THEN a ELSE x
Exchange(p, n, a, b) == [k \in 1..n |-> Swapped(p[k], a, b)]

\* An exchange turns a permutation into another, and back.
LEMMA ExchangeFacts ==
  ASSUME NEW n \in Nat, NEW a \in 0..(n - 1), NEW b \in 0..(n - 1), NEW p \in Perms(n)
  PROVE  /\ Exchange(p, n, a, b) \in Perms(n)
         /\ Exchange(Exchange(p, n, a, b), n, a, b) = p
         /\ \A k \in 1..n : Exchange(p, n, a, b)[k] = Swapped(p[k], a, b)
<1> DEFINE e == Exchange(p, n, a, b)
<1>1. /\ DOMAIN p = 1..n /\ p \in [1..n -> 0..(n - 1)]
      /\ \A k \in 1..n : p[k] \in 0..(n - 1)
      /\ \A k, l \in 1..n : p[k] = p[l] => k = l
  BY PermFacts
<1>2. \A k \in 1..n : e[k] = Swapped(p[k], a, b)
  BY DEF Exchange
<1>3. e \in [1..n -> 0..(n - 1)]
  BY <1>1 DEF Exchange, Swapped
<1>4. \A x, y : /\ Swapped(Swapped(x, a, b), a, b) = x
                /\ Swapped(x, a, b) = Swapped(y, a, b) => x = y
  BY DEF Swapped
<1> HIDE DEF e
<1>5. e \in Perms(n)
  <2>1. \A k, l \in 1..n : e[k] = e[l] => k = l
    BY <1>1, <1>2, <1>4
  <2> QED
    BY <1>3, <2>1 DEF Perms, IsInjective
<1>6. Exchange(e, n, a, b) = p
  <2>1. \A k \in 1..n : Swapped(e[k], a, b) = p[k]
    BY <1>2, <1>4
  <2>2. Exchange(e, n, a, b) = [k \in 1..n |-> p[k]]
    BY <2>1 DEF Exchange
  <2> QED
    BY <1>1, <2>2
<1> QED
  BY <1>2, <1>5, <1>6 DEF e

\* Sets of permutations that an exchange of values turns into each other are
\* of one size.
LEMMA ExchangeSize ==
  ASSUME NEW n \in Nat, NEW a \in 0..(n - 1), NEW b \in 0..(n - 1),
         NEW S \in SUBSET Perms(n), NEW T \in SUBSET Perms(n), NEW h, Size(S, h),
         \A p \in S : Exchange(p, n, a, b) \in T, \A p \in T : Exchange(p, n, a, b) \in S
  PROVE  Size(T, h)
<1> DEFINE f == [p \in S |-> Exchange(p, n, a, b)]
<1>1. \A p \in Perms(n) : Exchange(Exchange(p, n, a, b), n, a, b) = p
  BY ExchangeFacts
<1>2. f \in [S -> T]
  OBVIOUS
<1>3. \A p, q \in S : f[p] = f[q] => p = q
  BY <1>1
<1>4. ASSUME NEW q \in T PROVE \E p \in S : f[p] = q
  BY <1>1, <1>4
<1>5. f \in Bijection(S, T)
  BY <1>2, <1>3, <1>4 DEF Bijection, Injection, Surjection, IsInjective
<1> HIDE DEF f
<1>6. ExistsBijection(S, T)
  BY <1>5 DEF ExistsBijection
<1> QED
  BY <1>6, FS_Bijection DEF Size

\* The permutations with value v at place k, and those with u before it.
At(n, k, v) == {p \in Perms(n) : p[k] = v}
Next2(n, k, u, v) == {p \in Perms(n) : p[k - 1] = u /\ p[k] = v}

\* Every value stands at every place of equally many permutations.
LEMMA PlaceCount ==
  ASSUME NEW n \in Nat \ {0}
  PROVE  \E h \in Nat : /\ Size(Perms(n), n * h)
                        /\ \A k \in 1..n, v \in 0..(n - 1) : Size(At(n, k, v), h)
<1> DEFINE C(k) == Cardinality(At(n, k, 0))
<1>1. ASSUME NEW k \in 1..n
      PROVE  /\ C(k) \in Nat /\ Size(Perms(n), n * C(k))
             /\ \A v \in 0..(n - 1) : Size(At(n, k, v), C(k))
  <2> DEFINE f == [p \in Perms(n) |-> p[k]]
             V == 0..(n - 1)
  <2>1. IsFiniteSet(At(n, k, 0)) /\ C(k) \in Nat /\ Size(At(n, k, 0), C(k))
    <3>1. At(n, k, 0) \in SUBSET Perms(n)
      BY DEF At
    <3> QED
      BY <3>1, PermsFinite, FS_Subset, FS_CardinalityType DEF Size
  <2> HIDE DEF C
  <2>2. ASSUME NEW v \in V PROVE Size(At(n, k, v), C(k))
    <3>1. \A p \in Perms(n) : /\ Exchange(p, n, 0, v) \in Perms(n)
                              /\ Exchange(p, n, 0, v)[k] = Swapped(p[k], 0, v)
      BY ExchangeFacts
    <3>2. \A p \in At(n, k, 0) : Exchange(p, n, 0, v) \in At(n, k, v)
      BY <3>1 DEF At, Swapped
    <3>3. \A p \in At(n, k, v) : Exchange(p, n, 0, v) \in At(n, k, 0)
      BY <3>1 DEF At, Swapped
    <3>4. At(n, k, 0) \in SUBSET Perms(n) /\ At(n, k, v) \in SUBSET Perms(n) /\ 0 \in 0..(n - 1)
      BY DEF At
    <3> QED
      BY <2>1, <3>2, <3>3, <3>4, ExchangeSize
  <2>3. EvenParts(f, Perms(n), V, C(k))
    <3>1. f \in [Perms(n) -> V]
      BY PermFacts
    <3>2. \A v \in V : {x \in Perms(n) : f[x] = v} = At(n, k, v)
      BY DEF At
    <3> HIDE DEF f, V
    <3> QED
      BY <2>2, <3>1, <3>2 DEF EvenParts
  <2>4. Size(V, n)
    BY FS_Interval DEF Size
  <2> HIDE DEF f, V
  <2>5. Size(Perms(n), n * C(k))
    BY <2>1, <2>3, <2>4, Fibres
  <2> QED
    BY <2>1, <2>2, <2>5 DEF V
<1>2. 1 \in 1..n
  OBVIOUS
<1> HIDE DEF C
<1>3. C(1) \in Nat /\ Size(Perms(n), n * C(1))
  BY <1>1, <1>2
<1>4. ASSUME NEW k \in 1..n PROVE C(k) = C(1)
  <2>1. C(k) \in Nat /\ C(1) \in Nat /\ n * C(k) = n * C(1)
    BY <1>1, <1>3 DEF Size
  <2>2. \A x \in Nat, y \in Nat : n * x = n * y => x = y
    BY Z3
  <2> QED
    BY <2>1, <2>2
<1>5. \A k \in 1..n, v \in 0..(n - 1) : Size(At(n, k, v), C(1))
  BY <1>1, <1>4
<1> QED
  BY <1>3, <1>5

\* The permutations are even over the places, and all places at which v
\* follows u in one.
EvenPlaces(n, h) == \A k \in 1..n, v \in 0..(n - 1) : Size(At(n, k, v), h)
Pairs(n, u, v) == {x \in Perms(n) \X (2..n) : x[1][x[2] - 1] = u /\ x[1][x[2]] = v}

\* There are as many of these as of permutations with a value at a place.
LEMMA PairCount ==
  ASSUME NEW n \in Nat \ {0}, NEW h \in Nat, EvenPlaces(n, h),
         NEW u \in 0..(n - 1), NEW v \in (0..(n - 1)) \ {u}
  PROVE  Size(Pairs(n, u, v), h)
<1> DEFINE C(k) == Cardinality(Next2(n, k, u, v))
<1>0. n - 1 \in Nat \ {0} /\ 2 \in 2..n /\ v \in 0..(n - 1)
  OBVIOUS
<1>1. ASSUME NEW k \in 2..n PROVE C(k) \in Nat /\ Size(Next2(n, k, u, v), C(k)) /\ (n - 1) * C(k) = h
  <2> DEFINE X == At(n, k - 1, u)
             f == [p \in X |-> p[k]]
             V == (0..(n - 1)) \ {u}
  <2>1. C(k) \in Nat /\ Size(Next2(n, k, u, v), C(k))
    <3>1. Next2(n, k, u, v) \in SUBSET Perms(n)
      BY DEF Next2
    <3> QED
      BY <3>1, PermsFinite, FS_Subset, FS_CardinalityType DEF Size
  <2> HIDE DEF C
  <2>2. ASSUME NEW w \in V PROVE Size(Next2(n, k, u, w), C(k))
    <3>1. \A p \in Perms(n) : /\ Exchange(p, n, v, w) \in Perms(n)
                              /\ Exchange(p, n, v, w)[k] = Swapped(p[k], v, w)
                              /\ Exchange(p, n, v, w)[k - 1] = Swapped(p[k - 1], v, w)
      <4>1. k \in 1..n /\ k - 1 \in 1..n /\ w \in 0..(n - 1)
        OBVIOUS
      <4> QED
        BY <1>0, <4>1, ExchangeFacts
    <3>2. Swapped(u, v, w) = u /\ Swapped(v, v, w) = w /\ Swapped(w, v, w) = v
      BY DEF Swapped
    <3>3. \A p \in Next2(n, k, u, v) : Exchange(p, n, v, w) \in Next2(n, k, u, w)
      BY <3>1, <3>2 DEF Next2
    <3>4. \A p \in Next2(n, k, u, w) : Exchange(p, n, v, w) \in Next2(n, k, u, v)
      BY <3>1, <3>2 DEF Next2
    <3>5. Next2(n, k, u, v) \in SUBSET Perms(n) /\ Next2(n, k, u, w) \in SUBSET Perms(n) /\ w \in 0..(n - 1)
      BY DEF Next2
    <3> QED
      BY <1>0, <2>1, <3>3, <3>4, <3>5, ExchangeSize
  <2>3. EvenParts(f, X, V, C(k))
    <3>1. f \in [X -> V]
      <4>1. ASSUME NEW p \in X PROVE p[k] \in V
        <5>1. p \in Perms(n) /\ p[k - 1] = u
          BY DEF At
        <5>2. k \in 1..n /\ k - 1 \in 1..n /\ k # k - 1
          OBVIOUS
        <5> QED
          BY <5>1, <5>2, PermFacts
      <4> HIDE DEF X, V
      <4> QED
        BY <4>1
    <3>2. \A w \in V : {x \in X : f[x] = w} = Next2(n, k, u, w)
      BY DEF At, Next2
    <3> HIDE DEF f, V, X
    <3> QED
      BY <2>2, <3>1, <3>2 DEF EvenParts
  <2>4. Size(V, n - 1)
    <3>1. IsFiniteSet(0..(n - 1)) /\ Cardinality(0..(n - 1)) = n
      BY FS_Interval
    <3> QED
      BY <3>1, FS_RemoveElement DEF Size
  <2>5. Size(X, h)
    <3>1. k - 1 \in 1..n
      OBVIOUS
    <3> QED
      BY <3>1 DEF EvenPlaces
  <2> HIDE DEF f, V, X
  <2>6. Size(X, (n - 1) * C(k))
    <3>1. n - 1 \in Nat
      BY <1>0
    <3> QED
      BY <2>1, <2>3, <2>4, <3>1, Fibres
  <2> QED
    BY <2>1, <2>5, <2>6 DEF Size
<1> HIDE DEF C
<1>2. C(2) \in Nat /\ (n - 1) * C(2) = h
  BY <1>0, <1>1
<1>3. ASSUME NEW k \in 2..n PROVE Size(Next2(n, k, u, v), C(2))
  <2>1. C(k) \in Nat /\ C(2) \in Nat /\ (n - 1) * C(k) = (n - 1) * C(2)
    BY <1>1, <1>2
  <2>2. \A x \in Nat, y \in Nat : (n - 1) * x = (n - 1) * y => x = y
    <3> DEFINE m == n - 1
    <3>1. m \in Nat \ {0}
      BY <1>0
    <3> HIDE DEF m
    <3>2. \A x \in Nat, y \in Nat : m * x = m * y => x = y
      BY <3>1, Z3
    <3> QED
      BY <3>2 DEF m
  <2>3. C(k) = C(2)
    BY <2>1, <2>2
  <2> QED
    BY <1>1, <2>3
<1> DEFINE F == {x \in Perms(n) \X (2..n) : x[1][x[2] - 1] = u /\ x[1][x[2]] = v}
           f == [x \in F |-> x[2]]
<1>4. EvenParts(f, F, 2..n, C(2))
  <2>1. f \in [F -> 2..n]
    OBVIOUS
  <2>2. ASSUME NEW k \in 2..n PROVE Size({x \in F : f[x] = k}, C(2))
    <3> DEFINE S == Next2(n, k, u, v)
               T == {x \in F : f[x] = k}
               g == [p \in S |-> <<p, k>>]
    <3>1. \A p \in S : <<p, k>> \in T
      BY DEF Next2
    <3>2. \A x \in T : x[1] \in S /\ x = <<x[1], k>>
      BY DEF Next2
    <3>3. Size(S, C(2))
      BY <1>3
    <3> HIDE DEF S, T
    <3>4. g \in Bijection(S, T)
      BY <3>1, <3>2 DEF Bijection, Injection, Surjection, IsInjective
    <3> HIDE DEF g
    <3>5. ExistsBijection(S, T)
      BY <3>4 DEF ExistsBijection
    <3>6. Size(T, C(2))
      BY <3>3, <3>5, FS_Bijection DEF Size
    <3> QED
      BY <3>6 DEF T
  <2> HIDE DEF F, f
  <2> QED
    BY <2>1, <2>2 DEF EvenParts
<1>5. Size(2..n, n - 1)
  BY <1>0, FS_Interval DEF Size
<1> HIDE DEF F, f
<1>6. Size(F, (n - 1) * C(2))
  <2>1. n - 1 \in Nat
    BY <1>0
  <2> QED
    BY <1>2, <1>4, <1>5, <2>1, Fibres
<1> QED
  BY <1>2, <1>6 DEF F, Pairs

\* The lexicographic order is a strict total order of the permutations.
LEMMA BeforeOrder ==
  ASSUME NEW n \in Nat \ {0}
  PROVE  /\ \A p \in Perms(n) : ~Before(p, p)
         /\ \A p, q, r \in Perms(n) : Before(p, q) /\ Before(q, r) => Before(p, r)
         /\ \A p, q \in Perms(n) : p = q \/ Before(p, q) \/ Before(q, p)
<1>1. ASSUME NEW p \in Perms(n) PROVE ~Before(p, p)
  BY PermFacts DEF Before
<1>2. ASSUME NEW p \in Perms(n), NEW q \in Perms(n), NEW r \in Perms(n), Before(p, q), Before(q, r)
      PROVE  Before(p, r)
  <2>1. PICK i \in 1..n : p[i] < q[i] /\ \A j \in 1..(i - 1) : p[j] = q[j]
    BY <1>2, PermFacts, SMTT(30) DEF Before
  <2>2. PICK k \in 1..n : q[k] < r[k] /\ \A j \in 1..(k - 1) : q[j] = r[j]
    BY <1>2, PermFacts, SMTT(30) DEF Before
  <2>3. /\ DOMAIN p = 1..n
        /\ p[i] \in Int /\ q[i] \in Int /\ r[i] \in Int /\ p[k] \in Int /\ q[k] \in Int /\ r[k] \in Int
    BY PermFacts, SMTT(30)
  <2>4. CASE i <= k
    <3>1. p[i] < r[i]
      <4>1. CASE i = k
        BY <2>1, <2>2, <2>3, <4>1
      <4>2. CASE i < k
        <5>1. q[i] = r[i]
          BY <2>2, <4>2
        <5> QED
          BY <2>1, <5>1
      <4> QED
        BY <2>4, <4>1, <4>2
    <3>2. \A j \in 1..(i - 1) : p[j] = r[j]
      <4> TAKE j \in 1..(i - 1)
      <4>1. j \in 1..(k - 1)
        BY <2>4
      <4> QED
        BY <2>1, <2>2, <4>1
    <3> QED
      BY <2>3, <3>1, <3>2 DEF Before
  <2>5. CASE k < i
    <3>1. p[k] < r[k]
      <4>1. p[k] = q[k]
        BY <2>1, <2>5
      <4> QED
        BY <2>2, <4>1
    <3>2. \A j \in 1..(k - 1) : p[j] = r[j]
      <4> TAKE j \in 1..(k - 1)
      <4>1. j \in 1..(i - 1)
        BY <2>5
      <4> QED
        BY <2>1, <2>2, <4>1
    <3> QED
      BY <2>3, <3>1, <3>2 DEF Before
  <2> QED
    BY <2>4, <2>5
<1>3. ASSUME NEW p \in Perms(n), NEW q \in Perms(n), p # q PROVE Before(p, q) \/ Before(q, p)
  <2> DEFINE D == {k \in 1..n : p[k] # q[k]}
  <2>1. DOMAIN p = 1..n /\ DOMAIN q = 1..n /\ p \in [1..n -> 0..(n - 1)] /\ q \in [1..n -> 0..(n - 1)]
    BY PermFacts
  <2>2. D # {} /\ D \in SUBSET Nat
    <3>1. ASSUME \A k \in 1..n : p[k] = q[k] PROVE p = q
      BY <2>1, <3>1
    <3> QED
      BY <1>3, <3>1
  <2>3. PICK k \in D : \A j \in D : k <= j
    BY <2>2, LeastElement
  <2>4. k \in 1..n /\ p[k] # q[k] /\ p[k] \in Int /\ q[k] \in Int
    BY <2>1
  <2>5. \A j \in 1..(k - 1) : p[j] = q[j]
    <3> TAKE j \in 1..(k - 1)
    <3>1. j \in 1..n /\ j < k
      BY <2>4
    <3>2. j \notin D
      <4> HIDE DEF D
      <4> QED
        BY <2>3, <2>4, <3>1
    <3> QED
      BY <3>1, <3>2
  <2>6. p[k] < q[k] \/ q[k] < p[k]
    BY <2>4
  <2> QED
    BY <2>1, <2>4, <2>5, <2>6 DEF Before
<1> QED
  BY <1>1, <1>2, <1>3

\* Where a permutation stands in that order, counted from 0.
Earlier(n, p) == {q \in Perms(n) : Before(q, p)}
Standing(n, p) == Cardinality(Earlier(n, p))

\* Every standing is taken by just one permutation.
LEMMA StandingsDiffer ==
  ASSUME NEW n \in Nat \ {0}, NEW N, N = Cardinality(Perms(n))
  PROVE  /\ N \in Nat /\ \A p \in Perms(n) : Standing(n, p) \in 0..(N - 1)
         /\ \A p, q \in Perms(n) : Standing(n, p) = Standing(n, q) => p = q
         /\ \A i \in 0..(N - 1) : \E p \in Perms(n) : Standing(n, p) = i
<1> DEFINE P == Perms(n)
           f == [p \in P |-> Standing(n, p)]
<1>1. IsFiniteSet(P) /\ N \in Nat
  BY PermsFinite
<1>2. \A p \in P : ~Before(p, p)
  BY BeforeOrder
<1>3. \A p, q, r \in P : Before(p, q) /\ Before(q, r) => Before(p, r)
  BY BeforeOrder
<1>4. \A p, q \in P : p = q \/ Before(p, q) \/ Before(q, p)
  BY BeforeOrder
<1>5. ASSUME NEW p \in P PROVE IsFiniteSet(Earlier(n, p)) /\ Standing(n, p) \in 0..(N - 1)
  <2>1. Earlier(n, p) \in SUBSET P /\ Earlier(n, p) # P
    BY <1>2 DEF Earlier
  <2>2. /\ IsFiniteSet(Earlier(n, p)) /\ Standing(n, p) \in Nat
        /\ Standing(n, p) <= N /\ Standing(n, p) # N
    <3> HIDE DEF P
    <3>1. N = Cardinality(P)
      BY DEF P
    <3> QED
      BY <1>1, <2>1, <3>1, FS_Subset, FS_CardinalityType DEF Standing
  <2> QED
    BY <1>1, <2>2
<1>6. ASSUME NEW p \in P, NEW q \in P, Before(p, q) PROVE Standing(n, p) < Standing(n, q)
  <2>1. Earlier(n, p) \in SUBSET Earlier(n, q)
    BY <1>3, <1>6 DEF Earlier
  <2>2. Earlier(n, p) # Earlier(n, q)
    BY <1>2, <1>6 DEF Earlier
  <2>3. Standing(n, p) <= Standing(n, q) /\ Standing(n, p) # Standing(n, q)
    BY <1>5, <2>1, <2>2, FS_Subset DEF Standing
  <2>4. Standing(n, p) \in Int /\ Standing(n, q) \in Int
    BY <1>5
  <2> QED
    BY <2>3, <2>4
<1>7. ASSUME NEW p \in P, NEW q \in P, Standing(n, p) = Standing(n, q) PROVE p = q
  <2>1. Standing(n, p) \in Int
    BY <1>5
  <2> QED
    BY <1>4, <1>6, <1>7, <2>1
<1>8. f \in Injection(P, 0..(N - 1))
  <2>1. f \in [P -> 0..(N - 1)]
    BY <1>5
  <2> QED
    BY <1>7, <2>1 DEF Injection, IsInjective
<1>9. IsFiniteSet(0..(N - 1)) /\ Cardinality(0..(N - 1)) = N
  <2> HIDE DEF P
  <2>1. 0 \in Int /\ N - 1 \in Int /\ (0 > N - 1 => N = 0) /\ (N - 1) - 0 + 1 = N
    BY <1>1
  <2> QED
    BY <2>1, FS_Interval
<1>10. f \in Surjection(P, 0..(N - 1))
  <2> HIDE DEF f
  <2>1. Cardinality(P) = Cardinality(0..(N - 1))
    BY <1>9
  <2> QED
    BY <1>8, <1>9, <2>1, FS_Injection
<1>11. ASSUME NEW i \in 0..(N - 1) PROVE \E p \in P : Standing(n, p) = i
  BY <1>10 DEF Surjection
<1> QED
  BY <1>1, <1>5, <1>7, <1>11

\* Orderings enumerates the permutations, each once.
LEMMA OrderingsEnumerate ==
  ASSUME NEW n \in Nat \ {0}, NEW N, N = Cardinality(Perms(n))
  PROVE  /\ N \in Nat /\ DOMAIN Orderings(n) = 1..N /\ Len(Orderings(n)) = N
         /\ Orderings(n) \in Bijection(1..N, Perms(n))
<1> DEFINE P == Perms(n)
           O == Orderings(n)
<1>1. N \in Nat
  BY StandingsDiffer
<1>2. O = [i \in 1..N |-> CHOOSE p \in P : Standing(n, p) = i - 1]
  BY DEF Orderings, Perms, Standing, Earlier
<1>3. ASSUME NEW i \in 1..N PROVE O[i] \in P /\ Standing(n, O[i]) = i - 1
  <2>1. i - 1 \in 0..(N - 1)
    BY <1>1
  <2>2. \E p \in P : Standing(n, p) = i - 1
    BY <2>1, StandingsDiffer
  <2>3. O[i] = CHOOSE p \in P : Standing(n, p) = i - 1
    BY <1>2
  <2> HIDE DEF O, P
  <2> QED
    BY <2>2, <2>3
<1>4. DOMAIN O = 1..N
  BY <1>2
<1>5. Len(O) = N
  BY <1>1, <1>2
<1>6. O \in [1..N -> P]
  <2> HIDE DEF P
  <2>1. O = [i \in 1..N |-> O[i]]
    BY <1>2
  <2> HIDE DEF O
  <2> QED
    BY <1>3, <2>1
<1>7. ASSUME NEW i \in 1..N, NEW j \in 1..N, O[i] = O[j] PROVE i = j
  <2>1. i - 1 = j - 1
    BY <1>3, <1>7
  <2> QED
    BY <2>1, <1>1
<1>8. ASSUME NEW p \in P PROVE \E i \in 1..N : O[i] = p
  <2> DEFINE s == Standing(n, p)
  <2>1. s \in 0..(N - 1)
    BY StandingsDiffer
  <2> HIDE DEF s
  <2>2. s + 1 \in 1..N /\ (s + 1) - 1 = s
    BY <1>1, <2>1
  <2>3. O[s + 1] \in P /\ Standing(n, O[s + 1]) = Standing(n, p)
    BY <1>3, <2>2 DEF s
  <2>4. O[s + 1] = p
    BY <2>3, StandingsDiffer
  <2> QED
    BY <2>2, <2>4
<1> HIDE DEF O, P
<1>9. O \in Bijection(1..N, P)
  BY <1>6, <1>7, <1>8 DEF Bijection, Injection, Surjection, IsInjective
<1> QED
  BY <1>1, <1>4, <1>5, <1>9 DEF O, P

\* Rows that enumerate the permutations are balanced.
LEMMA EnumerationBalanced ==
  ASSUME NEW n \in Nat \ {0}, NEW h \in Nat, NEW N \in Nat, NEW rows,
         rows \in Bijection(1..N, Perms(n)), EvenPlaces(n, h)
  PROVE  Balanced(rows, n, h)
<1>1. /\ DOMAIN rows = 1..N /\ \A j \in 1..N : rows[j] \in Perms(n)
      /\ \A i, j \in 1..N : rows[i] = rows[j] => i = j
      /\ \A p \in Perms(n) : \E j \in 1..N : rows[j] = p
  BY DEF Bijection, Injection, Surjection, IsInjective
<1>2. ASSUME NEW p \in 0..(n - 1), NEW k \in 1..n PROVE Size(HoldsIn(rows, k, p), h)
  <2> DEFINE S == HoldsIn(rows, k, p)
             T == At(n, k, p)
             f == [j \in S |-> rows[j]]
  <2>1. \A j \in S : rows[j] \in T /\ j \in 1..N
    BY <1>1 DEF HoldsIn, At
  <2>2. ASSUME NEW q \in T PROVE \E j \in S : rows[j] = q
    BY <1>1 DEF HoldsIn, At
  <2>3. Size(T, h)
    BY DEF EvenPlaces
  <2> HIDE DEF S, T
  <2>4. f \in Bijection(S, T)
    BY <1>1, <2>1, <2>2 DEF Bijection, Injection, Surjection, IsInjective
  <2> HIDE DEF f
  <2>5. ExistsBijection(T, S)
    BY <2>4, Fun_ExistsBijSymmetric DEF ExistsBijection
  <2>6. Size(S, h)
    BY <2>3, <2>5, FS_Bijection DEF Size
  <2> QED
    BY <2>6 DEF S
<1>3. ASSUME NEW p \in 0..(n - 1), NEW q \in (0..(n - 1)) \ {p} PROVE Size(FollowsIn(rows, n, p, q), h)
  <2> DEFINE S == FollowsIn(rows, n, p, q)
             T == Pairs(n, p, q)
             f == [x \in S |-> <<rows[x[1]], x[2]>>]
  <2>1. \A x \in S : <<rows[x[1]], x[2]>> \in T /\ x[1] \in 1..N /\ x = <<x[1], x[2]>>
    BY <1>1 DEF FollowsIn, Pairs
  <2>2. ASSUME NEW y \in T PROVE \E x \in S : f[x] = y
    <3>1. y[1] \in Perms(n) /\ y[2] \in 2..n /\ y = <<y[1], y[2]>> /\ y[1][y[2] - 1] = p /\ y[1][y[2]] = q
      BY DEF Pairs
    <3>2. PICK j \in 1..N : rows[j] = y[1]
      BY <1>1, <3>1
    <3>3. <<j, y[2]>> \in S
      BY <1>1, <3>1, <3>2 DEF FollowsIn
    <3>4. f[<<j, y[2]>>] = <<y[1], y[2]>>
      <4> HIDE DEF S
      <4> QED
        BY <3>2, <3>3
    <3> QED
      BY <3>1, <3>3, <3>4
  <2>3. Size(T, h)
    BY PairCount
  <2> HIDE DEF S, T
  <2>4. f \in [S -> T]
    BY <2>1
  <2>5. ASSUME NEW x \in S, NEW y \in S, f[x] = f[y] PROVE x = y
    <3>1. rows[x[1]] = rows[y[1]] /\ x[2] = y[2]
      BY <2>5
    <3>2. x[1] \in 1..N /\ y[1] \in 1..N /\ x = <<x[1], x[2]>> /\ y = <<y[1], y[2]>>
      BY <2>1
    <3>3. x[1] = y[1]
      BY <1>1, <3>1, <3>2
    <3> QED
      BY <3>1, <3>2, <3>3
  <2>6. f \in Bijection(S, T)
    BY <2>2, <2>4, <2>5 DEF Bijection, Injection, Surjection, IsInjective
  <2> HIDE DEF f
  <2>7. ExistsBijection(T, S)
    BY <2>6, Fun_ExistsBijSymmetric DEF ExistsBijection
  <2>8. Size(S, h)
    BY <2>3, <2>7, FS_Bijection DEF Size
  <2> QED
    BY <2>8 DEF S
<1> QED
  BY <1>2, <1>3 DEF Balanced

\* There is a permutation.
LEMMA SomePermutation ==
  ASSUME NEW n \in Nat \ {0}
  PROVE  Perms(n) # {}
<1> DEFINE p == [k \in 1..n |-> k - 1]
<1>1. p \in [1..n -> 0..(n - 1)] /\ DOMAIN p = 1..n
  OBVIOUS
<1>2. \A k, l \in 1..n : p[k] = p[l] => k = l
  OBVIOUS
<1>3. p \in Perms(n)
  <2> HIDE DEF p
  <2> QED
    BY <1>1, <1>2 DEF Perms, IsInjective
<1> QED
  BY <1>3

\* Whole designs: R rows of n paths, h of them with a path at a place.
WholeDesign(rows, n, h) ==
  DOMAIN rows = 1..(n * h) /\ Len(rows) = n * h /\ Balanced(rows, n, h)

\* design_rows: permutations or Williams rows, the rows are balanced.
LEMMA DesignBalanced ==
  ASSUME NEW n \in Nat \ {0}
  PROVE  \E h \in Nat : n * h \in Nat \ {0} /\ WholeDesign(DesignRows(n), n, h)
<1>1. CASE n <= MAX_PERMUTATION_PATHS
  <2> DEFINE N == Cardinality(Perms(n))
  <2>1. PICK h \in Nat : Size(Perms(n), n * h) /\ EvenPlaces(n, h)
    BY PlaceCount DEF EvenPlaces
  <2>2. /\ N \in Nat /\ DOMAIN Orderings(n) = 1..N /\ Len(Orderings(n)) = N
        /\ Orderings(n) \in Bijection(1..N, Perms(n))
    BY OrderingsEnumerate
  <2>3. IsFiniteSet(Perms(n)) /\ N = n * h
    BY <2>1 DEF Size
  <2>4. N # 0
    BY <2>3, SomePermutation, FS_EmptySet
  <2> HIDE DEF N
  <2>5. Balanced(Orderings(n), n, h)
    BY <2>1, <2>2, EnumerationBalanced
  <2>6. WholeDesign(Orderings(n), n, h)
    BY <2>2, <2>3, <2>5 DEF WholeDesign
  <2>7. DesignRows(n) = Orderings(n)
    BY <1>1 DEF DesignRows
  <2> QED
    BY <2>2, <2>3, <2>4, <2>6, <2>7
<1>2. CASE ~(n <= MAX_PERMUTATION_PATHS)
  <2>0. DesignRows(n) = WilliamsRows(n)
    BY <1>2 DEF DesignRows
  <2>1. CASE n % 2 = 0
    <3>1. DOMAIN WilliamsRows(n) = 1..n /\ Len(WilliamsRows(n)) = n /\ n * 1 = n
      BY <2>1, RowsOfWilliams
    <3>2. WholeDesign(WilliamsRows(n), n, 1)
      BY <2>1, <3>1, EvenBalanced DEF WholeDesign
    <3> QED
      BY <2>0, <3>1, <3>2
  <2>2. CASE n % 2 = 1
    <3>1. DOMAIN WilliamsRows(n) = 1..(2 * n) /\ Len(WilliamsRows(n)) = 2 * n
      BY <2>2, RowsOfWilliams
    <3>2. n * 2 \in Nat \ {0} /\ 2 * n = n * 2
      OBVIOUS
    <3>3. WholeDesign(WilliamsRows(n), n, 2)
      BY <2>2, <3>1, <3>2, OddBalanced DEF WholeDesign
    <3> QED
      BY <2>0, <3>2, <3>3
  <2> QED
    BY <2>1, <2>2
<1> QED
  BY <1>1, <1>2

\* trial_orders over whole designs is balanced.
LEMMA TrialOrdersBalanced ==
  ASSUME NEW n \in Nat \ {0}, NEW trials \in Nat, ~OrdersRefused(n, trials),
         n > MAX_PERMUTATION_PATHS \/ trials % Len(DesignRows(n)) = 0
  PROVE  \E h \in Nat : n * h = trials /\ Balanced(TrialOrders(n, trials), n, h)
<1> DEFINE rows == DesignRows(n)
           turns == TrialOrders(n, trials)
<1>1. trials % Len(rows) = 0
  <2>1. n > MAX_PERMUTATION_PATHS => ~(n <= MAX_PERMUTATION_PATHS)
    BY DEF MAX_PERMUTATION_PATHS
  <2>2. n > MAX_PERMUTATION_PATHS => trials % Len(WilliamsRows(n)) = 0
    BY DEF OrdersRefused
  <2>3. n > MAX_PERMUTATION_PATHS => rows = WilliamsRows(n)
    BY <2>1 DEF DesignRows
  <2> QED
    BY <2>2, <2>3
<1>2. PICK h \in Nat : n * h \in Nat \ {0} /\ WholeDesign(rows, n, h)
  BY DesignBalanced
<1> DEFINE R == n * h
           m == trials \div R
<1>3. R \in Nat \ {0} /\ DOMAIN rows = 1..R /\ Len(rows) = R /\ Balanced(rows, n, h)
  BY <1>2 DEF WholeDesign
<1>4. turns = [t \in 1..trials |-> rows[Turn(t, R)]]
  BY <1>3 DEF TrialOrders, Turn
<1> HIDE DEF rows, turns, R
<1>5. m \in Nat /\ m * R = trials
  <2>1. trials % R = 0
    BY <1>1, <1>3
  <2> QED
    BY <1>3, <2>1, Z3
<1> HIDE DEF m
<1>6. DOMAIN turns = 1..(m * R) /\ \A t \in 1..(m * R) : turns[t] = rows[Turn(t, R)]
  BY <1>4, <1>5
<1>7. Balanced(turns, n, h * m)
  BY <1>3, <1>5, <1>6, RoundsBalanced
<1>8. h * m \in Nat /\ n * (h * m) = trials
  <2>1. n * (h * m) = m * (n * h)
    BY <1>5, Z3
  <2>2. h * m \in Nat
    BY <1>5, Z3
  <2> QED
    BY <1>5, <2>1, <2>2 DEF R
<1> QED
  BY <1>7, <1>8 DEF turns

-----------------------------------------------------------------------------
(* The inductive invariant *)

\* A summary that was written is that of the experiment.
SummaryState ==
  summary.written =>
    /\ summary.evidence = Evidence(experiment)
    /\ summary.dirty = experiment.dirty
    /\ summary.device = experiment.device

\* What a matrix has planned and measured so far.
MatrixState ==
  /\ scenario \in Scenarios /\ watch \in scenario.watched
  /\ pc \notin {"plan", "refused"} => ~MatrixRefused
  /\ pc = "compared" => GroupState /\ DOMAIN runs = Range(Paths)
  /\ IsColumn(column)
  /\ publishable /\ Extended => \A i \in DOMAIN column : column[i] # None

\* Nothing is printed before the report is rendered, and nothing happens to a
\* report that is.
PrintedState ==
  /\ pc # "rendered" => report = NoReport
  /\ PrintedIsMeasured
  /\ PublishedIsEvidence

\* Every calibration so far was accepted exactly if it was answered.
CalibrationState == at \in Nat \ {0} /\ AcceptedIffAsked

IInv == SummaryState /\ ExperimentState /\ CalibrationState /\ MatrixState /\ PrintedState

\* The experiment and the matrix do not touch each other's state.
LEMMA MatrixFrame ==
  ASSUME MatrixState, PrintedState, UNCHANGED <<reportVars, experiment>>
  PROVE  MatrixState' /\ PrintedState'
<1>0. /\ scenario' = scenario /\ pc' = pc /\ watch' = watch /\ runs' = runs /\ claims' = claims
      /\ column' = column /\ publishable' = publishable /\ report' = report /\ experiment' = experiment
  BY DEF reportVars
<1>1. Paths' = Paths /\ (MatrixRefused' <=> MatrixRefused) /\ (Extended' <=> Extended)
  BY <1>0 DEF Paths, MatrixRefused, Extended
<1>2. GroupStats' = GroupStats /\ (GroupState' <=> GroupState)
  BY <1>0 DEF GroupStats, GroupState, GroupRuns
<1>3. MatrixState'
  BY <1>0, <1>1, <1>2 DEF MatrixState
<1>4. (PrintedIsMeasured' <=> PrintedIsMeasured) /\ (PublishedIsEvidence' <=> PublishedIsEvidence)
  BY <1>0, <1>1 DEF PrintedIsMeasured, PublishedIsEvidence, Flip
<1> QED
  BY <1>0, <1>3, <1>4 DEF PrintedState

\* Before anything runs no summary, no compared group and no line exists.
LEMMA InitInv ==
  ASSUME Init
  PROVE  IInv
<1>1. /\ scenario \in Scenarios /\ watch \in scenario.watched /\ pc = "plan"
      /\ at = 1 /\ process = NoProcess /\ column = <<>> /\ report = NoReport
  BY DEF Init, ReportInit
<1>2. summary = NoSummary
  BY DEF Init, ResidentInit
<1>3. SummaryState
  BY <1>2 DEF SummaryState, NoSummary
<1>4. IsColumn(column)
  BY <1>1 DEF IsColumn
<1>5. MatrixState
  BY <1>1, <1>4 DEF MatrixState
<1>6. ~report.rendered
  BY <1>1 DEF NoReport
<1>7. PrintedState
  BY <1>1, <1>6 DEF PrintedState, PrintedIsMeasured, PublishedIsEvidence
<1>8. CalibrationState
  BY <1>1 DEF CalibrationState, AcceptedIffAsked, NoProcess
<1>9. ExperimentState
  <2>1. /\ experiment \in scenario.after
        /\ step = IF experiment = NoExperiment THEN "exited" ELSE "start"
        /\ round = 0 /\ records = <<>>
    BY DEF Init, ResidentInit
  <2>2. experiment = NoExperiment \/ Sized(experiment)
    BY <1>1, <2>1, ScenariosAssumption DEF Sized
  <2>3. step \in {"exited", "start"}
    BY <2>1
  <2>4. AbState
    BY <2>1, <2>3 DEF AbState
  <2> QED
    BY <2>2, <2>3, <2>4 DEF ExperimentState
<1> QED
  BY <1>3, <1>5, <1>7, <1>8, <1>9 DEF IInv

\* Only Analyze writes a summary, and nothing changes the command line.
LEMMA ResidentStep ==
  ASSUME SummaryState, ResidentNext
  PROVE  SummaryState' /\ experiment' = experiment
<1>1. CASE UNCHANGED <<experiment, summary>>
  BY <1>1 DEF SummaryState
<1>2. CASE summary' = Analysis(experiment, records) /\ experiment' = experiment
  BY <1>2 DEF SummaryState, Analysis
<1>3. Raised => UNCHANGED <<experiment, summary>>
  BY DEF Raised
<1>4. StartExperiment => UNCHANGED <<experiment, summary>>
  BY <1>3 DEF StartExperiment
<1>5. VerifyVariantRecords => UNCHANGED <<experiment, summary>>
  BY <1>3 DEF VerifyVariantRecords
<1>6. WarmUpAndProbe => UNCHANGED <<experiment, summary>>
  BY <1>3 DEF WarmUpAndProbe
<1>7. Calibrate => UNCHANGED <<experiment, summary>>
  BY <1>3 DEF Calibrate
<1>8. BeginRound => UNCHANGED <<experiment, summary>>
  BY DEF BeginRound
<1>9. RunArm => UNCHANGED <<experiment, summary>>
  BY <1>3 DEF RunArm
<1>10. Analyze => \/ UNCHANGED <<experiment, summary>>
                  \/ summary' = Analysis(experiment, records) /\ experiment' = experiment
  BY <1>3 DEF Analyze
<1>11. ExitExperiment => UNCHANGED <<experiment, summary>>
  BY DEF ExitExperiment
<1> QED
  BY <1>1, <1>2, <1>4, <1>5, <1>6, <1>7, <1>8, <1>9, <1>10, <1>11 DEF ResidentNext

\* A step before the report is rendered that prints nothing.
LEMMA NothingPrinted ==
  ASSUME PrintedState, pc # "rendered", UNCHANGED report
  PROVE  PrintedState'
<1>1. report = NoReport /\ report' = NoReport
  BY DEF PrintedState
<1>2. ~report'.rendered
  BY <1>1 DEF NoReport
<1> QED
  BY <1>1, <1>2 DEF PrintedState, PrintedIsMeasured, PublishedIsEvidence

\* A process is accepted if it did what it was asked for, and only then.
LEMMA CalibrateCaseStep ==
  ASSUME IInv, CalibrateCase
  PROVE  CalibrationState'
<1>0. /\ scenario \in Scenarios /\ ~MatrixRefused /\ at \in Nat \ {0} /\ at <= Len(Paths)
      /\ at' = at + 1
  BY DEF IInv, MatrixState, CalibrationState, CalibrateCase
<1>1. scenario.k1 \in K1_VARIANTS
  BY <1>0, ScenariosAssumption
<1>2. Paths \in Seq(KnownPaths)
  BY <1>0, PathsClosed DEF MatrixRefused, Paths
<1>3. Paths[at] \in KnownPaths
  BY <1>0, <1>2
<1> DEFINE r == Calibration(Paths[at], scenario.k1)
           honest == NativeAnswer(r, 3)
<1>4. PICK answer \in {honest} \cup Faults(honest) :
        process' = [honest |-> answer = honest, accepted |-> ValidateBenchResponse(answer, r)]
  BY DEF CalibrateCase, Calibration
<1>5. /\ ValidateBenchResponse(honest, r)
      /\ \A other \in Faults(honest) : ~ValidateBenchResponse(other, r)
  BY <1>1, <1>3, CalibrationChecked
<1> HIDE DEF r, honest
<1>6. ValidateBenchResponse(answer, r) <=> answer = honest
  BY <1>5
<1>7. (process.accepted <=> process.honest)'
  BY <1>4, <1>6
<1> QED
  BY <1>0, <1>7 DEF CalibrationState, AcceptedIffAsked

\* Steps that leave the column alone and compare nothing.
LEMMA PlanAndCalibrateStep ==
  ASSUME IInv, PlanMatrix \/ CalibrateCase
  PROVE  MatrixState' /\ PrintedState'
<1>0. MatrixState /\ PrintedState
  BY DEF IInv
<1>1. /\ scenario' = scenario /\ watch' = watch /\ column' = column /\ publishable' = publishable
      /\ report' = report /\ pc # "rendered" /\ pc' # "compared"
      /\ pc' \notin {"plan", "refused"} => ~MatrixRefused
  BY <1>0 DEF PlanMatrix, CalibrateCase, MatrixState
<1>2. (MatrixRefused' <=> MatrixRefused) /\ (Extended' <=> Extended)
  BY <1>1 DEF MatrixRefused, Extended, Paths
<1>3. MatrixState'
  BY <1>0, <1>1, <1>2 DEF MatrixState
<1> QED
  BY <1>0, <1>1, <1>3, NothingPrinted

\* The trials of a case go round its profile.
LEMMA TrialRunsAreTrials ==
  ASSUME MatrixState, scenario.trials >= 1, NEW profile \in scenario.profiles
  PROVE  TrialRuns(profile) \in Trials
<1>1. /\ scenario.trials \in Nat
      /\ profile \in Seq(Samples) /\ profile # <<>>
  BY ScenariosAssumption DEF MatrixState, Samples
<1> DEFINE n == scenario.trials
           m == Len(profile)
<1>2. n \in Nat /\ n >= 1 /\ m \in Nat /\ m > 0 /\ \A i \in 1..m : profile[i] \in Samples
  BY <1>1
<1>3. TrialRuns(profile) = [t \in 1..n |-> profile[((t - 1) % m) + 1]]
  BY DEF TrialRuns
<1> HIDE DEF n, m
<1>4. \A t \in 1..n : ((t - 1) % m) + 1 \in 1..m
  BY <1>2
<1>5. TrialRuns(profile) \in [1..n -> Samples]
  BY <1>2, <1>3, <1>4
<1> DEFINE T == TrialRuns(profile)
<1> HIDE DEF T
<1>6. T \in Seq(Samples) /\ Len(T) = n
  BY <1>2, <1>5 DEF T
<1> QED
  BY <1>2, <1>6 DEF Trials, T

\* The trials a group runs are the ones its comparison reads.
LEMMA MeasureGroupStep ==
  ASSUME IInv, MeasureGroup
  PROVE  MatrixState' /\ PrintedState'
<1>0. MatrixState /\ PrintedState
  BY DEF IInv
<1>1. /\ scenario' = scenario /\ watch' = watch /\ column' = column /\ publishable' = publishable
      /\ report' = report /\ pc = "calibrate" /\ pc' = "compared"
  BY DEF MeasureGroup
<1>2. ~MatrixRefused /\ scenario.trials >= 1 /\ ~PathsRefused(scenario)
  <2>1. ~MatrixRefused
    BY <1>0, <1>1 DEF MatrixState
  <2>2. scenario.trials \in Nat
    BY <1>0, ScenariosAssumption DEF MatrixState
  <2> QED
    BY <2>1, <2>2 DEF MatrixRefused
<1>3. (MatrixRefused' <=> MatrixRefused) /\ (Extended' <=> Extended) /\ Paths' = Paths
  BY <1>1 DEF MatrixRefused, Extended, Paths
<1> DEFINE P == Range(Paths)
           outcomes == {TrialRuns(profile) : profile \in scenario.profiles}
           statistics == [o \in outcomes |-> CaseStatistics(o)]
<1>4. outcomes \subseteq Trials
  BY <1>0, <1>2, TrialRunsAreTrials
<1>5. PICK outcome \in [P -> outcomes \cup {NoRuns}] :
        /\ runs' = outcome
        /\ claims' = CompareCaseGroup([p \in DOMAIN outcome |->
             IF outcome[p] = NoRuns THEN None ELSE statistics[outcome[p]]])
  BY DEF MeasureGroup
<1>6. Closed(P)
  BY <1>2, PathsClosed DEF Paths
<1> HIDE DEF P
<1>7. /\ DOMAIN outcome = P
      /\ \A p \in P : outcome[p] # NoRuns => /\ outcome[p] \in Trials
                                             /\ statistics[outcome[p]] = CaseStatistics(outcome[p])
  BY <1>4
<1> HIDE DEF statistics, outcomes
<1>8. GroupStats' = [p \in DOMAIN outcome |-> IF outcome[p] = NoRuns THEN None ELSE CaseStatistics(outcome[p])]
  BY <1>5 DEF GroupStats
<1>9. [p \in DOMAIN outcome |-> IF outcome[p] = NoRuns THEN None ELSE CaseStatistics(outcome[p])]
        = [p \in DOMAIN outcome |-> IF outcome[p] = NoRuns THEN None ELSE statistics[outcome[p]]]
  BY <1>7
<1>10. claims' = CompareCaseGroup(GroupStats')
  BY <1>5, <1>8, <1>9
<1>11. runs' \in [P -> Trials \cup {NoRuns}] /\ DOMAIN runs' = P
  BY <1>5, <1>7
<1>12. GroupRuns'
  BY <1>6, <1>11 DEF GroupRuns
<1>13. GroupState' /\ DOMAIN runs' = Range(Paths)'
  BY <1>3, <1>10, <1>11, <1>12 DEF GroupState, P
<1>14. MatrixState'
  BY <1>0, <1>1, <1>2, <1>3, <1>13 DEF MatrixState
<1> QED
  BY <1>0, <1>1, <1>14, NothingPrinted

\* The entry a group adds to the column of the watched path.
LEMMA EntrySound ==
  ASSUME MatrixState, pc = "compared", watch \in DOMAIN claims
  PROVE  LET c == [own |-> claims[watch].own, raw |-> RawClaim(watch),
                   rival |-> claims[watch].rival, rivalRaw |-> RawRivalClaim(watch)]
         IN c # None /\ CaseSound(c)
<1> DEFINE c == [own |-> claims[watch].own, raw |-> RawClaim(watch),
                 rival |-> claims[watch].rival, rivalRaw |-> RawRivalClaim(watch)]
           own == claims[watch].own
           rival == claims[watch].rival
           raw == RawOrder(watch, Baseline(watch))
           rraw == RawOrder(watch, Rival(watch))
<1>0. GroupState
  BY DEF MatrixState
<1>1. watch.backend = "cuda"
  BY ScenariosAssumption DEF MatrixState
<1>2. watch \in DOMAIN claims \ {COMPARATOR, AVX2_COMPARATOR}
  BY <1>1 DEF COMPARATOR, AVX2_COMPARATOR, BenchPath
<1>3. /\ ClaimIsSound(own, watch, Baseline(watch), Vetoed(watch)) /\ IsClaim(own)
      /\ IF rival.verdict = "missing" THEN rival = NoVerdict
         ELSE /\ ClaimIsSound(rival, watch, Rival(watch), Vetoed(watch) \/ Vetoed(Rival(watch)))
              /\ IsClaim(rival)
  BY <1>0, <1>2, GroupSound
<1>4. c # None
  <2>1. DOMAIN c = {"own", "raw", "rival", "rivalRaw"} /\ DOMAIN None = {"none"}
    BY DEF None
  <2> QED
    BY <2>1
<1>5. /\ c.own = own /\ c.rival = rival
      /\ c.raw = (IF Vetoed(watch) THEN "none" ELSE raw)
      /\ c.rivalRaw = (IF \/ rival.verdict = "missing"
                          \/ Vetoed(watch) \/ Vetoed(Rival(watch))
                       THEN "none" ELSE rraw)
  BY DEF RawClaim, RawRivalClaim
<1>6. \A p, q : RawOrder(p, q) \in {"none", "faster", "slower"}
  BY DEF RawOrder
<1>7. /\ own.direction <=> (~Vetoed(watch) /\ raw # "none")
      /\ own.direction => own.verdict = raw
      /\ own.magnitude => own.direction
  BY <1>3 DEF ClaimIsSound
<1>8. /\ rival.direction => /\ rival.verdict # "missing" /\ ~Vetoed(watch) /\ ~Vetoed(Rival(watch))
                            /\ rival.verdict = rraw /\ rraw # "none"
      /\ rival.magnitude => rival.direction
      /\ IsClaim(rival)
  <2>1. CASE rival.verdict = "missing"
    BY <1>3, <2>1, NoVerdictFacts
  <2>2. CASE rival.verdict # "missing"
    BY <1>3, <2>2 DEF ClaimIsSound
  <2> QED
    BY <2>1, <2>2
<1> HIDE DEF c, own, rival, raw, rraw
<1>9. c.raw \in {"none", "faster", "slower"}
  BY <1>5, <1>6 DEF raw
<1>10. CaseSound(c)
  BY <1>3, <1>5, <1>7, <1>8, <1>9 DEF CaseSound
<1> QED
  BY <1>4, <1>10 DEF c

\* Ending a group appends to the column entries that stand on its samples.
LEMMA EndGroupStep ==
  ASSUME IInv, EndGroup
  PROVE  MatrixState' /\ PrintedState'
<1> DEFINE e == IF watch \in DOMAIN claims
                THEN [own |-> claims[watch].own, raw |-> RawClaim(watch),
                      rival |-> claims[watch].rival, rivalRaw |-> RawRivalClaim(watch)]
                ELSE None
           n == Len(column)
<1>0. MatrixState /\ PrintedState
  BY DEF IInv
<1>1. /\ scenario' = scenario /\ watch' = watch /\ report' = report
      /\ pc = "compared" /\ pc' \in {"calibrate", "render"}
      /\ column' = Append(column, e)
      /\ publishable' => publishable /\ \A p \in DOMAIN runs : runs[p] # NoRuns
  BY DEF EndGroup
<1>2. ~MatrixRefused /\ (MatrixRefused' <=> MatrixRefused) /\ (Extended' <=> Extended)
  BY <1>0, <1>1 DEF MatrixState, MatrixRefused, Extended, Paths
<1>3. CaseSound(e) /\ (watch \in DOMAIN claims => e # None)
  <2>1. CASE watch \in DOMAIN claims
    BY <1>0, <1>1, <2>1, EntrySound
  <2>2. CASE watch \notin DOMAIN claims
    BY <2>2 DEF CaseSound
  <2> QED
    BY <2>1, <2>2
<1>4. publishable' /\ Extended => e # None
  <2> SUFFICES ASSUME publishable', Extended PROVE watch \in DOMAIN claims
    BY <1>3
  <2>1. GroupState /\ DOMAIN runs = Range(Paths)
    BY <1>0, <1>1 DEF MatrixState
  <2>2. watch \in Range(Paths)
    <3>1. ~PathsRefused(scenario) /\ HasExtension(Range(BuildPaths(scenario)))
      BY <1>2 DEF MatrixRefused, Extended, Paths
    <3> QED
      BY <1>0, <3>1, ScenariosAssumption DEF MatrixState, Paths
  <2>3. runs[watch] # NoRuns
    BY <1>1, <2>1, <2>2
  <2> QED
    BY <2>1, <2>2, <2>3, GroupSound
<1> HIDE DEF e
<1>5. column \in Seq(Range(column)) /\ \A i \in DOMAIN column : CaseSound(column[i])
  BY <1>0 DEF MatrixState, IsColumn
<1>6. n \in Nat /\ DOMAIN column = 1..n /\ column \in Seq(Range(column) \cup {e})
  <2>1. Range(column) \subseteq Range(column) \cup {e}
    OBVIOUS
  <2> QED
    BY <1>5, <2>1
<1>7. /\ DOMAIN column' = 1..(n + 1)
      /\ column'[n + 1] = e
      /\ \A i \in 1..n : column'[i] = column[i]
      /\ column' \in Seq(Range(column) \cup {e})
  BY <1>1, <1>6
<1> DEFINE col == column'
<1>8. IsColumn(col)
  <2> HIDE DEF col
  <2>1. \A i \in DOMAIN col : CaseSound(col[i])
    <3>1. ASSUME NEW i \in 1..(n + 1) PROVE CaseSound(col[i])
      <4>1. i \in 1..n \/ i = n + 1
        BY <1>6
      <4> QED
        BY <1>3, <1>5, <1>6, <1>7, <4>1 DEF col
    <3> QED
      BY <1>7, <3>1 DEF col
  <2>2. Range(col) = Range(column) \cup {e}
    <3>1. \A i \in 1..(n + 1) : i \in 1..n \/ i = n + 1
      BY <1>6
    <3>2. n + 1 \in 1..(n + 1) /\ \A i \in 1..n : i \in 1..(n + 1)
      BY <1>6
    <3>3. Range(col) \subseteq Range(column) \cup {e}
      BY <1>6, <1>7, <3>1 DEF Range, col
    <3>4. Range(column) \subseteq Range(col)
      BY <1>6, <1>7, <3>2 DEF Range, col
    <3>5. e \in Range(col)
      BY <1>7, <3>2 DEF Range, col
    <3> QED
      BY <3>3, <3>4, <3>5
  <2>3. col \in Seq(Range(column) \cup {e})
    BY <1>7 DEF col
  <2> QED
    BY <2>1, <2>2, <2>3 DEF IsColumn
<1>9. ASSUME publishable', Extended, NEW i \in 1..(n + 1) PROVE column'[i] # None
  <2>1. i \in 1..n \/ i = n + 1
    BY <1>6
  <2>2. \A j \in 1..n : column[j] # None
    BY <1>0, <1>1, <1>6, <1>9 DEF MatrixState
  <2> QED
    BY <1>4, <1>7, <1>9, <2>1, <2>2
<1>10. MatrixState'
  BY <1>0, <1>1, <1>2, <1>7, <1>8, <1>9 DEF MatrixState
<1> QED
  BY <1>0, <1>1, <1>10, NothingPrinted

\* Rendering a report of either kind, or raising.
LEMMA RenderStep ==
  ASSUME IInv, RenderReport \/ RenderPublication, UNCHANGED residentVars
  PROVE  MatrixState' /\ PrintedState'
<1>0. MatrixState /\ PrintedState /\ SummaryState
  BY DEF IInv
<1>1. /\ scenario' = scenario /\ watch' = watch /\ column' = column /\ publishable' = publishable
      /\ pc = "render" /\ pc' \in {"rendered", "raised"} /\ experiment' = experiment
  BY DEF RenderReport, RenderPublication, residentVars
<1>2. (MatrixRefused' <=> MatrixRefused) /\ (Extended' <=> Extended)
  BY <1>1 DEF MatrixRefused, Extended, Paths
<1>3. MatrixState'
  BY <1>0, <1>1, <1>2 DEF MatrixState
<1>4. \/ pc' = "raised" /\ report' = NoReport
      \/ pc' = "rendered" /\ ~Extended /\ report' = Rendered(column)
      \/ pc' = "rendered" /\ Extended /\ publishable /\ ~BandwidthRefused /\ report' = Published(column)
  BY DEF RenderReport, RenderPublication
<1>5. IsColumn(column)
  BY <1>0 DEF MatrixState
<1>6. ASSUME report' = NoReport PROVE PrintedState'
  <2>1. ~report'.rendered
    BY <1>6 DEF NoReport
  <2> QED
    BY <1>6, <2>1 DEF PrintedState, PrintedIsMeasured, PublishedIsEvidence
<1> DEFINE Sound(rep) == CrossoverMeasured(rep.crossover, column)
                         /\ \A i \in DOMAIN column : EntryMeasured(rep, column, i)
<1>7. ASSUME Sound(report') PROVE PrintedIsMeasured'
  <2>1. \A i, j : Flip(i, j)' <=> FlipIn(column, i, j)
    BY <1>1 DEF Flip, FlipIn
  <2>2. CrossoverMeasured(report'.crossover, column)
    BY <1>7
  <2>3. \A i \in DOMAIN column : EntryMeasured(report', column, i)
    BY <1>7
  <2>4. report'.crossover # <<>> =>
          \A i, j \in DOMAIN column : Flip(i, j)' <=> <<i, j>> = report'.crossover
    BY <2>1, <2>2 DEF CrossoverMeasured
  <2> QED
    BY <1>1, <2>3, <2>4 DEF PrintedIsMeasured, EntryMeasured
<1>8. CASE pc' = "rendered" /\ ~Extended /\ report' = Rendered(column)
  <2>1. Rendered(column).crossover = FindCrossovers(column, "direction")
    BY DEF Rendered
  <2>2. Sound(Rendered(column))
    BY <1>5, <2>1, CrossoverSound, RenderedEntry
  <2>3. PrintedIsMeasured'
    BY <1>7, <1>8, <2>2
  <2>4. PublishedIsEvidence'
    BY <1>2, <1>8 DEF PublishedIsEvidence
  <2>5. pc' = "rendered"
    BY <1>8
  <2> QED
    BY <1>3, <2>3, <2>4, <2>5 DEF PrintedState
<1>9. CASE pc' = "rendered" /\ Extended /\ publishable /\ ~BandwidthRefused /\ report' = Published(column)
  <2>1. \A i \in DOMAIN column : column[i] # None
    BY <1>0, <1>9 DEF MatrixState
  <2>2. CrossoverMeasured(Published(column).crossover, column)
    <3>1. Published(column).crossover = <<>> \/ Published(column).crossover = FindCrossovers(column, "direction")
      BY DEF Published
    <3> QED
      BY <1>5, <3>1, CrossoverSound DEF CrossoverMeasured
  <2>3. Sound(Published(column))
    BY <1>5, <2>1, <2>2, PublishedEntry
  <2>4. PrintedIsMeasured'
    BY <1>7, <1>9, <2>3
  <2>5. /\ summary.written /\ summary.evidence /\ ~summary.dirty
        /\ summary.device = scenario.device
    BY <1>9 DEF BandwidthRefused
  <2>6. Evidence(experiment) /\ ~experiment.dirty /\ experiment.device = scenario.device
    BY <1>0, <2>5 DEF SummaryState
  <2>7. /\ experiment.kind = "k1-ab" /\ ~experiment.allowDirty /\ ~experiment.pilot
        /\ experiment.processes = DEFAULT_PROCESSES
    BY <2>6 DEF Evidence, IsDefaultDesign
  <2>8. PublishedIsEvidence'
    BY <1>1, <2>1, <2>6, <2>7 DEF PublishedIsEvidence
  <2>9. pc' = "rendered"
    BY <1>9
  <2> QED
    BY <1>3, <2>4, <2>8, <2>9 DEF PrintedState
<1>10. PrintedState'
  BY <1>4, <1>6, <1>8, <1>9
<1> QED
  BY <1>3, <1>10

-----------------------------------------------------------------------------
(* The theorems *)

\* Until the first process runs, the orders are trial_orders of the paths a
\* matrix has accepted.
OrdersPlanned ==
  orders # <<>> => ~MatrixRefused /\ orders = TrialOrders(Len(Paths), scenario.trials)
LEMMA OrdersStep ==
  ASSUME OrdersPlanned, [Next]_vars
  PROVE  OrdersPlanned'
<1>1. ASSUME UNCHANGED <<scenario, orders>> PROVE OrdersPlanned'
  <2>1. Paths' = Paths /\ (MatrixRefused' <=> MatrixRefused)
    BY <1>1 DEF Paths, MatrixRefused
  <2> QED
    BY <1>1, <2>1 DEF OrdersPlanned
<1>2. CASE PlanMatrix
  <2>1. scenario' = scenario /\ orders' = (IF MatrixRefused THEN <<>> ELSE TrialOrders(Len(Paths), scenario.trials))
    BY <1>2 DEF PlanMatrix
  <2>2. Paths' = Paths /\ (MatrixRefused' <=> MatrixRefused)
    BY <2>1 DEF Paths, MatrixRefused
  <2> QED
    BY <2>1, <2>2 DEF OrdersPlanned
<1>3. CASE CalibrateCase
  BY <1>3 DEF CalibrateCase, OrdersPlanned
<1>4. CASE MeasureGroup
  BY <1>1, <1>4 DEF MeasureGroup
<1>5. CASE EndGroup
  BY <1>1, <1>5 DEF EndGroup
<1>6. CASE RenderReport
  BY <1>1, <1>6 DEF RenderReport
<1>7. CASE RenderPublication
  BY <1>1, <1>7 DEF RenderPublication
<1>8. CASE UNCHANGED reportVars
  BY <1>1, <1>8 DEF reportVars
<1>9. CASE UNCHANGED vars
  BY <1>1, <1>9 DEF vars, reportVars
<1> QED
  BY <1>2, <1>3, <1>4, <1>5, <1>6, <1>7, <1>8, <1>9 DEF Next, ReportNext

\* The orders of an accepted matrix are balanced.
LEMMA PlannedIsBalanced ==
  ASSUME scenario \in Scenarios, OrdersPlanned
  PROVE  BalancedOrders
<1> SUFFICES ASSUME orders # <<>> PROVE BalancedOrders
  BY DEF BalancedOrders
<1> DEFINE n == Len(Paths)
           m == scenario.trials
<1>1. ~MatrixRefused /\ orders = TrialOrders(n, m)
  BY DEF OrdersPlanned
<1>2. n \in Nat \ {0}
  <2>1. ~PathsRefused(scenario)
    BY <1>1 DEF MatrixRefused
  <2>2. COMPARATOR \in Range(Paths) /\ Paths \in Seq(KnownPaths)
    BY <2>1, PathsClosed DEF Paths, Closed
  <2> HIDE DEF n
  <2>3. Len(Paths) \in Nat /\ Len(Paths) # 0
    <3> DEFINE s == Paths
    <3> HIDE DEF s
    <3> SUFFICES ASSUME COMPARATOR \in Range(s), s \in Seq(KnownPaths) PROVE Len(s) \in Nat /\ Len(s) # 0
      BY <2>2 DEF s
    <3> QED
      BY DEF Range
  <2> QED
    BY <2>3 DEF n
<1>3. m \in Nat
  BY ScenariosAssumption
<1>4. ~OrdersRefused(n, m)
  BY <1>1 DEF MatrixRefused
<1> SUFFICES ASSUME n > MAX_PERMUTATION_PATHS \/ m % Len(DesignRows(n)) = 0,
                    NEW p \in 0..(n - 1)
             PROVE  /\ \A k \in 1..n : n * Cardinality(HoldsIn(orders, k, p)) = m
                    /\ \A q \in (0..(n - 1)) \ {p} : n * Cardinality(FollowsIn(orders, n, p, q)) = m
  BY DEF BalancedOrders, HoldsIn, FollowsIn
<1> HIDE DEF n, m
<1>5. PICK h \in Nat : n * h = m /\ Balanced(TrialOrders(n, m), n, h)
  BY <1>2, <1>3, <1>4, TrialOrdersBalanced
<1> QED
  BY <1>1, <1>5 DEF Balanced, Size

\* The inductive invariant: a written summary is that of its experiment, the
\* rounds of an A/B experiment measure both arms of every cell, a calibration
\* was accepted exactly if it did what it was asked for, a compared group is
\* what compare_case_group makes of its trials, every entry
\* of the column stands on raw samples, and nothing else is ever printed.
THEOREM Invariance == Spec => []IInv
<1>1. Init => IInv
  BY InitInv
<1>2. IInv /\ [Next]_vars => IInv'
  <2> SUFFICES ASSUME IInv, [Next]_vars PROVE IInv'
    OBVIOUS
  <2>0. SummaryState /\ ExperimentState /\ CalibrationState /\ MatrixState /\ PrintedState
    BY DEF IInv
  <2>5. ASSUME UNCHANGED residentVars PROVE ExperimentState'
    <3>1. /\ experiment' = experiment /\ step' = step /\ todo' = todo /\ round' = round
          /\ records' = records /\ summary' = summary
      BY <2>5 DEF residentVars
    <3>2. AbState' <=> AbState
      BY <3>1 DEF AbState
    <3> QED
      BY <2>0, <3>1, <3>2 DEF ExperimentState
  <2>4. ASSUME UNCHANGED <<at, process>> PROVE CalibrationState'
    BY <2>0, <2>4 DEF CalibrationState, AcceptedIffAsked
  <2>1. CASE ResidentNext /\ UNCHANGED reportVars
    <3>1. SummaryState' /\ experiment' = experiment
      BY <2>0, <2>1, ResidentStep
    <3>2. MatrixState' /\ PrintedState'
      BY <2>0, <2>1, <3>1, MatrixFrame
    <3>3. CalibrationState'
      BY <2>1, <2>4 DEF reportVars
    <3>4. ExperimentState'
      BY <2>0, <2>1, ExperimentStep
    <3> QED
      BY <3>1, <3>2, <3>3, <3>4 DEF IInv
  <2>2. CASE (ReportNext \/ RenderPublication) /\ UNCHANGED residentVars
    <3>1. SummaryState' /\ ExperimentState'
      BY <2>0, <2>2, <2>5 DEF SummaryState, residentVars
    <3>2. CASE PlanMatrix \/ CalibrateCase
      <4>1. PlanMatrix => CalibrationState'
        BY <2>4 DEF PlanMatrix
      <4>2. CalibrateCase => CalibrationState'
        BY CalibrateCaseStep
      <4> QED
        BY <3>1, <3>2, <4>1, <4>2, PlanAndCalibrateStep DEF IInv
    <3>3. CASE MeasureGroup
      <4>1. at' = at /\ process' = NoProcess
        BY <3>3 DEF MeasureGroup
      <4>2. CalibrationState'
        BY <2>0, <4>1 DEF CalibrationState, AcceptedIffAsked, NoProcess
      <4> QED
        BY <3>1, <3>3, <4>2, MeasureGroupStep DEF IInv
    <3>4. CASE EndGroup
      <4>1. at' = 1 /\ process' = process
        BY <3>4 DEF EndGroup
      <4>2. CalibrationState'
        BY <2>0, <4>1 DEF CalibrationState, AcceptedIffAsked
      <4> QED
        BY <3>1, <3>4, <4>2, EndGroupStep DEF IInv
    <3>5. CASE RenderReport \/ RenderPublication
      <4>1. CalibrationState'
        BY <2>4, <3>5 DEF RenderReport, RenderPublication
      <4> QED
        BY <2>2, <3>1, <3>5, <4>1, RenderStep DEF IInv
    <3> QED
      BY <2>2, <3>2, <3>3, <3>4, <3>5 DEF ReportNext
  <2>3. CASE UNCHANGED vars
    <3>1. UNCHANGED <<reportVars, experiment>> /\ UNCHANGED residentVars
      BY <2>3 DEF vars, residentVars
    <3>2. SummaryState'
      BY <2>0, <3>1 DEF SummaryState, residentVars
    <3>3. MatrixState' /\ PrintedState'
      BY <2>0, <3>1, MatrixFrame
    <3>4. CalibrationState'
      BY <2>4, <3>1 DEF reportVars
    <3>5. ExperimentState'
      BY <2>5, <3>1
    <3> QED
      BY <3>2, <3>3, <3>4, <3>5 DEF IInv
  <2> QED
    BY <2>1, <2>2, <2>3 DEF Next
<1> QED
  BY <1>1, <1>2, PTL DEF Spec

\* compare_case_group claims a direction exactly when the raw samples of all
\* trials carry it and no nested pair vetoes it; the pooled medians agree.
THEOREM SupportedIsSeparatedHolds == Spec => []SupportedIsSeparated
<1>1. IInv => SupportedIsSeparated
  <2> SUFFICES ASSUME IInv, pc = "compared" PROVE SupportedIsSeparated
    BY DEF SupportedIsSeparated
  <2>1. GroupState
    BY DEF IInv, MatrixState
  <2>2. /\ \A p \in DOMAIN claims \ {COMPARATOR, AVX2_COMPARATOR} :
             ClaimIsSound(claims[p].own, p, Baseline(p), Vetoed(p))
        /\ \A p \in {p \in DOMAIN claims : claims[p].rival.verdict # "missing"} :
             ClaimIsSound(claims[p].rival, p, Rival(p), Vetoed(p) \/ Vetoed(Rival(p)))
        /\ \A p \in DOMAIN claims \cap {COMPARATOR, AVX2_COMPARATOR} : ~claims[p].own.direction
    BY <2>1, GroupSound
  <2> QED
    BY <2>2 DEF SupportedIsSeparated
<1> QED
  BY Invariance, <1>1, PTL

\* validate_bench_response accepts what the native side answers to exactly the
\* process it was asked for, and nothing else, on every path of every matrix.
THEOREM AcceptedIffAskedHolds == Spec => []AcceptedIffAsked
<1>1. IInv => AcceptedIffAsked
  BY DEF IInv, CalibrationState
<1> QED
  BY Invariance, <1>1, PTL

\* Over whole designs every path holds every position of a trial equally
\* often and follows every other path equally often, for any number of paths
\* and of trials (williams_rows, trial_orders).
THEOREM BalancedOrdersHolds == Spec => []BalancedOrders
<1>1. Init => OrdersPlanned
  BY DEF Init, ReportInit, OrdersPlanned
<1>2. IInv /\ OrdersPlanned => BalancedOrders
  BY PlannedIsBalanced DEF IInv, MatrixState
<1> QED
  BY <1>1, <1>2, OrdersStep, Invariance, PTL DEF Spec

\* A decision to keep the optimized K1 is published only if both variants
\* wrote the same records, both ran in every round on every cell, first in half
\* of the rounds if it is evidence, and every process of the optimized arm beat
\* every one of the reference arm on the cells in DRAM.
THEOREM KeepIsUnanimousHolds == Spec => []KeepIsUnanimous
<1>1. IInv => KeepIsUnanimous
  BY KeptIsUnanimous DEF IInv
<1> QED
  BY Invariance, <1>1, PTL

\* Crossovers, table rows and markers of both reports stand on raw samples
\* that carry them, and a resolved crossover is the only flip there is.
THEOREM PrintedIsMeasuredHolds == Spec => []PrintedIsMeasured
<1>1. IInv => PrintedIsMeasured
  BY DEF IInv, PrintedState
<1> QED
  BY Invariance, <1>1, PTL

\* A publication comes from a complete matrix and a clean A/B experiment of
\* the registered design on the same device.
THEOREM PublishedIsEvidenceHolds == Spec => []PublishedIsEvidence
<1>1. IInv => PublishedIsEvidence
  BY DEF IInv, PrintedState
<1> QED
  BY Invariance, <1>1, PTL
=============================================================================
