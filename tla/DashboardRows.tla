---------------------------- MODULE DashboardRows -----------------------------
(***************************************************************************)
(* Facts about the pure parts of Dashboard: days, the loop that filters    *)
(* rows, their order, their pages and their cut.  Where a definition is    *)
(* recursive, or a CHOOSE from permutations, these show what it gives.     *)
(***************************************************************************)
EXTENDS Dashboard, FiniteSetTheorems, WellFoundedInduction, TLAPS

-----------------------------------------------------------------------------
(* Numbers *)

\* A set of numbers that is not empty has a least one.
LEMMA Least ==
  ASSUME NEW S, S \subseteq Nat, S # {}
  PROVE  \E m \in S : \A k \in S : m <= k
<1>1. PICK m \in S : \A k \in S : ~(<<k, m>> \in OpToRel(<, Nat))
  BY NatLessThanWellFounded, WFMin
<1>2. ASSUME NEW k \in S PROVE m <= k
  <2>1. ~(k < m)
    <3>1. <<k, m>> \in Nat \X Nat
      OBVIOUS
    <3>2. k < m => <<k, m>> \in OpToRel(<, Nat)
      BY <3>1 DEF OpToRel
    <3> QED BY <1>1, <3>2
  <2> QED BY <2>1
<1> QED BY <1>2

\* A finite one has a greatest: the least number of elements, counted off in any
\* order, without a greatest one has a greatest but for its last.
LEMMA Greatest ==
  ASSUME NEW S, S \subseteq Nat, S # {}, IsFiniteSet(S)
  PROVE  \E m \in S : \A k \in S : k <= m
<1> DEFINE n == Cardinality(S)
<1>1. PICK f \in Surjection(1..n, S) : TRUE
  BY FS_CardinalityType DEF ExistsBijection, Bijection
<1>2. n \in Nat /\ f \in [1..n -> S] /\ \A x \in S : \E i \in 1..n : f[i] = x
  BY <1>1, FS_CardinalityType DEF Surjection
<1> HIDE DEF n
<1> DEFINE Has(k) == \E i \in 1..k : \A j \in 1..k : f[j] <= f[i]
           Bad == {k \in 1..n : ~Has(k)}
<1>3. Bad = {}
  <2> SUFFICES ASSUME Bad # {} PROVE FALSE
    OBVIOUS
  <2>1. PICK k \in Bad : \A l \in Bad : k <= l
    <3>1. Bad \subseteq Nat
      BY <1>2
    <3> QED BY <3>1, Least
  <2>2. k \in 1..n /\ ~Has(k)
    BY <2>1
  <2>3. \A i \in 1..n : f[i] \in Nat
    BY <1>2
  <2>4. k # 1
    <3>1. ASSUME k = 1 PROVE Has(k)
      BY <3>1, <2>3, <2>2
    <3> QED BY <2>2, <3>1
  <2>5. Has(k - 1)
    <3>1. k - 1 \in 1..n /\ ~(k <= k - 1)
      BY <2>2, <2>4, <1>2
    <3>2. k - 1 \notin Bad
      BY <2>1, <3>1
    <3> QED BY <3>1, <3>2
  <2>6. PICK i \in 1..k - 1 : \A j \in 1..k - 1 : f[j] <= f[i]
    BY <2>5
  <2> HIDE DEF Has
  <2>7. k \in 1..k /\ i \in 1..k /\ i \in 1..n /\ \A j \in 1..k : j \in 1..n /\ (j = k \/ j \in 1..k - 1)
    BY <2>2, <2>6, <1>2
  <2>8. CASE f[k] <= f[i]
    <3>1. \A j \in 1..k : f[j] <= f[i]
      BY <2>8, <2>6, <2>7
    <3> QED BY <3>1, <2>7, <2>2 DEF Has
  <2>9. CASE f[i] <= f[k]
    <3>1. \A j \in 1..k : f[j] <= f[k]
      <4>1. ASSUME NEW j \in 1..k PROVE f[j] <= f[k]
        <5>1. CASE j = k
          BY <5>1, <2>3, <2>7
        <5>2. CASE j \in 1..k - 1
          <6>1. f[j] <= f[i] /\ f[j] \in Nat /\ f[i] \in Nat /\ f[k] \in Nat
            BY <5>2, <2>6, <2>7, <2>3
          <6> QED BY <6>1, <2>9
        <5> QED BY <5>1, <5>2, <2>7
      <4> QED BY <4>1
    <3> QED BY <3>1, <2>7, <2>2 DEF Has
  <2>10. f[k] \in Nat /\ f[i] \in Nat
    BY <2>7, <2>3
  <2> QED BY <2>8, <2>9, <2>10
<1>4. n \in 1..n
  <2>1. PICK x \in S : TRUE
    OBVIOUS
  <2>2. PICK i \in 1..n : f[i] = x
    BY <1>2, <2>1
  <2> QED BY <1>2, <2>2
<1>5. Has(n)
  BY <1>3, <1>4
<1> QED
  BY <1>2, <1>5

\* The last instant and the first.
LEMMA Bounds ==
  /\ Max(Instants) \in Instants /\ \A t \in Instants : t <= Max(Instants)
  /\ Min(Instants) \in Instants /\ \A t \in Instants : Min(Instants) <= t
<1>1. \E m \in Instants : \A t \in Instants : t <= m
  BY Greatest, TrailAssumption
<1>2. \E m \in Instants : \A t \in Instants : m <= t
  BY Least, TrailAssumption
<1>3. \E m \in Instants : \A t \in Instants : m >= t
  BY <1>1, TrailAssumption
<1>4. Max(Instants) \in Instants /\ \A t \in Instants : Max(Instants) >= t
  BY <1>3 DEF Max
<1>5. Min(Instants) \in Instants /\ \A t \in Instants : Min(Instants) <= t
  BY <1>2 DEF Min
<1> QED BY <1>4, <1>5, TrailAssumption

\* Days follow each other as their instants do.
LEMMA DayOrder ==
  ASSUME NEW s \in Nat, NEW t \in Nat, s <= t
  PROVE  DayOf(s) \in Nat /\ DayOf(t) \in Nat /\ DayOf(s) <= DayOf(t)
<1>1. DayLength \in Nat /\ DayLength > 0
  BY TrailAssumption
<1>2. ASSUME NEW L \in Nat, L > 0
      PROVE  s \div L \in Nat /\ t \div L \in Nat /\ s \div L <= t \div L
  BY <1>2
<1> QED BY <1>1, <1>2 DEF DayOf

LEMMA DaysTyped ==
  /\ DayOf(Max(Instants)) \in Nat
  /\ \A t \in Instants : DayOf(t) \in Days
  /\ StartTime \in Instants /\ \A t \in Instants : StartTime <= t
<1>1. ASSUME NEW t \in Instants PROVE DayOf(Max(Instants)) \in Nat /\ DayOf(t) \in Days
  <2>1. t \in Nat /\ Max(Instants) \in Nat /\ t <= Max(Instants)
    BY Bounds, TrailAssumption
  <2>2. DayOf(t) \in Nat /\ DayOf(Max(Instants)) \in Nat /\ DayOf(t) <= DayOf(Max(Instants))
    BY <2>1, DayOrder
  <2> QED BY <2>2 DEF Days
<1> QED BY <1>1, Bounds DEF StartTime
-----------------------------------------------------------------------------
(* Rows and their order *)

\* Whatever strict total order there is on 1..n, some sequence of 1..n follows
\* it: each number is at the place that the number of those before it gives.
LEMMA Ordering ==
  ASSUME NEW n \in Nat, NEW R,
         \A i \in 1..n : <<i, i>> \notin R,
         \A i, j \in 1..n : i # j => <<i, j>> \in R \/ <<j, i>> \in R,
         \A i, j, k \in 1..n : <<i, j>> \in R /\ <<j, k>> \in R => <<i, k>> \in R
  PROVE  \E p \in SetToSeqs(1..n) : \A i, j \in 1..n : i < j => <<p[i], p[j]>> \in R
<1> DEFINE B(i) == {j \in 1..n : <<j, i>> \in R}
           rank == [i \in 1..n |-> Cardinality(B(i)) + 1]
<1>1. IsFiniteSet(1..n) /\ Cardinality(1..n) = n
  <2>1. Cardinality(1..n) = IF 1 > n THEN 0 ELSE n - 1 + 1
    BY FS_Interval
  <2> QED BY <2>1, FS_Interval
<1>2. ASSUME NEW i \in 1..n
      PROVE  /\ IsFiniteSet(B(i)) /\ Cardinality(B(i)) \in Nat
             /\ Cardinality(B(i)) <= n - 1
  <2>1. B(i) \subseteq (1..n) \ {i}
    OBVIOUS
  <2>2. IsFiniteSet((1..n) \ {i}) /\ Cardinality((1..n) \ {i}) = n - 1
    BY <1>1, FS_RemoveElement
  <2> HIDE DEF B
  <2>3. IsFiniteSet(B(i)) /\ Cardinality(B(i)) <= n - 1
    BY <2>1, <2>2, FS_Subset
  <2> QED BY <2>3, FS_CardinalityType
<1>3. ASSUME NEW i \in 1..n, NEW j \in 1..n, <<i, j>> \in R
      PROVE  Cardinality(B(i)) < Cardinality(B(j))
  <2>1. B(i) \subseteq B(j) /\ i \in B(j) /\ i \notin B(i)
    BY <1>3
  <2>2. IsFiniteSet(B(j)) /\ Cardinality(B(i)) \in Nat /\ Cardinality(B(j)) \in Nat
    BY <1>2
  <2> HIDE DEF B
  <2>3. Cardinality(B(i)) <= Cardinality(B(j)) /\ Cardinality(B(i)) # Cardinality(B(j))
    BY <2>1, <2>2, FS_Subset
  <2> QED BY <2>2, <2>3
<1> HIDE DEF B
<1>4. rank \in [1..n -> 1..n]
  <2>1. ASSUME NEW i \in 1..n PROVE Cardinality(B(i)) + 1 \in 1..n
    BY <1>2
  <2> QED BY <2>1
<1>5. ASSUME NEW i \in 1..n, NEW j \in 1..n, <<i, j>> \in R
      PROVE  rank[i] < rank[j]
  <2>1. Cardinality(B(i)) < Cardinality(B(j))
    BY <1>3, <1>5
  <2> QED BY <2>1, <1>2
<1> HIDE DEF rank
<1>6. rank \in Injection(1..n, 1..n)
  <2>1. ASSUME NEW i \in 1..n, NEW j \in 1..n, rank[i] = rank[j] PROVE i = j
    <3>1. rank[i] \in Nat /\ rank[j] \in Nat
      BY <1>4
    <3>2. <<i, j>> \notin R /\ <<j, i>> \notin R
      BY <1>5, <3>1, <2>1
    <3> QED BY <3>2
  <2> QED BY <2>1, <1>4 DEF Injection, IsInjective
<1>7. \A k \in 1..n : \E i \in 1..n : rank[i] = k
  BY <1>6, <1>1, FS_Injection DEF Surjection
<1> DEFINE p == [k \in 1..n |-> CHOOSE i \in 1..n : rank[i] = k]
<1>8. \A k \in 1..n : p[k] \in 1..n /\ rank[p[k]] = k
  BY <1>7
<1>9. p \in [1..n -> 1..n]
  BY <1>8
<1> HIDE DEF p
<1>10. p \in SetToSeqs(1..n)
  <2>1. \A i, j \in 1..n : i # j => p[i] # p[j]
    BY <1>8
  <2> QED BY <2>1, <1>9, <1>1 DEF SetToSeqs
<1>11. ASSUME NEW i \in 1..n, NEW j \in 1..n, i < j PROVE <<p[i], p[j]>> \in R
  <2>1. p[i] # p[j]
    BY <1>8, <1>11
  <2>2. ASSUME <<p[j], p[i]>> \in R PROVE FALSE
    <3>1. rank[p[j]] < rank[p[i]]
      BY <2>2, <1>5, <1>8
    <3> QED BY <3>1, <1>8, <1>11
  <2> QED BY <2>1, <2>2, <1>8
<1> QED BY <1>10, <1>11

\* A sequence of 1..n without repetition has all of them.
LEMMA SeqsCover ==
  ASSUME NEW n \in Nat, NEW p \in SetToSeqs(1..n)
  PROVE  /\ p \in [1..n -> 1..n] /\ \A i, j \in 1..n : i # j => p[i] # p[j]
         /\ \A k \in 1..n : \E i \in 1..n : p[i] = k
<1>1. IsFiniteSet(1..n) /\ Cardinality(1..n) = n
  <2>1. Cardinality(1..n) = IF 1 > n THEN 0 ELSE n - 1 + 1
    BY FS_Interval
  <2> QED BY <2>1, FS_Interval
<1>2. p \in [1..n -> 1..n] /\ \A i, j \in 1..n : i # j => p[i] # p[j]
  BY <1>1 DEF SetToSeqs
<1>3. p \in Injection(1..n, 1..n)
  BY <1>2 DEF Injection, IsInjective
<1>4. p \in Surjection(1..n, 1..n)
  BY <1>1, <1>3, FS_Injection
<1> QED BY <1>2, <1>4 DEF Surjection

\* Rows are the sequences of records that repeat none.
LEMMA RowsAre ==
  ASSUME NEW s
  PROVE  s \in Rows <=> s \in Seq(Records) /\ IsInjective(s)
<1>1. ASSUME s \in Rows PROVE s \in Seq(Records) /\ IsInjective(s)
  <2>1. PICK n \in 0..NRecords : s \in [1..n -> Records]
    BY <1>1 DEF Rows
  <2>2. n \in Nat
    BY <2>1, TrailAssumption
  <2> QED BY <2>1, <2>2, <1>1 DEF Rows
<1>2. ASSUME s \in Seq(Records), IsInjective(s) PROVE s \in Rows
  <2> DEFINE n == Len(s)
  <2>1. n \in Nat /\ s \in [1..n -> Records]
    BY <1>2
  <2>2. s \in Injection(1..n, Records)
    BY <2>1, <1>2 DEF Injection
  <2>3. NRecords \in Nat /\ IsFiniteSet(Records) /\ Cardinality(Records) = NRecords
    <3>1. NRecords \in Nat
      BY TrailAssumption
    <3>2. Cardinality(1..NRecords) = IF 1 > NRecords THEN 0 ELSE NRecords - 1 + 1
      BY <3>1, FS_Interval
    <3> QED BY <3>1, <3>2, FS_Interval DEF Records
  <2>4. Cardinality(1..n) = IF 1 > n THEN 0 ELSE n - 1 + 1
    BY <2>1, FS_Interval
  <2>5. Cardinality(1..n) = n
    BY <2>4, <2>1
  <2>6. n <= NRecords
    BY <2>2, <2>3, <2>5, FS_Injection
  <2> HIDE DEF n
  <2>7. n \in 0..NRecords
    BY <2>1, <2>3, <2>6
  <2> QED BY <2>1, <2>7, <1>2 DEF Rows
<1> QED BY <1>1, <1>2

\* sortRows gives the same rows, in the order asked for.
LEMMA Sorting ==
  ASSUME NEW rows \in Seq(Records), NEW mode,
         \A r \in Records : record[r].uploadedAt \in Nat
  PROVE  /\ sortRows(rows, mode) \in [1..Len(rows) -> Records]
         /\ ToSet(sortRows(rows, mode)) = ToSet(rows)
         /\ IsInjective(rows) => IsInjective(sortRows(rows, mode))
         /\ \A i, j \in 1..Len(rows) :
              i < j => ~Precedes(mode, sortRows(rows, mode)[j], sortRows(rows, mode)[i])
<1> DEFINE n == Len(rows)
           P(i, j) == Precedes(mode, rows[i], rows[j])
           Before(i, j) == \/ P(i, j)
                           \/ ~P(j, i) /\ i < j
           R == {x \in (1..n) \X (1..n) : Before(x[1], x[2])}
<1>1. n \in Nat /\ DOMAIN rows = 1..n /\ \A i \in 1..n : rows[i] \in Records
  OBVIOUS
<1>2. \A r \in Records : ScanMS(r) \in Nat
  BY TrailAssumption DEF ScanMS, Records
<1>3. ASSUME NEW i \in 1..n, NEW j \in 1..n, NEW k \in 1..n
      PROVE  /\ ~P(i, i)
             /\ i # j => Before(i, j) \/ Before(j, i)
             /\ P(i, j) => ~P(j, i)
             /\ Before(i, j) /\ Before(j, k) => Before(i, k)
  <2>1. /\ ScanMS(rows[i]) \in Nat /\ ScanMS(rows[j]) \in Nat /\ ScanMS(rows[k]) \in Nat
        /\ record[rows[i]].uploadedAt \in Nat /\ record[rows[j]].uploadedAt \in Nat
        /\ record[rows[k]].uploadedAt \in Nat
    BY <1>1, <1>2
  <2> DEFINE k1(x) == IF mode = "slowest" THEN ScanMS(rows[x]) ELSE 0
             k2(x) == record[rows[x]].uploadedAt
             After(x, y) == k1(x) > k1(y) \/ (k1(x) = k1(y) /\ k2(x) > k2(y))
  <2>2. \A x, y \in {i, j, k} : P(x, y) <=> After(x, y)
    <3>1. CASE mode = "slowest"
      BY <2>1, <3>1 DEF Precedes
    <3>2. CASE mode # "slowest"
      BY <2>1, <3>2 DEF Precedes
    <3> QED BY <3>1, <3>2
  <2>3. \A x \in {i, j, k} : k1(x) \in Nat /\ k2(x) \in Nat /\ x \in Nat
    BY <2>1
  <2> HIDE DEF P, k1, k2
  <2>4. ~P(i, i) /\ (P(i, j) => ~P(j, i))
    BY <2>2, <2>3
  <2>5. i # j => Before(i, j) \/ Before(j, i)
    <3>1. (P(i, j) <=> After(i, j)) /\ (P(j, i) <=> After(j, i))
      BY <2>2
    <3>2. P(i, j) \/ P(j, i) \/ i < j \/ j < i \/ i = j
      BY <2>3
    <3> QED BY <3>2, <2>3
  <2>6. ASSUME Before(i, j), Before(j, k) PROVE Before(i, k)
    BY <2>6, <2>2, <2>3
  <2> QED BY <2>4, <2>5, <2>6
<1>4. \A i, j \in 1..n : <<i, j>> \in R <=> Before(i, j)
  OBVIOUS
<1>5. \A i \in 1..n : <<i, i>> \notin R
  BY <1>3, <1>4
<1>6. \A i, j \in 1..n : i # j => <<i, j>> \in R \/ <<j, i>> \in R
  BY <1>3, <1>4
<1>7. \A i, j, k \in 1..n : <<i, j>> \in R /\ <<j, k>> \in R => <<i, k>> \in R
  BY <1>3, <1>4
<1> DEFINE order == CHOOSE p \in SetToSeqs(DOMAIN rows) :
                      \A i, j \in DOMAIN rows : i < j => Before(p[i], p[j])
<1>8. /\ order \in SetToSeqs(1..n)
      /\ \A i, j \in 1..n : i < j => Before(order[i], order[j])
  <2> HIDE DEF R, Before
  <2>1. PICK p \in SetToSeqs(1..n) : \A i, j \in 1..n : i < j => <<p[i], p[j]>> \in R
    BY Ordering, <1>1, <1>5, <1>6, <1>7
  <2>2. p \in [1..n -> 1..n]
    BY <1>1, SeqsCover
  <2>3. \A i, j \in 1..n : i < j => Before(p[i], p[j])
    <3>1. ASSUME NEW i \in 1..n, NEW j \in 1..n, i < j PROVE Before(p[i], p[j])
      <4>1. <<p[i], p[j]>> \in R /\ p[i] \in 1..n /\ p[j] \in 1..n
        BY <2>1, <2>2, <3>1
      <4> QED BY <4>1, <1>4
    <3> QED BY <3>1
  <2>4. /\ order \in SetToSeqs(DOMAIN rows)
        /\ \A i, j \in DOMAIN rows : i < j => Before(order[i], order[j])
    <3>1. \E o \in SetToSeqs(DOMAIN rows) :
            \A i, j \in DOMAIN rows : i < j => Before(o[i], o[j])
      BY <2>1, <2>3, <1>1
    <3> HIDE DEF n
    <3> QED BY <3>1
  <2> QED BY <2>4, <1>1
<1>9. sortRows(rows, mode) = [i \in 1..n |-> rows[order[i]]]
  <2>1. sortRows(rows, mode) = [i \in DOMAIN rows |-> rows[order[i]]]
    BY DEF sortRows
  <2> HIDE DEF order
  <2> QED BY <2>1, <1>1
<1> HIDE DEF order
<1>10. /\ order \in [1..n -> 1..n] /\ \A i, j \in 1..n : i # j => order[i] # order[j]
       /\ \A k \in 1..n : \E i \in 1..n : order[i] = k
  BY <1>8, <1>1, SeqsCover
<1> DEFINE sorted == [i \in 1..n |-> rows[order[i]]]
<1>11. sorted \in [1..n -> Records] /\ \A i \in 1..n : sorted[i] = rows[order[i]]
  BY <1>1, <1>10
<1> HIDE DEF sorted
<1>12. ToSet(sorted) = ToSet(rows)
  BY <1>11, <1>10, <1>1 DEF ToSet
<1>13. IsInjective(rows) => IsInjective(sorted)
  <2>1. ASSUME IsInjective(rows), NEW i \in 1..n, NEW j \in 1..n, sorted[i] = sorted[j]
        PROVE  i = j
    <3>1. rows[order[i]] = rows[order[j]] /\ order[i] \in DOMAIN rows /\ order[j] \in DOMAIN rows
      BY <2>1, <1>11, <1>10, <1>1
    <3>2. order[i] = order[j]
      BY <3>1, <2>1 DEF IsInjective
    <3> QED BY <3>2, <1>10
  <2>2. DOMAIN sorted = 1..n
    BY <1>11
  <2> QED BY <2>1, <2>2 DEF IsInjective
<1>14. ASSUME NEW i \in 1..n, NEW j \in 1..n, i < j
       PROVE  ~Precedes(mode, sorted[j], sorted[i])
  <2>1. Before(order[i], order[j]) /\ order[i] \in 1..n /\ order[j] \in 1..n
    BY <1>8, <1>10, <1>14
  <2>2. ~P(order[j], order[i])
    BY <2>1, <1>3
  <2> QED BY <2>2, <1>11
<1> QED BY <1>9, <1>11, <1>12, <1>13, <1>14 DEF sorted

\* What one record does to the set and to the repetitions of a sequence.
LEMMA Appended ==
  ASSUME NEW s \in Seq(Records), NEW r \in Records
  PROVE  /\ Append(s, r) \in Seq(Records) /\ ToSet(Append(s, r)) = ToSet(s) \cup {r}
         /\ IsInjective(s) /\ r \notin ToSet(s) => IsInjective(Append(s, r))
<1> DEFINE a == Append(s, r)
<1>1. /\ a \in Seq(Records) /\ Len(a) = Len(s) + 1 /\ Len(s) \in Nat
      /\ \A i \in 1..Len(s) : a[i] = s[i]
      /\ a[Len(s) + 1] = r
  OBVIOUS
<1>2. DOMAIN a = 1..Len(s) + 1 /\ DOMAIN s = 1..Len(s)
  BY <1>1
<1> HIDE DEF a
<1>3. ToSet(a) = ToSet(s) \cup {r}
  <2>1. \A i \in DOMAIN a : a[i] \in ToSet(s) \cup {r}
    <3>1. \A i \in DOMAIN a : i \in DOMAIN s \/ i = Len(s) + 1
      BY <1>1, <1>2
    <3> QED BY <1>1, <1>2, <3>1 DEF ToSet
  <2>2. \A i \in DOMAIN s : i \in DOMAIN a /\ a[i] = s[i]
    BY <1>1, <1>2
  <2>3. Len(s) + 1 \in DOMAIN a
    BY <1>1, <1>2
  <2> QED BY <1>1, <2>1, <2>2, <2>3 DEF ToSet
<1>4. ASSUME IsInjective(s), r \notin ToSet(s) PROVE IsInjective(a)
  <2>1. ASSUME NEW i \in DOMAIN a, NEW j \in DOMAIN a, a[i] = a[j] PROVE i = j
    <3>1. /\ i \in DOMAIN s \/ i = Len(s) + 1
          /\ j \in DOMAIN s \/ j = Len(s) + 1
      BY <1>1, <1>2
    <3>2. CASE i \in DOMAIN s /\ j \in DOMAIN s
      BY <3>2, <2>1, <1>1, <1>2, <1>4 DEF IsInjective
    <3>3. CASE i \in DOMAIN s /\ j = Len(s) + 1
      BY <3>3, <2>1, <1>1, <1>2, <1>4 DEF ToSet
    <3>4. CASE j \in DOMAIN s /\ i = Len(s) + 1
      BY <3>4, <2>1, <1>1, <1>2, <1>4 DEF ToSet
    <3> QED BY <3>1, <3>2, <3>3, <3>4
  <2> QED BY <2>1 DEF IsInjective
<1> QED BY <1>1, <1>3, <1>4 DEF a

\* The loop of queryRows appends the rows of the window, and no others.
LEMMA Appending ==
  ASSUME NEW was, NEW rows \in Seq(Records), was.all \in Seq(Records),
         IsInjective(was.all), IsInjective(rows), ToSet(was.all) \cap ToSet(rows) = {}
  PROVE  /\ AppendRecent(was, rows) \in Seq(Records)
         /\ IsInjective(AppendRecent(was, rows))
         /\ ToSet(AppendRecent(was, rows)) =
              ToSet(was.all) \cup {r \in ToSet(rows) : IsRecent(was, r)}
<1> DEFINE n == Len(rows)
           Body(f, i) == IF i = 0 THEN was.all
                         ELSE IF IsRecent(was, rows[i]) THEN Append(f[i - 1], rows[i])
                              ELSE f[i - 1]
           Solves(f, k) == f = [i \in 0..k |-> Body(f, i)]
           all == CHOOSE f : Solves(f, n)
<1>1. n \in Nat /\ DOMAIN rows = 1..n /\ \A i \in 1..n : rows[i] \in Records
  OBVIOUS
<1>2. AppendRecent(was, rows) = all[n]
  BY DEF AppendRecent
<1> HIDE DEF n
<1>3. Solves(all, n)
  <2> DEFINE Bad == {k \in 0..n : ~\E f : Solves(f, k)}
  <2>1. Bad = {}
    <3> SUFFICES ASSUME Bad # {} PROVE FALSE
      OBVIOUS
    <3>1. PICK k \in Bad : \A l \in Bad : k <= l
      <4>1. Bad \subseteq Nat
        BY <1>1
      <4> QED BY <4>1, Least
    <3>2. k \in 0..n /\ k \in Nat
      BY <3>1, <1>1
    <3>3. k # 0
      <4>1. Solves([i \in 0..0 |-> was.all], 0)
        OBVIOUS
      <4> QED BY <4>1, <3>1
    <3>4. PICK g : Solves(g, k - 1)
      <4>1. k - 1 \in 0..n /\ ~(k <= k - 1)
        BY <3>2, <3>3, <1>1
      <4> QED BY <3>1, <4>1
    <3> DEFINE h == [i \in 0..k |-> IF i < k THEN g[i] ELSE Body(g, k)]
    <3>5. \A i \in 0..k - 1 : g[i] = Body(g, i)
      BY <3>4
    <3>6. ASSUME NEW i \in 0..k PROVE h[i] = Body(h, i)
      <4>1. CASE i = 0
        <5>1. 0 \in 0..k /\ 0 < k /\ 0 \in 0..k - 1
          BY <3>2, <3>3
        <5>2. h[0] = g[0] /\ g[0] = was.all
          BY <5>1, <3>5
        <5> QED BY <4>1, <5>2
      <4>2. CASE i # 0
        <5>1. i - 1 \in 0..k /\ i - 1 < k
          BY <4>2, <3>2
        <5>2. h[i - 1] = g[i - 1]
          BY <5>1
        <5>3. Body(h, i) = Body(g, i)
          BY <5>2, <4>2
        <5>4. h[i] = Body(g, i)
          <6>1. CASE i < k
            <7>1. i \in 0..k - 1 /\ h[i] = g[i]
              BY <6>1, <3>2
            <7> QED BY <7>1, <3>5
          <6>2. CASE i = k
            BY <6>2, <3>2
          <6> QED BY <6>1, <6>2, <3>2
        <5> QED BY <5>3, <5>4
      <4> QED BY <4>1, <4>2
    <3>7. Solves(h, k)
      <4>1. h = [i \in 0..k |-> h[i]]
        OBVIOUS
      <4> HIDE DEF h, Body
      <4> QED BY <4>1, <3>6
    <3> QED BY <3>1, <3>7
  <2>2. n \in 0..n
    BY <1>1
  <2>3. \E f : Solves(f, n)
    BY <2>1, <2>2
  <2> HIDE DEF Solves
  <2> QED BY <2>3
<1>4. \A i \in 0..n : all[i] = Body(all, i)
  <2> HIDE DEF all, Body
  <2> QED BY <1>3
<1> HIDE DEF all, Solves
<1> DEFINE Seen(i) == {r \in {rows[j] : j \in 1..i} : IsRecent(was, r)}
           Good(i) == /\ all[i] \in Seq(Records) /\ IsInjective(all[i])
                      /\ ToSet(all[i]) = ToSet(was.all) \cup Seen(i)
           Bad == {k \in 0..n : ~Good(k)}
<1>5. Bad = {}
  <2> SUFFICES ASSUME Bad # {} PROVE FALSE
    OBVIOUS
  <2>1. PICK k \in Bad : \A l \in Bad : k <= l
    <3>1. Bad \subseteq Nat
      BY <1>1
    <3> QED BY <3>1, Least
  <2>2. k \in 0..n /\ k \in Nat /\ ~Good(k)
    BY <2>1, <1>1
  <2>3. k # 0
    <3>1. all[0] = was.all
      BY <1>4, <1>1
    <3>2. Seen(0) = {}
      OBVIOUS
    <3>3. Good(0)
      BY <3>1, <3>2
    <3> QED BY <3>3, <2>2
  <2>4. k - 1 \in 0..n /\ ~(k <= k - 1) /\ k \in 1..n
    BY <2>2, <2>3, <1>1
  <2>5. Good(k - 1)
    BY <2>1, <2>4
  <2>6. all[k] = IF IsRecent(was, rows[k]) THEN Append(all[k - 1], rows[k]) ELSE all[k - 1]
    BY <1>4, <2>2, <2>3
  <2>7. 1..k = 1..(k - 1) \cup {k}
    BY <2>4
  <2>8. rows[k] \in Records /\ rows[k] \in ToSet(rows)
    BY <2>4, <1>1 DEF ToSet
  <2>9. rows[k] \notin ToSet(was.all) \cup Seen(k - 1)
    <3>1. \A j \in 1..k - 1 : rows[j] # rows[k]
      <4>1. \A j \in 1..k - 1 : j \in DOMAIN rows /\ k \in DOMAIN rows /\ j # k
        BY <2>4, <1>1
      <4> QED BY <4>1 DEF IsInjective
    <3> QED BY <3>1, <2>8
  <2>10. CASE IsRecent(was, rows[k])
    <3>1. all[k] = Append(all[k - 1], rows[k])
      BY <2>6, <2>10
    <3>2. Seen(k) = Seen(k - 1) \cup {rows[k]}
      BY <2>7, <2>10
    <3> HIDE DEF Seen
    <3>3. Good(k)
      BY <3>1, <3>2, <2>5, <2>8, <2>9, Appended
    <3> QED BY <3>3, <2>2
  <2>11. CASE ~IsRecent(was, rows[k])
    <3>1. all[k] = all[k - 1]
      BY <2>6, <2>11
    <3>2. Seen(k) = Seen(k - 1)
      BY <2>7, <2>11
    <3> HIDE DEF Seen
    <3>3. Good(k)
      BY <3>1, <3>2, <2>5
    <3> QED BY <3>3, <2>2
  <2> QED BY <2>10, <2>11
<1>6. Good(n)
  <2>1. n \in 0..n
    BY <1>1
  <2> QED BY <2>1, <1>5
<1>7. Seen(n) = {r \in ToSet(rows) : IsRecent(was, r)}
  BY <1>1 DEF ToSet
<1> QED BY <1>2, <1>6, <1>7

\* The first a elements, and those up to the b-th, are the first b.
LEMMA Joined ==
  ASSUME NEW s \in Seq(Records), NEW a \in 0..Len(s), NEW b \in a..Len(s)
  PROVE  SubSeq(s, 1, a) \o SubSeq(s, a + 1, b) = SubSeq(s, 1, b)
<1>1. /\ Len(s) \in Nat /\ a \in Nat /\ b \in Nat /\ a <= b /\ b <= Len(s)
  OBVIOUS
<1> DEFINE x == SubSeq(s, 1, a)
           y == SubSeq(s, a + 1, b)
           z == SubSeq(s, 1, b)
           c == x \o y
<1>2. x \in Seq(Records) /\ Len(x) = a /\ \A i \in 1..a : x[i] = s[i]
  BY <1>1
<1>3. y \in Seq(Records) /\ Len(y) = b - a /\ \A i \in 1..(b - a) : y[i] = s[a + i]
  BY <1>1
<1>4. z \in Seq(Records) /\ Len(z) = b /\ \A i \in 1..b : z[i] = s[i]
  BY <1>1
<1> HIDE DEF x, y, z
<1>5. /\ c \in Seq(Records) /\ Len(c) = b
      /\ \A i \in 1..a : c[i] = x[i]
      /\ \A i \in 1..(b - a) : c[a + i] = y[i]
  BY <1>1, <1>2, <1>3
<1> HIDE DEF c
<1>6. ASSUME NEW i \in 1..b PROVE c[i] = z[i]
  <2>1. CASE i <= a
    <3>1. i \in 1..a
      BY <2>1, <1>1
    <3> QED BY <3>1, <1>2, <1>4, <1>5
  <2>2. CASE i > a
    <3>1. i - a \in 1..(b - a) /\ a + (i - a) = i
      BY <2>2, <1>1
    <3>2. c[a + (i - a)] = y[i - a] /\ y[i - a] = s[a + (i - a)]
      BY <3>1, <1>5, <1>3
    <3> QED BY <3>1, <3>2, <1>4
  <2> QED BY <2>1, <2>2, <1>1
<1>7. /\ DOMAIN c = 1..b /\ DOMAIN z = 1..b
      /\ c = [i \in 1..b |-> c[i]] /\ z = [i \in 1..b |-> z[i]]
  BY <1>4, <1>5
<1>8. c = z
  BY <1>6, <1>7
<1> QED BY <1>8 DEF x, y, z, c

\* The number of pages: enough for n rows, and the last one is not empty.
LEMMA Enough ==
  ASSUME NEW n \in Nat, NEW P \in Nat \ {0}, NEW d, d = (n + P - 1) \div P
  PROVE  d \in Nat /\ n <= d * P /\ (d # 0 => (d - 1) * P < n)
<1>1. d \in Nat /\ d * P <= n + P - 1 /\ n + P - 1 < d * P + P
  <2> DEFINE a == n + P - 1
  <2>1. a \in Nat
    OBVIOUS
  <2>2. ASSUME NEW b \in Nat PROVE b \div P \in Nat /\ (b \div P) * P <= b /\ b < (b \div P) * P + P
    OBVIOUS
  <2> QED BY <2>1, <2>2
<1>2. (d - 1) * P = d * P - P
  BY <1>1
<1>3. d * P \in Nat
  BY <1>1
<1> DEFINE m == d * P
<1>4. n <= m /\ m - P < n
  <2>1. m \in Nat /\ m <= n + P - 1 /\ n + P - 1 < m + P
    BY <1>1, <1>3
  <2> HIDE DEF m
  <2> QED BY <2>1
<1> QED BY <1>1, <1>2, <1>4

\* The pages one after the other are the rows.
LEMMA Paging ==
  ASSUME NEW s \in Seq(Records)
  PROVE  FlattenSeq([p \in 1..Pages(s) |-> paginate(s, p)]) = s
<1> DEFINE n == Len(s)
           k == Pages(s)
           pages == [p \in 1..k |-> paginate(s, p)]
           End(p) == IF p * PageSize > n THEN n ELSE p * PageSize
           first == [p \in 1..k |-> SubSeq(s, 1, End(p))]
           Solves(f) == f = [p \in 1..k |-> IF p = 1 THEN pages[p] ELSE f[p - 1] \o pages[p]]
           flat == CHOOSE f : Solves(f)
<1>1. n \in Nat /\ PageSize \in Nat /\ PageSize > 0
  BY DashboardAssumption
<1>2. k \in Nat /\ k >= 1 /\ n <= k * PageSize /\ (n = 0 \/ (k - 1) * PageSize < n) /\ (n = 0 => k = 1)
  <2> DEFINE d == (n + PageSize - 1) \div PageSize
  <2>1. d \in Nat /\ n <= d * PageSize /\ (d # 0 => (d - 1) * PageSize < n)
    <3>1. n \in Nat /\ PageSize \in Nat \ {0} /\ d = (n + PageSize - 1) \div PageSize
      BY <1>1
    <3> HIDE DEF n, d
    <3> QED BY <3>1, Enough
  <2>2. k = IF d < 1 THEN 1 ELSE d
    BY DEF Pages
  <2> HIDE DEF d, k, n
  <2>3. CASE d = 0
    BY <2>1, <2>2, <2>3, <1>1
  <2>4. CASE d # 0
    <3>1. k = d /\ d - 1 \in Nat /\ (d - 1) * PageSize < n /\ (d - 1) * PageSize \in Nat
      BY <2>1, <2>2, <2>4, <1>1
    <3> QED BY <3>1, <2>1, <1>1
  <2> QED BY <2>3, <2>4
<1> HIDE DEF n, k
<1>3. ASSUME NEW p \in 1..k
      PROVE  /\ (p - 1) * PageSize \in Nat /\ (p - 1) * PageSize <= n
             /\ p * PageSize = (p - 1) * PageSize + PageSize
  <2>1. p - 1 \in Nat /\ k - 1 \in Nat /\ p - 1 <= k - 1
    BY <1>2
  <2>2. ASSUME NEW a \in Nat, NEW b \in Nat, a <= b, NEW P \in Nat
        PROVE  a * P \in Nat /\ b * P \in Nat /\ a * P <= b * P
    BY <2>2
  <2>3. (p - 1) * PageSize \in Nat /\ (k - 1) * PageSize \in Nat /\ (p - 1) * PageSize <= (k - 1) * PageSize
    BY <2>1, <2>2, <1>1
  <2>4. p * PageSize = (p - 1) * PageSize + PageSize
    BY <1>1, <1>2
  <2>5. CASE n = 0
    <3>1. p = 1
      BY <2>5, <1>2
    <3> QED BY <3>1, <2>3, <2>4, <2>5, <1>1
  <2>6. CASE n # 0
    <3>1. (k - 1) * PageSize < n
      BY <2>6, <1>2
    <3> DEFINE u == (p - 1) * PageSize
               v == (k - 1) * PageSize
    <3>2. u \in Nat /\ v \in Nat /\ u <= v /\ v < n
      BY <2>3, <3>1
    <3> HIDE DEF u, v
    <3>3. u <= n
      BY <3>2, <1>1
    <3> QED BY <3>3, <2>3, <2>4 DEF u
  <2> QED BY <2>5, <2>6
<1>4. ASSUME NEW p \in 1..k
      PROVE  /\ paginate(s, p) = SubSeq(s, (p - 1) * PageSize + 1, End(p))
             /\ End(p) \in (p - 1) * PageSize..n
             /\ p # 1 => p - 1 \in 1..k /\ End(p - 1) = (p - 1) * PageSize
  <2> DEFINE u == (p - 1) * PageSize
             v == p * PageSize
  <2>1. u \in Nat /\ u <= n /\ v = u + PageSize
    BY <1>3
  <2>2. paginate(s, p) = SubSeq(s, u + 1, IF u + PageSize > n THEN n ELSE u + PageSize)
    BY DEF paginate, n
  <2>3. End(p) = (IF v > n THEN n ELSE v) /\ End(p - 1) = (IF u > n THEN n ELSE u)
    OBVIOUS
  <2> HIDE DEF u, v, End
  <2>4. End(p) \in u..n /\ End(p - 1) = u
    BY <2>1, <2>3, <1>1
  <2>5. p # 1 => p - 1 \in 1..k
    BY <1>2
  <2>6. paginate(s, p) = SubSeq(s, u + 1, End(p))
    BY <2>1, <2>2, <2>3
  <2> QED BY <2>4, <2>5, <2>6 DEF u
<1>5. End(k) = n
  <2> DEFINE v == k * PageSize
  <2>1. v \in Nat /\ n <= v
    BY <1>1, <1>2
  <2>2. End(k) = IF v > n THEN n ELSE v
    OBVIOUS
  <2> HIDE DEF v
  <2> QED BY <2>1, <2>2, <1>1
<1> HIDE DEF End
<1>6. ASSUME NEW p \in 1..k
      PROVE  first[p] = IF p = 1 THEN pages[p] ELSE first[p - 1] \o pages[p]
  <2>1. CASE p = 1
    <3>1. (p - 1) * PageSize = 0
      BY <2>1, <1>1
    <3>2. paginate(s, p) = SubSeq(s, 1, End(p))
      BY <3>1, <1>4
    <3> QED BY <2>1, <3>2
  <2>2. CASE p # 1
    <3>1. p - 1 \in 1..k /\ End(p - 1) \in 0..n /\ End(p) \in End(p - 1)..n
      BY <1>3, <1>4, <2>2, <1>1
    <3>2. pages[p] = SubSeq(s, End(p - 1) + 1, End(p))
      BY <1>4, <2>2
    <3>3. first[p - 1] = SubSeq(s, 1, End(p - 1)) /\ first[p] = SubSeq(s, 1, End(p))
      BY <3>1
    <3>4. SubSeq(s, 1, End(p - 1)) \o SubSeq(s, End(p - 1) + 1, End(p)) = SubSeq(s, 1, End(p))
      BY <3>1, Joined DEF n
    <3> QED BY <2>2, <3>2, <3>3, <3>4
  <2> QED BY <2>1, <2>2
<1>7. Solves(flat)
  <2>1. first = [p \in 1..k |-> first[p]]
    OBVIOUS
  <2> HIDE DEF first, pages
  <2>2. Solves(first)
    BY <2>1, <1>6
  <2> HIDE DEF Solves
  <2> QED BY <2>2
<1>8. \A p \in 1..k : flat[p] = IF p = 1 THEN pages[p] ELSE flat[p - 1] \o pages[p]
  <2> HIDE DEF flat, pages
  <2> QED BY <1>7
<1>9. FlattenSeq(pages) = flat[k]
  <2>1. Len(pages) = k
    BY <1>2
  <2>2. FlattenSeq(pages) = (CHOOSE f : f = [p \in 1..Len(pages) |->
                               IF p = 1 THEN pages[p] ELSE f[p - 1] \o pages[p]])[Len(pages)]
    <3>1. Len(pages) # 0
      BY <2>1, <1>2
    <3> HIDE DEF pages
    <3> QED BY <3>1 DEF FlattenSeq
  <2> HIDE DEF pages
  <2> QED BY <2>1, <2>2
<1> HIDE DEF flat, Solves, pages, first
<1> DEFINE Bad == {p \in 1..k : flat[p] # first[p]}
<1>10. Bad = {}
  <2> SUFFICES ASSUME Bad # {} PROVE FALSE
    OBVIOUS
  <2>1. PICK p \in Bad : \A l \in Bad : p <= l
    <3>1. Bad \subseteq Nat
      BY <1>2
    <3> QED BY <3>1, Least
  <2>2. p \in 1..k /\ p \in Nat /\ flat[p] # first[p]
    BY <2>1, <1>2
  <2>3. p # 1
    BY <2>2, <1>6, <1>8
  <2>4. p - 1 \in 1..k /\ ~(p <= p - 1)
    BY <2>2, <2>3, <1>2
  <2>5. flat[p - 1] = first[p - 1]
    BY <2>1, <2>4
  <2> QED BY <2>2, <2>3, <2>5, <1>6, <1>8
<1>11. flat[k] = SubSeq(s, 1, n)
  <2>1. k \in 1..k
    BY <1>2
  <2>2. flat[k] = first[k]
    BY <2>1, <1>10
  <2> QED BY <2>1, <2>2, <1>5 DEF first
<1>12. SubSeq(s, 1, n) = s
  <2>1. SubSeq(s, 1, n) \in Seq(Records) /\ Len(SubSeq(s, 1, n)) = n
        /\ \A i \in 1..n : SubSeq(s, 1, n)[i] = s[i]
    BY DEF n
  <2>2. s = [i \in 1..n |-> s[i]] /\ SubSeq(s, 1, n) = [i \in 1..n |-> SubSeq(s, 1, n)[i]]
    BY <2>1 DEF n
  <2> QED BY <2>1, <2>2
<1> QED BY <1>9, <1>11, <1>12 DEF pages, k

\* The cut of queryRows keeps rows, and no more than maxRows.
LEMMA Cutting ==
  ASSUME NEW rows \in Rows, maxRows \in Nat, \A r \in Records : record[r].uploadedAt \in Nat
  PROVE  /\ Cut(rows) \in Rows /\ ToSet(Cut(rows)) \subseteq ToSet(rows)
         /\ Len(Cut(rows)) <= maxRows
         /\ Len(rows) <= maxRows => Cut(rows) = rows
<1>1. rows \in Seq(Records) /\ IsInjective(rows)
  BY RowsAre
<1>2. CASE Len(rows) <= maxRows
  BY <1>1, <1>2 DEF Cut
<1>3. CASE Len(rows) > maxRows
  <2> DEFINE sorted == sortRows(rows, "newest")
             cut == SubSeq(sorted, 1, maxRows)
  <2>1. /\ sorted \in [1..Len(rows) -> Records] /\ ToSet(sorted) = ToSet(rows)
        /\ IsInjective(sorted)
    BY <1>1, Sorting
  <2>2. sorted \in Seq(Records) /\ Len(sorted) = Len(rows) /\ DOMAIN sorted = 1..Len(rows)
    BY <2>1, <1>1
  <2>3. Cut(rows) = cut
    BY <1>3 DEF Cut
  <2> HIDE DEF sorted
  <2>4. /\ cut \in Seq(Records) /\ Len(cut) = maxRows /\ DOMAIN cut = 1..maxRows
        /\ \A i \in 1..maxRows : cut[i] = sorted[i]
    BY <2>2, <1>3, <1>1
  <2> HIDE DEF cut
  <2>5. \A i \in DOMAIN cut : i \in DOMAIN sorted /\ cut[i] = sorted[i]
    BY <2>2, <2>4, <1>3, <1>1
  <2>6. ToSet(cut) \subseteq ToSet(rows)
    BY <2>5, <2>1 DEF ToSet
  <2>7. IsInjective(cut)
    BY <2>5, <2>1 DEF IsInjective
  <2>8. cut \in Rows
    BY <2>4, <2>7, RowsAre
  <2> QED BY <2>3, <2>4, <2>6, <2>8, <1>3, <1>1
<1>4. Len(rows) \in Nat
  BY <1>1
<1> QED BY <1>2, <1>3, <1>4
=============================================================================
