----------------------------- MODULE TextProofs -----------------------------
(***************************************************************************)
(* Theorems about what the HTTP library and the path helpers compute from  *)
(* texts: ranges, queries, the parameters of a form's part, routes, files  *)
(* and the program's own path.  They are about operators and have no       *)
(* state; PartsProofs uses them for the states of MCParts.                 *)
(***************************************************************************)
EXTENDS Ranges, HttpText, Routes, Paths, FiniteSetTheorems, SequenceTheorems,
        WellFoundedInduction, TLAPS

-----------------------------------------------------------------------------
(***************************************************************************)
(* Induction and recursion.  A recursive function is the one that is chosen *)
(* to satisfy its equation; it does if any function does, and what holds of *)
(* its values is then shown by induction.  Both are stated for sets and     *)
(* functions, so that they can be used without a further parameter.         *)
(***************************************************************************)

\* A set of numbers with 0 and the successor of each of its members has them all.
LEMMA Induction ==
  ASSUME NEW T \in SUBSET Nat, 0 \in T, \A n \in T : n + 1 \in T
  PROVE  T = Nat
<1> DEFINE less == OpToRel(<, Nat)
           absent == Nat \ T
<1> SUFFICES ASSUME absent # {} PROVE FALSE
  OBVIOUS
<1> HIDE DEF less
<1>1. IsWellFoundedOn(less, Nat)
  BY NatLessThanWellFounded DEF less
<1>2. PICK k \in absent : \A j \in absent : ~(<<j, k>> \in less)
  BY <1>1, WFMin
<1>3. k - 1 \in Nat
  OBVIOUS
<1>4. k - 1 \notin absent
  <2> SUFFICES ASSUME k - 1 \in absent PROVE FALSE
    OBVIOUS
  <2>1. <<k - 1, k>> \in less
    BY <1>3 DEF OpToRel, less
  <2> QED BY <1>2, <2>1
<1> QED BY <1>3, <1>4


\* Q has everything that all of lower rank is in Q with; the value that F gives
\* depends on those of lower rank; g is what F makes of g.
Hereditary(Q, I, rank) ==
  \A i \in I : (\A j \in I : rank[j] < rank[i] => j \in Q) => i \in Q
FromBelow(F, I, rank, S) ==
  \A i \in I : \A g, h \in [I -> S] :
    (\A j \in I : rank[j] < rank[i] => g[j] = h[j]) => F[<<i, g>>] = F[<<i, h>>]
Solves(g, F, I) == \A i \in I : g[i] = F[<<i, g>>]

\* A set that inherits from lower ranks has everything.
LEMMA RankInduction ==
  ASSUME NEW I, NEW rank \in [I -> Nat], NEW Q \in SUBSET I, Hereditary(Q, I, rank)
  PROVE  Q = I
<1> DEFINE T == {n \in Nat : \A i \in I : rank[i] <= n => i \in Q}
<1>1. 0 \in T
  <2>1. ASSUME NEW i \in I, rank[i] <= 0 PROVE i \in Q
    <3>1. \A j \in I : ~(rank[j] < rank[i])
      <4>1. \A j \in I : rank[j] \in Nat
        OBVIOUS
      <4> QED BY <2>1, <4>1
    <3> QED BY <3>1 DEF Hereditary
  <2> QED BY <2>1
<1>2. ASSUME NEW n \in T PROVE n + 1 \in T
  <2>1. ASSUME NEW i \in I, rank[i] <= n + 1 PROVE i \in Q
    <3>1. \A j \in I : rank[j] < rank[i] => rank[j] <= n
      <4>1. \A j \in I : rank[j] \in Nat
        OBVIOUS
      <4> QED BY <2>1, <4>1
    <3> QED BY <3>1 DEF Hereditary
  <2> QED BY <2>1
<1>3. T = Nat
  <2>1. T \subseteq Nat
    OBVIOUS
  <2> HIDE DEF T
  <2> QED BY <1>1, <1>2, <2>1, Induction
<1>4. ASSUME NEW i \in I PROVE i \in Q
  <2>1. rank[i] \in T /\ rank[i] <= rank[i]
    BY <1>3
  <2> QED BY <2>1
<1> QED BY <1>4

\* There is a function whose values are made from those of lower rank.
LEMMA RankRecursion ==
  ASSUME NEW I, NEW N \in Nat, NEW rank \in [I -> 0..N],
         NEW S, NEW a \in S, NEW F \in [I \X [I -> S] -> S], FromBelow(F, I, rank, S)
  PROVE  \E g \in [I -> S] : Solves(g, F, I)
<1> DEFINE Solved(g, n) == \A i \in I : rank[i] < n => g[i] = F[<<i, g>>]
           T == {n \in Nat : \E g \in [I -> S] : Solved(g, n)}
<1>1. 0 \in T
  <2>1. [i \in I |-> a] \in [I -> S] /\ \A i \in I : ~(rank[i] < 0)
    OBVIOUS
  <2> QED BY <2>1
<1>2. ASSUME NEW n \in T PROVE n + 1 \in T
  <2>1. PICK g \in [I -> S] : Solved(g, n)
    OBVIOUS
  <2> DEFINE h == [i \in I |-> IF rank[i] < n THEN g[i] ELSE F[<<i, g>>]]
  <2>2. h \in [I -> S]
    OBVIOUS
  <2>3. ASSUME NEW i \in I, rank[i] < n + 1 PROVE h[i] = F[<<i, h>>]
    <3>1. h[i] = F[<<i, g>>]
      BY <2>1
    <3>2. \A j \in I : rank[j] < rank[i] => g[j] = h[j]
      <4>1. ASSUME NEW j \in I, rank[j] < rank[i] PROVE rank[j] < n
        <5>1. rank[i] \in Nat /\ rank[j] \in Nat /\ n \in Nat
          OBVIOUS
        <5> QED BY <2>3, <4>1, <5>1
      <4> QED BY <4>1
    <3> HIDE DEF h
    <3>3. F[<<i, g>>] = F[<<i, h>>]
      BY <2>2, <3>2 DEF FromBelow
    <3> QED BY <3>1, <3>3
  <2> HIDE DEF h
  <2> QED BY <2>2, <2>3
<1>3. T = Nat
  <2>1. T \subseteq Nat
    OBVIOUS
  <2> HIDE DEF T
  <2> QED BY <1>1, <1>2, <2>1, Induction
<1>4. PICK g \in [I -> S] : Solved(g, N + 1)
  <2>1. N + 1 \in T
    <3> HIDE DEF T
    <3> QED BY <1>3
  <2> QED BY <2>1
<1>5. \A i \in I : rank[i] < N + 1
  OBVIOUS
<1> QED BY <1>4, <1>5 DEF Solves

-----------------------------------------------------------------------------
(***************************************************************************)
(* Ranges.                                                                 *)
(***************************************************************************)
RangeRecords == [first : Nat \cup {Absent}, last : Nat \cup {Absent}]

\* A range that can be honoured asks for the bytes that it is filled in with.
LEMMA FilledAsAsked ==
  ASSUME NEW r \in RangeRecords, NEW length \in Nat, Within(Filled(r, length), length)
  PROVE  LET part == OffsetAndLength(Filled(r, length))
         IN  Sent(part) = Asked(r, length) /\ part.length > 0
<1> DEFINE f == Filled(r, length)
           part == OffsetAndLength(f)
<1>1. /\ r = [first |-> r.first, last |-> r.last]
      /\ r.first \in Nat \cup {Absent} /\ r.last \in Nat \cup {Absent}
  BY DEF RangeRecords
<1>2. ASSUME f.first \in Int, f.last \in Int
      PROVE  Sent(part) = f.first..f.last /\ part.length = f.last - f.first + 1
  <2>1. part.offset = f.first /\ part.length = f.last - f.first + 1
    BY DEF OffsetAndLength
  <2>2. f.first + (f.last - f.first + 1) - 1 = f.last
    BY <1>2
  <2> QED BY <2>1, <2>2 DEF Sent
<1>3. CASE r.first = Absent /\ r.last = Absent
  <2>1. f = [first |-> 0, last |-> length]
    BY <1>3 DEF Filled
  <2> QED BY <2>1 DEF Within
<1>4. CASE r.first = Absent /\ r.last # Absent
  <2>1. f.first = length - r.last /\ f.last = length - 1 /\ r.last \in Nat
    BY <1>1, <1>4 DEF Filled
  <2>2. f.first..f.last = Asked(r, length)
    BY <1>4, <2>1 DEF Asked, Within
  <2> QED BY <1>2, <2>1, <2>2 DEF Within
<1>5. CASE r.first # Absent /\ r.last = Absent
  <2>1. f.first = r.first /\ f.last = length - 1 /\ r.first \in Nat
    BY <1>1, <1>5 DEF Filled
  <2>2. f.first..f.last = Asked(r, length)
    BY <1>5, <2>1 DEF Asked, Within
  <2> QED BY <1>2, <2>1, <2>2 DEF Within
<1>6. CASE r.first # Absent /\ r.last # Absent
  <2>1. f = r /\ r.first \in Nat /\ r.last \in Nat
    BY <1>1, <1>6 DEF Filled
  <2>2. f.first..f.last = Asked(r, length)
    BY <1>6, <2>1 DEF Asked, Within
  <2> QED BY <1>2, <2>1, <2>2 DEF Within
<1> QED BY <1>3, <1>4, <1>5, <1>6

\* TotalOf adds the parts up one after the other.
LEMMA TotalIsSum ==
  ASSUME NEW parts, Len(parts) \in Nat, \A i \in 1..Len(parts) : parts[i].length \in Int
  PROVE  \E total \in [0..Len(parts) -> Int] :
           /\ total[0] = 0
           /\ \A n \in 1..Len(parts) : total[n] = total[n - 1] + parts[n].length
           /\ TotalOf(parts) = total[Len(parts)]
<1> DEFINE N == Len(parts)
           I == 0..N
           value(f, n) == IF n = 0 THEN 0 ELSE f[n - 1] + parts[n].length
           total == CHOOSE f : f = [n \in I |-> value(f, n)]
           F == [p \in I \X [I -> Int] |-> value(p[2], p[1])]
           rank == [n \in I |-> n]
<1>1. rank \in [I -> 0..N] /\ rank \in [I -> Nat] /\ N \in Nat /\ 0 \in Int
  OBVIOUS
<1>2. F \in [I \X [I -> Int] -> Int]
  <2>1. ASSUME NEW n \in I, NEW g \in [I -> Int] PROVE value(g, n) \in Int
    OBVIOUS
  <2> HIDE DEF I, value
  <2> QED BY <2>1
<1>3. ASSUME NEW i \in I, NEW g \in [I -> Int]
      PROVE  F[<<i, g>>] = value(g, i)
  BY DEF value
<1>4. ASSUME NEW i \in I, NEW g \in [I -> Int], NEW h \in [I -> Int],
             \A j \in I : rank[j] < rank[i] => g[j] = h[j]
      PROVE  F[<<i, g>>] = F[<<i, h>>]
  <2>1. i # 0 => i - 1 \in I /\ rank[i - 1] < rank[i]
    OBVIOUS
  <2>2. value(g, i) = value(h, i)
    BY <1>4, <2>1
  <2> HIDE DEF F, value
  <2> QED BY <1>3, <2>2
<1>5. PICK g \in [I -> Int] : Solves(g, F, I)
  <2> HIDE DEF F, rank, N, I
  <2>1. FromBelow(F, I, rank, Int)
    BY <1>4 DEF FromBelow
  <2> QED BY <1>1, <1>2, <2>1, RankRecursion
<1>6. g = [n \in I |-> value(g, n)]
  <2> HIDE DEF F, value, I
  <2> QED BY <1>3, <1>5 DEF Solves
<1>7. total = [n \in I |-> value(total, n)]
  <2> HIDE DEF value, I
  <2> QED BY <1>6
<1> HIDE DEF total
<1>8. total[0] = 0
  BY <1>7
<1>9. ASSUME NEW n \in 1..N PROVE total[n] = total[n - 1] + parts[n].length
  <2>1. n \in I /\ value(total, n) = total[n - 1] + parts[n].length
    OBVIOUS
  <2> HIDE DEF value, I
  <2> QED BY <1>7, <2>1
<1>10. \A n \in I : total[n] \in Int
  <2> DEFINE Q == {n \in I : total[n] \in Int}
  <2>1. ASSUME NEW n \in I, \A j \in I : rank[j] < rank[n] => j \in Q
        PROVE  n \in Q
    <3>1. CASE n = 0
      BY <1>8, <3>1
    <3>2. CASE n # 0
      <4>1. n \in 1..N /\ n - 1 \in I /\ rank[n - 1] < rank[n]
        BY <3>2
      <4>2. total[n - 1] \in Int
        BY <2>1, <4>1
      <4> QED BY <1>9, <4>1, <4>2
    <3> QED BY <3>1, <3>2
  <2>2. Q \subseteq I
    OBVIOUS
  <2>3. Q = I
    <3> HIDE DEF Q, I, rank
    <3>1. Hereditary(Q, I, rank)
      BY <2>1 DEF Hereditary
    <3> QED BY <1>1, <2>2, <3>1, RankInduction
  <2> QED BY <2>3
<1>11. total \in [I -> Int]
  <2>1. total = [n \in I |-> total[n]]
    BY <1>7
  <2> QED BY <1>10, <2>1
<1>12. TotalOf(parts) = total[N]
  BY DEF TotalOf, total
<1> QED BY <1>8, <1>9, <1>11, <1>12

\* A total and one more range of it, each below a bound of its own.
LEMMA Totalled ==
  ASSUME NEW t \in Int, NEW more \in Int, NEW b \in Int, NEW m \in Int, NEW l \in Int,
         t <= b + m, more <= l
  PROVE  t + more <= b + m + l
OBVIOUS

\* A total that stops where the next range begins stops where that range ends.
LEMMA Telescoped ==
  ASSUME NEW t \in Int, NEW b \in Int, NEW first \in Int, NEW last \in Int, NEW m \in Int,
         t <= b + first, last < m
  PROVE  t + (last - first + 1) <= b + m
OBVIOUS

\* Ranges inside a content that begin one after the other, at most two of them
\* inside an earlier one, have at most three times its length together.
LEMMA TotalIsBounded ==
  ASSUME NEW N \in Nat, NEW length \in Nat, NEW ranges, DOMAIN ranges = 1..N,
         \A i \in 1..N : ranges[i].first \in Int /\ ranges[i].last \in Int,
         Acceptable(ranges, length),
         NEW total \in [0..N -> Int], total[0] = 0,
         \A n \in 1..N : total[n] = total[n - 1] + (ranges[n].last - ranges[n].first + 1)
  PROVE  total[N] <= 3 * length
<1> DEFINE O == Overlapping(ranges)
           K(n) == Cardinality(O \cap 1..n)
           Bound(k) == IF k = 0 THEN 0 ELSE IF k = 1 THEN length ELSE length + length
           Ok(n) == \A m \in 0..length : (\A i \in 1..n : ranges[i].last < m) =>
                      total[n] <= Bound(K(n)) + m
           T == {n \in Nat : n <= N => Ok(n)}
<1>1. /\ O \subseteq 1..N
      /\ \A i \in O : \E j \in 1..N : j < i /\ ranges[i].first <= ranges[j].last
      /\ \A i \in (1..N) \ O : \A j \in 1..N : j < i => ranges[j].last < ranges[i].first
  <2>1. O = {i \in 1..N : \E j \in 1..N : j < i /\ ranges[i].first <= ranges[j].last}
    BY DEF Overlapping
  <2> HIDE DEF O
  <2>2. ASSUME NEW i \in (1..N) \ O, NEW j \in 1..N, j < i
        PROVE  ranges[j].last < ranges[i].first
    <3>1. ~(ranges[i].first <= ranges[j].last)
      BY <2>1, <2>2
    <3>2. ranges[i].first \in Int /\ ranges[j].last \in Int
      OBVIOUS
    <3> QED BY ONLY <3>1, <3>2
  <2> QED BY <2>1, <2>2, Zenon
<1>2. IsFiniteSet(O) /\ Cardinality(O) <= 2
  <2>1. IsFiniteSet(1..N)
    BY FS_Interval
  <2> QED BY <1>1, <2>1, FS_Subset DEF Acceptable, FewOverlaps
<1>3. \A i \in 1..N : 0 <= ranges[i].first /\ ranges[i].first <= ranges[i].last
                        /\ ranges[i].last <= length - 1
  BY DEF Acceptable, Within
<1> HIDE DEF O
<1>4. ASSUME NEW n \in Nat PROVE IsFiniteSet(O \cap 1..n) /\ K(n) \in 0..2
  <2>1. IsFiniteSet(O \cap 1..n) /\ Cardinality(O \cap 1..n) <= Cardinality(O)
    BY <1>2, FS_Subset
  <2>2. Cardinality(O) \in Nat /\ Cardinality(O \cap 1..n) \in Nat
    BY <1>2, <2>1, FS_CardinalityType
  <2> QED BY <1>2, <2>1, <2>2
<1>5. 0 \in T
  <2>1. K(0) \in 0..2
    BY <1>4
  <2> HIDE DEF K
  <2>2. Bound(K(0)) \in Nat
    BY <2>1
  <2> QED BY <2>2
<1>6. ASSUME NEW n \in T, n + 1 <= N PROVE Ok(n + 1)
  <2>1. n \in Nat /\ n + 1 \in 1..N /\ n \in 0..N /\ Ok(n)
    <3>1. n \in Nat /\ n <= N /\ (n <= N => Ok(n))
      <4> HIDE DEF Ok
      <4> QED BY <1>6
    <3> HIDE DEF Ok
    <3> QED BY <1>6, <3>1
  <2> DEFINE r == ranges[n + 1]
  <2> SUFFICES ASSUME NEW m \in 0..length, \A i \in 1..(n + 1) : ranges[i].last < m
      PROVE  total[n + 1] <= Bound(K(n + 1)) + m
    OBVIOUS
  <2>2. total[n + 1] = total[n] + (r.last - r.first + 1)
    <3>1. (n + 1) - 1 = n
      BY <2>1
    <3> QED BY <2>1, <3>1
  <2>3. /\ r.first \in Int /\ r.last \in Int /\ 0 <= r.first /\ r.first <= r.last
        /\ r.last <= length - 1 /\ r.last < m /\ total[n] \in Int
    BY <1>3, <2>1
  <2> HIDE DEF r
  <2>4. K(n) \in 0..2 /\ K(n + 1) \in 0..2
    <3>1. n + 1 \in Nat
      BY <2>1
    <3> HIDE DEF K
    <3> QED BY <1>4, <2>1, <3>1
  <2>5. CASE n + 1 \in O
    <3>1. K(n + 1) = K(n) + 1
      <4>1. O \cap 1..(n + 1) = (O \cap 1..n) \cup {n + 1} /\ n + 1 \notin O \cap 1..n
        <5>1. 1..(n + 1) = 1..n \cup {n + 1} /\ n + 1 \notin 1..n
          BY ONLY <2>1
        <5> HIDE DEF O
        <5> QED BY ONLY <2>5, <5>1, Zenon
      <4>2. IsFiniteSet(O \cap 1..n)
        BY <1>4, <2>1
      <4>3. Cardinality((O \cap 1..n) \cup {n + 1}) = Cardinality(O \cap 1..n) + 1
        BY ONLY <4>1, <4>2, FS_AddElement, Zenon
      <4> QED BY ONLY <4>1, <4>3, Zenon
    <3>2. total[n] <= Bound(K(n)) + m
      <4>1. \A i \in 1..n : ranges[i].last < m
        <5>1. \A i \in 1..n : i \in 1..(n + 1)
          BY <2>1
        <5> QED BY <5>1
      <4> QED BY <2>1, <4>1
    <3>3. K(n) \in {0, 1}
      <4> HIDE DEF K
      <4> QED BY <2>4, <3>1
    <3> HIDE DEF K
    <3>4. Bound(K(n + 1)) = Bound(K(n)) + length /\ Bound(K(n)) \in Nat
      BY <3>1, <3>3
    <3> HIDE DEF Bound
    <3>5. m \in Int /\ length \in Int
      OBVIOUS
    <3>6. total[n + 1] <= Bound(K(n)) + m + length
      <4> DEFINE more == r.last - r.first + 1
      <4>1. more \in Int /\ more <= length
        <5>1. \A x, y, z \in Int : 0 <= x /\ y <= z - 1 => y - x + 1 \in Int /\ y - x + 1 <= z
          OBVIOUS
        <5> HIDE DEF more
        <5> QED BY <2>3, <3>5, <5>1 DEF more
      <4>2. total[n + 1] = total[n] + more
        BY <2>2
      <4> HIDE DEF more
      <4>3. Bound(K(n)) \in Int
        BY <3>4
      <4>4. total[n] + more <= Bound(K(n)) + m + length
        BY ONLY <2>3, <3>2, <3>5, <4>1, <4>3, Totalled, Zenon
      <4> QED BY ONLY <4>2, <4>4, Zenon
    <3>7. Bound(K(n)) + m + length = Bound(K(n)) + length + m
      BY <3>4, <3>5
    <3> QED BY <3>4, <3>6, <3>7
  <2>6. CASE n + 1 \notin O
    <3>1. K(n + 1) = K(n)
      <4>1. O \cap 1..(n + 1) = O \cap 1..n
        BY <2>1, <2>6
      <4> QED BY <4>1
    <3>2. \A i \in 1..n : ranges[i].last < r.first
      <4>1. \A i \in 1..n : i \in 1..N /\ i < n + 1
        BY <2>1
      <4> QED BY <1>1, <2>1, <2>6, <4>1 DEF r
    <3>3. r.first \in 0..length
      BY <2>3
    <3>4. total[n] <= Bound(K(n)) + r.first
      BY <2>1, <3>2, <3>3
    <3> HIDE DEF K
    <3>5. Bound(K(n)) \in Int
      BY <2>4
    <3> HIDE DEF Bound
    <3>6. m \in Int
      OBVIOUS
    <3>7. total[n] + (r.last - r.first + 1) <= Bound(K(n)) + m
      BY ONLY <2>3, <3>4, <3>5, <3>6, Telescoped, Zenon
    <3> QED BY ONLY <2>2, <3>1, <3>7, Zenon
  <2> QED BY <2>5, <2>6
<1>7. T = Nat
  <2>1. T \subseteq Nat
    OBVIOUS
  <2>2. ASSUME NEW n \in T PROVE n + 1 \in T
    <3>1. n \in Nat /\ (n + 1 <= N => Ok(n + 1))
      BY <1>6
    <3> HIDE DEF Ok
    <3> QED BY <3>1
  <2> HIDE DEF T
  <2> QED BY <1>5, <2>1, <2>2, Induction
<1>8. total[N] <= Bound(K(N)) + length
  <2>1. Ok(N)
    <3>1. N \in T
      BY <1>7
    <3> HIDE DEF Ok
    <3> QED BY <3>1
  <2>2. ASSUME NEW i \in 1..N PROVE ranges[i].last < length
    BY <1>3
  <2>3. length \in 0..length
    OBVIOUS
  <2> HIDE DEF K, Bound
  <2> QED BY <2>1, <2>2, <2>3
<1>9. K(N) \in 0..2
  BY <1>4
<1> HIDE DEF K
<1>10. Bound(K(N)) \in Nat /\ Bound(K(N)) <= length + length
  BY <1>9
<1> HIDE DEF Bound
<1>11. total[N] \in Int
  OBVIOUS
<1> QED BY <1>8, <1>10, <1>11

\* A success sends, for each range of an accepted header, exactly the bytes that
\* RFC 9110 says the range asks for, at least one.
THEOREM RangesSendWhatIsAsked ==
  ASSUME NEW header \in Seq(RangeRecords), header # << >>, NEW length \in Nat,
         NEW status \in 200..299, ~RangeError(header, status, length)
  PROVE  LET parts == PartsOf(header, status, length)
         IN  /\ Len(parts) = Len(header)
             /\ \A i \in DOMAIN header :
                  Sent(parts[i]) = Asked(header[i], length) /\ parts[i].length > 0
<1> DEFINE ranges == Fill(header, length)
           parts == PartsOf(header, status, length)
<1>1. Examined(status)
  BY DEF Examined
<1>2. DOMAIN header = 1..Len(header) /\ Len(header) \in Nat
  BY Zenon, LenProperties
<1>3. /\ DOMAIN ranges = DOMAIN header
      /\ \A i \in DOMAIN header : ranges[i] = Filled(header[i], length)
  BY DEF Fill
<1>4. parts = [i \in DOMAIN header |-> OffsetAndLength(ranges[i])]
  BY <1>1, <1>3 DEF PartsOf
<1>5. \A i \in DOMAIN header : Within(ranges[i], length)
  BY <1>1, <1>3 DEF RangeError, Acceptable
<1> HIDE DEF parts, ranges
<1>6. Len(parts) = Len(header)
  BY <1>2, <1>4
<1>7. ASSUME NEW i \in DOMAIN header
      PROVE  Sent(parts[i]) = Asked(header[i], length) /\ parts[i].length > 0
  <2>1. header[i] \in RangeRecords
    BY <1>2
  <2>2. parts[i] = OffsetAndLength(Filled(header[i], length))
    BY <1>3, <1>4
  <2>3. Within(Filled(header[i], length), length)
    BY <1>3, <1>5
  <2> QED BY <2>1, <2>2, <2>3, FilledAsAsked
<1> QED BY <1>6, <1>7 DEF parts

\* A Range header is honoured or refused: what a success sends is, range by range,
\* what RFC 9110 says is asked for, and however many ranges there are at most three
\* times the content.
THEOREM EveryRangeIsHonoured ==
  ASSUME NEW header \in Seq(RangeRecords), NEW length \in Nat, NEW status \in Nat
  PROVE  RangesAreHonoured(header, status, length)
<1> SUFFICES ASSUME header # << >>, Examined(status), ~RangeError(header, status, length)
    PROVE  LET parts == PartsOf(header, status, length)
           IN  /\ Len(parts) = Len(header)
               /\ \A i \in DOMAIN header :
                    Sent(parts[i]) = Asked(header[i], length) /\ parts[i].length > 0
               /\ TotalOf(parts) <= 3 * length
  BY DEF RangesAreHonoured
<1> DEFINE N == Len(header)
           ranges == Fill(header, length)
           parts == PartsOf(header, status, length)
<1>1. status \in 200..299
  BY DEF Examined
<1>2. /\ Len(parts) = N
      /\ \A i \in DOMAIN header :
           Sent(parts[i]) = Asked(header[i], length) /\ parts[i].length > 0
  BY <1>1, RangesSendWhatIsAsked
<1>3. DOMAIN header = 1..N /\ N \in Nat /\ \A i \in 1..N : header[i] \in RangeRecords
  OBVIOUS
<1>4. DOMAIN ranges = 1..N /\ \A i \in 1..N : ranges[i] = Filled(header[i], length)
  BY <1>3 DEF Fill
<1>5. \A i \in 1..N : parts[i] = OffsetAndLength(ranges[i])
  BY <1>4 DEF PartsOf
<1>6. Acceptable(ranges, length)
  BY DEF RangeError
<1>7. ASSUME NEW i \in 1..N
      PROVE  ranges[i].first \in Int /\ ranges[i].last \in Int
  <2> DEFINE r == header[i]
  <2>1. r.first \in Int /\ r.last \in Int /\ r \in RangeRecords
    BY <1>3 DEF RangeRecords, Absent
  <2> HIDE DEF r
  <2>2. Filled(r, length).first \in Int /\ Filled(r, length).last \in Int
    <3>1. CASE r.first = Absent /\ r.last = Absent
      BY <2>1, <3>1 DEF Filled
    <3>2. CASE r.first = Absent /\ r.last # Absent
      BY <2>1, <3>2 DEF Filled
    <3>3. CASE r.first # Absent /\ r.last = Absent
      BY <2>1, <3>3 DEF Filled, RangeRecords
    <3>4. CASE r.first # Absent /\ r.last # Absent
      BY <2>1, <3>4 DEF Filled
    <3> QED BY <3>1, <3>2, <3>3, <3>4
  <2> QED BY <1>4, <2>2 DEF r
<1> HIDE DEF parts, ranges, N
<1>8. \A i \in 1..N : parts[i].length = ranges[i].last - ranges[i].first + 1
  <2> TAKE i \in 1..N
  <2>1. parts[i] = OffsetAndLength(ranges[i])
    BY <1>5
  <2> QED BY <2>1 DEF OffsetAndLength
<1>9. \A i \in 1..N : parts[i].length \in Int
  BY <1>7, <1>8
<1>10. PICK total \in [0..N -> Int] :
         /\ total[0] = 0
         /\ \A n \in 1..N : total[n] = total[n - 1] + parts[n].length
         /\ TotalOf(parts) = total[N]
  BY <1>2, <1>3, <1>9, TotalIsSum
<1>11. \A n \in 1..N : total[n] = total[n - 1] + (ranges[n].last - ranges[n].first + 1)
  BY <1>8, <1>10
<1>12. total[N] <= 3 * length
  BY <1>3, <1>4, <1>6, <1>7, <1>10, <1>11, TotalIsBounded
<1> QED BY <1>2, <1>10, <1>12 DEF parts, N

\* A tuple of any length is a sequence.
LEMMA TuplesAreSequences ==
  ASSUME NEW S, NEW R \in SUBSET S, NEW m \in Nat, NEW f \in [1..m -> R]
  PROVE  f \in Seq(S)
OBVIOUS

-----------------------------------------------------------------------------
(***************************************************************************)
(* Paths.                                                                  *)
(***************************************************************************)

\* A set of numbers up to n has a greatest one.
LEMMA GreatestNumber ==
  ASSUME NEW n \in Nat, NEW T \in SUBSET (1..n), T # {}
  PROVE  Max(T) \in T /\ \A i \in T : Max(T) >= i
<1> DEFINE less == OpToRel(<, Nat)
           below == {n - i : i \in T}
<1>1. below \subseteq Nat /\ below # {}
  OBVIOUS
<1>2. PICK d \in below : \A e \in below : ~(<<e, d>> \in less)
  <2> HIDE DEF below, less
  <2>1. IsWellFoundedOn(less, Nat)
    BY NatLessThanWellFounded DEF less
  <2> QED BY <1>1, <2>1, WFMin
<1>3. \A e \in below : ~(e < d)
  <2> SUFFICES ASSUME NEW e \in below, e < d PROVE FALSE
    OBVIOUS
  <2>1. <<e, d>> \in less
    BY <1>1 DEF OpToRel
  <2> QED BY <1>2, <2>1
<1>4. PICK m \in T : d = n - m
  BY <1>2
<1>5. \A i \in T : m >= i
  <2> TAKE i \in T
  <2>1. ~(n - i < n - m)
    BY <1>3, <1>4
  <2>2. i \in Nat /\ m \in Nat /\ n \in Nat
    OBVIOUS
  <2> QED BY ONLY <2>1, <2>2
<1>6. \E x \in T : \A y \in T : x >= y
  BY <1>5
<1> QED BY <1>6 DEF Max

\* The directory of a program is its path up to the last slash.
LEMMA DirectoryOf ==
  ASSUME NEW S, NEW path \in Seq(S), NEW dir, NEW name,
         dir = GetDirectoryPathFromFilePath(path),
         name = SubSeq(path, Len(dir) + 1, Len(path))
  PROVE  /\ dir # <<".", "/">> => dir \o name = path /\ Last(dir) \in Slashes
         /\ ToSet(name) \cap Slashes = {}
<1> DEFINE Ends == {i \in DOMAIN path : path[i] \in Slashes}
<1>1. Len(path) \in Nat /\ DOMAIN path = 1..Len(path)
  OBVIOUS
<1>2. dir = IF Ends = {} THEN <<".", "/">> ELSE SubSeq(path, 1, Max(Ends))
  BY DEF GetDirectoryPathFromFilePath
<1>3. ASSUME NEW m \in Nat, \A i \in DOMAIN path : i > m => path[i] \notin Slashes, Len(dir) = m
      PROVE  ToSet(name) \cap Slashes = {}
  <2>1. \A i \in m + 1 .. Len(path) : path[i] \in S
    BY <1>1
  <2>2. m + 1 \in Int /\ Len(path) \in Int
    BY <1>1
  <2>3. /\ name \in Seq(S) /\ Len(name) = IF m + 1 <= Len(path) THEN Len(path) - (m + 1) + 1 ELSE 0
        /\ \A i \in 1 .. Len(path) - (m + 1) + 1 : name[i] = path[m + 1 + i - 1]
    BY <1>3, <2>1, <2>2, SubSeqProperties
  <2>4. ASSUME NEW i \in DOMAIN name PROVE name[i] \notin Slashes
    <3>1. i \in 1..Len(name) /\ Len(name) \in Nat
      BY <2>3
    <3>2. i \in 1 .. Len(path) - (m + 1) + 1
      BY <1>1, <2>3, <3>1
    <3>3. m + 1 + i - 1 \in DOMAIN path /\ m + 1 + i - 1 > m
      BY <1>1, <3>2
    <3> QED BY <1>3, <2>3, <3>2, <3>3
  <2> QED BY <2>4 DEF ToSet
<1>4. CASE Ends = {}
  <2>1. dir = <<".", "/">> /\ Len(dir) = 2
    BY <1>2, <1>4
  <2>2. \A i \in DOMAIN path : path[i] \notin Slashes
    BY <1>4
  <2> QED BY <1>3, <2>1, <2>2
<1>5. CASE Ends # {}
  <2> DEFINE m == Max(Ends)
  <2>1. m \in Ends /\ \A i \in Ends : m >= i
    BY <1>1, <1>5, GreatestNumber
  <2>2. dir = SubSeq(path, 1, m)
    BY <1>2, <1>5
  <2> HIDE DEF m
  <2>3. m \in 1..Len(path) /\ path[m] \in Slashes
    BY <1>1, <2>1
  <2>4. Len(dir) = m /\ dir \in Seq(S) /\ \A i \in 1..m : dir[i] = path[i]
    BY <1>1, <2>2, <2>3
  <2>5. \A i \in DOMAIN path : i > m => path[i] \notin Slashes
    BY <1>1, <2>1, <2>3
  <2>6. ToSet(name) \cap Slashes = {}
    BY <1>3, <2>3, <2>4, <2>5
  <2>7. Last(dir) \in Slashes
    BY <2>3, <2>4 DEF Last
  <2>8. dir \o name = path
    <3>1. \A i \in m + 1 .. Len(path) : path[i] \in S
      BY <1>1, <2>3
    <3>2. /\ name \in Seq(S)
          /\ Len(name) = IF m + 1 <= Len(path) THEN Len(path) - (m + 1) + 1 ELSE 0
          /\ \A i \in 1 .. Len(path) - (m + 1) + 1 : name[i] = path[m + 1 + i - 1]
      BY <1>1, <2>3, <2>4, <3>1, SubSeqProperties
    <3>4. Len(name) = Len(path) - m
      <4>1. m \in Nat /\ Len(path) \in Nat /\ m <= Len(path)
        BY <1>1, <2>3
      <4>2. Len(name) = IF m + 1 <= Len(path) THEN Len(path) - (m + 1) + 1 ELSE 0
        BY <3>2
      <4>3. CASE m = Len(path)
        BY ONLY <4>1, <4>2, <4>3
      <4>4. CASE m < Len(path)
        BY ONLY <4>1, <4>2, <4>4
      <4> QED BY <4>1, <4>3, <4>4
    <3>5. /\ dir \o name \in Seq(S) /\ Len(dir \o name) = Len(path)
          /\ \A i \in 1..Len(path) : (dir \o name)[i] = IF i <= m THEN dir[i] ELSE name[i - m]
      <4>1. /\ dir \o name \in Seq(S) /\ Len(dir \o name) = Len(dir) + Len(name)
            /\ \A i \in 1 .. Len(dir) + Len(name) :
                 (dir \o name)[i] = IF i <= Len(dir) THEN dir[i] ELSE name[i - Len(dir)]
        BY SMTT(30), <2>4, <3>2, ConcatProperties
      <4>2. Len(dir) = m /\ Len(dir) + Len(name) = Len(path)
        <5>1. m \in Nat /\ Len(path) \in Nat /\ Len(dir) = m
          BY <1>1, <2>3, <2>4
        <5> QED BY ONLY <3>4, <5>1
      <4> QED BY <4>1, <4>2
    <3>6. ASSUME NEW i \in 1..Len(path) PROVE (dir \o name)[i] = path[i]
      <4>1. CASE i <= m
        <5>1. (dir \o name)[i] = dir[i]
          BY <3>5, <4>1
        <5>2. i \in 1..m
          BY <2>3, <4>1
        <5> QED BY <2>4, <5>1, <5>2
      <4>2. CASE i > m
        <5>1. (dir \o name)[i] = name[i - m]
          <6>1. ~(i <= m)
            BY <1>1, <2>3, <4>2
          <6> QED BY <3>5, <6>1
        <5>2. i - m \in 1 .. Len(path) - (m + 1) + 1 /\ m + 1 + (i - m) - 1 = i
          BY <1>1, <2>3, <4>2
        <5> QED BY <3>2, <5>1, <5>2
      <4> QED BY <1>1, <2>3, <4>1, <4>2
    <3>3. \A s, t \in Seq(S) : Len(s) = Len(t) /\ (\A i \in 1..Len(s) : s[i] = t[i]) => s = t
      OBVIOUS
    <3> QED BY <3>3, <3>5, <3>6
  <2> QED BY <2>6, <2>7, <2>8
<1> QED BY <1>4, <1>5

\* However long its path is, whatever characters it is made of and on either
\* system, a program learns its own path, none or (on Windows) the beginning of
\* it, and looks for its library in the directory of the path that it learned.
THEOREM ProgramLooksBesideItself ==
  ASSUME NEW S, NEW path \in Seq(S) PROVE ProgramIsFound(path)
<1> SUFFICES ASSUME NEW windows \in BOOLEAN, NEW fails \in BOOLEAN
    PROVE  LET known == CurrentExecutablePath(path, windows, fails)
               dir   == GetDirectoryPathFromFilePath(known)
               name  == SubSeq(known, Len(dir) + 1, Len(known))
           IN  /\ IsPrefix(known, path)
               /\ known \notin {path, << >>} => windows /\ Len(path) >= BufferSize
               /\ known # << >> /\ dir # <<".", "/">> =>
                    dir \o name = known /\ Last(dir) \in Slashes
               /\ ToSet(name) \cap Slashes = {}
  BY DEF ProgramIsFound
<1> DEFINE known == CurrentExecutablePath(path, windows, fails)
           dir   == GetDirectoryPathFromFilePath(known)
           name  == SubSeq(known, Len(dir) + 1, Len(known))
           beginning   == SubSeq(path, 1, BufferSize - 1)
<1>1. Len(path) \in Nat /\ BufferSize \in Nat \ {0}
  BY PathsAssumption
<1>2. \/ known = << >>
      \/ known = path
      \/ known = beginning /\ windows /\ Len(path) >= BufferSize
  <2>1. CASE fails
    BY <2>1 DEF CurrentExecutablePath
  <2>2. CASE ~fails /\ Len(path) < BufferSize
    <3>1. ~(Len(path) >= BufferSize)
      BY <1>1, <2>2
    <3> QED BY <2>2, <3>1 DEF CurrentExecutablePath
  <2>3. CASE ~fails /\ Len(path) >= BufferSize
    <3>1. ~(Len(path) < BufferSize)
      BY <1>1, <2>3
    <3> QED BY <2>3, <3>1 DEF CurrentExecutablePath
  <2> QED BY <1>1, <2>1, <2>2, <2>3
<1> HIDE DEF known
<1>3. known \notin {path, << >>} => windows /\ Len(path) >= BufferSize
  BY <1>2
<1>4. known \in Seq(S) /\ IsPrefix(known, path)
  <2>1. CASE known = << >>
    <3>1. Len(<< >>) = 0 /\ 0 <= Len(path)
      BY <1>1
    <3>2. SubSeq(<< >>, 1, 0) = << >> /\ SubSeq(path, 1, 0) = << >>
      BY SubSeqEmpty
    <3>3. << >> \in Seq(S)
      OBVIOUS
    <3> QED BY <2>1, <3>1, <3>2, <3>3 DEF IsPrefix
  <2>2. CASE known = path
    BY <1>1, <2>2 DEF IsPrefix
  <2>3. CASE known = beginning /\ Len(path) >= BufferSize
    <3> DEFINE n == BufferSize - 1
    <3>1. n \in Nat /\ n <= Len(path)
      BY <1>1, <2>3
    <3>2. beginning = SubSeq(path, 1, n)
      OBVIOUS
    <3> HIDE DEF n, beginning
    <3>3. beginning \in Seq(S) /\ Len(beginning) = n /\ \A i \in 1..n : beginning[i] = path[i]
      BY <3>1, <3>2
    <3>4. beginning = SubSeq(beginning, 1, n)
      BY <3>1, <3>3
    <3> QED BY <2>3, <3>1, <3>2, <3>3, <3>4 DEF IsPrefix
  <2> QED BY <1>2, <2>1, <2>2, <2>3
<1>5. /\ dir # <<".", "/">> => dir \o name = known /\ Last(dir) \in Slashes
      /\ ToSet(name) \cap Slashes = {}
  BY <1>4, DirectoryOf
<1> QED BY <1>3, <1>4, <1>5 DEF known

-----------------------------------------------------------------------------
(***************************************************************************)
(* Files.                                                                  *)
(***************************************************************************)

\* A set of numbers has a least one.
LEMMA LeastNumber ==
  ASSUME NEW T \in SUBSET Nat, T # {}
  PROVE  Min(T) \in T /\ \A i \in T : Min(T) <= i
<1> DEFINE less == OpToRel(<, Nat)
<1> HIDE DEF less
<1>1. IsWellFoundedOn(less, Nat)
  BY NatLessThanWellFounded DEF less
<1>2. PICK m \in T : \A i \in T : ~(<<i, m>> \in less)
  BY <1>1, WFMin
<1>3. ASSUME NEW i \in T PROVE m <= i
  <2> SUFFICES ASSUME ~(m <= i) PROVE FALSE
    OBVIOUS
  <2>1. i \in Nat /\ m \in Nat /\ i < m
    OBVIOUS
  <2>2. <<i, m>> \in less
    BY <2>1 DEF OpToRel, less
  <2> QED BY <1>2, <2>2
<1>4. \E x \in T : \A y \in T : x <= y
  BY <1>3
<1> QED BY <1>4 DEF Min

\* FindFrom is the first place of a character at i or after it, or else one past
\* the end.
LEMMA FirstFound ==
  ASSUME NEW s, Len(s) \in Nat, NEW c, NEW i \in Nat
  PROVE  LET found == FindFrom(s, c, i)
         IN  /\ (found \in i..Len(s) /\ s[found] = c) \/ found = Len(s) + 1
             /\ \A k \in i..Len(s) : k < found => s[k] # c
<1> DEFINE Places == {k \in i..Len(s) : s[k] = c}
           found == FindFrom(s, c, i)
<1>1. CASE Places = {}
  <2>1. found = Len(s) + 1
    BY <1>1 DEF FindFrom
  <2> QED BY <1>1, <2>1
<1>2. CASE Places # {}
  <2>1. found = Min(Places)
    BY <1>2 DEF FindFrom
  <2>2. Places \in SUBSET Nat
    OBVIOUS
  <2> HIDE DEF Places, found
  <2>3. found \in Places /\ \A k \in Places : found <= k
    BY <1>2, <2>1, <2>2, LeastNumber
  <2>4. \A k \in i..Len(s) : k < found => s[k] # c
    <3> SUFFICES ASSUME NEW k \in i..Len(s), k < found, s[k] = c PROVE FALSE
      OBVIOUS
    <3>1. k \in Places /\ found \in Int /\ k \in Int
      BY <2>3 DEF Places
    <3> QED BY <2>3, <3>1
  <2> QED BY <2>3, <2>4 DEF Places, found
<1> QED BY <1>1, <1>2

\* The text of a path from one place to another is text.
LEMMA Sliced ==
  ASSUME NEW C, NEW s \in Seq(C), NEW i \in 1..Len(s) + 1, NEW j \in i..Len(s) + 1
  PROVE  /\ Slice(s, i, j) \in Seq(C) /\ Len(Slice(s, i, j)) = j - i
         /\ \A k \in 1..j - i : Slice(s, i, j)[k] = s[i + k - 1]
<1>1. \A k \in i..j - 1 : s[k] \in C
  OBVIOUS
<1>2. i \in Int /\ j - 1 \in Int /\ j \in Int
  OBVIOUS
<1>3. /\ Slice(s, i, j) \in Seq(C)
      /\ Len(Slice(s, i, j)) = IF i <= j - 1 THEN (j - 1) - i + 1 ELSE 0
      /\ \A k \in 1..(j - 1) - i + 1 : Slice(s, i, j)[k] = s[i + k - 1]
  BY <1>1, <1>2, SubSeqProperties DEF Slice
<1>4. (j - 1) - i + 1 = j - i
  BY <1>2
<1> QED BY <1>2, <1>3, <1>4

\* The components of a path are texts, found one after the other.
LEMMA ComponentsFrom ==
  ASSUME NEW C, NEW path \in Seq(C)
  PROVE  \E from \in [1..Len(path) + 1 -> Seq(Seq(C))] :
           /\ \A i \in 1..Len(path) + 1 :
                from[i] = LET end == FindFrom(path, Separator, i)
                          IN  IF i > Len(path) THEN << >>
                              ELSE IF end = i THEN from[i + 1]
                              ELSE <<Slice(path, i, end)>> \o from[end]
           /\ Components(path) = from[1]
<1> DEFINE N == Len(path)
           I == 1..N + 1
           S == Seq(Seq(C))
           end(i) == FindFrom(path, Separator, i)
           value(f, i) == IF i > N THEN << >>
                          ELSE IF end(i) = i THEN f[i + 1]
                          ELSE <<Slice(path, i, end(i))>> \o f[end(i)]
           chosen == CHOOSE f : f = [i \in I |-> value(f, i)]
           F == [p \in I \X [I -> S] |-> value(p[2], p[1])]
           rank == [i \in I |-> N + 1 - i]
<1>1. N \in Nat /\ rank \in [I -> 0..N] /\ rank \in [I -> Nat] /\ << >> \in S
  OBVIOUS
<1>2. ASSUME NEW i \in I, ~(i > N)
      PROVE  end(i) \in i..N + 1 /\ i + 1 \in I
  BY <1>1, <1>2, FirstFound
<1>3. ASSUME NEW i \in I, ~(i > N), NEW rest0 \in S
      PROVE  <<Slice(path, i, end(i))>> \o rest0 \in S
  <2>1. Slice(path, i, end(i)) \in Seq(C)
    BY <1>2, <1>3, Sliced
  <2> HIDE DEF end
  <2> QED BY <2>1
<1>4. ASSUME NEW i \in I, NEW g, \A j \in I : rank[j] < rank[i] => g[j] \in S
      PROVE  value(g, i) \in S
  <2>1. CASE i > N
    BY <1>1, <2>1
  <2>2. CASE ~(i > N)
    <3>1. end(i) \in i..N + 1 /\ i + 1 \in I /\ rank[i + 1] < rank[i]
      BY <1>2, <2>2
    <3>2. end(i) # i => end(i) \in I /\ rank[end(i)] < rank[i]
      <4> HIDE DEF end
      <4> QED BY <3>1
    <3> HIDE DEF end, S, I, rank
    <3> QED BY <1>3, <1>4, <2>2, <3>1, <3>2
  <2> QED BY <2>1, <2>2
<1>5. ASSUME NEW i \in I, NEW g, NEW h, \A j \in I : rank[j] < rank[i] => g[j] = h[j]
      PROVE  value(g, i) = value(h, i)
  <2>1. CASE i > N
    BY <2>1
  <2>2. CASE ~(i > N)
    <3>1. end(i) \in i..N + 1 /\ i + 1 \in I /\ rank[i + 1] < rank[i]
      BY <1>2, <2>2
    <3>2. end(i) # i => end(i) \in I /\ rank[end(i)] < rank[i]
      <4> HIDE DEF end
      <4> QED BY <3>1
    <3> HIDE DEF end, S, I, rank
    <3> QED BY <1>5, <2>2, <3>1, <3>2
  <2> QED BY <2>1, <2>2
<1> HIDE DEF value, rank
<1>6. F \in [I \X [I -> S] -> S]
  <2>1. ASSUME NEW i \in I, NEW g \in [I -> S] PROVE value(g, i) \in S
    BY <1>4
  <2> HIDE DEF I, S
  <2> QED BY <2>1
<1>7. ASSUME NEW i \in I, NEW g \in [I -> S]
      PROVE  F[<<i, g>>] = value(g, i)
  <2> HIDE DEF I, S
  <2> QED OBVIOUS
<1> HIDE DEF F, I, S
<1>8. PICK g \in [I -> S] : Solves(g, F, I)
  <2>1. FromBelow(F, I, rank, S)
    BY <1>5, <1>7 DEF FromBelow
  <2> QED BY <1>1, <1>6, <2>1, RankRecursion
<1>9. g = [i \in I |-> value(g, i)]
  BY <1>7, <1>8 DEF Solves
<1>10. chosen = [i \in I |-> value(chosen, i)]
  BY <1>9
<1> HIDE DEF chosen
<1>11. chosen \in [I -> S]
  <2> DEFINE Q == {i \in I : chosen[i] \in S}
  <2>1. Hereditary(Q, I, rank)
    <3> SUFFICES ASSUME NEW i \in I, \A j \in I : rank[j] < rank[i] => j \in Q
        PROVE  chosen[i] \in S
      BY DEF Hereditary
    <3> QED BY <1>4, <1>10
  <2>2. Q = I
    <3>1. Q \subseteq I
      OBVIOUS
    <3> HIDE DEF Q
    <3> QED BY <1>1, <2>1, <3>1, RankInduction
  <2> QED BY <1>10, <2>2
<1>12. \A i \in I : chosen[i] = value(chosen, i)
  BY <1>10
<1>13. Components(path) = chosen[1]
  BY DEF Components, chosen, value, I, end
<1> QED BY <1>11, <1>12, <1>13 DEF I, S, value, end

\* What holds at 0 and is handed on from each number to the next holds up to N.
LEMMA StepInduction ==
  ASSUME NEW N \in Nat, NEW Q \in SUBSET (0..N), 0 \in Q,
         \A n \in 1..N : n - 1 \in Q => n \in Q
  PROVE  Q = 0..N
<1> DEFINE T == {n \in Nat : n <= N => n \in Q}
<1>1. 0 \in T
  OBVIOUS
<1>2. ASSUME NEW n \in T PROVE n + 1 \in T
  <2>1. ASSUME n + 1 <= N PROVE n + 1 \in Q
    <3>1. n \in Q /\ n + 1 \in 1..N /\ (n + 1) - 1 = n
      BY <2>1
    <3> QED BY <3>1
  <2> QED BY <2>1
<1>3. T = Nat
  <2>1. T \subseteq Nat
    OBVIOUS
  <2> HIDE DEF T
  <2> QED BY <1>1, <1>2, <2>1, Induction
<1>4. \A n \in 0..N : n \in T => n \in Q
  OBVIOUS
<1>5. \A n \in 0..N : n \in T
  <2> HIDE DEF T
  <2> QED BY <1>3
<1> QED BY <1>4, <1>5

\* f begins with a and goes from each value to the one that next makes of it.
Goes(f, a, next, N) == f[0] = a /\ \A n \in 1..N : f[n] = next[<<n, f[n - 1]>>]

\* There is a function that begins with a and goes from each value to the next.
LEMMA StepRecursion ==
  ASSUME NEW N \in Nat, NEW S, NEW a \in S, NEW next \in [(1..N) \X S -> S]
  PROVE  \E f \in [0..N -> S] : Goes(f, a, next, N)
<1> DEFINE I == 0..N
           rank == [n \in I |-> n]
           F == [p \in I \X [I -> S] |->
                   IF p[1] = 0 THEN a ELSE next[<<p[1], p[2][p[1] - 1]>>]]
<1>1. rank \in [I -> 0..N]
  OBVIOUS
<1>2. ASSUME NEW n \in I, NEW g \in [I -> S]
      PROVE  F[<<n, g>>] = IF n = 0 THEN a ELSE next[<<n, g[n - 1]>>]
  <2> HIDE DEF I
  <2> QED OBVIOUS
<1>3. ASSUME NEW n \in I, n # 0 PROVE n \in 1..N /\ n - 1 \in I /\ rank[n - 1] < rank[n]
  BY <1>3
<1>4. F \in [I \X [I -> S] -> S]
  <2>1. ASSUME NEW n \in I, NEW g \in [I -> S]
        PROVE  (IF n = 0 THEN a ELSE next[<<n, g[n - 1]>>]) \in S
    <3> HIDE DEF I
    <3> QED BY <1>3
  <2> HIDE DEF I
  <2> QED BY <2>1
<1> HIDE DEF F
<1>5. FromBelow(F, I, rank, S)
  <2> SUFFICES ASSUME NEW n \in I, NEW g \in [I -> S], NEW h \in [I -> S],
                      \A j \in I : rank[j] < rank[n] => g[j] = h[j]
      PROVE  F[<<n, g>>] = F[<<n, h>>]
    BY DEF FromBelow
  <2>1. n # 0 => g[n - 1] = h[n - 1]
    <3> HIDE DEF I, rank
    <3> QED BY <1>3
  <2> HIDE DEF I
  <2> QED BY <1>2, <2>1
<1>6. PICK f \in [I -> S] : Solves(f, F, I)
  <2> HIDE DEF I, rank
  <2> QED BY <1>1, <1>4, <1>5, RankRecursion
<1>7. \A n \in I : f[n] = IF n = 0 THEN a ELSE next[<<n, f[n - 1]>>]
  BY <1>2, <1>6 DEF Solves
<1>8. 0 \in I /\ \A n \in 1..N : n \in I /\ n # 0
  OBVIOUS
<1> QED BY <1>7, <1>8 DEF Goes

\* Levels goes from each component to the next.
LEMMA LevelsFrom ==
  ASSUME NEW C, NEW c \in Seq(Seq(C))
  PROVE  /\ Levels(c)[0] = 0
         /\ \A n \in 1..Len(c) :
              Levels(c)[n] = CASE c[n] = Here -> Levels(c)[n - 1]
                               [] c[n] = Up   -> Levels(c)[n - 1] - 1
                               [] OTHER       -> Levels(c)[n - 1] + 1
         /\ Levels(c) \in [0..Len(c) -> Int]
<1> DEFINE N == Len(c)
           I == 0..N
           on(n, x) == CASE c[n] = Here -> x [] c[n] = Up -> x - 1 [] OTHER -> x + 1
           value(f, n) == IF n = 0 THEN 0 ELSE on(n, f[n - 1])
           next == [p \in (1..N) \X Int |-> on(p[1], p[2])]
           chosen == CHOOSE f : f = [n \in I |-> value(f, n)]
<1>1. N \in Nat /\ 0 \in Int /\ \A n \in I : n # 0 => n \in 1..N
  OBVIOUS
<1>2. ASSUME NEW n \in 1..N, NEW x \in Int PROVE on(n, x) \in Int
  OBVIOUS
<1>3. next \in [(1..N) \X Int -> Int]
  BY <1>2
<1>4. ASSUME NEW n \in 1..N, NEW x \in Int PROVE next[<<n, x>>] = on(n, x)
  OBVIOUS
<1> HIDE DEF next
<1>5. PICK f \in [0..N -> Int] : Goes(f, 0, next, N)
  <2> DEFINE S == Int
  <2>1. N \in Nat /\ 0 \in S /\ next \in [(1..N) \X S -> S]
    BY <1>1, <1>3
  <2> HIDE DEF S, N
  <2>2. \E f \in [0..N -> S] : Goes(f, 0, next, N)
    BY <2>1, StepRecursion
  <2> QED BY <2>2 DEF S
<1>6. ASSUME NEW n \in 1..N PROVE n - 1 \in 0..N
  OBVIOUS
<1> HIDE DEF on
<1>7. f = [n \in I |-> value(f, n)]
  <2>1. \A n \in 1..N : f[n] = on(n, f[n - 1])
    BY <1>4, <1>5, <1>6 DEF Goes
  <2>2. \A n \in I : f[n] = value(f, n)
    BY <1>1, <1>5, <2>1 DEF Goes
  <2> QED BY <2>2
<1> HIDE DEF value
<1>8. chosen = [n \in I |-> value(chosen, n)]
  BY <1>7
<1>9. Levels(c) = chosen
  BY DEF Levels, chosen, value, on, I
<1> HIDE DEF chosen
<1>10. chosen[0] = 0 /\ \A n \in 1..N : chosen[n] = on(n, chosen[n - 1])
  <2>1. \A n \in 1..N : n \in I /\ n # 0
    OBVIOUS
  <2>2. 0 \in I
    OBVIOUS
  <2> HIDE DEF I
  <2> QED BY <1>8, <2>1, <2>2 DEF value
<1>11. chosen \in [I -> Int]
  <2> DEFINE Q == {n \in I : chosen[n] \in Int}
  <2>1. \A n \in 1..N : n - 1 \in Q => n \in Q
    <3>1. \A n \in 1..N : n \in I
      OBVIOUS
    <3> HIDE DEF I
    <3> QED BY <1>2, <1>10, <3>1
  <2>2. 0 \in Q /\ Q \in SUBSET (0..N)
    BY <1>10
  <2> HIDE DEF Q
  <2>3. Q = I
    BY <1>1, <2>1, <2>2, StepInduction
  <2> QED BY <1>8, <2>3 DEF Q
<1> QED BY <1>9, <1>10, <1>11 DEF on

\* Walk goes from each component to the next, from directory to directory.
LEMMA WalkFrom ==
  ASSUME NEW C, NEW c \in Seq(Seq(C)), NEW E, Seq(C) \subseteq E, NEW dir \in Seq(E)
  PROVE  /\ Walk(dir, c)[0] = dir
         /\ \A n \in 1..Len(c) :
              Walk(dir, c)[n] =
                CASE c[n] = Here -> Walk(dir, c)[n - 1]
                  [] c[n] = Up   -> IF Walk(dir, c)[n - 1] = << >> THEN << >>
                                    ELSE Front(Walk(dir, c)[n - 1])
                  [] OTHER       -> Append(Walk(dir, c)[n - 1], c[n])
         /\ \A n \in 0..Len(c) : Walk(dir, c)[n] \in Seq(E)
<1> DEFINE N == Len(c)
           I == 0..N
           on(n, x) == CASE c[n] = Here -> x
                         [] c[n] = Up   -> IF x = << >> THEN << >> ELSE Front(x)
                         [] OTHER       -> Append(x, c[n])
           value(f, n) == IF n = 0 THEN dir ELSE on(n, f[n - 1])
           next == [p \in (1..N) \X Seq(E) |-> on(p[1], p[2])]
           chosen == CHOOSE f : f = [n \in I |-> value(f, n)]
<1>1. N \in Nat /\ \A n \in I : n # 0 => n \in 1..N
  OBVIOUS
<1>2. ASSUME NEW n \in 1..N, NEW x \in Seq(E) PROVE on(n, x) \in Seq(E)
  <2>1. c[n] \in E
    <3>1. c[n] \in Seq(C)
      OBVIOUS
    <3> QED BY <3>1
  <2>2. Append(x, c[n]) \in Seq(E)
    BY <2>1
  <2>3. x # << >> => Front(x) \in Seq(E)
    <3> SUFFICES ASSUME x # << >> PROVE SubSeq(x, 1, Len(x) - 1) \in Seq(E)
      BY DEF Front
    <3>1. Len(x) \in Nat /\ Len(x) # 0 /\ \A k \in 1..Len(x) - 1 : x[k] \in E
      OBVIOUS
    <3> QED BY <3>1, SubSeqProperties
  <2>4. << >> \in Seq(E)
    OBVIOUS
  <2> QED BY <2>2, <2>3, <2>4
<1>3. next \in [(1..N) \X Seq(E) -> Seq(E)]
  <2> HIDE DEF on
  <2> QED BY <1>2
<1>4. ASSUME NEW n \in 1..N, NEW x \in Seq(E) PROVE next[<<n, x>>] = on(n, x)
  <2> HIDE DEF on
  <2> QED OBVIOUS
<1> HIDE DEF next, on
<1>5. PICK f \in [0..N -> Seq(E)] : Goes(f, dir, next, N)
  <2> DEFINE S == Seq(E)
  <2>1. N \in Nat /\ dir \in S /\ next \in [(1..N) \X S -> S]
    BY <1>1, <1>3
  <2> HIDE DEF S, N
  <2>2. \E f \in [0..N -> S] : Goes(f, dir, next, N)
    BY <2>1, StepRecursion
  <2> QED BY <2>2 DEF S
<1>6. ASSUME NEW n \in 1..N PROVE n - 1 \in 0..N
  OBVIOUS
<1>7. f = [n \in I |-> value(f, n)]
  <2>1. \A n \in 1..N : f[n] = on(n, f[n - 1])
    BY <1>4, <1>5, <1>6 DEF Goes
  <2>2. \A n \in I : f[n] = value(f, n)
    BY <1>1, <1>5, <2>1 DEF Goes
  <2> QED BY <2>2
<1> HIDE DEF value
<1>8. chosen = [n \in I |-> value(chosen, n)]
  BY <1>7
<1>9. Walk(dir, c) = chosen
  BY DEF Walk, chosen, value, on, I
<1> HIDE DEF chosen
<1>10. chosen[0] = dir /\ \A n \in 1..N : chosen[n] = on(n, chosen[n - 1])
  <2>1. \A n \in 1..N : n \in I /\ n # 0
    OBVIOUS
  <2>2. 0 \in I
    OBVIOUS
  <2> HIDE DEF I
  <2> QED BY <1>8, <2>1, <2>2 DEF value
<1>11. \A n \in I : chosen[n] \in Seq(E)
  <2> DEFINE Q == {n \in I : chosen[n] \in Seq(E)}
  <2>1. \A n \in 1..N : n - 1 \in Q => n \in Q
    BY <1>2, <1>10
  <2>2. 0 \in Q /\ Q \in SUBSET (0..N)
    BY <1>10
  <2> HIDE DEF Q
  <2>3. Q = I
    BY <1>1, <2>1, <2>2, StepInduction
  <2> QED BY <2>3 DEF Q
<1> QED BY <1>9, <1>10, <1>11 DEF on

\* A directory is the beginning of itself, of what is appended to it, and of what
\* is left of a longer one that it begins when that loses its last name.
LEMMA Beginnings ==
  ASSUME NEW E, NEW dir \in Seq(E), NEW s \in Seq(E)
  PROVE  /\ IsPrefix(dir, dir)
         /\ IsPrefix(dir, s) => \A e \in E : IsPrefix(dir, Append(s, e))
         /\ IsPrefix(dir, s) /\ Len(s) > Len(dir) => IsPrefix(dir, Front(s))
<1> DEFINE m == Len(dir)
           Begins(t) == Len(t) >= m /\ \A k \in 1..m : t[k] = dir[k]
<1>1. m \in Nat /\ Len(s) \in Nat
  OBVIOUS
<1>2. ASSUME NEW t \in Seq(E) PROVE IsPrefix(dir, t) <=> Begins(t)
  <2>1. Len(t) \in Nat
    OBVIOUS
  <2>2. ASSUME m <= Len(t) PROVE (dir = SubSeq(t, 1, m)) <=> \A k \in 1..m : t[k] = dir[k]
    <3>1. SubSeq(t, 1, m) \in Seq(E) /\ Len(SubSeq(t, 1, m)) = m
          /\ \A k \in 1..m : SubSeq(t, 1, m)[k] = t[k]
      BY <1>1, <2>1, <2>2
    <3>2. \A u, v \in Seq(E) : Len(u) = Len(v) /\ (\A i \in 1..Len(u) : u[i] = v[i]) => u = v
      BY SMTT(30)
    <3> QED BY <3>1, <3>2
  <2>3. dir = SubSeq(dir, 1, m)
    OBVIOUS
  <2> QED BY <1>1, <2>1, <2>2, <2>3 DEF IsPrefix
<1>3. Begins(dir)
  BY <1>1
<1>4. ASSUME Begins(s), NEW e \in E PROVE Append(s, e) \in Seq(E) /\ Begins(Append(s, e))
  BY <1>1, <1>4
<1>5. ASSUME Begins(s), Len(s) > m PROVE Front(s) \in Seq(E) /\ Begins(Front(s))
  <2> DEFINE n == Len(s) - 1
  <2>1. n \in Nat /\ m <= n /\ n <= Len(s)
    BY <1>1, <1>5
  <2> HIDE DEF n
  <2>2. SubSeq(s, 1, n) \in Seq(E) /\ Len(SubSeq(s, 1, n)) = n
        /\ \A k \in 1..n : SubSeq(s, 1, n)[k] = s[k]
    BY <2>1
  <2>3. Front(s) = SubSeq(s, 1, n)
    BY DEF Front, n
  <2> QED BY <1>1, <1>5, <2>1, <2>2, <2>3
<1> HIDE DEF Begins
<1> QED BY <1>2, <1>3, <1>4, <1>5

\* Of any path that is below a directory and valid, no component leads out of it:
\* the walk is at least as deep below the directory as the level says.
THEOREM MountedFilesStayInside ==
  ASSUME NEW C, Separator \in C, NEW path \in Seq(C), NEW E, Seq(C) \subseteq E, NEW mounts,
         \A i \in DOMAIN mounts : mounts[i].point \in Seq(C) /\ mounts[i].dir \in Seq(E)
  PROVE  FilesStayInside(mounts, path)
<1> SUFFICES ASSUME NEW i \in DOMAIN mounts, Mounted(mounts, i, path)
    PROVE  LET c == Components(SubPath(mounts[i].point, path))
           IN  \A n \in 0..Len(c) : IsPrefix(mounts[i].dir, Walk(mounts[i].dir, c)[n])
  BY DEF FilesStayInside
<1> DEFINE point == mounts[i].point
           dir   == mounts[i].dir
           below == SubPath(point, path)
           c     == Components(below)
           N     == Len(c)
           walk  == Walk(dir, c)
           level == Levels(c)
<1>1. point \in Seq(C) /\ dir \in Seq(E)
  OBVIOUS
<1> HIDE DEF point, dir
<1>2. below \in Seq(C)
  <2>1. IsPrefix(point, path)
    BY DEF Mounted, point
  <2>2. Len(point) \in Nat /\ Len(path) \in Nat /\ \A k \in 1..Len(path) : path[k] \in C
    BY <1>1
  <2>3. SubSeq(path, Len(point) + 1, Len(path)) \in Seq(C)
    <3> DEFINE first == Len(point) + 1
    <3>1. first \in Int /\ Len(path) \in Int /\ \A k \in first..Len(path) : path[k] \in C
      BY <2>2
    <3> HIDE DEF first
    <3> QED BY <3>1, SubSeqProperties DEF first
  <2> QED BY <2>3 DEF SubPath
<1> HIDE DEF below
<1>3. c \in Seq(Seq(C))
  <2>1. PICK from \in [1..Len(below) + 1 -> Seq(Seq(C))] : c = from[1]
    BY <1>2, ComponentsFrom
  <2>2. 1 \in 1..Len(below) + 1
    BY <1>2
  <2> QED BY <2>1, <2>2
<1>4. \A n \in 0..N : level[n] >= 0
  BY DEF Mounted, IsValidPath, below, point
<1> HIDE DEF c
<1>5. /\ level[0] = 0
      /\ \A n \in 1..N : level[n] = CASE c[n] = Here -> level[n - 1]
                                        [] c[n] = Up   -> level[n - 1] - 1
                                        [] OTHER       -> level[n - 1] + 1
      /\ level \in [0..N -> Int]
  BY <1>3, LevelsFrom
<1>6. /\ walk[0] = dir
      /\ \A n \in 1..N : walk[n] = CASE c[n] = Here -> walk[n - 1]
                                       [] c[n] = Up   -> IF walk[n - 1] = << >> THEN << >>
                                                         ELSE Front(walk[n - 1])
                                       [] OTHER       -> Append(walk[n - 1], c[n])
      /\ \A n \in 0..N : walk[n] \in Seq(E)
  BY <1>1, <1>3, WalkFrom
<1> HIDE DEF walk, level
<1> DEFINE Q == {n \in 0..N : IsPrefix(dir, walk[n]) /\ Len(walk[n]) >= Len(dir) + level[n]}
<1>7. 0 \in Q /\ N \in Nat
  <2>1. IsPrefix(dir, dir) /\ N \in Nat /\ Len(dir) \in Nat
    BY <1>1, <1>3, Beginnings
  <2> QED BY <1>5, <1>6, <2>1
<1>8. ASSUME NEW n \in 1..N, n - 1 \in Q PROVE n \in Q
  <2> DEFINE s == walk[n - 1]
             t == walk[n]
  <2>1. s \in Seq(E) /\ t \in Seq(E) /\ n \in 0..N /\ n - 1 \in 0..N
    BY <1>6, <1>7
  <2>2. IsPrefix(dir, s) /\ Len(s) >= Len(dir) + level[n - 1]
    BY <1>8
  <2>3. level[n - 1] \in Int /\ level[n] \in Int /\ level[n] >= 0
    BY <1>4, <1>5, <2>1
  <2>4. Len(s) \in Nat /\ Len(dir) \in Nat
    BY <1>1, <2>1
  <2>5. IsPrefix(dir, t) /\ Len(t) >= Len(dir) + level[n]
    <3>1. CASE c[n] = Here
      <4>1. t = s /\ level[n] = level[n - 1]
        <5>1. Up # Here
          BY DEF Up, Here
        <5> QED BY <1>5, <1>6, <3>1, <5>1
      <4> QED BY <2>2, <4>1
    <3>2. CASE c[n] = Up
      <4>1. Up # Here
        BY DEF Up, Here
      <4>2. level[n] = level[n - 1] - 1
        BY <1>5, <3>2, <4>1
      <4>3. Len(s) > Len(dir) /\ s # << >>
        <5>1. Len(s) > Len(dir)
          BY <2>2, <2>3, <2>4, <4>2
        <5> QED BY <2>4, <5>1
      <4>4. t = Front(s)
        BY <1>6, <3>2, <4>1, <4>3
      <4>5. IsPrefix(dir, Front(s))
        BY <1>1, <2>1, <2>2, <4>3, Beginnings
      <4>6. Len(Front(s)) = Len(s) - 1
        <5>1. Len(s) - 1 \in Nat /\ Len(s) - 1 <= Len(s)
          BY <2>4, <4>3
        <5> QED BY <2>1, <5>1 DEF Front
      <4> QED BY SMTT(30), <2>2, <2>3, <2>4, <4>2, <4>4, <4>5, <4>6
    <3>3. CASE c[n] # Here /\ c[n] # Up
      <4>1. t = Append(s, c[n]) /\ level[n] = level[n - 1] + 1
        BY <1>5, <1>6, <3>3
      <4>2. c[n] \in E
        <5>1. c[n] \in Seq(C)
          BY <1>3
        <5> QED BY <5>1
      <4>3. IsPrefix(dir, Append(s, c[n])) /\ Len(Append(s, c[n])) = Len(s) + 1
        <5>1. IsPrefix(dir, Append(s, c[n]))
          BY <1>1, <2>1, <2>2, <4>2, Beginnings
        <5> QED BY <2>1, <4>2, <5>1
      <4> QED BY SMTT(30), <2>2, <2>3, <2>4, <4>1, <4>3
    <3> QED BY <3>1, <3>2, <3>3
  <2> QED BY <2>1, <2>5
<1>9. Q = 0..N
  <2>1. Q \in SUBSET (0..N)
    OBVIOUS
  <2> HIDE DEF Q, N
  <2> QED BY <1>7, <1>8, <2>1, StepInduction
<1>10. \A n \in 0..N : IsPrefix(dir, walk[n])
  BY <1>9
<1> QED BY <1>10 DEF dir, walk, c, below, point

-----------------------------------------------------------------------------
(***************************************************************************)
(* Texts: what is found and cut in a text whose beginning is another.      *)
(***************************************************************************)

\* Texts of the same length with the same characters are the same.
LEMMA SameText ==
  ASSUME NEW C, NEW s \in Seq(C), NEW t \in Seq(C), Len(s) = Len(t),
         \A k \in 1..Len(s) : s[k] = t[k]
  PROVE  s = t
OBVIOUS

\* Two texts, one after the other.
LEMMA Joined ==
  ASSUME NEW C, NEW x \in Seq(C), NEW y \in Seq(C)
  PROVE  /\ x \o y \in Seq(C) /\ Len(x) \in Nat /\ Len(y) \in Nat
         /\ Len(x \o y) = Len(x) + Len(y)
         /\ \A k \in 1..Len(x) : (x \o y)[k] = x[k]
         /\ \A k \in 1..Len(y) : (x \o y)[Len(x) + k] = y[k]
OBVIOUS

\* What is found is what comes first.
LEMMA FoundAt ==
  ASSUME NEW s, Len(s) \in Nat, NEW c, NEW i \in Nat, NEW f \in i..Len(s) + 1,
         f = Len(s) + 1 \/ s[f] = c, \A k \in i..Len(s) : k < f => s[k] # c
  PROVE  FindFrom(s, c, i) = f
<1> DEFINE g == FindFrom(s, c, i)
<1>1. /\ (g \in i..Len(s) /\ s[g] = c) \/ g = Len(s) + 1
      /\ \A k \in i..Len(s) : k < g => s[k] # c
  BY FirstFound
<1> HIDE DEF g
<1>2. g \in Int /\ f \in Int
  BY <1>1
<1>3. ~(g < f)
  BY <1>1, <1>2
<1>4. ~(f < g)
  BY <1>1, <1>2
<1> QED BY <1>2, <1>3, <1>4 DEF g

\* Behind another text, the same is found.
LEMMA FoundLater ==
  ASSUME NEW C, NEW x \in Seq(C), NEW y \in Seq(C), NEW c, NEW i \in 1..Len(y) + 1
  PROVE  FindFrom(x \o y, c, Len(x) + i) = Len(x) + FindFrom(y, c, i)
<1> DEFINE s == x \o y
           m == Len(x)
           n == Len(y)
           g == FindFrom(y, c, i)
<1>1. m \in Nat /\ n \in Nat /\ Len(s) = m + n /\ \A k \in 1..n : s[m + k] = y[k]
  BY Joined
<1>2. /\ (g \in i..n /\ y[g] = c) \/ g = n + 1
      /\ \A k \in i..n : k < g => y[k] # c
  BY <1>1, FirstFound
<1> HIDE DEF s, m, n, g
<1>3. m + g \in m + i..Len(s) + 1 /\ m + i \in Nat
  BY <1>1, <1>2 DEF n
<1>4. m + g = Len(s) + 1 \/ s[m + g] = c
  <2>1. CASE g = n + 1
    BY <1>1, <2>1
  <2>2. CASE g \in i..n /\ y[g] = c
    <3>1. g \in 1..n
      BY <1>1, <2>2 DEF n
    <3> QED BY <1>1, <2>2, <3>1
  <2> QED BY <1>2, <2>1, <2>2
<1>5. ASSUME NEW k \in m + i..Len(s), k < m + g PROVE s[k] # c
  <2>1. k - m \in i..n /\ k - m \in 1..n /\ k - m < g /\ m + (k - m) = k
    BY <1>1, <1>2, <1>5 DEF n
  <2> QED BY <1>1, <1>2, <2>1
<1>6. Len(s) \in Nat
  BY <1>1
<1>7. FindFrom(s, c, m + i) = m + g
  BY <1>3, <1>4, <1>5, <1>6, FoundAt
<1> QED BY <1>7 DEF s, m, g

\* Behind another text, the same is cut out.
LEMMA SlicedLater ==
  ASSUME NEW C, NEW x \in Seq(C), NEW y \in Seq(C),
         NEW i \in 1..Len(y) + 1, NEW j \in i..Len(y) + 1
  PROVE  Slice(x \o y, Len(x) + i, Len(x) + j) = Slice(y, i, j)
<1> DEFINE s == x \o y
           m == Len(x)
           n == Len(y)
           a == Slice(s, m + i, m + j)
           b == Slice(y, i, j)
<1>1. s \in Seq(C) /\ m \in Nat /\ n \in Nat /\ Len(s) = m + n /\ \A k \in 1..n : s[m + k] = y[k]
  BY Joined
<1>2. b \in Seq(C) /\ Len(b) = j - i /\ \A k \in 1..j - i : b[k] = y[i + k - 1]
  BY Sliced
<1> HIDE DEF s, m, n, b
<1>3. m + i \in 1..Len(s) + 1 /\ m + j \in m + i..Len(s) + 1 /\ (m + j) - (m + i) = j - i
  BY <1>1 DEF n
<1>4. /\ a \in Seq(C) /\ Len(a) = j - i
      /\ \A k \in 1..j - i : a[k] = s[(m + i) + k - 1]
  <2> DEFINE first == m + i
             last  == m + j
  <2>1. first \in 1..Len(s) + 1 /\ last \in first..Len(s) + 1 /\ last - first = j - i
    BY <1>3
  <2>2. s \in Seq(C)
    BY <1>1
  <2> HIDE DEF first, last
  <2>3. /\ Slice(s, first, last) \in Seq(C) /\ Len(Slice(s, first, last)) = last - first
        /\ \A k \in 1..last - first : Slice(s, first, last)[k] = s[first + k - 1]
    BY <2>1, <2>2, Sliced
  <2>4. /\ Slice(s, first, last) \in Seq(C) /\ Len(Slice(s, first, last)) = j - i
        /\ \A k \in 1..j - i : Slice(s, first, last)[k] = s[first + k - 1]
    BY <2>1, <2>3
  <2> QED BY <2>4 DEF first, last
<1> HIDE DEF a
<1>5. ASSUME NEW k \in 1..j - i PROVE a[k] = b[k]
  <2>1. i + k - 1 \in 1..n /\ (m + i) + k - 1 = m + (i + k - 1)
    BY SMTT(30), <1>1 DEF n
  <2> QED BY <1>1, <1>2, <1>4, <2>1
<1> QED BY <1>2, <1>4, <1>5, SameText DEF s, m, a, b

\* The text in front is cut out as it is.
LEMMA SlicedFirst ==
  ASSUME NEW C, NEW x \in Seq(C), NEW y \in Seq(C)
  PROVE  Slice(x \o y, 1, Len(x) + 1) = x
<1> DEFINE s == x \o y
           m == Len(x)
           a == Slice(s, 1, m + 1)
<1>1. /\ s \in Seq(C) /\ m \in Nat /\ Len(s) >= m
      /\ \A k \in 1..m : s[k] = x[k]
  BY Joined
<1> HIDE DEF s, m
<1>2. 1 \in 1..Len(s) + 1 /\ m + 1 \in 1..Len(s) + 1 /\ (m + 1) - 1 = m
  BY <1>1
<1>3. a \in Seq(C) /\ Len(a) = m /\ \A k \in 1..m : a[k] = s[1 + k - 1]
  <2>1. /\ a \in Seq(C) /\ Len(a) = (m + 1) - 1
        /\ \A k \in 1..(m + 1) - 1 : a[k] = s[1 + k - 1]
    BY <1>1, <1>2, Sliced
  <2> QED BY <1>2, <2>1
<1> HIDE DEF a
<1>4. \A k \in 1..m : a[k] = x[k]
  BY <1>1, <1>3
<1> QED BY <1>3, <1>4, SameText DEF s, m, a

\* What is cut out of a piece, but for its first character.
LEMMA SlicedTwice ==
  ASSUME NEW C, NEW s \in Seq(C), NEW i \in 1..Len(s) + 1, NEW j \in i..Len(s) + 1, i + 1 <= j
  PROVE  Slice(Slice(s, i, j), 2, (j - i) + 1) = Slice(s, i + 1, j)
<1> DEFINE n == Len(s)
           x == Slice(s, i, j)
           m == j - i
           a == Slice(x, 2, m + 1)
           b == Slice(s, i + 1, j)
<1>1. n \in Nat /\ i \in Nat /\ j \in Nat /\ m \in Nat /\ m >= 1 /\ j <= n + 1
  OBVIOUS
<1>2. x \in Seq(C) /\ Len(x) = m /\ \A k \in 1..m : x[k] = s[i + k - 1]
  BY Sliced
<1>3. b \in Seq(C) /\ Len(b) = j - (i + 1) /\ \A k \in 1..j - (i + 1) : b[k] = s[(i + 1) + k - 1]
  <2>1. i + 1 \in 1..Len(s) + 1 /\ j \in i + 1..Len(s) + 1
    BY <1>1
  <2> QED BY <2>1, Sliced
<1> HIDE DEF x, b
<1>4. a \in Seq(C) /\ Len(a) = (m + 1) - 2 /\ \A k \in 1..(m + 1) - 2 : a[k] = x[2 + k - 1]
  <2>1. 2 \in 1..Len(x) + 1 /\ m + 1 \in 2..Len(x) + 1
    <3> HIDE DEF m
    <3> QED BY <1>1, <1>2
  <2> DEFINE lo == 2
             hi == m + 1
  <2>2. lo \in 1..Len(x) + 1 /\ hi \in lo..Len(x) + 1
    BY <2>1
  <2> HIDE DEF lo, hi
  <2>3. /\ Slice(x, lo, hi) \in Seq(C) /\ Len(Slice(x, lo, hi)) = hi - lo
        /\ \A k \in 1..hi - lo : Slice(x, lo, hi)[k] = x[lo + k - 1]
    <3>1. x \in Seq(C)
      BY <1>2
    <3> QED BY ONLY <2>2, <3>1, Sliced
  <2> QED BY <2>3 DEF lo, hi
<1> HIDE DEF a
<1>5. (m + 1) - 2 = j - (i + 1)
  BY <1>1
<1>6. ASSUME NEW k \in 1..j - (i + 1) PROVE a[k] = b[k]
  <2>1. 2 + k - 1 \in 1..m /\ i + (2 + k - 1) - 1 = (i + 1) + k - 1
    BY <1>1
  <2>2. a[k] = x[2 + k - 1]
    BY <1>4, <1>5
  <2>3. x[2 + k - 1] = s[i + (2 + k - 1) - 1]
    <3> HIDE DEF m
    <3> QED BY <1>2, <2>1
  <2> QED BY <1>3, <2>1, <2>2, <2>3
<1>7. Len(a) = Len(b) /\ \A k \in 1..Len(a) : a[k] = b[k]
  BY <1>3, <1>4, <1>5, <1>6
<1>8. a = b
  BY ONLY <1>3, <1>4, <1>7, SameText
<1> QED BY <1>8 DEF a, b, m, x

(***************************************************************************)
(* Recursion over the positions of a text, from its end to its beginning.  *)
(***************************************************************************)

\* f is base past the end, and what join makes of a later value before it.
Unwinds(f, base, next, join, N) ==
  f[N + 1] = base /\ \A i \in 1..N : f[i] = join[<<i, f[next[i]]>>]

\* What holds past the end, and at a position if it does at all later ones, holds.
LEMMA SuffixInduction ==
  ASSUME NEW N \in Nat, NEW Q \in SUBSET (1..N + 1), N + 1 \in Q,
         \A i \in 1..N : (\A j \in 1..N + 1 : i < j => j \in Q) => i \in Q
  PROVE  Q = 1..N + 1
<1> DEFINE I == 1..N + 1
           rank == [i \in I |-> N + 1 - i]
<1>1. rank \in [I -> Nat]
  OBVIOUS
<1>2. Hereditary(Q, I, rank)
  <2> SUFFICES ASSUME NEW i \in I, \A j \in I : rank[j] < rank[i] => j \in Q
      PROVE  i \in Q
    BY DEF Hereditary
  <2>1. CASE i = N + 1
    BY <2>1
  <2>2. CASE i # N + 1
    <3>1. i \in 1..N
      BY <2>2
    <3>2. ASSUME NEW j \in I, i < j PROVE j \in Q
      <4>1. rank[j] < rank[i]
        BY <3>2
      <4> QED BY <4>1
    <3> QED BY <3>1, <3>2
  <2> QED BY <2>1, <2>2
<1> HIDE DEF rank
<1>3. Q \in SUBSET I
  OBVIOUS
<1> HIDE DEF I
<1>4. Q = I
  BY <1>1, <1>2, <1>3, RankInduction
<1> QED BY <1>4 DEF I

\* There is a function that unwinds.
LEMMA SuffixRecursion ==
  ASSUME NEW N \in Nat, NEW S, NEW base \in S, NEW next \in [1..N -> 1..N + 1],
         \A i \in 1..N : i < next[i], NEW join \in [(1..N) \X S -> S]
  PROVE  \E f \in [1..N + 1 -> S] : Unwinds(f, base, next, join, N)
<1> DEFINE I == 1..N + 1
           rank == [i \in I |-> N + 1 - i]
           F == [p \in I \X [I -> S] |->
                   IF p[1] = N + 1 THEN base ELSE join[<<p[1], p[2][next[p[1]]]>>]]
<1>1. rank \in [I -> 0..N]
  OBVIOUS
<1>2. ASSUME NEW i \in I, NEW g \in [I -> S]
      PROVE  F[<<i, g>>] = IF i = N + 1 THEN base ELSE join[<<i, g[next[i]]>>]
  <2> HIDE DEF I
  <2> QED OBVIOUS
<1>3. ASSUME NEW i \in I, i # N + 1
      PROVE  i \in 1..N /\ next[i] \in I /\ rank[next[i]] < rank[i]
  <2>1. i \in 1..N
    BY <1>3
  <2>2. next[i] \in I /\ i < next[i]
    BY <2>1
  <2> QED BY <2>1, <2>2
<1>4. F \in [I \X [I -> S] -> S]
  <2>1. ASSUME NEW i \in I, NEW g \in [I -> S]
        PROVE  (IF i = N + 1 THEN base ELSE join[<<i, g[next[i]]>>]) \in S
    <3> HIDE DEF I
    <3> QED BY <1>3
  <2> HIDE DEF I
  <2> QED BY <2>1
<1> HIDE DEF F
<1>5. FromBelow(F, I, rank, S)
  <2> SUFFICES ASSUME NEW i \in I, NEW g \in [I -> S], NEW h \in [I -> S],
                      \A j \in I : rank[j] < rank[i] => g[j] = h[j]
      PROVE  F[<<i, g>>] = F[<<i, h>>]
    BY DEF FromBelow
  <2>1. i # N + 1 => g[next[i]] = h[next[i]]
    <3> HIDE DEF I, rank
    <3> QED BY <1>3
  <2> HIDE DEF I
  <2>2. /\ F[<<i, g>>] = IF i = N + 1 THEN base ELSE join[<<i, g[next[i]]>>]
        /\ F[<<i, h>>] = IF i = N + 1 THEN base ELSE join[<<i, h[next[i]]>>]
    BY <1>2
  <2> HIDE DEF rank
  <2> QED BY <2>1, <2>2
<1>6. PICK f \in [I -> S] : Solves(f, F, I)
  <2> HIDE DEF I, rank
  <2> QED BY <1>1, <1>4, <1>5, RankRecursion
<1>7. \A i \in I : f[i] = IF i = N + 1 THEN base ELSE join[<<i, f[next[i]]>>]
  BY <1>2, <1>6 DEF Solves
<1>8. N + 1 \in I /\ \A i \in 1..N : i \in I /\ i # N + 1
  OBVIOUS
<1>9. Unwinds(f, base, next, join, N)
  <2> HIDE DEF I
  <2> QED BY <1>7, <1>8 DEF Unwinds
<1> QED BY <1>9

-----------------------------------------------------------------------------
(***************************************************************************)
(* Trimming and splitting.                                                 *)
(***************************************************************************)

\* A trimmed text is a text.
LEMMA TrimTyped ==
  ASSUME NEW C, NEW s \in Seq(C) PROVE Trim(s) \in Seq(C)
<1> DEFINE solid == {i \in DOMAIN s : s[i] \notin Blanks}
<1>1. CASE solid = {}
  <2>1. Trim(s) = << >>
    BY <1>1 DEF Trim
  <2> QED BY <2>1
<1>2. CASE solid # {}
  <2>1. solid \in SUBSET (1..Len(s)) /\ solid \in SUBSET Nat /\ Len(s) \in Nat
    OBVIOUS
  <2>2. Trim(s) = SubSeq(s, Min(solid), Max(solid))
    BY <1>2 DEF Trim
  <2> HIDE DEF solid
  <2>3. Min(solid) \in 1..Len(s) /\ Max(solid) \in 1..Len(s)
    BY <1>2, <2>1, LeastNumber, GreatestNumber
  <2> DEFINE first == Min(solid)
             last  == Max(solid)
  <2>4. first \in Int /\ last \in Int /\ \A k \in first..last : s[k] \in C
    BY <2>1, <2>3
  <2> HIDE DEF first, last
  <2>5. SubSeq(s, first, last) \in Seq(C)
    BY <2>4, SubSeqProperties
  <2> QED BY <2>2, <2>5 DEF first, last
<1> QED BY <1>1, <1>2

\* Blanks in front of a text that begins and ends without one are trimmed off.
LEMMA TrimmedTo ==
  ASSUME NEW C, NEW p \in Seq(C), \A k \in 1..Len(p) : p[k] \in Blanks,
         NEW y \in Seq(C), y # << >>, y[1] \notin Blanks, y[Len(y)] \notin Blanks
  PROVE  Trim(p \o y) = y
<1> DEFINE s == p \o y
           m == Len(p)
           n == Len(y)
           solid == {i \in DOMAIN s : s[i] \notin Blanks}
<1>1. /\ s \in Seq(C) /\ m \in Nat /\ n \in Nat /\ Len(s) = m + n
      /\ \A k \in 1..m : s[k] = p[k]
      /\ \A k \in 1..n : s[m + k] = y[k]
  BY Joined
<1>2. n # 0 /\ DOMAIN s = 1..m + n
  BY <1>1
<1>3. m + 1 \in solid /\ m + n \in solid
  <2>1. 1 \in 1..n /\ n \in 1..n /\ m + 1 \in 1..m + n /\ m + n \in 1..m + n
    BY <1>1, <1>2
  <2>2. s[m + 1] = y[1] /\ s[m + n] = y[n]
    BY <1>1, <2>1
  <2> HIDE DEF s, m
  <2> QED BY <1>2, <2>1, <2>2 DEF n
<1>4. solid \in SUBSET (1..m + n) /\ solid \in SUBSET Nat /\ \A i \in solid : i >= m + 1
  <2> HIDE DEF s
  <2>1. solid \in SUBSET (1..m + n)
    BY <1>2
  <2>2. ASSUME NEW i \in solid PROVE i >= m + 1
    <3>1. i \in 1..m + n /\ s[i] \notin Blanks
      BY <2>1
    <3>2. ~(i \in 1..m)
      BY <1>1, <3>1
    <3> QED BY <1>1, <3>1, <3>2
  <2> QED BY <2>1, <2>2
<1>5. Trim(s) = SubSeq(s, Min(solid), Max(solid))
  <2>1. solid # {}
    BY <1>3
  <2> QED BY <2>1 DEF Trim
<1> HIDE DEF solid
<1>6. Min(solid) = m + 1 /\ Max(solid) = m + n
  <2>1. m + n \in Nat
    BY <1>1
  <2>2. Min(solid) \in solid /\ \A i \in solid : Min(solid) <= i
    BY <1>3, <1>4, LeastNumber
  <2>3. Max(solid) \in solid /\ \A i \in solid : Max(solid) >= i
    <3> HIDE DEF m, n
    <3> QED BY <1>3, <1>4, <2>1, GreatestNumber
  <2> DEFINE first == Min(solid)
             last  == Max(solid)
  <2> HIDE DEF m, n
  <2>4. first \in solid /\ last \in solid /\ first <= m + 1 /\ last >= m + n
    BY <1>3, <2>2, <2>3
  <2> HIDE DEF first, last
  <2>5. first \in Int /\ first >= m + 1 /\ last \in Int /\ last <= m + n
    BY <1>4, <2>4
  <2>6. first = m + 1 /\ last = m + n
    BY <1>1, <2>4, <2>5
  <2> QED BY <2>6 DEF first, last
<1>7. Trim(s) = Slice(s, m + 1, m + (n + 1))
  <2>1. (m + (n + 1)) - 1 = m + n
    BY <1>1
  <2> QED BY <1>5, <1>6, <2>1 DEF Slice
<1>8. Slice(s, m + 1, m + (n + 1)) = Slice(y, 1, n + 1)
  <2>1. 1 \in 1..n + 1 /\ n + 1 \in 1..n + 1
    BY <1>1
  <2> QED BY <2>1, SlicedLater
<1>9. Slice(y, 1, n + 1) = y
  <2>1. (n + 1) - 1 = n /\ SubSeq(y, 1, n) = y
    BY <1>1
  <2> QED BY <2>1 DEF Slice
<1> QED BY <1>7, <1>8, <1>9

\* A text that begins and ends without a blank is trimmed already, and so is none.
LEMMA TrimmedAlready ==
  ASSUME NEW C, NEW y \in Seq(C), y # << >> => y[1] \notin Blanks /\ y[Len(y)] \notin Blanks
  PROVE  Trim(y) = y
<1>1. CASE y = << >>
  <2>1. DOMAIN y = {}
    BY <1>1
  <2> QED BY <1>1, <2>1 DEF Trim
<1>2. CASE y # << >>
  <2>1. << >> \in Seq(C) /\ << >> \o y = y /\ \A k \in 1..Len(<< >>) : FALSE
    OBVIOUS
  <2>2. Trim(<< >> \o y) = y
    BY <1>2, <2>1, TrimmedTo
  <2> QED BY <2>1, <2>2
<1> QED BY <1>1, <1>2

\* from has, for each position of s, the pieces from there on.
Splits(from, s, d) ==
  \A i \in 1..Len(s) + 1 :
    from[i] = LET end == FindFrom(s, d, i)
              IN  NonEmpty(Trim(Slice(s, i, end)))
                    \o IF end > Len(s) THEN << >> ELSE from[end + 1]

\* The pieces of a text, found one after the other.
LEMMA SplitFrom ==
  ASSUME NEW C, NEW s \in Seq(C), NEW d
  PROVE  \E from \in [1..Len(s) + 1 -> Seq(Seq(C))] :
           Splits(from, s, d) /\ Split(s, d) = from[1]
<1> DEFINE N == Len(s)
           I == 1..N + 1
           S == Seq(Seq(C))
           end(i) == FindFrom(s, d, i)
           piece(i) == NonEmpty(Trim(Slice(s, i, end(i))))
           value(f, i) == piece(i) \o IF end(i) > N THEN << >> ELSE f[end(i) + 1]
           chosen == CHOOSE f : f = [i \in I |-> value(f, i)]
           next == [i \in 1..N |-> IF end(i) > N THEN N + 1 ELSE end(i) + 1]
           join == [p \in (1..N) \X S |-> piece(p[1]) \o IF end(p[1]) > N THEN << >> ELSE p[2]]
<1>1. N \in Nat /\ << >> \in S
  OBVIOUS
<1>2. \A i \in I : end(i) \in i..N + 1
  <2> TAKE i \in I
  <2>1. i \in Nat /\ i <= N + 1
    BY <1>1
  <2>2. end(i) \in i..N \/ end(i) = N + 1
    BY <1>1, <2>1, FirstFound
  <2> HIDE DEF end
  <2> QED BY <1>1, <2>1, <2>2
<1>3. \A i \in I : piece(i) \in S
  <2> TAKE i \in I
  <2>1. Slice(s, i, end(i)) \in Seq(C)
    <3> HIDE DEF end
    <3> QED BY <1>2, Sliced
  <2>2. Trim(Slice(s, i, end(i))) \in Seq(C)
    BY <2>1, TrimTyped
  <2> HIDE DEF end
  <2> QED BY <2>2 DEF NonEmpty
<1>4. piece(N + 1) = << >> /\ end(N + 1) = N + 1 /\ N + 1 > N /\ N + 1 \in I
  <2>1. N + 1 \in I
    BY <1>1
  <2>2. end(N + 1) = N + 1
    <3> HIDE DEF end
    <3> QED BY <1>1, <1>2, <2>1
  <2> HIDE DEF end
  <2>3. Slice(s, N + 1, N + 1) \in Seq(C) /\ Len(Slice(s, N + 1, N + 1)) = (N + 1) - (N + 1)
    <3> DEFINE e == N + 1
    <3>1. e \in 1..Len(s) + 1 /\ e \in e..Len(s) + 1
      BY <1>1
    <3> HIDE DEF e
    <3>2. Slice(s, e, e) \in Seq(C) /\ Len(Slice(s, e, e)) = e - e
      BY <3>1, Sliced
    <3> QED BY <3>2 DEF e
  <2>4. Slice(s, N + 1, N + 1) = << >>
    BY <1>1, <2>3
  <2>5. Trim(<< >>) = << >>
    <3>1. << >> \in Seq(C)
      OBVIOUS
    <3> QED BY <3>1, TrimmedAlready
  <2> QED BY <1>1, <2>1, <2>2, <2>4, <2>5 DEF NonEmpty
<1>5. next \in [1..N -> 1..N + 1] /\ \A i \in 1..N : i < next[i]
  <2>1. ASSUME NEW i \in 1..N
        PROVE  /\ (IF end(i) > N THEN N + 1 ELSE end(i) + 1) \in 1..N + 1
               /\ i < (IF end(i) > N THEN N + 1 ELSE end(i) + 1)
    <3>1. end(i) \in i..N + 1 /\ i \in 1..N
      BY <1>1, <1>2
    <3> HIDE DEF end
    <3> QED BY <1>1, <3>1
  <2> HIDE DEF end
  <2> QED BY <2>1
<1> HIDE DEF end, piece
<1>6. join \in [(1..N) \X S -> S]
  <2>1. ASSUME NEW i \in 1..N, NEW x \in S
        PROVE  piece(i) \o (IF end(i) > N THEN << >> ELSE x) \in S
    <3>1. piece(i) \in S /\ (IF end(i) > N THEN << >> ELSE x) \in S
      BY <1>1, <1>3
    <3> QED BY <3>1
  <2> HIDE DEF S
  <2> QED BY <2>1
<1> HIDE DEF S
<1>7. \A i \in 1..N : \A x \in S :
        join[<<i, x>>] = piece(i) \o IF end(i) > N THEN << >> ELSE x
  OBVIOUS
<1> HIDE DEF join
<1>8. ASSUME NEW f \in [I -> S], Unwinds(f, << >>, next, join, N)
      PROVE  \A i \in I : f[i] = value(f, i)
  <2>1. ASSUME NEW i \in 1..N PROVE join[<<i, f[next[i]]>>] = value(f, i)
    <3>1. next[i] \in 1..N + 1 /\ (~(end(i) > N) => next[i] = end(i) + 1)
      BY <1>5
    <3>2. join[<<i, f[next[i]]>>] = piece(i) \o IF end(i) > N THEN << >> ELSE f[next[i]]
      BY <1>7, <1>8, <3>1
    <3> QED BY <3>1, <3>2
  <2>2. value(f, N + 1) = << >>
    <3>1. << >> \o << >> = << >>
      OBVIOUS
    <3> QED BY <1>4, <3>1
  <2>3. \A i \in I : i \in 1..N \/ i = N + 1
    BY <1>1
  <2>4. N + 1 \in I /\ \A i \in 1..N : i \in I
    BY <1>1
  <2> HIDE DEF I, next, value
  <2> QED BY <1>8, <2>1, <2>2, <2>3, <2>4 DEF Unwinds
<1>9. PICK g \in [1..N + 1 -> S] : Unwinds(g, << >>, next, join, N)
  <2> HIDE DEF N, next
  <2> QED BY <1>1, <1>5, <1>6, SuffixRecursion
<1>10. g = [i \in I |-> value(g, i)]
  <2> HIDE DEF value
  <2> QED BY <1>8, <1>9
<1>11. chosen = [i \in I |-> value(chosen, i)]
  <2> HIDE DEF value
  <2> QED BY <1>10
<1> HIDE DEF chosen
<1>12. \A i \in I : chosen[i] = value(chosen, i)
  BY <1>11
<1>13. \A i \in 1..N + 1 : chosen[i] \in S
  <2> DEFINE Q == {i \in I : chosen[i] \in S}
  <2>1. N + 1 \in Q
    <3>1. << >> \o << >> \in S
      BY <1>1
    <3> QED BY <1>4, <1>12, <3>1
  <2>2. ASSUME NEW i \in 1..N, \A j \in I : i < j => j \in Q PROVE i \in Q
    <3>1. i \in I /\ piece(i) \in S
      BY <1>3
    <3>2. (IF end(i) > N THEN << >> ELSE chosen[end(i) + 1]) \in S
      <4>1. end(i) \in i..N + 1
        BY <1>2, <3>1
      <4>2. ~(end(i) > N) => end(i) + 1 \in I /\ i < end(i) + 1
        BY <1>1, <4>1
      <4> HIDE DEF I
      <4> QED BY <1>1, <2>2, <4>2
    <3>3. chosen[i] \in S
      <4> HIDE DEF I
      <4>1. \A u, v \in S : u \o v \in S
        BY DEF S
      <4> QED BY <1>12, <3>1, <3>2, <4>1
    <3> QED BY <3>1, <3>3
  <2>3. Q \in SUBSET I
    OBVIOUS
  <2> HIDE DEF Q
  <2>4. Q = I
    BY <1>1, <2>1, <2>2, <2>3, SuffixInduction
  <2> QED BY <2>4 DEF Q
<1>14. Split(s, d) = chosen[1]
  BY DEF Split, chosen, value, piece, end, I
<1>15. Splits(chosen, s, d)
  BY <1>12 DEF Splits, value, piece, end
<1> QED BY <1>11, <1>13, <1>14, <1>15 DEF S

\* A text without the separator is its only piece.
LEMMA SplitWhole ==
  ASSUME NEW C, NEW x \in Seq(C), NEW d, \A k \in 1..Len(x) : x[k] # d
  PROVE  Split(x, d) = NonEmpty(Trim(x))
<1> DEFINE N == Len(x)
           end == FindFrom(x, d, 1)
<1>1. N \in Nat /\ 1 \in 1..N + 1
  OBVIOUS
<1>2. end = N + 1
  <2>1. N + 1 \in 1..N + 1
    BY <1>1
  <2> QED BY <1>1, <2>1, FoundAt
<1>3. PICK f \in [1..N + 1 -> Seq(Seq(C))] :
        Splits(f, x, d) /\ Split(x, d) = f[1]
  BY SplitFrom
<1>4. f[1] = NonEmpty(Trim(Slice(x, 1, end))) \o IF end > N THEN << >> ELSE f[end + 1]
  BY <1>1, <1>3 DEF Splits
<1>5. Slice(x, 1, N + 1) = x
  <2>1. (N + 1) - 1 = N /\ SubSeq(x, 1, N) = x
    BY <1>1
  <2> QED BY <2>1 DEF Slice
<1>6. Trim(x) \in Seq(C)
  BY TrimTyped
<1>7. NonEmpty(Trim(x)) \o << >> = NonEmpty(Trim(x))
  <2>1. NonEmpty(Trim(x)) \in Seq(Seq(C))
    BY <1>6 DEF NonEmpty
  <2> QED BY <2>1
<1> HIDE DEF end, N
<1>8. N + 1 > N
  BY <1>1
<1> QED BY <1>2, <1>3, <1>4, <1>5, <1>7, <1>8

\* f has behind p what g has on y.
Continues(f, p, g, y) == \A i \in 1..Len(y) + 1 : f[Len(p) + i] = g[i]

\* Behind another text, the pieces are the same.
LEMMA SplitLater ==
  ASSUME NEW C, NEW p \in Seq(C), NEW y \in Seq(C), NEW d,
         NEW f, Splits(f, p \o y, d), NEW g, Splits(g, y, d)
  PROVE  Continues(f, p, g, y)
<1> DEFINE s == p \o y
           m == Len(p)
           n == Len(y)
           Q == {i \in 1..n + 1 : f[m + i] = g[i]}
<1>1. m \in Nat /\ n \in Nat /\ Len(s) = m + n
  BY Joined
<1>2. ASSUME NEW i \in 1..n + 1, \A j \in 1..n + 1 : i < j => f[m + j] = g[j]
      PROVE  f[m + i] = g[i]
  <2> DEFINE e == FindFrom(y, d, i)
  <2>1. e \in i..n + 1
    <3>1. i \in Nat /\ i <= n + 1
      BY <1>1
    <3>2. e \in i..n \/ e = n + 1
      BY <1>1, <3>1, FirstFound
    <3> HIDE DEF e
    <3> QED BY <1>1, <3>1, <3>2
  <2>2. FindFrom(s, d, m + i) = m + e
    BY FoundLater
  <2> HIDE DEF e
  <2>3. Slice(s, m + i, m + e) = Slice(y, i, e)
    BY <2>1, SlicedLater
  <2> HIDE DEF s, m, n
  <2>4. m + i \in 1..Len(s) + 1
    BY <1>1
  <2>5. f[m + i] = NonEmpty(Trim(Slice(y, i, e)))
                     \o IF m + e > Len(s) THEN << >> ELSE f[m + e + 1]
    BY <2>2, <2>3, <2>4 DEF Splits, s
  <2>6. g[i] = NonEmpty(Trim(Slice(y, i, e))) \o IF e > n THEN << >> ELSE g[e + 1]
    BY DEF e, Splits, n
  <2>7. m + e > Len(s) <=> e > n
    BY <1>1, <2>1
  <2>8. ~(e > n) => f[m + e + 1] = g[e + 1]
    <3> SUFFICES ASSUME ~(e > n) PROVE f[m + e + 1] = g[e + 1]
      OBVIOUS
    <3>1. e + 1 \in 1..n + 1 /\ i < e + 1 /\ m + e + 1 = m + (e + 1)
      BY <1>1, <2>1
    <3> QED BY <1>2, <3>1
  <2> QED BY <2>5, <2>6, <2>7, <2>8
<1> HIDE DEF s, m, n
<1>3. Q = 1..n + 1
  <2>1. n + 1 \in Q
    <3>1. n + 1 \in 1..n + 1 /\ \A j \in 1..n + 1 : ~(n + 1 < j)
      BY <1>1
    <3> QED BY <1>2, <3>1
  <2>2. Q \in SUBSET (1..n + 1) /\ \A i \in 1..n : i \in 1..n + 1
    BY <1>1
  <2>3. ASSUME NEW i \in 1..n, \A j \in 1..n + 1 : i < j => j \in Q PROVE i \in Q
    BY <1>2, <2>2, <2>3
  <2> HIDE DEF Q
  <2> QED BY <1>1, <2>1, <2>2, <2>3, SuffixInduction
<1> QED BY <1>3 DEF m, n, Continues

\* A text, a separator and another text.
LEMMA JoinedBy ==
  ASSUME NEW C, NEW x \in Seq(C), NEW d \in C, NEW y \in Seq(C)
  PROVE  LET p == x \o <<d>>
             s == p \o y
         IN  /\ p \in Seq(C) /\ s \in Seq(C) /\ Len(x) \in Nat /\ Len(y) \in Nat
             /\ Len(p) = Len(x) + 1 /\ Len(s) = Len(x) + 1 + Len(y)
             /\ \A k \in 1..Len(x) : s[k] = x[k]
             /\ s[Len(x) + 1] = d
<1>1. <<d>> \in Seq(C) /\ Len(<<d>>) = 1 /\ <<d>>[1] = d
  OBVIOUS
<1>2. x \o <<d>> \in Seq(C) /\ Len(x) \in Nat /\ Len(x \o <<d>>) = Len(x) + 1
  BY <1>1
<1>3. /\ (x \o <<d>>) \o y \in Seq(C) /\ Len(y) \in Nat
      /\ Len((x \o <<d>>) \o y) = Len(x) + 1 + Len(y)
  BY <1>1, <1>2
<1>4. ASSUME NEW k \in 1..Len(x) + 1 PROVE ((x \o <<d>>) \o y)[k] = (x \o <<d>>)[k]
  BY <1>1, <1>2
<1>5. \A k \in 1..Len(x) : (x \o <<d>>)[k] = x[k] /\ k \in 1..Len(x) + 1
  BY <1>1, <1>2
<1>6. (x \o <<d>>)[Len(x) + 1] = d /\ Len(x) + 1 \in 1..Len(x) + 1
  BY <1>1, <1>2
<1> QED BY <1>2, <1>3, <1>4, <1>5, <1>6

\* The pieces of a text with a separator are those before it and those after it.
LEMMA SplitCut ==
  ASSUME NEW C, NEW x \in Seq(C), NEW d \in C, \A k \in 1..Len(x) : x[k] # d, NEW y \in Seq(C)
  PROVE  Split(x \o <<d>> \o y, d) = NonEmpty(Trim(x)) \o Split(y, d)
<1> DEFINE p == x \o <<d>>
           s == p \o y
           l == Len(x)
           m == l + 1
           n == Len(y)
<1>1. /\ p \in Seq(C) /\ s \in Seq(C) /\ l \in Nat /\ n \in Nat /\ Len(p) = m /\ Len(s) = m + n
      /\ \A k \in 1..l : s[k] = x[k]
      /\ s[m] = d
  BY JoinedBy
<1> HIDE DEF s, p, l, n
<1>2. PICK f \in [1..Len(s) + 1 -> Seq(Seq(C))] : Splits(f, s, d) /\ Split(s, d) = f[1]
  <2>1. s \in Seq(C)
    BY <1>1
  <2> QED BY <2>1, SplitFrom
<1>3. PICK g \in [1..n + 1 -> Seq(Seq(C))] : Splits(g, y, d) /\ Split(y, d) = g[1]
  BY SplitFrom DEF n
<1>4. f[m + 1] = g[1]
  <2>1. 1 \in 1..Len(y) + 1
    BY <1>1 DEF n
  <2>2. Splits(f, p \o y, d)
    BY <1>2 DEF s
  <2>3. f[Len(p) + 1] = g[1]
    <3>1. p \in Seq(C) /\ Splits(g, y, d)
      BY <1>1, <1>3
    <3>2. Continues(f, p, g, y)
      BY <2>2, <3>1, SplitLater
    <3> QED BY <2>1, <3>2 DEF Continues
  <2> QED BY <1>1, <2>3
<1>5. FindFrom(s, d, 1) = m
  <2>1. m \in 1..Len(s) + 1 /\ Len(s) \in Nat /\ \A k \in 1..Len(s) : k < m => k \in 1..l
    BY <1>1
  <2>2. \A k \in 1..Len(s) : k < m => s[k] # d
    BY <1>1, <2>1 DEF l
  <2>3. s[m] = d /\ 1 \in Nat
    BY <1>1
  <2> HIDE DEF m
  <2> QED BY <2>1, <2>2, <2>3, FoundAt
<1>6. Slice(s, 1, m) = x
  <2> DEFINE first == 1
             a == Slice(s, first, m)
  <2>1. first \in 1..Len(s) + 1 /\ m \in first..Len(s) + 1 /\ m - first = l
    BY <1>1
  <2> HIDE DEF m, first
  <2>2. /\ a \in Seq(C) /\ Len(a) = m - first
        /\ \A k \in 1..m - first : a[k] = s[first + k - 1]
    <3>1. s \in Seq(C)
      BY <1>1
    <3> QED BY ZenonT(40), <2>1, <3>1, Sliced
  <2> HIDE DEF a
  <2>3. \A k \in 1..l : a[k] = x[k]
    <3> TAKE k \in 1..l
    <3>1. first + k - 1 = k /\ k \in 1..m - first
      BY <1>1, <2>1 DEF first
    <3> QED BY <1>1, <2>2, <3>1
  <2> QED BY <2>1, <2>2, <2>3, SameText DEF a, first, l
<1>7. f[1] = NonEmpty(Trim(x)) \o f[m + 1]
  <2>1. 1 \in 1..Len(s) + 1 /\ ~(m > Len(s))
    BY <1>1
  <2> HIDE DEF m
  <2> QED BY <1>2, <1>5, <1>6, <2>1 DEF Splits
<1> QED BY <1>2, <1>3, <1>4, <1>7 DEF s, p

-----------------------------------------------------------------------------
(***************************************************************************)
(* Percent encoding.                                                       *)
(***************************************************************************)

\* A text in which each percent sign is followed by two digits.
Escaped(s) == \A i \in 1..Len(s) : s[i] = "%" => HexAt(s, i + 1, 2)

\* Characters that can be encoded, those that encoded text is made of, and those that
\* it can be read as.
Encodable(c) == c \in Safe \/ \E p \in DOMAIN Byte : Byte[p] = c
EncodedIn    == Safe \cup Hex \cup {"%"}
Readable(C)  == C \cup {Space} \cup {Byte[p] : p \in [1..2 -> Hex]}

\* What a percent sign or another character of such a text is read as.
LEMMA UnitOf ==
  ASSUME NEW C, NEW s \in Seq(C), Escaped(s), NEW i \in 1..Len(s)
  PROVE  Unit(s, i, TRUE) = IF s[i] = "%"
                            THEN [text |-> <<Byte[SubSeq(s, i + 1, i + 2)]>>, taken |-> 3]
                            ELSE [text |-> <<IF s[i] = "+" THEN Space ELSE s[i]>>, taken |-> 1]
<1>1. CASE s[i] = "%"
  <2>1. HexAt(s, i + 1, 2)
    BY <1>1 DEF Escaped
  <2>2. i \in Nat /\ i + 1 \in i + 1..(i + 1) + 2 - 1
    OBVIOUS
  <2>3. s[i + 1] \in Hex
    BY <2>1, <2>2 DEF HexAt
  <2>4. s[i + 1] # "u"
    BY <2>3, TextAssumption
  <2> QED BY <1>1, <2>1, <2>4 DEF Unit
<1>2. CASE s[i] = "+"
  BY <1>2 DEF Unit
<1>3. CASE s[i] # "%" /\ s[i] # "+"
  BY <1>3 DEF Unit
<1> QED BY <1>1, <1>2, <1>3

\* It is read as text, and reading goes on behind it.
LEMMA UnitTyped ==
  ASSUME NEW C, NEW s \in Seq(C), Escaped(s), NEW i \in 1..Len(s)
  PROVE  /\ Unit(s, i, TRUE).text \in Seq(Readable(C))
         /\ Unit(s, i, TRUE).taken \in Nat
         /\ i + Unit(s, i, TRUE).taken \in 1..Len(s) + 1
         /\ i < i + Unit(s, i, TRUE).taken
<1> DEFINE unit == Unit(s, i, TRUE)
<1>1. CASE s[i] = "%"
  <2>1. unit = [text |-> <<Byte[SubSeq(s, i + 1, i + 2)]>>, taken |-> 3]
    BY <1>1, UnitOf
  <2>2. HexAt(s, i + 1, 2)
    BY <1>1 DEF Escaped
  <2>3. (i + 1) + 2 - 1 = i + 2 /\ i + 2 <= Len(s) /\ \A k \in i + 1..i + 2 : s[k] \in Hex
    BY <2>2 DEF HexAt
  <2>4. SubSeq(s, i + 1, i + 2) \in [1..2 -> Hex]
    <3>1. i + 1 \in Int /\ i + 2 \in Int /\ (i + 2) - (i + 1) + 1 = 2
      OBVIOUS
    <3> DEFINE a == i + 1
               b == i + 2
    <3> HIDE DEF a, b
    <3>2. SubSeq(s, a, b) \in Seq(Hex) /\ Len(SubSeq(s, a, b)) = IF a <= b THEN b - a + 1 ELSE 0
      BY <2>3, <3>1, SubSeqProperties DEF a, b
    <3>3. Len(SubSeq(s, a, b)) = 2
      BY <3>2 DEF a, b
    <3>4. SubSeq(s, a, b) \in [1..2 -> Hex]
      <4> DEFINE q == SubSeq(s, a, b)
      <4>1. q \in Seq(Hex) /\ Len(q) = 2
        BY <3>2, <3>3
      <4> HIDE DEF q
      <4>2. q \in [1..Len(q) -> Hex]
        BY <4>1, LenProperties
      <4> QED BY <4>1, <4>2 DEF q
    <3> QED BY <3>4 DEF a, b
  <2>5. Byte[SubSeq(s, i + 1, i + 2)] \in Readable(C)
    BY <2>4 DEF Readable
  <2> HIDE DEF unit
  <2>6. unit.text \in Seq(Readable(C)) /\ unit.taken = 3
    <3> DEFINE b == Byte[SubSeq(s, i + 1, i + 2)]
    <3> HIDE DEF b
    <3> QED BY <2>1, <2>5 DEF b
  <2>7. Len(s) \in Nat /\ i + 3 \in 1..Len(s) + 1 /\ i < i + 3 /\ 3 \in Nat
    BY <2>3
  <2> QED BY <2>6, <2>7 DEF unit
<1>2. CASE s[i] # "%"
  <2>1. unit = [text |-> <<IF s[i] = "+" THEN Space ELSE s[i]>>, taken |-> 1]
    BY <1>2, UnitOf
  <2>2. (IF s[i] = "+" THEN Space ELSE s[i]) \in Readable(C)
    BY DEF Readable
  <2> HIDE DEF unit
  <2>3. unit.text \in Seq(Readable(C)) /\ unit.taken = 1
    BY <2>1, <2>2
  <2>4. Len(s) \in Nat /\ i + 1 \in 1..Len(s) + 1 /\ i < i + 1 /\ 1 \in Nat
    OBVIOUS
  <2> QED BY <2>3, <2>4 DEF unit
<1> QED BY <1>1, <1>2

\* from has, for each position of s, what the rest is read as.
Decodes(from, s) ==
  /\ from[Len(s) + 1] = << >>
  /\ \A i \in 1..Len(s) :
       from[i] = Unit(s, i, TRUE).text \o from[i + Unit(s, i, TRUE).taken]

\* The text that such a text is read as.
LEMMA DecodeFrom ==
  ASSUME NEW C, NEW s \in Seq(C), Escaped(s)
  PROVE  \E from \in [1..Len(s) + 1 -> Seq(Readable(C))] :
           Decodes(from, s) /\ DecodeUrl(s, TRUE) = from[1]
<1> DEFINE N == Len(s)
           I == 1..N + 1
           S == Seq(Readable(C))
           text(i) == Unit(s, i, TRUE).text
           then(i) == i + Unit(s, i, TRUE).taken
           value(f, i) == IF i > N THEN << >> ELSE text(i) \o f[then(i)]
           chosen == CHOOSE f : f = [i \in I |-> value(f, i)]
           next == [i \in 1..N |-> then(i)]
           join == [p \in (1..N) \X S |-> text(p[1]) \o p[2]]
<1>1. N \in Nat /\ << >> \in S
  OBVIOUS
<1>2. \A i \in 1..N : text(i) \in S /\ then(i) \in 1..N + 1 /\ i < then(i)
  BY UnitTyped
<1>3. /\ N + 1 \in I /\ N + 1 > N
      /\ \A i \in 1..N : i \in I /\ ~(i > N)
      /\ \A i \in I : i \in 1..N \/ i = N + 1
  BY <1>1
<1> HIDE DEF text, then
<1>4. next \in [1..N -> 1..N + 1] /\ \A i \in 1..N : i < next[i]
  BY <1>2
<1>5. \A u, v \in S : u \o v \in S
  OBVIOUS
<1> HIDE DEF S
<1>6. join \in [(1..N) \X S -> S]
  BY <1>2, <1>5
<1>7. \A i \in 1..N : \A x \in S : join[<<i, x>>] = text(i) \o x
  OBVIOUS
<1> HIDE DEF join, N
<1>8. PICK g \in [1..N + 1 -> S] : Unwinds(g, << >>, next, join, N)
  <2> HIDE DEF next
  <2> QED BY <1>1, <1>4, <1>6, SuffixRecursion
<1>9. g = [i \in I |-> value(g, i)]
  <2>1. ASSUME NEW i \in 1..N PROVE g[i] = text(i) \o g[then(i)]
    <3>1. g[i] = join[<<i, g[next[i]]>>] /\ next[i] = then(i)
      BY <1>8 DEF Unwinds
    <3>2. g[then(i)] \in S
      BY <1>2
    <3> QED BY <1>7, <3>1, <3>2
  <2>2. g[N + 1] = << >>
    BY <1>8 DEF Unwinds
  <2>3. \A i \in I : g[i] = value(g, i)
    <3> HIDE DEF I
    <3> QED BY <1>3, <2>1, <2>2
  <2> HIDE DEF value
  <2> QED BY <2>3
<1>10. chosen = [i \in I |-> value(chosen, i)]
  <2> HIDE DEF value
  <2> QED BY <1>9
<1> HIDE DEF chosen
<1>11. /\ chosen[N + 1] = << >>
       /\ \A i \in 1..N : chosen[i] = text(i) \o chosen[then(i)]
  <2>1. \A i \in I : chosen[i] = value(chosen, i)
    BY <1>10
  <2> HIDE DEF I
  <2> QED BY <1>3, <2>1
<1>12. \A i \in I : chosen[i] \in S
  <2> DEFINE Q == {i \in I : chosen[i] \in S}
  <2>1. N + 1 \in Q
    BY <1>1, <1>3, <1>11
  <2>2. ASSUME NEW i \in 1..N, \A j \in I : i < j => j \in Q PROVE i \in Q
    <3>1. then(i) \in I /\ i < then(i)
      BY <1>2
    <3> QED BY <1>2, <1>3, <1>5, <1>11, <2>2, <3>1
  <2>3. Q \in SUBSET I
    OBVIOUS
  <2> HIDE DEF Q
  <2>4. Q = I
    BY <1>1, <2>1, <2>2, <2>3, SuffixInduction
  <2> QED BY <2>4 DEF Q
<1>13. DecodeUrl(s, TRUE) = chosen[1]
  BY DEF DecodeUrl, chosen, value, text, then, I, N
<1>14. Decodes(chosen, s)
  BY <1>11 DEF Decodes, text, then, N
<1> QED BY <1>10, <1>12, <1>13, <1>14 DEF S, N

\* Texts that are escaped are so one after the other.
LEMMA EscapedJoined ==
  ASSUME NEW C, NEW x \in Seq(C), NEW y \in Seq(C), Escaped(x), Escaped(y)
  PROVE  Escaped(x \o y)
<1> DEFINE s == x \o y
           m == Len(x)
           n == Len(y)
<1>1. /\ m \in Nat /\ n \in Nat /\ Len(s) = m + n
      /\ \A k \in 1..m : s[k] = x[k]
      /\ \A k \in 1..n : s[m + k] = y[k]
  BY Joined
<1>2. \A i \in 1..m : x[i] = "%" => HexAt(x, i + 1, 2)
  BY DEF Escaped
<1>3. \A i \in 1..n : y[i] = "%" => HexAt(y, i + 1, 2)
  BY DEF Escaped
<1>4. ASSUME NEW i \in 1..m + n, s[i] = "%" PROVE HexAt(s, i + 1, 2)
  <2>1. CASE i \in 1..m
    <3>1. HexAt(x, i + 1, 2)
      BY <1>1, <1>2, <1>4, <2>1
    <3> HIDE DEF s
    <3>2. i + 2 <= m /\ x[i + 1] \in Hex /\ x[i + 2] \in Hex
      <4>1. /\ (i + 1) + 2 - 1 = i + 2 /\ i + 1 \in i + 1..(i + 1) + 2 - 1
            /\ i + 2 \in i + 1..(i + 1) + 2 - 1
        BY <1>1, <2>1
      <4> QED BY <3>1, <4>1 DEF HexAt
    <3> HIDE DEF m, n
    <3>3. s[i + 1] = x[i + 1] /\ s[i + 2] = x[i + 2] /\ i + 2 <= m + n
      <4>1. i + 1 \in 1..m /\ i + 2 \in 1..m /\ i + 2 <= m + n
        BY <1>1, <2>1, <3>2
      <4> QED BY <1>1, <4>1
    <3>4. \A k \in i + 1..(i + 1) + 2 - 1 : k = i + 1 \/ k = i + 2
      BY <1>1, <2>1
    <3>5. (i + 1) + 2 - 1 <= Len(s)
      BY <1>1, <2>1, <3>3
    <3> QED BY <3>2, <3>3, <3>4, <3>5 DEF HexAt
  <2>2. CASE ~(i \in 1..m)
    <3> DEFINE j == i - m
    <3>0. j \in 1..n /\ i = m + j
      BY <1>1, <2>2
    <3>1. HexAt(y, j + 1, 2)
      <4> HIDE DEF s, j
      <4> QED BY <1>1, <1>3, <1>4, <3>0
    <3> HIDE DEF s, j
    <3>2. j + 2 <= n /\ y[j + 1] \in Hex /\ y[j + 2] \in Hex
      <4>1. /\ (j + 1) + 2 - 1 = j + 2 /\ j + 1 \in j + 1..(j + 1) + 2 - 1
            /\ j + 2 \in j + 1..(j + 1) + 2 - 1
        BY <3>0
      <4> QED BY <3>1, <4>1 DEF HexAt
    <3> HIDE DEF m, n
    <3>3. s[i + 1] = y[j + 1] /\ s[i + 2] = y[j + 2] /\ i + 2 <= m + n
      <4>1. j + 1 \in 1..n /\ j + 2 \in 1..n /\ i + 1 = m + (j + 1) /\ i + 2 = m + (j + 2)
        <5>1. m \in Nat /\ n \in Nat /\ j \in 1..n /\ i = m + j /\ j + 2 <= n
          BY <1>1, <3>0, <3>2
        <5> QED BY <5>1
      <4>2. \A k \in 1..n : s[m + k] = y[k]
        BY <1>1
      <4>3. i + 2 <= m + n
        BY <1>1, <3>0, <3>2
      <4> QED BY <4>1, <4>2, <4>3
    <3>4. \A k \in i + 1..(i + 1) + 2 - 1 : k = i + 1 \/ k = i + 2
      BY <1>1, <3>0
    <3>5. (i + 1) + 2 - 1 <= Len(s)
      BY <1>1, <3>0, <3>3
    <3> QED BY <3>2, <3>3, <3>4, <3>5 DEF HexAt
  <2> QED BY <2>1, <2>2
<1> HIDE DEF s
<1> QED BY <1>1, <1>4 DEF Escaped, s

\* Behind another text, the same is read.
LEMMA UnitLater ==
  ASSUME NEW C, NEW p \in Seq(C), NEW y \in Seq(C), Escaped(p \o y), Escaped(y),
         NEW i \in 1..Len(y)
  PROVE  Unit(p \o y, Len(p) + i, TRUE) = Unit(y, i, TRUE)
<1> DEFINE s == p \o y
           m == Len(p)
           n == Len(y)
<1>1. /\ s \in Seq(C) /\ m \in Nat /\ n \in Nat /\ Len(s) = m + n
      /\ \A k \in 1..n : s[m + k] = y[k]
  BY Joined
<1>2. m + i \in 1..Len(s) /\ s[m + i] = y[i]
  BY <1>1
<1>3. CASE y[i] = "%"
  <2>1. HexAt(y, i + 1, 2)
    BY <1>3 DEF Escaped
  <2>2. i + 2 <= n
    <3>1. (i + 1) + 2 - 1 = i + 2
      OBVIOUS
    <3> QED BY <2>1, <3>1 DEF HexAt
  <2> DEFINE a == i + 1
             b == i + 3
  <2>3. a \in 1..Len(y) + 1 /\ b \in a..Len(y) + 1
    BY <1>1, <2>2
  <2> HIDE DEF a, b
  <2>4. Slice(s, m + a, m + b) = Slice(y, a, b)
    BY <2>3, SlicedLater
  <2> HIDE DEF s, m, n
  <2>5. SubSeq(s, (m + i) + 1, (m + i) + 2) = SubSeq(y, i + 1, i + 2)
    <3>1. /\ m + a = (m + i) + 1 /\ (m + b) - 1 = (m + i) + 2
          /\ a = i + 1 /\ b - 1 = i + 2
      BY <1>1 DEF a, b
    <3> DEFINE u == SubSeq(y, a, b - 1)
    <3>2. Slice(y, a, b) = u
      BY DEF Slice
    <3>3. Slice(s, m + a, m + b) = SubSeq(s, m + a, (m + b) - 1)
      BY DEF Slice
    <3> QED BY <2>4, <3>1, <3>2, <3>3
  <2>6. Unit(s, m + i, TRUE) =
          [text |-> <<Byte[SubSeq(s, (m + i) + 1, (m + i) + 2)]>>, taken |-> 3]
    <3>1. s \in Seq(C) /\ Escaped(s)
      BY <1>1 DEF s
    <3> DEFINE l == m + i
    <3>2. l \in 1..Len(s) /\ s[l] = "%"
      BY <1>2, <1>3
    <3> HIDE DEF l
    <3>3. Unit(s, l, TRUE) = [text |-> <<Byte[SubSeq(s, l + 1, l + 2)]>>, taken |-> 3]
      BY <3>1, <3>2, UnitOf
    <3> QED BY <3>3 DEF l
  <2>7. Unit(y, i, TRUE) = [text |-> <<Byte[SubSeq(y, i + 1, i + 2)]>>, taken |-> 3]
    BY <1>3, UnitOf
  <2> QED BY <2>5, <2>6, <2>7 DEF s, m
<1>4. CASE y[i] # "%"
  <2> HIDE DEF s, m, n
  <2>1. s \in Seq(C) /\ Escaped(s)
    BY <1>1 DEF s
  <2> DEFINE l == m + i
  <2>2. l \in 1..Len(s) /\ s[l] # "%" /\ s[l] = y[i]
    BY <1>2, <1>4
  <2> HIDE DEF l
  <2>3. Unit(s, l, TRUE) = [text |-> <<IF s[l] = "+" THEN Space ELSE s[l]>>, taken |-> 1]
    BY <2>1, <2>2, UnitOf
  <2>4. Unit(y, i, TRUE) = [text |-> <<IF y[i] = "+" THEN Space ELSE y[i]>>, taken |-> 1]
    BY <1>4, UnitOf
  <2>5. Unit(s, l, TRUE) = Unit(y, i, TRUE)
    <3> DEFINE r(c) == [text |-> <<IF c = "+" THEN Space ELSE c>>, taken |-> 1]
    <3>1. Unit(s, l, TRUE) = r(s[l]) /\ Unit(y, i, TRUE) = r(y[i])
      BY <2>3, <2>4
    <3> HIDE DEF r
    <3> QED BY <2>2, <3>1
  <2> QED BY <2>5 DEF l, s, m
<1> QED BY <1>3, <1>4

\* Behind another text, the rest is read as what it is read as alone.
LEMMA DecodeLater ==
  ASSUME NEW C, NEW p \in Seq(C), NEW y \in Seq(C), Escaped(p \o y), Escaped(y),
         NEW f, Decodes(f, p \o y), NEW g, Decodes(g, y)
  PROVE  Continues(f, p, g, y)
<1> DEFINE s == p \o y
           m == Len(p)
           n == Len(y)
           then(i) == i + Unit(y, i, TRUE).taken
           Q == {i \in 1..n + 1 : f[m + i] = g[i]}
<1>1. m \in Nat /\ n \in Nat /\ Len(s) = m + n
  BY Joined
<1>2. \A i \in 1..n : Unit(s, m + i, TRUE) = Unit(y, i, TRUE)
  BY UnitLater
<1>3. \A i \in 1..n : Unit(y, i, TRUE).taken \in Nat /\ then(i) \in 1..n + 1 /\ i < then(i)
  BY UnitTyped
<1> HIDE DEF s, m, n
<1>4. n + 1 \in Q
  <2>1. f[Len(s) + 1] = << >> /\ g[n + 1] = << >>
    BY DEF Decodes, s, n
  <2>2. m + (n + 1) = Len(s) + 1 /\ n + 1 \in 1..n + 1
    BY <1>1
  <2> QED BY <2>1, <2>2
<1>5. ASSUME NEW i \in 1..n, \A j \in 1..n + 1 : i < j => j \in Q PROVE i \in Q
  <2>1. i \in 1..n + 1 /\ m + i \in 1..Len(s)
    BY <1>1
  <2>2. f[m + i] = Unit(s, m + i, TRUE).text \o f[m + i + Unit(s, m + i, TRUE).taken]
    BY <2>1 DEF Decodes, s
  <2>3. g[i] = Unit(y, i, TRUE).text \o g[then(i)]
    BY DEF Decodes, n
  <2>4. m + i + Unit(s, m + i, TRUE).taken = m + then(i)
    <3> DEFINE taken == Unit(y, i, TRUE).taken
    <3>1. taken \in Nat /\ i \in Nat
      <4> HIDE DEF then
      <4>1. Unit(y, i, TRUE).taken \in Nat
        BY <1>3
      <4>2. i \in Nat
        OBVIOUS
      <4> QED BY <4>1, <4>2
    <3>3. Unit(s, m + i, TRUE) = Unit(y, i, TRUE)
      BY <1>2
    <3> HIDE DEF taken
    <3>2. m + i + taken = m + (i + taken)
      BY <1>1, <3>1
    <3> QED BY <3>2, <3>3 DEF taken
  <2>5. f[m + then(i)] = g[then(i)]
    <3> HIDE DEF then
    <3> QED BY <1>3, <1>5
  <2> HIDE DEF then
  <2>6. Unit(s, m + i, TRUE) = Unit(y, i, TRUE)
    BY <1>2
  <2> QED BY <2>1, <2>2, <2>3, <2>4, <2>5, <2>6
<1>6. Q \in SUBSET (1..n + 1)
  OBVIOUS
<1> HIDE DEF Q
<1>7. Q = 1..n + 1
  BY <1>1, <1>4, <1>5, <1>6, SuffixInduction
<1> QED BY <1>7 DEF Q, m, n, Continues

\* A text that begins with something encoded is read as that and the rest.
LEMMA DecodeStep ==
  ASSUME NEW C, NEW x \in Seq(C), NEW y \in Seq(C), Escaped(x \o y), Escaped(y),
         Len(x) # 0, NEW t, Unit(x \o y, 1, TRUE) = [text |-> t, taken |-> Len(x)]
  PROVE  DecodeUrl(x \o y, TRUE) = t \o DecodeUrl(y, TRUE)
<1> DEFINE s == x \o y
           m == Len(x)
           n == Len(y)
<1>1. s \in Seq(C) /\ m \in Nat /\ n \in Nat /\ Len(s) = m + n
  BY Joined
<1>2. m # 0
  OBVIOUS
<1> HIDE DEF s, m, n
<1>3. PICK f \in [1..Len(s) + 1 -> Seq(Readable(C))] :
        Decodes(f, s) /\ DecodeUrl(s, TRUE) = f[1]
  <2>1. Escaped(s)
    BY DEF s
  <2> QED BY <1>1, <2>1, DecodeFrom
<1>4. PICK g \in [1..n + 1 -> Seq(Readable(C))] :
        Decodes(g, y) /\ DecodeUrl(y, TRUE) = g[1]
  BY DecodeFrom DEF n
<1>5. Continues(f, x, g, y)
  <2>1. Decodes(f, x \o y) /\ Decodes(g, y)
    BY <1>3, <1>4 DEF s
  <2> QED BY <2>1, DecodeLater
<1>6. f[m + 1] = g[1]
  <2>1. 1 \in 1..n + 1
    BY <1>1
  <2> QED BY <1>5, <2>1 DEF Continues, m, n
<1>7. f[1] = t \o f[1 + m]
  <2>1. 1 \in 1..Len(s)
    BY <1>1, <1>2
  <2>2. Unit(s, 1, TRUE).text = t /\ Unit(s, 1, TRUE).taken = m
    <3> DEFINE unit == [text |-> t, taken |-> m]
    <3>1. unit.text = t /\ unit.taken = m
      OBVIOUS
    <3> HIDE DEF unit
    <3>2. Unit(s, 1, TRUE) = unit
      BY DEF s, m, unit
    <3> QED BY <3>1, <3>2
  <2> QED BY <1>3, <2>1, <2>2 DEF Decodes
<1>8. m + 1 = 1 + m
  BY <1>1
<1> QED BY <1>3, <1>4, <1>6, <1>7, <1>8 DEF s

\* The characters that separate and the ones that stand for others are told apart.
LEMMA CharactersApart ==
  /\ "%" \notin Safe \cup Hex /\ "+" \notin EncodedIn
  /\ "&" \notin EncodedIn /\ "=" \notin EncodedIn /\ EncodedIn \cap Blanks = {}
<1>1. (Safe \cup Hex) \cap ({"%", "&", "=", "+"} \cup Blanks) = {}
  BY TextAssumption
<1>2. "%" \notin Blanks
  BY Zenon DEF Blanks, Space
<1> HIDE DEF Blanks
<1>3. "%" # "&" /\ "%" # "=" /\ "%" # "+"
  OBVIOUS
<1> QED BY <1>1, <1>2, <1>3 DEF EncodedIn

\* How a character that can be encoded is.
LEMMA EncodedAs ==
  ASSUME NEW c, Encodable(c)
  PROVE  \/ c \in Safe /\ Encoded(c) = <<c>>
         \/ \E p \in [1..2 -> Hex] : Byte[p] = c /\ Encoded(c) = <<"%">> \o p
<1>1. CASE c \in Safe
  BY <1>1 DEF Encoded, IsSafe
<1>2. CASE c \notin Safe
  <2> DEFINE p == CHOOSE q \in DOMAIN Byte : Byte[q] = c
  <2>1. p \in DOMAIN Byte /\ Byte[p] = c
    BY <1>2 DEF Encodable
  <2>2. p \in [1..2 -> Hex]
    <3> HIDE DEF p
    <3> QED BY <2>1, TextAssumption
  <2>3. Encoded(c) = <<"%">> \o p
    BY <1>2 DEF Encoded, IsSafe
  <2> QED BY <2>1, <2>2, <2>3
<1> QED BY <1>1, <1>2

\* Two digits are a text.
LEMMA DigitsAreText ==
  ASSUME NEW p \in [1..2 -> Hex]
  PROVE  /\ p \in Seq(EncodedIn) /\ Len(p) = 2 /\ p[1] \in Hex /\ p[2] \in Hex
<1>1. p \in Seq(Hex)
  <2>1. 2 \in Nat /\ Hex \in SUBSET Hex
    OBVIOUS
  <2> QED BY <2>1, TuplesAreSequences
<1>2. Len(p) = 2
  <2>1. Len(p) \in Nat /\ DOMAIN p = 1..Len(p) /\ DOMAIN p = 1..2
    BY <1>1, LenProperties
  <2> DEFINE n == Len(p)
  <2>2. n \in Nat /\ 1..n = 1..2
    BY <2>1
  <2> HIDE DEF n
  <2>3. n = 2
    <3>1. 2 \in 1..n /\ n + 1 \notin 1..n
      BY <2>2
    <3>2. n >= 2 /\ n + 1 \notin 1..2
      BY <2>2, <3>1
    <3> QED BY <2>2, <3>2
  <2> QED BY <2>3 DEF n
<1>3. p[1] \in Hex /\ p[2] \in Hex
  OBVIOUS
<1> QED BY <1>1, <1>2, <1>3 DEF EncodedIn

\* Three texts, one after the other, are the same whichever two come first.
LEMMA Associated ==
  ASSUME NEW C, NEW x \in Seq(C), NEW y \in Seq(C), NEW z \in Seq(C)
  PROVE  (x \o y) \o z = x \o (y \o z)
OBVIOUS

\* A percent sign and two digits are read as the character of that code.
LEMMA DigitsRead ==
  ASSUME NEW p \in [1..2 -> Hex], NEW y \in Seq(EncodedIn), Escaped(y)
  PROVE  LET x == <<"%">> \o p
         IN  /\ x \in Seq(EncodedIn) /\ Len(x) = 3 /\ Escaped(x \o y)
             /\ Unit(x \o y, 1, TRUE) = [text |-> <<Byte[p]>>, taken |-> Len(x)]
<1> DEFINE P == <<"%">>
           x == P \o p
           s == x \o y
<1>1. p \in Seq(EncodedIn) /\ Len(p) = 2 /\ p[1] \in Hex /\ p[2] \in Hex
  BY DigitsAreText
<1>2. P \in Seq(EncodedIn) /\ Len(P) = 1 /\ P[1] = "%"
  BY DEF EncodedIn
<1> HIDE DEF P
<1>3. /\ x \in Seq(EncodedIn) /\ Len(x) = 3
      /\ x[1] = "%" /\ x[2] \in Hex /\ x[3] \in Hex
  <2>1. /\ x \in Seq(EncodedIn) /\ Len(x) = Len(P) + Len(p)
        /\ \A k \in 1..Len(P) : x[k] = P[k]
        /\ \A k \in 1..Len(p) : x[Len(P) + k] = p[k]
    <3>1. P \in Seq(EncodedIn) /\ p \in Seq(EncodedIn)
      BY <1>1, <1>2
    <3> QED BY <3>1, Joined
  <2> HIDE DEF x
  <2>2. Len(x) = 3 /\ 1 \in 1..Len(P) /\ 1 \in 1..Len(p) /\ 2 \in 1..Len(p)
    BY <1>1, <1>2, <2>1
  <2>3. x[Len(P) + 1] = p[1] /\ x[Len(P) + 2] = p[2] /\ Len(P) + 1 = 2 /\ Len(P) + 2 = 3
    BY <1>2, <2>1, <2>2
  <2> QED BY <1>1, <1>2, <2>1, <2>2, <2>3
<1>4. s = P \o (p \o y) /\ p \o y \in Seq(EncodedIn)
  <2>1. p \o y \in Seq(EncodedIn)
    BY <1>1
  <2> QED BY SMTT(30), <1>1, <1>2, <2>1, Associated
<1> HIDE DEF x
<1>5. Escaped(x)
  <2>1. "%" \notin Hex
    BY CharactersApart
  <2>2. HexAt(x, 2, 2)
    <3>1. 2 + 2 - 1 = 3 /\ \A k \in 2..3 : k = 2 \/ k = 3
      OBVIOUS
    <3> QED BY <1>3, <3>1 DEF HexAt
  <2>3. \A i \in 1..Len(x) : i = 1 \/ i = 2 \/ i = 3
    BY <1>3
  <2>4. 1 + 1 = 2
    OBVIOUS
  <2> QED BY <1>3, <2>1, <2>2, <2>3, <2>4 DEF Escaped
<1>6. s \in Seq(EncodedIn) /\ Escaped(s)
  BY <1>3, <1>5, EscapedJoined
<1>7. s[1] = "%" /\ 1 \in 1..Len(s)
  <2>1. /\ Len(s) = 3 + Len(y) /\ Len(y) \in Nat
        /\ \A k \in 1..Len(x) : s[k] = x[k]
    <3>1. x \in Seq(EncodedIn) /\ Len(x) = 3
      BY <1>3
    <3>2. /\ Len(s) = Len(x) + Len(y) /\ Len(y) \in Nat
          /\ \A k \in 1..Len(x) : s[k] = x[k]
      BY ZenonT(40), <3>1, Joined
    <3> HIDE DEF s
    <3> QED BY <3>1, <3>2
  <2> HIDE DEF s
  <2> QED BY <1>3, <2>1
<1>8. SubSeq(s, 2, 3) = p
  <2> DEFINE q == p \o y
  <2>1. Len(q) = 2 + Len(y) /\ Len(y) \in Nat
    <3>1. p \in Seq(EncodedIn) /\ Len(p) = 2
      BY <1>1
    <3>2. Len(q) = Len(p) + Len(y) /\ Len(y) \in Nat
      BY <3>1, Joined
    <3> QED BY <3>1, <3>2
  <2> DEFINE i == 1
             j == 3
  <2>2. q \in Seq(EncodedIn) /\ i \in 1..Len(q) + 1 /\ j \in i..Len(q) + 1
    BY <1>4, <2>1
  <2>3. s = P \o q
    BY <1>4
  <2> HIDE DEF q, i, j, s
  <2>4. Slice(P \o q, Len(P) + i, Len(P) + j) = Slice(q, i, j)
    BY <1>2, <2>2, SlicedLater
  <2>5. Slice(q, i, j) = p
    <3>1. Slice(p \o y, 1, Len(p) + 1) = p
      BY <1>1, SlicedFirst
    <3>2. Len(p) + 1 = j
      BY <1>1 DEF j
    <3> QED BY <3>1, <3>2 DEF q, i
  <2>6. Len(P) + i = 2 /\ Len(P) + j = 4
    BY <1>2 DEF i, j
  <2>7. Slice(s, 2, 4) = p
    BY <2>3, <2>4, <2>5, <2>6
  <2>8. 4 - 1 = 3
    OBVIOUS
  <2> QED BY <2>7, <2>8 DEF Slice
<1> HIDE DEF s
<1>9. Unit(s, 1, TRUE) = [text |-> <<Byte[SubSeq(s, 1 + 1, 1 + 2)]>>, taken |-> 3]
  BY <1>6, <1>7, UnitOf
<1>10. 1 + 1 = 2 /\ 1 + 2 = 3
  OBVIOUS
<1>11. Unit(s, 1, TRUE) = [text |-> <<Byte[p]>>, taken |-> Len(x)]
  BY <1>3, <1>8, <1>9, <1>10
<1> QED BY <1>3, <1>6, <1>11 DEF x, s, P

\* A character that is encoded, whatever text follows it, is read as itself.
LEMMA EncodedRead ==
  ASSUME NEW c, Encodable(c), NEW y \in Seq(EncodedIn), Escaped(y)
  PROVE  /\ Encoded(c) \in Seq(EncodedIn) /\ Escaped(Encoded(c) \o y)
         /\ DecodeUrl(Encoded(c) \o y, TRUE) = <<c>> \o DecodeUrl(y, TRUE)
<1>1. CASE c \in Safe /\ Encoded(c) = <<c>>
  <2> DEFINE x == <<c>>
  <2>1. x \in Seq(EncodedIn) /\ Len(x) = 1 /\ Len(x) # 0 /\ x[1] = c
    BY <1>1 DEF EncodedIn
  <2>2. c # "%" /\ c # "+"
    BY <1>1, CharactersApart DEF EncodedIn
  <2> HIDE DEF x
  <2>3. Escaped(x)
    BY <2>1, <2>2 DEF Escaped
  <2>4. x \o y \in Seq(EncodedIn) /\ Escaped(x \o y)
    BY <2>1, <2>3, EscapedJoined
  <2>5. (x \o y)[1] = c /\ 1 \in 1..Len(x \o y)
    <3>1. /\ Len(x \o y) = 1 + Len(y) /\ Len(y) \in Nat
          /\ \A k \in 1..Len(x) : (x \o y)[k] = x[k]
      BY <2>1, Joined
    <3> QED BY <2>1, <3>1
  <2>6. Unit(x \o y, 1, TRUE) = [text |-> <<c>>, taken |-> Len(x)]
    <3> DEFINE s == x \o y
    <3> HIDE DEF s
    <3>1. Unit(s, 1, TRUE) = IF s[1] = "%"
                             THEN [text |-> <<Byte[SubSeq(s, 1 + 1, 1 + 2)]>>, taken |-> 3]
                             ELSE [text |-> <<IF s[1] = "+" THEN Space ELSE s[1]>>, taken |-> 1]
      <4>1. s \in Seq(EncodedIn) /\ Escaped(s) /\ 1 \in 1..Len(s)
        BY <2>4, <2>5 DEF s
      <4> QED BY <4>1, UnitOf
    <3>2. s[1] = c
      BY <2>5 DEF s
    <3>3. Unit(s, 1, TRUE) = [text |-> <<c>>, taken |-> 1]
      BY <2>2, <3>1, <3>2
    <3> QED BY <2>1, <3>3 DEF s
  <2>7. DecodeUrl(x \o y, TRUE) = <<c>> \o DecodeUrl(y, TRUE)
    BY <2>1, <2>4, <2>6, DecodeStep
  <2>8. Encoded(c) = x
    BY <1>1 DEF x
  <2> QED BY <2>1, <2>4, <2>7, <2>8
<1>2. ASSUME NEW p \in [1..2 -> Hex], Byte[p] = c, Encoded(c) = <<"%">> \o p
      PROVE  /\ Encoded(c) \in Seq(EncodedIn) /\ Escaped(Encoded(c) \o y)
             /\ DecodeUrl(Encoded(c) \o y, TRUE) = <<c>> \o DecodeUrl(y, TRUE)
  <2> DEFINE x == <<"%">> \o p
  <2>1. /\ x \in Seq(EncodedIn) /\ Len(x) = 3 /\ Escaped(x \o y)
        /\ Unit(x \o y, 1, TRUE) = [text |-> <<c>>, taken |-> Len(x)]
    BY <1>2, DigitsRead
  <2>2. Encoded(c) = x
    BY <1>2
  <2> HIDE DEF x
  <2>3. Len(x) # 0
    BY <2>1
  <2>4. DecodeUrl(x \o y, TRUE) = <<c>> \o DecodeUrl(y, TRUE)
    BY <2>1, <2>3, DecodeStep
  <2> QED BY <2>1, <2>2, <2>4
<1> QED BY <1>1, <1>2, EncodedAs

-----------------------------------------------------------------------------
(***************************************************************************)
(* Encoding a text, and a query: pieces put one after the other.           *)
(***************************************************************************)

\* f has, for each piece, what is made of it, of the pieces behind it and of what
\* follows them all.
Joins(f, piece, base, N) == f[N + 1] = base /\ \A i \in 1..N : f[i] = piece[i] \o f[i + 1]

\* Pieces can be put one after the other.
LEMMA JoinsAll ==
  ASSUME NEW C, NEW N \in Nat, NEW piece \in [1..N -> Seq(C)], NEW base \in Seq(C)
  PROVE  \E f \in [1..N + 1 -> Seq(C)] : Joins(f, piece, base, N)
<1> DEFINE S == Seq(C)
           next == [i \in 1..N |-> i + 1]
           join == [p \in (1..N) \X S |-> piece[p[1]] \o p[2]]
<1>1. base \in S /\ \A u, v \in S : u \o v \in S
  OBVIOUS
<1>2. next \in [1..N -> 1..N + 1] /\ \A i \in 1..N : i < next[i] /\ next[i] = i + 1
  OBVIOUS
<1>3. piece \in [1..N -> S]
  OBVIOUS
<1> HIDE DEF S, next
<1>4. join \in [(1..N) \X S -> S]
  BY <1>1, <1>3
<1>5. \A i \in 1..N : \A x \in S : join[<<i, x>>] = piece[i] \o x
  OBVIOUS
<1> HIDE DEF join
<1>6. PICK f \in [1..N + 1 -> S] : Unwinds(f, base, next, join, N)
  BY <1>1, <1>2, <1>4, SuffixRecursion
<1>7. ASSUME NEW i \in 1..N PROVE f[i] = piece[i] \o f[i + 1]
  <2>1. f[i] = join[<<i, f[next[i]]>>] /\ next[i] = i + 1 /\ next[i] \in 1..N + 1
    BY <1>2, <1>6 DEF Unwinds
  <2>2. f[i + 1] \in S
    BY <2>1
  <2> QED BY <1>5, <2>1, <2>2
<1>8. f[N + 1] = base
  BY <1>6 DEF Unwinds
<1> QED BY <1>7, <1>8 DEF Joins, S

\* What is made of texts is a text.
LEMMA JoinsTyped ==
  ASSUME NEW C, NEW N \in Nat, NEW piece \in [1..N -> Seq(C)], NEW base \in Seq(C),
         NEW f, Joins(f, piece, base, N)
  PROVE  \A i \in 1..N + 1 : f[i] \in Seq(C)
<1> DEFINE S == Seq(C)
           Q == {i \in 1..N + 1 : f[i] \in S}
<1>1. base \in S /\ \A u, v \in S : u \o v \in S
  OBVIOUS
<1>2. \A i \in 1..N : piece[i] \in S
  OBVIOUS
<1> HIDE DEF S
<1>3. N + 1 \in Q
  <2>1. N + 1 \in 1..N + 1
    OBVIOUS
  <2> QED BY <1>1, <2>1 DEF Joins
<1>4. ASSUME NEW i \in 1..N, \A j \in 1..N + 1 : i < j => j \in Q PROVE i \in Q
  <2>1. i \in 1..N + 1 /\ i + 1 \in 1..N + 1 /\ i < i + 1
    OBVIOUS
  <2>2. f[i + 1] \in S /\ f[i] = piece[i] \o f[i + 1]
    BY <1>4, <2>1 DEF Joins
  <2> QED BY <1>1, <1>2, <2>1, <2>2
<1>5. Q \in SUBSET (1..N + 1)
  OBVIOUS
<1> HIDE DEF Q
<1>6. Q = 1..N + 1
  BY <1>3, <1>4, <1>5, SuffixInduction
<1> QED BY <1>6 DEF Q, S

\* The encoded characters of a text, one after the other.
LEMMA EncodeFrom ==
  ASSUME NEW C, NEW v \in Seq(C), \A c \in C : Encodable(c)
  PROVE  \E f : /\ \A i \in 1..Len(v) + 1 : f[i] \in Seq(EncodedIn)
                /\ Joins(f, [i \in 1..Len(v) |-> Encoded(v[i])], << >>, Len(v))
                /\ EncodeQueryParam(v) = f[1]
<1> DEFINE N == Len(v)
           I == 1..N + 1
           piece == [i \in 1..N |-> Encoded(v[i])]
           value(f, i) == IF i > N THEN << >> ELSE Encoded(v[i]) \o f[i + 1]
           chosen == CHOOSE f : f = [i \in I |-> value(f, i)]
<1>1. N \in Nat
  OBVIOUS
<1>2. piece \in [1..N -> Seq(EncodedIn)]
  <2>1. ASSUME NEW i \in 1..N PROVE Encoded(v[i]) \in Seq(EncodedIn)
    <3>1. Encodable(v[i])
      OBVIOUS
    <3>2. << >> \in Seq(EncodedIn) /\ Escaped(<< >>)
      <4>1. \A k \in 1..Len(<< >>) : FALSE
        OBVIOUS
      <4> QED BY <4>1 DEF Escaped
    <3> QED BY <3>1, <3>2, EncodedRead
  <2> QED BY <2>1
<1>3. \A i \in 1..N : piece[i] = Encoded(v[i])
  OBVIOUS
<1>4. /\ N + 1 \in I /\ N + 1 > N
      /\ \A i \in 1..N : i \in I /\ ~(i > N)
      /\ \A i \in I : i \in 1..N \/ i = N + 1
  BY <1>1
<1> HIDE DEF N, piece
<1>5. PICK g \in [1..N + 1 -> Seq(EncodedIn)] : Joins(g, piece, << >>, N)
  BY <1>1, <1>2, << >> \in Seq(EncodedIn), JoinsAll
<1>6. \A i \in I : g[i] = value(g, i)
  <2>1. g[N + 1] = << >> /\ \A i \in 1..N : g[i] = Encoded(v[i]) \o g[i + 1]
    BY <1>3, <1>5 DEF Joins
  <2> HIDE DEF I
  <2> QED BY <1>4, <2>1
<1>7. g = [i \in I |-> value(g, i)]
  <2> HIDE DEF value
  <2> QED BY <1>5, <1>6
<1>8. chosen = [i \in I |-> value(chosen, i)]
  <2> HIDE DEF value
  <2> QED BY <1>7
<1> HIDE DEF chosen
<1>9. Joins(chosen, piece, << >>, N)
  <2>1. \A i \in I : chosen[i] = value(chosen, i)
    <3> HIDE DEF value
    <3> QED BY <1>8
  <2> HIDE DEF I
  <2>2. chosen[N + 1] = << >> /\ \A i \in 1..N : chosen[i] = Encoded(v[i]) \o chosen[i + 1]
    BY <1>4, <2>1
  <2> QED BY <1>3, <2>2 DEF Joins
<1>10. \A i \in 1..N + 1 : chosen[i] \in Seq(EncodedIn)
  BY <1>1, <1>2, <1>9, << >> \in Seq(EncodedIn), JoinsTyped
<1>11. EncodeQueryParam(v) = chosen[1]
  BY DEF EncodeQueryParam, chosen, value, I, N
<1> QED BY <1>9, <1>10, <1>11 DEF N, piece

\* The text from a position on.
Onwards(v, i) == Slice(v, i, Len(v) + 1)

\* A text is its characters one after the other.
LEMMA OnwardsFrom ==
  ASSUME NEW C, NEW v \in Seq(C)
  PROVE  /\ Onwards(v, Len(v) + 1) = << >> /\ Onwards(v, 1) = v
         /\ \A i \in 1..Len(v) + 1 : Onwards(v, i) \in Seq(C)
         /\ \A i \in 1..Len(v) : Onwards(v, i) = <<v[i]>> \o Onwards(v, i + 1)
<1> DEFINE N == Len(v)
<1>1. N \in Nat
  OBVIOUS
<1>2. ASSUME NEW i \in 1..N + 1
      PROVE  /\ Onwards(v, i) \in Seq(C) /\ Len(Onwards(v, i)) = (N + 1) - i
             /\ \A k \in 1..(N + 1) - i : Onwards(v, i)[k] = v[i + k - 1]
  <2> DEFINE e == N + 1
  <2>1. e \in i..Len(v) + 1
    BY <1>1
  <2> HIDE DEF e
  <2>2. /\ Slice(v, i, e) \in Seq(C) /\ Len(Slice(v, i, e)) = e - i
        /\ \A k \in 1..e - i : Slice(v, i, e)[k] = v[i + k - 1]
    BY <2>1, Sliced
  <2> QED BY <2>2 DEF Onwards, e
<1>3. Onwards(v, N + 1) = << >>
  <2>1. N + 1 \in 1..N + 1 /\ (N + 1) - (N + 1) = 0
    BY <1>1
  <2> HIDE DEF N
  <2>2. Onwards(v, N + 1) \in Seq(C) /\ Len(Onwards(v, N + 1)) = 0
    BY <1>2, <2>1
  <2> QED BY <2>2
<1>4. Onwards(v, 1) = v
  <2>1. 1 \in 1..N + 1 /\ (N + 1) - 1 = N /\ \A k \in 1..N : 1 + k - 1 = k
    BY <1>1
  <2>2. /\ Onwards(v, 1) \in Seq(C) /\ Len(Onwards(v, 1)) = N
        /\ \A k \in 1..N : Onwards(v, 1)[k] = v[k]
    BY <1>2, <2>1
  <2> QED BY <2>2, SameText
<1>5. ASSUME NEW i \in 1..N PROVE Onwards(v, i) = <<v[i]>> \o Onwards(v, i + 1)
  <2> DEFINE x == <<v[i]>>
             y == Onwards(v, i + 1)
             s == Onwards(v, i)
             l == N - i
  <2>1. i \in 1..N + 1 /\ i + 1 \in 1..N + 1 /\ (N + 1) - (i + 1) = l /\ (N + 1) - i = l + 1
    BY <1>1
  <2>2. l \in Nat /\ x \in Seq(C) /\ Len(x) = 1 /\ x[1] = v[i]
    BY <1>1
  <2> HIDE DEF N, l
  <2>3. y \in Seq(C) /\ Len(y) = l /\ \A k \in 1..l : y[k] = v[(i + 1) + k - 1]
    <3> HIDE DEF x, y, s
    <3> QED BY <1>2, <2>1 DEF y
  <2>4. s \in Seq(C) /\ Len(s) = l + 1 /\ \A k \in 1..l + 1 : s[k] = v[i + k - 1]
    <3> HIDE DEF x, y, s
    <3> QED BY <1>2, <2>1 DEF s
  <2> HIDE DEF x, y, s
  <2>5. /\ x \o y \in Seq(C) /\ Len(x \o y) = 1 + l
        /\ (x \o y)[1] = v[i] /\ \A k \in 1..l : (x \o y)[1 + k] = y[k]
    <3>1. /\ x \o y \in Seq(C) /\ Len(x \o y) = Len(x) + Len(y)
          /\ \A k \in 1..Len(x) : (x \o y)[k] = x[k]
          /\ \A k \in 1..Len(y) : (x \o y)[Len(x) + k] = y[k]
      <4>1. x \in Seq(C) /\ y \in Seq(C)
        BY <2>2, <2>3
      <4> QED BY <4>1, Joined
    <3>2. 1 \in 1..Len(x)
      BY <2>2
    <3> QED BY <2>2, <2>3, <3>1, <3>2
  <2>6. ASSUME NEW k \in 1..l + 1 PROVE s[k] = (x \o y)[k]
    <3>1. CASE k = 1
      <4>1. i + 1 - 1 = i
        BY <2>1
      <4> QED BY <2>4, <2>5, <3>1, <4>1
    <3>2. CASE k # 1
      <4>1. k - 1 \in 1..l /\ 1 + (k - 1) = k /\ (i + 1) + (k - 1) - 1 = i + k - 1
        BY SMTT(30), <2>1, <2>2, <3>2
      <4>2. s[k] = v[i + k - 1]
        BY <2>4
      <4>3. (x \o y)[1 + (k - 1)] = y[k - 1] /\ y[k - 1] = v[(i + 1) + (k - 1) - 1]
        BY <2>3, <2>5, <4>1
      <4> QED BY <4>1, <4>2, <4>3
    <3> QED BY <3>1, <3>2
  <2>7. Len(s) = Len(x \o y)
    BY <2>2, <2>4, <2>5
  <2>8. s = x \o y
    BY <2>4, <2>5, <2>6, <2>7, SameText
  <2> QED BY <2>8 DEF x, y, s
<1>6. \A i \in 1..Len(v) + 1 : Onwards(v, i) \in Seq(C)
  BY <1>2
<1> HIDE DEF N
<1> QED BY <1>3, <1>4, <1>5, <1>6 DEF N

\* A text, encoded and decoded, is itself; encoded, it holds no character that
\* separates.
THEOREM EncodedTextIsReadBack ==
  ASSUME NEW C, \A c \in C : Encodable(c), NEW v \in Seq(C)
  PROVE  /\ DecodeUrl(EncodeQueryParam(v), TRUE) = v
         /\ EncodeQueryParam(v) \in Seq(EncodedIn) /\ Escaped(EncodeQueryParam(v))
<1> DEFINE N == Len(v)
           piece == [i \in 1..N |-> Encoded(v[i])]
<1>1. PICK f : /\ \A i \in 1..N + 1 : f[i] \in Seq(EncodedIn)
               /\ Joins(f, piece, << >>, N)
               /\ EncodeQueryParam(v) = f[1]
  BY EncodeFrom
<1>2. N \in Nat /\ \A i \in 1..N : v[i] \in C /\ piece[i] = Encoded(v[i])
  OBVIOUS
<1> HIDE DEF piece
<1> DEFINE Q == {i \in 1..N + 1 : Escaped(f[i]) /\ DecodeUrl(f[i], TRUE) = Onwards(v, i)}
<1>3. /\ Onwards(v, N + 1) = << >> /\ Onwards(v, 1) = v
      /\ \A i \in 1..N : Onwards(v, i) = <<v[i]>> \o Onwards(v, i + 1)
  BY OnwardsFrom
<1> HIDE DEF N
<1>4. N + 1 \in Q
  <2>1. N + 1 \in 1..N + 1 /\ f[N + 1] = << >>
    BY <1>1, <1>2 DEF Joins
  <2>2. Escaped(<< >>)
    <3>1. \A i \in 1..Len(<< >>) : FALSE
      OBVIOUS
    <3> QED BY <3>1 DEF Escaped
  <2>3. DecodeUrl(<< >>, TRUE) = << >>
    <3>1. << >> \in Seq({}) /\ Len(<< >>) + 1 = 1
      OBVIOUS
    <3>2. PICK g \in [1..Len(<< >>) + 1 -> Seq(Readable({}))] :
            Decodes(g, << >>) /\ DecodeUrl(<< >>, TRUE) = g[1]
      BY <2>2, <3>1, DecodeFrom
    <3>3. g[Len(<< >>) + 1] = << >>
      BY <3>2 DEF Decodes
    <3> QED BY <3>1, <3>2, <3>3
  <2> QED BY <1>3, <2>1, <2>2, <2>3
<1>5. ASSUME NEW i \in 1..N, \A j \in 1..N + 1 : i < j => j \in Q PROVE i \in Q
  <2>1. i \in 1..N + 1 /\ i + 1 \in 1..N + 1 /\ i < i + 1
    BY <1>2
  <2> DEFINE y == f[i + 1]
  <2>2. y \in Seq(EncodedIn) /\ Escaped(y) /\ DecodeUrl(y, TRUE) = Onwards(v, i + 1)
    BY <1>1, <1>5, <2>1
  <2>3. f[i] = Encoded(v[i]) \o y
    BY <1>1, <1>2 DEF Joins
  <2>4. Encodable(v[i])
    BY <1>2
  <2> HIDE DEF y
  <2>5. /\ Escaped(Encoded(v[i]) \o y)
        /\ DecodeUrl(Encoded(v[i]) \o y, TRUE) = <<v[i]>> \o DecodeUrl(y, TRUE)
    BY <2>2, <2>4, EncodedRead
  <2> QED BY <1>3, <2>1, <2>2, <2>3, <2>5
<1>6. Q \in SUBSET (1..N + 1)
  OBVIOUS
<1> HIDE DEF Q
<1>7. Q = 1..N + 1
  BY <1>2, <1>4, <1>5, <1>6, SuffixInduction
<1>8. 1 \in 1..N + 1
  BY <1>2
<1> QED BY <1>1, <1>3, <1>7, <1>8 DEF Q

\* A text of characters that are left as they are is its own encoding.
LEMMA SafeTextIsKept ==
  ASSUME NEW v \in Seq(Safe)
  PROVE  EncodeQueryParam(v) = v
<1> DEFINE N == Len(v)
           piece == [i \in 1..N |-> Encoded(v[i])]
<1>1. PICK f : /\ \A i \in 1..N + 1 : f[i] \in Seq(EncodedIn)
               /\ Joins(f, piece, << >>, N)
               /\ EncodeQueryParam(v) = f[1]
  <2>1. \A c \in Safe : Encodable(c)
    BY DEF Encodable
  <2> QED BY <2>1, EncodeFrom
<1>2. N \in Nat /\ \A i \in 1..N : piece[i] = <<v[i]>>
  BY DEF Encoded, IsSafe
<1> HIDE DEF piece
<1> DEFINE Q == {i \in 1..N + 1 : f[i] = Onwards(v, i)}
<1>3. /\ Onwards(v, N + 1) = << >> /\ Onwards(v, 1) = v
      /\ \A i \in 1..N : Onwards(v, i) = <<v[i]>> \o Onwards(v, i + 1)
  BY OnwardsFrom
<1> HIDE DEF N
<1>4. N + 1 \in Q
  BY <1>1, <1>2, <1>3 DEF Joins
<1>5. ASSUME NEW i \in 1..N, \A j \in 1..N + 1 : i < j => j \in Q PROVE i \in Q
  <2>1. i \in 1..N + 1 /\ i + 1 \in 1..N + 1 /\ i < i + 1
    BY <1>2
  <2> QED BY <1>1, <1>2, <1>3, <1>5, <2>1 DEF Joins
<1>6. Q \in SUBSET (1..N + 1)
  OBVIOUS
<1> HIDE DEF Q
<1>7. Q = 1..N + 1
  BY <1>2, <1>4, <1>5, <1>6, SuffixInduction
<1>8. 1 \in 1..N + 1
  BY <1>2
<1> QED BY <1>1, <1>3, <1>7, <1>8 DEF Q

-----------------------------------------------------------------------------
(***************************************************************************)
(* Queries.                                                                *)
(***************************************************************************)

\* What queries hold: keys that are left as they are, and values of any characters V.
Param(V)   == [key : Seq(Safe) \ {<< >>}, value : Seq(V)]
QuerySigns == EncodedIn \cup {"=", "&"}

\* A text without blanks is trimmed already.
LEMMA Unblanked ==
  ASSUME NEW C, C \cap Blanks = {}, NEW y \in Seq(C)
  PROVE  Trim(y) = y
<1> SUFFICES y # << >> => y[1] \notin Blanks /\ y[Len(y)] \notin Blanks
  BY TrimmedAlready
<1>1. Len(y) \in Nat /\ \A k \in 1..Len(y) : y[k] \in C
  OBVIOUS
<1>2. y # << >> => Len(y) # 0
  OBVIOUS
<1>3. y # << >> => 1 \in 1..Len(y) /\ Len(y) \in 1..Len(y)
  BY <1>1, <1>2
<1> QED BY <1>1, <1>3

\* Nothing that a query is made of is a blank.
LEMMA QueryUnblanked == QuerySigns \cap Blanks = {}
<1>1. "=" \notin Blanks /\ "&" \notin Blanks
  BY Zenon DEF Blanks, Space
<1> QED BY <1>1, CharactersApart DEF QuerySigns

\* The elements of a sequence with one more in front.
LEMMA ToSetOfJoined ==
  ASSUME NEW C, NEW w \in C, NEW z \in Seq(C)
  PROVE  ToSet(<<w>> \o z) = {w} \cup ToSet(z)
<1> DEFINE x == <<w>>
           s == x \o z
           n == Len(z)
<1>1. x \in Seq(C) /\ Len(x) = 1 /\ x[1] = w
  OBVIOUS
<1> HIDE DEF x
<1>2. /\ s \in Seq(C) /\ n \in Nat /\ Len(s) = 1 + n
      /\ s[1] = w /\ \A k \in 1..n : s[1 + k] = z[k]
  <2>1. /\ s \in Seq(C) /\ n \in Nat /\ Len(s) = Len(x) + n
        /\ \A k \in 1..Len(x) : s[k] = x[k]
        /\ \A k \in 1..n : s[Len(x) + k] = z[k]
    <3>1. x \in Seq(C)
      BY <1>1
    <3> QED BY <3>1, Joined
  <2>2. 1 \in 1..Len(x)
    BY <1>1
  <2> HIDE DEF s, n
  <2> QED BY <1>1, <2>1, <2>2
<1>3. ToSet(s) = {s[k] : k \in 1..1 + n} /\ ToSet(z) = {z[k] : k \in 1..n}
  <2>1. DOMAIN s = 1..Len(s) /\ DOMAIN z = 1..n
    BY <1>2
  <2> QED BY <1>2, <2>1 DEF ToSet
<1> HIDE DEF s, n
<1>4. \A k \in 1..1 + n : k = 1 \/ (k - 1 \in 1..n /\ 1 + (k - 1) = k)
  BY <1>2
<1>5. 1 \in 1..1 + n /\ \A k \in 1..n : 1 + k \in 1..1 + n
  BY <1>2
<1>6. ToSet(s) \subseteq {w} \cup ToSet(z)
  <2>1. ASSUME NEW k \in 1..1 + n PROVE s[k] \in {w} \cup ToSet(z)
    <3>1. CASE k = 1
      BY <1>2, <3>1
    <3>2. CASE k - 1 \in 1..n /\ 1 + (k - 1) = k
      <4>1. s[k] = z[k - 1]
        BY <1>2, <3>2
      <4> QED BY <1>3, <3>2, <4>1
    <3> QED BY <1>4, <3>1, <3>2
  <2> QED BY <1>3, <2>1
<1>7. {w} \cup ToSet(z) \subseteq ToSet(s)
  <2>1. w \in ToSet(s)
    BY <1>2, <1>3, <1>5
  <2>2. ASSUME NEW k \in 1..n PROVE z[k] \in ToSet(s)
    <3>1. 1 + k \in 1..1 + n /\ s[1 + k] = z[k]
      BY <1>2, <1>5
    <3> QED BY <1>3, <3>1
  <2> QED BY <1>3, <2>1, <2>2
<1> QED BY <1>6, <1>7 DEF s, x

\* Two elements, one after the other.
LEMMA TwoJoined == ASSUME NEW a, NEW b PROVE <<a>> \o <<b>> = <<a, b>>
<1> DEFINE C == {a, b}
           x == <<a>>
           y == <<b>>
           t == <<a, b>>
<1>1. /\ x \in Seq(C) /\ Len(x) = 1 /\ x[1] = a
      /\ y \in Seq(C) /\ Len(y) = 1 /\ y[1] = b
      /\ t \in Seq(C) /\ Len(t) = 2 /\ t[1] = a /\ t[2] = b
  OBVIOUS
<1> HIDE DEF x, y, t, C
<1>2. /\ x \o y \in Seq(C) /\ Len(x \o y) = Len(x) + Len(y)
      /\ \A k \in 1..Len(x) : (x \o y)[k] = x[k]
      /\ \A k \in 1..Len(y) : (x \o y)[Len(x) + k] = y[k]
  BY <1>1, Joined
<1>3. Len(x \o y) = 2 /\ (x \o y)[1] = a /\ (x \o y)[2] = b
  <2>1. 1 \in 1..Len(x) /\ 1 \in 1..Len(y) /\ Len(x) + 1 = 2
    BY <1>1
  <2> QED BY <1>1, <1>2, <2>1
<1>4. \A k \in 1..2 : k = 1 \/ k = 2
  OBVIOUS
<1>5. x \o y = t
  BY <1>1, <1>2, <1>3, <1>4, SameText
<1> QED BY <1>5 DEF x, y, t

\* A key, an equals sign and a value are taken apart into the two.
LEMMA KeyValueOf ==
  ASSUME NEW C, "=" \in C, NEW k \in Seq(C), NEW e \in Seq(C), k # << >>,
         Trim(k) = k, Trim(e) = e,
         \A i \in 1..Len(k) : k[i] # "=", \A i \in 1..Len(e) : e[i] # "="
  PROVE  KeyValue(k \o <<"=">> \o e) = [key |-> k, value |-> e]
<1> DEFINE w == k \o <<"=">> \o e
<1>1. Split(w, "=") = NonEmpty(Trim(k)) \o Split(e, "=")
  BY SplitCut
<1>2. Split(e, "=") = NonEmpty(Trim(e))
  BY SplitWhole
<1> HIDE DEF w
<1>3. Split(w, "=") = <<k>> \o NonEmpty(e)
  BY <1>1, <1>2 DEF NonEmpty
<1>4. KeyValue(w) = [key |-> k, value |-> e]
  <2>1. CASE e = << >>
    <3>1. Split(w, "=") = <<k>>
      <4> DEFINE one == <<k>>
      <4>1. one \in Seq(Seq(C))
        OBVIOUS
      <4> HIDE DEF one
      <4>2. one \o << >> = one
        BY <4>1
      <4> QED BY <1>3, <2>1, <4>2 DEF NonEmpty, one
    <3>2. <<k>> # << >> /\ <<k>>[1] = k /\ Len(<<k>>) < 2
      OBVIOUS
    <3> QED BY <2>1, <3>1, <3>2 DEF KeyValue
  <2>2. CASE e # << >>
    <3>1. Split(w, "=") = <<k, e>>
      <4>1. <<k>> \o <<e>> = <<k, e>>
        BY TwoJoined
      <4> QED BY <1>3, <2>2, <4>1 DEF NonEmpty
    <3>2. <<k, e>> # << >> /\ <<k, e>>[1] = k /\ ~(Len(<<k, e>>) < 2) /\ Last(<<k, e>>) = e
      BY DEF Last
    <3> QED BY <3>1, <3>2 DEF KeyValue
  <2> QED BY <2>1, <2>2
<1> QED BY <1>4 DEF w

\* A parameter, written, is a text with neither blanks nor ampersands, and is taken
\* apart into its key and its encoded value.
LEMMA WrittenRead ==
  ASSUME NEW V, \A c \in V : Encodable(c), NEW p \in Param(V)
  PROVE  /\ Written(p) \in Seq(EncodedIn \cup {"="}) /\ Written(p) \in Seq(QuerySigns)
         /\ Written(p) # << >>
         /\ KeyValue(Written(p)) = [key |-> p.key, value |-> EncodeQueryParam(p.value)]
<1> DEFINE k == p.key
           e == EncodeQueryParam(p.value)
           E == <<"=">>
           C == EncodedIn \cup {"="}
           w == (k \o E) \o e
<1>1. k \in Seq(Safe) /\ k # << >> /\ p.value \in Seq(V)
  BY DEF Param
<1>2. e \in Seq(EncodedIn)
  <2> DEFINE v == p.value
  <2>1. v \in Seq(V)
    BY <1>1
  <2> HIDE DEF v
  <2>2. EncodeQueryParam(v) \in Seq(EncodedIn)
    BY <2>1, EncodedTextIsReadBack
  <2> QED BY <2>2 DEF v
<1> HIDE DEF k, e
<1>3. k \in Seq(C) /\ e \in Seq(C) /\ "=" \in C
  BY <1>1, <1>2 DEF EncodedIn
<1>4. Written(p) = w
  BY DEF Written, w, k, e
<1>5. /\ w \in Seq(C) /\ Len(k) \in Nat /\ Len(e) \in Nat
      /\ Len(w) = Len(k) + 1 + Len(e)
  BY <1>3, JoinedBy
<1>6. w \in Seq(QuerySigns) /\ w # << >>
  <2> HIDE DEF w
  <2>1. w \in Seq(QuerySigns)
    BY <1>5 DEF QuerySigns
  <2>2. Len(w) # 0
    BY <1>5
  <2> QED BY <2>1, <2>2
<1>7. Trim(k) = k /\ Trim(e) = e
  <2>1. C \cap Blanks = {}
    BY QueryUnblanked DEF QuerySigns
  <2> HIDE DEF C
  <2> QED BY <1>3, <2>1, Unblanked
<1>8. \A i \in 1..Len(k) : k[i] # "="
  BY <1>1, CharactersApart DEF EncodedIn
<1>9. \A i \in 1..Len(e) : e[i] # "="
  BY <1>2, CharactersApart
<1>10. KeyValue(w) = [key |-> k, value |-> e]
  <2> HIDE DEF C
  <2> QED BY <1>1, <1>3, <1>7, <1>8, <1>9, KeyValueOf
<1> QED BY <1>4, <1>5, <1>6, <1>10 DEF k, e

\* The written parameters, one after the other.
LEMMA QueryFrom ==
  ASSUME NEW V, \A c \in V : Encodable(c), NEW params \in Seq(Param(V))
  PROVE  \E f : /\ \A i \in 1..Len(params) + 1 : f[i] \in Seq(QuerySigns)
                /\ f[Len(params) + 1] = << >>
                /\ \A i \in 1..Len(params) :
                     f[i] = (IF i = 1 THEN << >> ELSE <<"&">>) \o Written(params[i]) \o f[i + 1]
                /\ ParamsToQueryStr(params) = f[1]
<1> DEFINE N == Len(params)
           I == 1..N + 1
           text(i) == (IF i = 1 THEN << >> ELSE <<"&">>) \o Written(params[i])
           piece == [i \in 1..N |-> text(i)]
           value(f, i) == IF i > N THEN << >> ELSE text(i) \o f[i + 1]
           chosen == CHOOSE f : f = [i \in I |-> value(f, i)]
<1>1. N \in Nat
  OBVIOUS
<1>2. \A i \in 1..N : text(i) \in Seq(QuerySigns)
  <2> TAKE i \in 1..N
  <2>1. Written(params[i]) \in Seq(QuerySigns)
    <3>1. params[i] \in Param(V)
      OBVIOUS
    <3> QED BY <3>1, WrittenRead
  <2>2. << >> \in Seq(QuerySigns) /\ <<"&">> \in Seq(QuerySigns)
    BY DEF QuerySigns
  <2> QED BY <2>1, <2>2
<1>3. /\ N + 1 \in I /\ N + 1 > N
      /\ \A i \in 1..N : i \in I /\ ~(i > N)
      /\ \A i \in I : i \in 1..N \/ i = N + 1
  BY <1>1
<1> HIDE DEF text, N
<1>4. piece \in [1..N -> Seq(QuerySigns)] /\ \A i \in 1..N : piece[i] = text(i)
  BY <1>2
<1> HIDE DEF piece
<1>5. PICK g \in [1..N + 1 -> Seq(QuerySigns)] : Joins(g, piece, << >>, N)
  BY <1>1, <1>4, << >> \in Seq(QuerySigns), JoinsAll
<1>6. \A i \in I : g[i] = value(g, i)
  <2>1. g[N + 1] = << >> /\ \A i \in 1..N : g[i] = text(i) \o g[i + 1]
    BY <1>4, <1>5 DEF Joins
  <2> HIDE DEF I
  <2> QED BY <1>3, <2>1
<1>7. g = [i \in I |-> value(g, i)]
  <2> HIDE DEF value
  <2> QED BY <1>5, <1>6
<1>8. chosen = [i \in I |-> value(chosen, i)]
  <2> HIDE DEF value
  <2> QED BY <1>7
<1> HIDE DEF chosen
<1>9. chosen[N + 1] = << >> /\ \A i \in 1..N : chosen[i] = text(i) \o chosen[i + 1]
  <2>1. \A i \in I : chosen[i] = value(chosen, i)
    <3> HIDE DEF value
    <3> QED BY <1>8
  <2> HIDE DEF I
  <2> QED BY <1>3, <2>1
<1>10. \A i \in 1..N + 1 : chosen[i] \in Seq(QuerySigns)
  <2>1. Joins(chosen, piece, << >>, N)
    BY <1>4, <1>9 DEF Joins
  <2> QED BY <1>1, <1>4, <2>1, << >> \in Seq(QuerySigns), JoinsTyped
<1>11. ParamsToQueryStr(params) = chosen[1]
  BY DEF ParamsToQueryStr, chosen, value, text, I, N
<1> QED BY <1>9, <1>10, <1>11 DEF text, N

\* A query is split into its written parameters.
LEMMA QuerySplit ==
  ASSUME NEW V, \A c \in V : Encodable(c), NEW params \in Seq(Param(V))
  PROVE  ToSet(Split(ParamsToQueryStr(params), "&"))
           = {Written(params[i]) : i \in 1..Len(params)}
<1> DEFINE N == Len(params)
           W(i) == Written(params[i])
           S == Seq(QuerySigns)
<1>1. PICK f : /\ \A i \in 1..N + 1 : f[i] \in S
               /\ f[N + 1] = << >>
               /\ \A i \in 1..N :
                    f[i] = (IF i = 1 THEN << >> ELSE <<"&">>) \o W(i) \o f[i + 1]
               /\ ParamsToQueryStr(params) = f[1]
  BY QueryFrom
<1>2. N \in Nat
  OBVIOUS
<1>3. ASSUME NEW i \in 1..N
      PROVE  /\ W(i) \in S /\ NonEmpty(Trim(W(i))) = <<W(i)>>
             /\ \A k \in 1..Len(W(i)) : W(i)[k] # "&"
  <2> DEFINE w == W(i)
             C == EncodedIn \cup {"="}
  <2>1. w \in Seq(C) /\ w \in S /\ w # << >>
    <3>1. params[i] \in Param(V)
      OBVIOUS
    <3> QED BY <3>1, WrittenRead
  <2> HIDE DEF W, w
  <2>2. "&" \notin C
    BY CharactersApart
  <2> HIDE DEF C
  <2>3. \A k \in 1..Len(w) : w[k] # "&"
    BY <2>1, <2>2
  <2>4. Trim(w) = w
    BY <2>1, QueryUnblanked, Unblanked
  <2> QED BY <2>1, <2>3, <2>4 DEF w, NonEmpty
<1> HIDE DEF N, W, S
<1> DEFINE onward(i) == W(i) \o f[i + 1]
           G(i) == Split(onward(i), "&")
           Q == {i \in 1..N + 1 : i # N + 1 => ToSet(G(i)) = {W(j) : j \in i..N}}
<1>4. N + 1 \in Q
  BY <1>2
<1>5. ASSUME NEW i \in 1..N, \A j \in 1..N + 1 : i < j => j \in Q PROVE i \in Q
  <2>1. /\ i \in 1..N + 1 /\ i # N + 1 /\ i + 1 \in 1..N + 1 /\ i < i + 1
        /\ i.. N = {i} \cup (i + 1..N)
    BY <1>2
  <2>2. CASE i = N
    <3>1. f[i + 1] = << >> /\ i..N = {i}
      BY <1>1, <1>2, <2>2
    <3>2. onward(i) = W(i)
      <4> DEFINE w == W(i)
      <4>1. w \in Seq(QuerySigns)
        BY <1>3 DEF S
      <4> HIDE DEF w
      <4>2. w \o << >> = w
        BY <4>1
      <4> QED BY <3>1, <4>2 DEF w
    <3>3. G(i) = <<W(i)>>
      <4> DEFINE w == W(i)
      <4>1. w \in Seq(QuerySigns) /\ \A k \in 1..Len(w) : w[k] # "&"
        BY <1>3 DEF S
      <4>2. NonEmpty(Trim(w)) = <<w>>
        BY <1>3
      <4> HIDE DEF w
      <4>3. Split(w, "&") = <<w>>
        BY <4>1, <4>2, SplitWhole
      <4>4. G(i) = Split(w, "&")
        BY <3>2 DEF w
      <4> QED BY <4>3, <4>4 DEF w
    <3> HIDE DEF G, onward
    <3>4. ToSet(<<W(i)>>) = {W(i)}
      <4> DEFINE w == W(i)
                 o == <<w>>
      <4>1. DOMAIN o = {1} /\ o[1] = w
        OBVIOUS
      <4> HIDE DEF o, w
      <4>2. ToSet(o) = {w}
        BY <4>1 DEF ToSet
      <4> QED BY <4>2 DEF o, w
    <3>5. ToSet(G(i)) = {W(j) : j \in i..N}
      BY <3>1, <3>3, <3>4
    <3> QED BY <2>1, <3>5
  <2>3. CASE i # N
    <3>1. i + 1 \in 1..N /\ i + 1 # 1 /\ i + 1 # N + 1
      BY <1>2, <2>3
    <3> DEFINE w == W(i)
               y == onward(i + 1)
               A == <<"&">>
    <3>2. w \in S /\ W(i + 1) \in S /\ f[(i + 1) + 1] \in S
      <4>1. (i + 1) + 1 \in 1..N + 1
        BY <1>2, <3>1
      <4> QED BY <1>1, <1>3, <3>1, <4>1
    <3>3. A \in S /\ "&" \in QuerySigns
      BY DEF S, QuerySigns
    <3> HIDE DEF A
    <3>4. f[i + 1] = A \o y /\ y \in S
      <4>1. f[i + 1] = A \o W(i + 1) \o f[(i + 1) + 1]
        BY <1>1, <3>1 DEF A
      <4> DEFINE u == W(i + 1)
                 v == f[(i + 1) + 1]
      <4>2. u \in S /\ v \in S
        BY <3>2
      <4>3. f[i + 1] = (A \o u) \o v /\ y = u \o v
        BY <4>1
      <4> HIDE DEF u, v, y
      <4> QED BY SMTT(30), <3>3, <4>2, <4>3, Associated DEF S
    <3>5. onward(i) = (w \o A) \o y
      <4>1. onward(i) = w \o (A \o y)
        BY <3>4
      <4> HIDE DEF w, y, onward
      <4>2. w \in Seq(QuerySigns) /\ A \in Seq(QuerySigns) /\ y \in Seq(QuerySigns)
        BY <3>2, <3>3, <3>4 DEF S
      <4>3. (w \o A) \o y = w \o (A \o y)
        BY SMTT(30), <4>2, Associated
      <4> QED BY <4>1, <4>3
    <3>6. \A k \in 1..Len(w) : w[k] # "&"
      BY <1>3
    <3>7. NonEmpty(Trim(w)) = <<w>>
      BY <1>3
    <3>8. G(i + 1) = Split(y, "&") /\ G(i) = Split(onward(i), "&")
      OBVIOUS
    <3>9. ToSet(G(i + 1)) = {W(j) : j \in i + 1..N}
      <4> HIDE DEF G
      <4> QED BY <1>5, <2>1, <3>1
    <3> HIDE DEF w, y, G, onward
    <3>10. G(i) = <<w>> \o Split(y, "&")
      <4>1. Split(w \o <<"&">> \o y, "&") = NonEmpty(Trim(w)) \o Split(y, "&")
        BY <3>2, <3>3, <3>4, <3>6, SplitCut DEF S
      <4> QED BY <3>5, <3>7, <3>8, <4>1 DEF A
    <3>11. Split(y, "&") \in Seq(S)
      <4>1. PICK g \in [1..Len(y) + 1 -> Seq(Seq(QuerySigns))] : Split(y, "&") = g[1]
        BY <3>4, SplitFrom DEF S
      <4>2. 1 \in 1..Len(y) + 1
        <5>1. Len(y) \in Nat
          BY <3>4 DEF S
        <5> QED BY <5>1
      <4> QED BY <4>1, <4>2 DEF S
    <3>12. ToSet(G(i)) = {w} \cup ToSet(Split(y, "&"))
      BY <3>2, <3>10, <3>11, ToSetOfJoined
    <3>13. ToSet(G(i)) = {w} \cup {W(j) : j \in i + 1..N}
      BY <3>8, <3>9, <3>12
    <3>14. {w} \cup {W(j) : j \in i + 1..N} = {W(j) : j \in i..N}
      BY <2>1 DEF w
    <3> QED BY <2>1, <3>13, <3>14
  <2> QED BY <2>2, <2>3
<1>6. Q \in SUBSET (1..N + 1)
  OBVIOUS
<1> HIDE DEF Q
<1>7. Q = 1..N + 1
  BY <1>2, <1>4, <1>5, <1>6, SuffixInduction
<1>8. CASE N = 0
  <2>1. f[1] = << >>
    BY <1>1, <1>8
  <2>2. Split(<< >>, "&") = NonEmpty(Trim(<< >>))
    <3>1. << >> \in Seq({}) /\ \A k \in 1..Len(<< >>) : << >>[k] # "&"
      OBVIOUS
    <3> QED BY <3>1, SplitWhole
  <2>3. NonEmpty(Trim(<< >>)) = << >>
    <3>1. << >> \in Seq({}) /\ {} \cap Blanks = {}
      OBVIOUS
    <3>2. Trim(<< >>) = << >>
      BY <3>1, Unblanked
    <3> QED BY <3>2 DEF NonEmpty
  <2>4. ToSet(<< >>) = {} /\ {W(i) : i \in 1..N} = {}
    BY <1>8 DEF ToSet
  <2> QED BY <1>1, <2>1, <2>2, <2>3, <2>4 DEF N, W
<1>9. CASE N # 0
  <2>1. 1 \in 1..N + 1 /\ 1 # N + 1 /\ 1 \in 1..N
    BY <1>2, <1>9
  <2>2. ToSet(G(1)) = {W(j) : j \in 1..N}
    <3> HIDE DEF G
    <3> QED BY <1>7, <2>1 DEF Q
  <2>3. f[1] = onward(1)
    <3> DEFINE w == W(1)
    <3>1. w \in Seq(QuerySigns) /\ f[1] = << >> \o w \o f[1 + 1]
      BY <1>1, <1>3, <2>1 DEF S
    <3>2. onward(1) = w \o f[1 + 1]
      OBVIOUS
    <3> HIDE DEF w, onward
    <3>3. << >> \o w = w
      BY <3>1
    <3> QED BY <3>1, <3>2, <3>3
  <2> HIDE DEF onward
  <2> QED BY <1>1, <2>2, <2>3 DEF N, W
<1> QED BY <1>8, <1>9

\* A query that is written is read back, whatever characters its values hold.
THEOREM QueriesAreReadBack ==
  ASSUME NEW V, \A c \in V : Encodable(c), NEW params \in Seq(Param(V))
  PROVE  ParseQueryText(ParamsToQueryStr(params)) = ToSet(params)
<1> DEFINE N == Len(params)
           W(i) == Written(params[i])
           raw(i) == [key |-> params[i].key, value |-> EncodeQueryParam(params[i].value)]
           q == ParamsToQueryStr(params)
<1>1. ToSet(Split(q, "&")) = {W(i) : i \in 1..N}
  BY QuerySplit
<1>2. ASSUME NEW i \in 1..N
      PROVE  /\ params[i] \in Param(V)
             /\ KeyValue(W(i)) = raw(i) /\ raw(i).key # << >>
  <2>1. params[i] \in Param(V)
    OBVIOUS
  <2>2. KeyValue(Written(params[i])) = raw(i)
    BY <2>1, WrittenRead
  <2>3. params[i].key # << >>
    BY <2>1 DEF Param
  <2> QED BY <2>1, <2>2, <2>3
<1>3. ASSUME NEW i \in 1..N
      PROVE  [key |-> DecodeUrl(raw(i).key, TRUE), value |-> DecodeUrl(raw(i).value, TRUE)]
               = params[i]
  <2> DEFINE k == params[i].key
             v == params[i].value
  <2>1. k \in Seq(Safe) /\ v \in Seq(V) /\ params[i] = [key |-> k, value |-> v]
    BY <1>2 DEF Param
  <2>2. raw(i).key = k /\ raw(i).value = EncodeQueryParam(v)
    OBVIOUS
  <2> HIDE DEF k, v, raw
  <2>3. DecodeUrl(EncodeQueryParam(v), TRUE) = v
    BY <2>1, EncodedTextIsReadBack
  <2>4. DecodeUrl(k, TRUE) = k
    <3>1. \A c \in Safe : Encodable(c)
      BY DEF Encodable
    <3>2. DecodeUrl(EncodeQueryParam(k), TRUE) = k
      BY <2>1, <3>1, EncodedTextIsReadBack
    <3>3. EncodeQueryParam(k) = k
      BY <2>1, SafeTextIsKept
    <3> QED BY <3>2, <3>3
  <2> QED BY <2>1, <2>2, <2>3, <2>4
<1> HIDE DEF W, raw, q
<1>4. ParseParams(q, "&") = {raw(i) : i \in 1..N}
  BY <1>1, <1>2 DEF ParseParams
<1>5. ParseQueryText(q) = {params[i] : i \in 1..N}
  <2> DEFINE F(p) == [key |-> DecodeUrl(p.key, TRUE), value |-> DecodeUrl(p.value, TRUE)]
  <2>1. ParseQueryText(q) = {F(p) : p \in ParseParams(q, "&")}
    BY DEF ParseQueryText
  <2>2. \A i \in 1..N : F(raw(i)) = params[i]
    BY <1>3
  <2> HIDE DEF F
  <2>3. {F(p) : p \in {raw(i) : i \in 1..N}} = {F(raw(i)) : i \in 1..N}
    OBVIOUS
  <2>4. {F(raw(i)) : i \in 1..N} = {params[i] : i \in 1..N}
    BY <2>2
  <2> QED BY <1>4, <2>1, <2>3, <2>4
<1>6. ToSet(params) = {params[i] : i \in 1..N}
  <2>1. DOMAIN params = 1..N
    OBVIOUS
  <2> QED BY <2>1 DEF ToSet
<1> QED BY <1>5, <1>6 DEF q

-----------------------------------------------------------------------------
(***************************************************************************)
(* The parameters of a form's part.                                        *)
(***************************************************************************)

\* The characters of such parameters, and the names of the two that a part has.
QuotedIn(C) == C \cup {Quote, Semicolon, Space, "=", "n", "f"}

\* What separates, quotes and blanks are told apart.
LEMMA SeparatorsApart ==
  /\ Quote # "=" /\ Quote # Semicolon /\ Semicolon # "=" /\ Semicolon # Space
  /\ Quote \notin Blanks /\ Space \in Blanks
  /\ \A k \in {"n", "f"} : k # "=" /\ k # Semicolon /\ k \notin Blanks
<1>1. Quote # "=" /\ Quote # Semicolon /\ Semicolon # "=" /\ Semicolon # Space
  BY Zenon DEF Quote, Semicolon, Space
<1>2. Quote \notin Blanks /\ Space \in Blanks
  BY Zenon DEF Quote, Blanks, Space
<1>3. "n" # Semicolon /\ "f" # Semicolon /\ "n" \notin Blanks /\ "f" \notin Blanks
  BY Zenon DEF Semicolon, Blanks, Space
<1>4. "n" # "=" /\ "f" # "="
  BY Zenon
<1> QED BY <1>1, <1>2, <1>3, <1>4

\* A text in quotes, its characters, and what is left when they are taken off.
LEMMA QuotesTakenOff ==
  ASSUME NEW C, NEW text \in Seq(C), Quote \in C
  PROVE  LET q == Quoted(text)
         IN  /\ q \in Seq(C) /\ q # << >> /\ q[1] = Quote /\ q[Len(q)] = Quote
             /\ \A i \in 1..Len(q) : q[i] = Quote \/ \E j \in 1..Len(text) : q[i] = text[j]
             /\ TrimDoubleQuotes(q) = text
<1> DEFINE Q == <<Quote>>
           q == Q \o text \o Q
           n == Len(text)
<1>1. Q \in Seq(C) /\ Len(Q) = 1 /\ Q[1] = Quote
  OBVIOUS
<1> HIDE DEF Q
<1>2. /\ text \o Q \in Seq(C) /\ Len(text \o Q) = n + 1 /\ n \in Nat
      /\ \A k \in 1..n : (text \o Q)[k] = text[k]
      /\ (text \o Q)[n + 1] = Quote
  <2>1. Q \in Seq(C)
    BY <1>1
  <2>2. /\ text \o Q \in Seq(C) /\ Len(text \o Q) = n + Len(Q) /\ n \in Nat
        /\ \A k \in 1..n : (text \o Q)[k] = text[k]
        /\ \A k \in 1..Len(Q) : (text \o Q)[n + k] = Q[k]
    BY <2>1, Joined
  <2>3. 1 \in 1..Len(Q)
    BY <1>1
  <2> QED BY <1>1, <2>2, <2>3
<1>3. q = Q \o (text \o Q)
  BY <1>1, Associated
<1> DEFINE t == text \o Q
<1> HIDE DEF q, n
<1>4. /\ q \in Seq(C) /\ Len(q) = 1 + (n + 1)
      /\ q[1] = Quote /\ \A k \in 1..n + 1 : q[1 + k] = t[k]
  <2>1. Q \in Seq(C) /\ t \in Seq(C) /\ Len(t) = n + 1 /\ q = Q \o t
    BY <1>1, <1>2, <1>3
  <2> HIDE DEF t
  <2>2. /\ Q \o t \in Seq(C) /\ Len(Q \o t) = Len(Q) + Len(t)
        /\ \A k \in 1..Len(Q) : (Q \o t)[k] = Q[k]
        /\ \A k \in 1..Len(t) : (Q \o t)[Len(Q) + k] = t[k]
    BY <2>1, Joined
  <2>3. 1 \in 1..Len(Q)
    BY <1>1
  <2> QED BY <1>1, <2>1, <2>2, <2>3
<1>5. \A k \in 1..n : t[k] = text[k]
  BY <1>2
<1>6. t \in Seq(C) /\ Len(t) = n + 1 /\ t[n + 1] = Quote
  BY <1>2
<1> HIDE DEF t
<1>7. q[Len(q)] = Quote /\ q # << >>
  <2>1. n + 1 \in 1..n + 1 /\ Len(q) # 0
    BY <1>2, <1>4
  <2>2. q[1 + (n + 1)] = Quote
    BY <1>4, <1>6, <2>1
  <2> QED BY <1>4, <2>1, <2>2
<1>8. ASSUME NEW i \in 1..Len(q)
      PROVE  q[i] = Quote \/ \E j \in 1..Len(text) : q[i] = text[j]
  <2>1. i = 1 \/ i = Len(q) \/ (i - 1 \in 1..n /\ i - 1 \in 1..n + 1 /\ 1 + (i - 1) = i)
    BY SMTT(30), <1>2, <1>4
  <2>2. CASE i - 1 \in 1..n /\ i - 1 \in 1..n + 1 /\ 1 + (i - 1) = i
    <3>1. q[i] = text[i - 1]
      BY <1>4, <1>5, <2>2
    <3> QED BY <2>2, <3>1 DEF n
  <2> QED BY <1>4, <1>7, <2>1, <2>2
<1>9. TrimDoubleQuotes(q) = SubSeq(q, 2, Len(q) - 1)
  <2>1. Len(q) >= 2
    BY <1>2, <1>4
  <2> QED BY <1>4, <1>7, <2>1 DEF TrimDoubleQuotes, Last
<1>10. SubSeq(q, 2, Len(q) - 1) = text
  <2> DEFINE i == 1
             j == n + 1
  <2>1. i \in 1..Len(t) + 1 /\ j \in i..Len(t) + 1
    BY <1>2, <1>6
  <2> HIDE DEF i, j
  <2>2. Slice(Q \o t, Len(Q) + i, Len(Q) + j) = Slice(t, i, j)
    BY <1>1, <1>6, <2>1, SlicedLater
  <2>3. Slice(t, i, j) = text
    <3>1. Slice(text \o Q, 1, Len(text) + 1) = text
      BY <1>1, SlicedFirst
    <3> QED BY <3>1 DEF t, i, j, n
  <2>4. Len(Q) + i = 2 /\ Len(Q) + j = Len(q)
    BY <1>1, <1>2, <1>4 DEF i, j
  <2>5. Slice(q, 2, Len(q)) = text
    BY <1>3, <2>2, <2>3, <2>4 DEF t
  <2> QED BY <2>5 DEF Slice
<1> QED BY <1>4, <1>7, <1>8, <1>9, <1>10 DEF q, Q, Quoted

\* A quoted parameter is taken apart into its key and its quoted text, and begins and
\* ends with no blank.
LEMMA QuotingRead ==
  ASSUME NEW C, NEW key \in {"n", "f"}, NEW text \in Seq(C),
         \A i \in 1..Len(text) : text[i] # "=" /\ text[i] # Semicolon
  PROVE  LET z == Quoting(key, text)
         IN  /\ z \in Seq(QuotedIn(C)) /\ z # << >>
             /\ z[1] \notin Blanks /\ z[Len(z)] \notin Blanks
             /\ \A i \in 1..Len(z) : z[i] # Semicolon
             /\ KeyValue(z) = [key |-> <<key>>, value |-> Quoted(text)]
<1> DEFINE D == QuotedIn(C)
           k == <<key>>
           q == Quoted(text)
           E == <<"=">>
           z == (k \o E) \o q
<1>1. /\ k \in Seq(D) /\ Len(k) = 1 /\ k[1] = key /\ k # << >> /\ Quote \in D /\ "=" \in D
      /\ text \in Seq(D)
  BY DEF QuotedIn
<1>2. /\ q \in Seq(D) /\ q # << >> /\ q[1] = Quote /\ q[Len(q)] = Quote
      /\ \A i \in 1..Len(q) : q[i] = Quote \/ \E j \in 1..Len(text) : q[i] = text[j]
  <2>1. text \in Seq(D) /\ Quote \in D
    BY <1>1
  <2> HIDE DEF D
  <2> QED BY <2>1, QuotesTakenOff
<1>3. /\ \A i \in 1..Len(q) : q[i] # "=" /\ q[i] # Semicolon
      /\ \A i \in 1..Len(k) : k[i] # "=" /\ k[i] # Semicolon
  <2>1. \A i \in 1..Len(k) : i = 1
    BY <1>1
  <2> HIDE DEF q, k
  <2> QED BY <1>1, <1>2, <2>1, SeparatorsApart
<1> HIDE DEF D, k, q
<1>4. Trim(k) = k /\ Trim(q) = q
  <2>1. k[1] \notin Blanks /\ k[Len(k)] \notin Blanks
    BY <1>1, SeparatorsApart
  <2>2. q[1] \notin Blanks /\ q[Len(q)] \notin Blanks
    BY <1>2, SeparatorsApart
  <2>3. k \in Seq(D) /\ q \in Seq(D)
    BY <1>1, <1>2
  <2> QED BY <2>1, <2>2, <2>3, TrimmedAlready
<1>5. KeyValue(z) = [key |-> k, value |-> q]
  BY <1>1, <1>2, <1>3, <1>4, KeyValueOf
<1>6. E \in Seq(D) /\ Len(E) = 1 /\ E[1] = "="
  BY <1>1
<1> HIDE DEF E
<1>7. /\ k \o E \in Seq(D) /\ Len(k \o E) = 2
      /\ (k \o E)[1] = key /\ (k \o E)[2] = "="
  <2>1. k \in Seq(D) /\ E \in Seq(D)
    BY <1>1, <1>6
  <2>2. /\ k \o E \in Seq(D) /\ Len(k \o E) = Len(k) + Len(E)
        /\ \A i \in 1..Len(k) : (k \o E)[i] = k[i]
        /\ \A i \in 1..Len(E) : (k \o E)[Len(k) + i] = E[i]
    BY <2>1, Joined
  <2>3. 1 \in 1..Len(k) /\ 1 \in 1..Len(E) /\ Len(k) + 1 = 2 /\ Len(k) + Len(E) = 2
    BY <1>1, <1>6
  <2> QED BY <1>1, <1>6, <2>2, <2>3
<1> DEFINE x == k \o E
<1>8. x \in Seq(D) /\ Len(x) = 2 /\ x[1] = key /\ x[2] = "=" /\ z = x \o q
  BY <1>7
<1> HIDE DEF x, z
<1>9. /\ z \in Seq(D) /\ Len(z) = 2 + Len(q) /\ Len(q) \in Nat
      /\ \A i \in 1..2 : z[i] = x[i]
      /\ \A i \in 1..Len(q) : z[2 + i] = q[i]
  <2>1. x \in Seq(D) /\ q \in Seq(D)
    BY <1>2, <1>8
  <2>2. /\ x \o q \in Seq(D) /\ Len(x \o q) = Len(x) + Len(q) /\ Len(q) \in Nat
        /\ \A i \in 1..Len(x) : (x \o q)[i] = x[i]
        /\ \A i \in 1..Len(q) : (x \o q)[Len(x) + i] = q[i]
    BY <2>1, Joined
  <2> QED BY <1>8, <2>2
<1>10. z # << >> /\ z[1] = key /\ z[Len(z)] = Quote
  <2>1. Len(q) # 0
    BY <1>2
  <2>2. 1 \in 1..2 /\ Len(q) \in 1..Len(q) /\ Len(z) # 0
    BY <1>9, <2>1
  <2> QED BY <1>2, <1>8, <1>9, <2>2
<1>11. ASSUME NEW i \in 1..Len(z) PROVE z[i] # Semicolon
  <2>1. i = 1 \/ i = 2 \/ (i - 2 \in 1..Len(q) /\ 2 + (i - 2) = i)
    BY <1>9
  <2>2. z[1] # Semicolon /\ z[2] # Semicolon
    <3>1. z[1] = key /\ z[2] = "="
      BY <1>8, <1>9
    <3> QED BY <3>1, SeparatorsApart
  <2>3. CASE i - 2 \in 1..Len(q) /\ 2 + (i - 2) = i
    <3>1. z[i] = q[i - 2]
      BY <1>9, <2>3
    <3> QED BY <1>3, <2>3, <3>1
  <2> QED BY <2>1, <2>2, <2>3
<1>12. z = Quoting(key, text)
  BY DEF z, Quoting, k, E, q
<1>13. z[1] \notin Blanks /\ z[Len(z)] \notin Blanks
  BY <1>10, SeparatorsApart
<1> QED BY <1>5, <1>9, <1>10, <1>11, <1>12, <1>13 DEF D, k, q

\* The name and the file name of a part are read back, whatever characters they hold
\* but those that separate.
THEOREM PartNamesAreReadBack ==
  ASSUME NEW C, NEW name \in Seq(C), NEW filename \in Seq(C),
         \A i \in 1..Len(name) : name[i] # "=" /\ name[i] # Semicolon,
         \A i \in 1..Len(filename) : filename[i] # "=" /\ filename[i] # Semicolon
  PROVE  ParseDispositionParams(Disposition(name, filename))
           = {[key |-> <<"n">>, value |-> name], [key |-> <<"f">>, value |-> filename]}
<1> DEFINE D == QuotedIn(C)
           x == Quoting("n", name)
           z == Quoting("f", filename)
           b == <<Space>>
           y == b \o z
           s == x \o <<Semicolon>> \o y
<1>1. /\ x \in Seq(D) /\ x # << >> /\ x[1] \notin Blanks /\ x[Len(x)] \notin Blanks
      /\ \A i \in 1..Len(x) : x[i] # Semicolon
      /\ KeyValue(x) = [key |-> <<"n">>, value |-> Quoted(name)]
  BY QuotingRead
<1>2. /\ z \in Seq(D) /\ z # << >> /\ z[1] \notin Blanks /\ z[Len(z)] \notin Blanks
      /\ \A i \in 1..Len(z) : z[i] # Semicolon
      /\ KeyValue(z) = [key |-> <<"f">>, value |-> Quoted(filename)]
  BY QuotingRead
<1>3. /\ b \in Seq(D) /\ Len(b) = 1 /\ b[1] = Space /\ Semicolon \in D /\ Quote \in D
      /\ name \in Seq(D) /\ filename \in Seq(D)
  BY DEF QuotedIn
<1>4. Disposition(name, filename) = s
  BY DEF Disposition
<1> HIDE DEF D, x, z, b
<1>5. /\ y \in Seq(D) /\ \A i \in 1..Len(y) : y[i] # Semicolon
      /\ Trim(y) = z
  <2>1. b \in Seq(D) /\ z \in Seq(D)
    BY <1>2, <1>3
  <2>2. /\ y \in Seq(D) /\ Len(y) = Len(b) + Len(z) /\ Len(z) \in Nat
        /\ \A i \in 1..Len(b) : y[i] = b[i]
        /\ \A i \in 1..Len(z) : y[Len(b) + i] = z[i]
    BY <2>1, Joined
  <2>3. \A k \in 1..Len(b) : b[k] \in Blanks
    <3>1. \A k \in 1..Len(b) : k = 1
      BY <1>3
    <3> QED BY <1>3, <3>1, SeparatorsApart
  <2>4. Trim(y) = z
    BY <1>2, <2>1, <2>3, TrimmedTo
  <2> HIDE DEF y
  <2>5. ASSUME NEW i \in 1..Len(y) PROVE y[i] # Semicolon
    <3>1. i = 1 \/ (i - 1 \in 1..Len(z) /\ Len(b) + (i - 1) = i)
      BY <1>3, <2>2
    <3>2. y[1] # Semicolon
      <4>1. 1 \in 1..Len(b)
        BY <1>3
      <4> QED BY <1>3, <2>2, <4>1, SeparatorsApart
    <3>3. CASE i - 1 \in 1..Len(z) /\ Len(b) + (i - 1) = i
      <4>1. y[i] = z[i - 1]
        BY <2>2, <3>3
      <4> QED BY <1>2, <3>3, <4>1
    <3> QED BY <3>1, <3>2, <3>3
  <2> QED BY <2>2, <2>4, <2>5
<1> HIDE DEF y
<1>6. Split(s, Semicolon) = <<x, z>>
  <2>1. Split(s, Semicolon) = NonEmpty(Trim(x)) \o Split(y, Semicolon)
    BY <1>1, <1>3, <1>5, SplitCut
  <2>2. Trim(x) = x
    BY <1>1, TrimmedAlready
  <2>3. Split(y, Semicolon) = NonEmpty(Trim(y))
    BY <1>5, SplitWhole
  <2>4. NonEmpty(x) = <<x>> /\ NonEmpty(z) = <<z>>
    BY <1>1, <1>2 DEF NonEmpty
  <2>5. <<x>> \o <<z>> = <<x, z>>
    BY TwoJoined
  <2> QED BY <1>5, <2>1, <2>2, <2>3, <2>4, <2>5
<1> HIDE DEF s
<1> DEFINE rawn == [key |-> <<"n">>, value |-> Quoted(name)]
           rawf == [key |-> <<"f">>, value |-> Quoted(filename)]
<1>7. ParseParams(s, Semicolon) = {rawn, rawf}
  <2>1. ToSet(<<x, z>>) = {x, z}
    <3> DEFINE t == <<x, z>>
    <3>1. DOMAIN t = {1, 2} /\ t[1] = x /\ t[2] = z
      OBVIOUS
    <3> HIDE DEF t
    <3>2. ToSet(t) = {x, z}
      BY <3>1 DEF ToSet
    <3> QED BY <3>2 DEF t
  <2>2. rawn.key # << >> /\ rawf.key # << >>
    OBVIOUS
  <2>3. KeyValue(x) = rawn /\ KeyValue(z) = rawf
    BY <1>1, <1>2
  <2> HIDE DEF rawn, rawf
  <2> DEFINE read(p) == KeyValue(p)
  <2>4. read(x) = rawn /\ read(z) = rawf /\ read(x).key # << >> /\ read(z).key # << >>
    BY <2>2, <2>3
  <2>5. ParseParams(s, Semicolon) = {read(p) : p \in {r \in {x, z} : read(r).key # << >>}}
    BY <1>6, <2>1 DEF ParseParams
  <2> HIDE DEF read
  <2>6. {r \in {x, z} : read(r).key # << >>} = {x, z}
    BY <2>4
  <2>7. {read(p) : p \in {x, z}} = {read(x), read(z)}
    OBVIOUS
  <2> QED BY <2>4, <2>5, <2>6, <2>7
<1> DEFINE F(p) == [key |-> TrimDoubleQuotes(p.key), value |-> TrimDoubleQuotes(p.value)]
<1>8. ParseDispositionParams(s) = {F(p) : p \in ParseParams(s, Semicolon)}
  BY DEF ParseDispositionParams
<1>9. F(rawn) = [key |-> <<"n">>, value |-> name] /\ F(rawf) = [key |-> <<"f">>, value |-> filename]
  <2>1. TrimDoubleQuotes(<<"n">>) = <<"n">> /\ TrimDoubleQuotes(<<"f">>) = <<"f">>
    <3>1. ~(Len(<<"n">>) >= 2) /\ ~(Len(<<"f">>) >= 2)
      OBVIOUS
    <3> QED BY <3>1 DEF TrimDoubleQuotes
  <2>2. TrimDoubleQuotes(Quoted(name)) = name
    BY <1>3, QuotesTakenOff
  <2>3. TrimDoubleQuotes(Quoted(filename)) = filename
    BY <1>3, QuotesTakenOff
  <2> QED BY <2>1, <2>2, <2>3
<1> HIDE DEF F, rawn, rawf
<1>10. {F(p) : p \in {rawn, rawf}} = {F(rawn), F(rawf)}
  OBVIOUS
<1> QED BY <1>4, <1>7, <1>8, <1>9, <1>10

\* A sequence whose elements are all of another set is a sequence of that.
LEMMA Retyped ==
  ASSUME NEW C, NEW D, NEW s \in Seq(C), \A i \in 1..Len(s) : s[i] \in D
  PROVE  s \in Seq(D)
<1>1. Len(s) \in Nat /\ s = [i \in 1..Len(s) |-> s[i]]
  OBVIOUS
<1> DEFINE n == Len(s)
<1>2. n \in Nat /\ s = [i \in 1..n |-> s[i]] /\ \A i \in 1..n : s[i] \in D
  BY <1>1
<1> HIDE DEF n
<1>3. s \in [1..n -> D]
  BY <1>2
<1>4. D \in SUBSET D
  OBVIOUS
<1> QED BY <1>2, <1>3, <1>4, TuplesAreSequences

\* Parameters of any characters that can be encoded survive.
THEOREM ParametersAlwaysSurvive ==
  ASSUME NEW K, NEW V, \A c \in V : Encodable(c),
         NEW params \in Seq([key : Seq(K), value : Seq(V)])
  PROVE  ParametersSurvive(params)
<1> DEFINE N == Len(params)
           R == [key : Seq(K), value : Seq(V)]
<1>1. DOMAIN params = 1..N /\ N \in Nat /\ \A i \in 1..N : params[i] \in R
  <2>1. params \in Seq(R)
    OBVIOUS
  <2> HIDE DEF R
  <2> QED BY <2>1
<1>2. ASSUME \A i \in DOMAIN params : params[i].key # << >> /\ ToSet(params[i].key) \subseteq Safe
      PROVE  ParseQueryText(ParamsToQueryStr(params)) = ToSet(params)
  <2>1. ASSUME NEW i \in 1..N PROVE params[i] \in Param(V)
    <3> DEFINE k == params[i].key
               v == params[i].value
    <3>1. k \in Seq(K) /\ v \in Seq(V) /\ params[i] = [key |-> k, value |-> v]
      BY <1>1
    <3>2. k # << >> /\ ToSet(k) \subseteq Safe
      BY <1>1, <1>2
    <3> HIDE DEF k, v
    <3>3. k \in Seq(Safe)
      <4>1. \A j \in 1..Len(k) : k[j] \in Safe
        <5>1. DOMAIN k = 1..Len(k)
          BY <3>1
        <5> QED BY <3>2, <5>1 DEF ToSet
      <4> QED BY <3>1, <4>1, Retyped
    <3> QED BY <3>1, <3>2, <3>3 DEF Param
  <2>2. params \in Seq(Param(V))
    <3>1. params \in Seq(R)
      OBVIOUS
    <3> HIDE DEF R
    <3> QED BY <2>1, <3>1, Retyped
  <2> QED BY <2>2, QueriesAreReadBack
<1>3. ASSUME NEW i \in DOMAIN params, NEW j \in DOMAIN params,
             (ToSet(params[i].value) \cup ToSet(params[j].value)) \cap {Semicolon, "=", Quote} = {}
      PROVE  ParseDispositionParams(Disposition(params[i].value, params[j].value)) =
               {[key |-> <<"n">>, value |-> params[i].value],
                [key |-> <<"f">>, value |-> params[j].value]}
  <2> DEFINE name == params[i].value
             filename == params[j].value
  <2>1. name \in Seq(V) /\ filename \in Seq(V)
    BY <1>1
  <2>2. (ToSet(name) \cup ToSet(filename)) \cap {Semicolon, "=", Quote} = {}
    BY <1>3
  <2> HIDE DEF name, filename
  <2>3. \A k \in 1..Len(name) : name[k] \in ToSet(name)
    <3>1. DOMAIN name = 1..Len(name)
      BY <2>1
    <3> QED BY <3>1 DEF ToSet
  <2>4. \A k \in 1..Len(filename) : filename[k] \in ToSet(filename)
    <3>1. DOMAIN filename = 1..Len(filename)
      BY <2>1
    <3> QED BY <3>1 DEF ToSet
  <2>5. \A k \in 1..Len(name) : name[k] # "=" /\ name[k] # Semicolon
    BY <2>2, <2>3
  <2>6. \A k \in 1..Len(filename) : filename[k] # "=" /\ filename[k] # Semicolon
    BY <2>2, <2>4
  <2>7. ParseDispositionParams(Disposition(name, filename))
          = {[key |-> <<"n">>, value |-> name], [key |-> <<"f">>, value |-> filename]}
    BY <2>1, <2>5, <2>6, PartNamesAreReadBack
  <2> QED BY <2>7 DEF name, filename
<1> QED BY <1>2, <1>3 DEF ParametersSurvive

-----------------------------------------------------------------------------
(***************************************************************************)
(* Routes.  A pattern that is cut into the fragments between its parameters *)
(* takes the paths that fit it component by component.  What is left of     *)
(* both, from a place in each on, is compared with what is left of their    *)
(* components.                                                              *)
(***************************************************************************)

\* Maps from some of the names in S to values in V.
Maps(S, V) == UNION {[D -> V] : D \in SUBSET S}

\* What is emplaced in a map gives a map.
LEMMA EmplacedTyped ==
  ASSUME NEW S, NEW V
  PROVE  /\ NoParams \in Maps(S, V)
         /\ \A name \in S : \A x \in V : \A r \in Maps(S, V) : Emplaced(name, x, r) \in Maps(S, V)
<1>1. NoParams \in Maps(S, V)
  <2>1. {} \in SUBSET S /\ NoParams \in [{} -> V]
    BY DEF NoParams
  <2> QED BY <2>1 DEF Maps
<1>2. ASSUME NEW name \in S, NEW x \in V, NEW r \in Maps(S, V)
      PROVE  Emplaced(name, x, r) \in Maps(S, V)
  <2>1. PICK D \in SUBSET S : r \in [D -> V]
    BY DEF Maps
  <2>2. DOMAIN r = D /\ {name} \cup D \in SUBSET S
    BY <2>1
  <2>3. Emplaced(name, x, r) \in [{name} \cup D -> V]
    BY <2>1, <2>2 DEF Emplaced
  <2> QED BY <2>2, <2>3 DEF Maps
<1> QED BY <1>1, <1>2

\* Where a component's parameter begins, if it has one.
LEMMA ParamFound ==
  ASSUME NEW C, NEW x \in Seq(C)
  PROVE  /\ HasParam(x) <=> \E k \in 1..Len(x) : x[k] = Marker
         /\ HasParam(x) => /\ FindFrom(x, Marker, 1) \in 1..Len(x)
                           /\ x[FindFrom(x, Marker, 1)] = Marker
         /\ FindFrom(x, Marker, 1) \in 1..Len(x) + 1
         /\ \A k \in 1..Len(x) : k < FindFrom(x, Marker, 1) => x[k] # Marker
         /\ Prefix(x) \in Seq(C) /\ Len(Prefix(x)) = FindFrom(x, Marker, 1) - 1
         /\ \A k \in 1..Len(Prefix(x)) : Prefix(x)[k] = x[k]
<1> DEFINE n == Len(x)
           f == FindFrom(x, Marker, 1)
<1>1. n \in Nat /\ DOMAIN x = 1..n
  OBVIOUS
<1>2. HasParam(x) <=> \E k \in 1..n : x[k] = Marker
  BY <1>1 DEF HasParam, ToSet
<1>3. /\ (f \in 1..n /\ x[f] = Marker) \/ f = n + 1
      /\ \A k \in 1..n : k < f => x[k] # Marker
  BY <1>1, FirstFound
<1> HIDE DEF f
<1>4. f \in 1..n + 1
  BY <1>1, <1>3
<1>5. HasParam(x) => f # n + 1
  <2> SUFFICES ASSUME NEW k \in 1..n, x[k] = Marker, f = n + 1 PROVE FALSE
    BY <1>2
  <2>1. k < f
    BY <1>1
  <2> QED BY <1>3, <2>1
<1>6. Prefix(x) = Slice(x, 1, f)
  BY DEF Prefix, f
<1>7. /\ Slice(x, 1, f) \in Seq(C) /\ Len(Slice(x, 1, f)) = f - 1
      /\ \A k \in 1..f - 1 : Slice(x, 1, f)[k] = x[1 + k - 1]
  <2>1. 1 \in 1..n + 1
    BY <1>1
  <2> QED BY <1>4, <2>1, Sliced
<1>8. \A k \in 1..f - 1 : x[1 + k - 1] = x[k]
  BY <1>4
<1> QED BY <1>2, <1>3, <1>4, <1>5, <1>6, <1>7, <1>8 DEF f

\* A prefix has the characters of the text's beginning.
LEMMA PrefixIs ==
  ASSUME NEW C, NEW s \in Seq(C), NEW t \in Seq(C)
  PROVE  IsPrefix(s, t) <=> Len(s) <= Len(t) /\ \A k \in 1..Len(s) : t[k] = s[k]
<1> DEFINE m == Len(s)
<1>1. m \in Nat /\ Len(t) \in Nat
  OBVIOUS
<1>2. SubSeq(s, 1, m) \in Seq(C) /\ Len(SubSeq(s, 1, m)) = m /\ \A k \in 1..m : SubSeq(s, 1, m)[k] = s[k]
  BY <1>1
<1>3. CASE m <= Len(t)
  <2>1. SubSeq(t, 1, m) \in Seq(C) /\ Len(SubSeq(t, 1, m)) = m /\ \A k \in 1..m : SubSeq(t, 1, m)[k] = t[k]
    BY <1>1, <1>3
  <2>2. IsPrefix(s, t) <=> SubSeq(s, 1, m) = SubSeq(t, 1, m)
    BY <1>3 DEF IsPrefix
  <2> HIDE DEF m
  <2>3. ASSUME SubSeq(s, 1, m) = SubSeq(t, 1, m), NEW k \in 1..m PROVE t[k] = s[k]
    BY <1>2, <2>1, <2>3
  <2>4. ASSUME \A k \in 1..m : t[k] = s[k] PROVE SubSeq(s, 1, m) = SubSeq(t, 1, m)
    <3>1. \A k \in 1..m : SubSeq(s, 1, m)[k] = SubSeq(t, 1, m)[k]
      BY <1>2, <2>1, <2>4
    <3> QED BY <1>2, <2>1, <3>1, SameText
  <2> QED BY <1>3, <2>2, <2>3, <2>4 DEF m
<1>4. CASE ~(m <= Len(t))
  BY <1>1, <1>4 DEF IsPrefix
<1> QED BY <1>3, <1>4

\* When does a component with a parameter fit?
LEMMA FitsMeans ==
  ASSUME NEW C, NEW x \in Seq(C), NEW z \in Seq(C), HasParam(x)
  PROVE  Fits(x, z) <=> /\ Len(Prefix(x)) <= Len(z)
                        /\ \A k \in 1..Len(Prefix(x)) : z[k] = x[k]
<1>1. Prefix(x) \in Seq(C) /\ \A k \in 1..Len(Prefix(x)) : Prefix(x)[k] = x[k]
  BY ParamFound
<1>2. Fits(x, z) <=> /\ Len(Prefix(x)) <= Len(z)
                     /\ \A k \in 1..Len(Prefix(x)) : z[k] = Prefix(x)[k]
  BY <1>1, PrefixIs DEF Fits
<1> QED BY <1>1, <1>2

\* A character that is no marker, before a component and before what is to fit.
LEMMA ComponentGrows ==
  ASSUME NEW C, NEW x \in Seq(C), NEW a \in C, a # Marker
  PROVE  /\ <<a>> \o x \in Seq(C) /\ <<a>> \o x # << >>
         /\ HasParam(<<a>> \o x) <=> HasParam(x)
         /\ HasParam(x) => NameOf(<<a>> \o x) = NameOf(x)
         /\ \A z \in Seq(C) : /\ Fits(<<a>> \o x, <<a>> \o z) <=> Fits(x, z)
                              /\ HasParam(x) /\ Fits(x, z) => Left(<<a>> \o x, <<a>> \o z) = Left(x, z)
         /\ \A z \in Seq(C) : Fits(<<a>> \o x, z) => z # << >> /\ z[1] = a
<1> DEFINE y == <<a>> \o x
           n == Len(x)
           f == FindFrom(x, Marker, 1)
<1>1. <<a>> \in Seq(C) /\ Len(<<a>>) = 1 /\ <<a>>[1] = a
  OBVIOUS
<1>2. /\ y \in Seq(C) /\ n \in Nat /\ Len(y) = n + 1 /\ y[1] = a
      /\ \A k \in 1..n : y[1 + k] = x[k]
  <2>1. /\ <<a>> \o x \in Seq(C) /\ Len(x) \in Nat /\ Len(<<a>> \o x) = Len(<<a>>) + Len(x)
        /\ \A k \in 1..Len(<<a>>) : (<<a>> \o x)[k] = <<a>>[k]
        /\ \A k \in 1..Len(x) : (<<a>> \o x)[Len(<<a>>) + k] = x[k]
    BY <1>1, Joined
  <2> QED BY <1>1, <2>1
<1> HIDE DEF y
<1>3. HasParam(y) <=> HasParam(x)
  <2>1. HasParam(y) <=> \E k \in 1..Len(y) : y[k] = Marker
    BY <1>2, ParamFound
  <2>2. HasParam(x) <=> \E k \in 1..n : x[k] = Marker
    BY ParamFound
  <2>3. ASSUME NEW k \in 1..Len(y), y[k] = Marker PROVE \E i \in 1..n : x[i] = Marker
    <3>1. k # 1
      BY <1>2, <2>3
    <3>2. k - 1 \in 1..n /\ 1 + (k - 1) = k
      BY <1>2, <3>1
    <3> QED BY <1>2, <2>3, <3>2
  <2>4. ASSUME NEW k \in 1..n, x[k] = Marker PROVE \E i \in 1..Len(y) : y[i] = Marker
    <3>1. 1 + k \in 1..Len(y)
      BY <1>2
    <3> QED BY <1>2, <2>4, <3>1
  <2> QED BY <2>1, <2>2, <2>3, <2>4
<1>4. f \in 1..n + 1 /\ (HasParam(x) => f \in 1..n /\ x[f] = Marker)
      /\ \A k \in 1..n : k < f => x[k] # Marker
  BY ParamFound
<1> HIDE DEF f
<1>5. HasParam(x) => FindFrom(y, Marker, 1) = f + 1
  <2> SUFFICES ASSUME HasParam(x) PROVE FindFrom(y, Marker, 1) = f + 1
    OBVIOUS
  <2>1. f + 1 \in 1..Len(y) + 1 /\ y[f + 1] = Marker
    <3>1. f \in 1..n /\ 1 + f = f + 1 /\ x[f] = Marker
      BY <1>4
    <3> QED BY <1>2, <3>1
  <2>2. ASSUME NEW k \in 1..Len(y), k < f + 1 PROVE y[k] # Marker
    <3>1. CASE k = 1
      BY <1>2, <3>1
    <3>2. CASE k # 1
      <4>1. k - 1 \in 1..n /\ 1 + (k - 1) = k /\ k - 1 < f
        BY <1>2, <1>4, <2>2, <3>2
      <4> QED BY <1>2, <1>4, <4>1
    <3> QED BY <3>1, <3>2
  <2>3. Len(y) \in Nat /\ 1 \in Nat
    BY <1>2
  <2> QED BY <2>1, <2>2, <2>3, FoundAt
<1>6. Len(Prefix(x)) = f - 1 /\ (HasParam(x) => Len(Prefix(y)) = (f - 1) + 1)
  <2>1. Len(Prefix(x)) = f - 1 /\ Len(Prefix(y)) = FindFrom(y, Marker, 1) - 1
    BY <1>2, ParamFound DEF f
  <2>2. (f + 1) - 1 = (f - 1) + 1
    BY <1>4
  <2> QED BY <1>5, <2>1, <2>2
<1>7. ASSUME NEW z \in Seq(C)
      PROVE  /\ <<a>> \o z \in Seq(C) /\ Len(z) \in Nat /\ Len(<<a>> \o z) = Len(z) + 1
             /\ (<<a>> \o z)[1] = a /\ \A k \in 1..Len(z) : (<<a>> \o z)[1 + k] = z[k]
  <2>1. /\ <<a>> \o z \in Seq(C) /\ Len(z) \in Nat /\ Len(<<a>> \o z) = Len(<<a>>) + Len(z)
        /\ \A k \in 1..Len(<<a>>) : (<<a>> \o z)[k] = <<a>>[k]
        /\ \A k \in 1..Len(z) : (<<a>> \o z)[Len(<<a>>) + k] = z[k]
    BY <1>1, Joined
  <2> QED BY <1>1, <2>1
<1>8. ASSUME NEW z \in Seq(C) PROVE Fits(y, <<a>> \o z) <=> Fits(x, z)
  <2> DEFINE w == <<a>> \o z
  <2>1. /\ w \in Seq(C) /\ Len(z) \in Nat /\ Len(w) = Len(z) + 1 /\ w[1] = a
        /\ \A k \in 1..Len(z) : w[1 + k] = z[k]
    BY <1>7
  <2> HIDE DEF w
  <2>2. CASE HasParam(x)
    <3> DEFINE m == f - 1
    <3>1. m \in 0..n
      BY <1>2, <1>4
    <3> HIDE DEF m
    <3>2. Fits(x, z) <=> m <= Len(z) /\ \A k \in 1..m : z[k] = x[k]
      BY <1>6, <2>2, FitsMeans DEF m
    <3>3. Fits(y, w) <=> m + 1 <= Len(w) /\ \A k \in 1..m + 1 : w[k] = y[k]
      <4>1. HasParam(y) /\ Len(Prefix(y)) = m + 1
        BY <1>3, <1>6, <2>2 DEF m
      <4>2. Fits(y, w) <=> /\ Len(Prefix(y)) <= Len(w)
                           /\ \A k \in 1..Len(Prefix(y)) : w[k] = y[k]
        <5>1. y \in Seq(C) /\ w \in Seq(C)
          BY <1>2, <2>1
        <5> HIDE DEF y
        <5> QED BY <4>1, <5>1, FitsMeans
      <4> QED BY <4>1, <4>2
    <3>4. ASSUME m <= Len(z), \A k \in 1..m : z[k] = x[k], NEW k \in 1..m + 1
          PROVE  w[k] = y[k]
      <4>1. CASE k = 1
        BY <1>2, <2>1, <4>1
      <4>2. CASE k # 1
        <5>1. k - 1 \in 1..m /\ 1 + (k - 1) = k /\ k - 1 \in 1..n /\ k - 1 \in 1..Len(z)
          BY <1>2, <2>1, <3>1, <3>4, <4>2
        <5> QED BY <1>2, <2>1, <3>4, <5>1
      <4> QED BY <4>1, <4>2
    <3>5. ASSUME m + 1 <= Len(w), \A k \in 1..m + 1 : w[k] = y[k], NEW k \in 1..m
          PROVE  z[k] = x[k]
      <4>1. 1 + k \in 1..m + 1 /\ k \in 1..n /\ k \in 1..Len(z)
        BY <1>2, <2>1, <3>1, <3>5
      <4> QED BY <1>2, <2>1, <3>5, <4>1
    <3>6. m <= Len(z) <=> m + 1 <= Len(w)
      BY <2>1, <3>1
    <3> QED BY <3>2, <3>3, <3>4, <3>5, <3>6 DEF w
  <2>3. CASE ~HasParam(x)
    <3>1. (Fits(x, z) <=> z = x) /\ (Fits(y, w) <=> w = y)
      BY <1>3, <2>3 DEF Fits
    <3>2. z = x => w = y
      BY DEF w, y
    <3>3. ASSUME w = y PROVE z = x
      <4>1. Len(z) = n
        BY <1>2, <2>1, <3>3
      <4>2. \A k \in 1..Len(z) : z[k] = x[k]
        BY <1>2, <2>1, <3>3, <4>1
      <4> QED BY <4>1, <4>2, SameText
    <3> QED BY <3>1, <3>2, <3>3 DEF w
  <2> QED BY <2>2, <2>3
<1>9. ASSUME NEW z \in Seq(C), HasParam(x), Fits(x, z) PROVE Left(y, <<a>> \o z) = Left(x, z)
  <2> DEFINE m == f - 1
  <2>1. m <= Len(z) /\ m \in Nat /\ Len(z) \in Nat
    <3>1. Len(Prefix(x)) <= Len(z)
      BY <1>9, FitsMeans
    <3> QED BY <1>4, <1>6, <1>9, <3>1
  <2>2. Len(Prefix(x)) = m /\ Len(Prefix(y)) = m + 1
    BY <1>6, <1>9
  <2> HIDE DEF m
  <2>3. m + 1 \in 1..Len(z) + 1 /\ Len(z) + 1 \in m + 1..Len(z) + 1
    BY <2>1
  <2>4. Slice(<<a>> \o z, Len(<<a>>) + (m + 1), Len(<<a>>) + (Len(z) + 1)) = Slice(z, m + 1, Len(z) + 1)
    BY <1>1, <2>3, SlicedLater, ZenonT(30)
  <2>5. Len(<<a>>) + (m + 1) = (m + 1) + 1 /\ Len(<<a>>) + (Len(z) + 1) = Len(<<a>> \o z) + 1
    BY <1>1, <1>7, <2>1
  <2> QED BY <2>2, <2>4, <2>5 DEF Left
<1>10. ASSUME NEW z \in Seq(C), Fits(y, z) PROVE z # << >> /\ z[1] = a
  <2>1. CASE HasParam(x)
    <3>1. 1 <= Len(z) /\ z[1] = y[1]
      <4>1. /\ Len(Prefix(y)) <= Len(z)
            /\ \A k \in 1..Len(Prefix(y)) : z[k] = y[k]
        BY <1>2, <1>3, <1>10, <2>1, FitsMeans
      <4>2. Len(Prefix(y)) \in Nat /\ 1 <= Len(Prefix(y)) /\ Len(z) \in Nat
        BY <1>4, <1>6, <2>1
      <4> QED BY <4>1, <4>2
    <3> QED BY <1>2, <3>1
  <2>2. CASE ~HasParam(x)
    <3>1. z = y
      BY <1>3, <1>10, <2>2 DEF Fits
    <3> QED BY <1>2, <3>1
  <2> QED BY <2>1, <2>2
<1>11. y # << >>
  BY <1>2
<1>12. HasParam(x) => NameOf(y) = NameOf(x)
  <2> SUFFICES ASSUME HasParam(x) PROVE NameOf(y) = NameOf(x)
    OBVIOUS
  <2>1. f \in 1..n /\ n \in Nat
    BY <1>2, <1>4
  <2>2. Len(Prefix(x)) + 2 = f + 1 /\ Len(Prefix(y)) + 2 = 1 + (f + 1) /\ Len(y) + 1 = 1 + (n + 1)
    BY <1>2, <1>6, <2>1
  <2>3. f + 1 \in 1..n + 1 /\ n + 1 \in f + 1..n + 1
    BY <2>1
  <2>4. Slice(<<a>> \o x, Len(<<a>>) + (f + 1), Len(<<a>>) + (n + 1)) = Slice(x, f + 1, n + 1)
    BY <1>1, <2>3, SlicedLater, ZenonT(30)
  <2>5. Slice(y, 1 + (f + 1), 1 + (n + 1)) = Slice(x, f + 1, n + 1)
    BY <1>1, <2>4 DEF y
  <2> QED BY <2>2, <2>5 DEF NameOf
<1> QED BY <1>2, <1>3, <1>8, <1>9, <1>10, <1>11, <1>12 DEF y

\* A component that begins with its parameter, and one that is empty.
LEMMA ComponentBegins ==
  ASSUME NEW C
  PROVE  /\ \A x, z \in Seq(C) : x # << >> /\ x[1] = Marker
                                   => HasParam(x) /\ Fits(x, z) /\ Left(x, z) = z
         /\ \A x \in Seq(C) : x # << >> /\ x[1] = Marker => Len(Prefix(x)) = 0
         /\ ~HasParam(<< >>)
         /\ \A z : Fits(<< >>, z) <=> z = << >>
<1>1. ASSUME NEW x \in Seq(C), NEW z \in Seq(C), x # << >>, x[1] = Marker
      PROVE  HasParam(x) /\ Fits(x, z) /\ Left(x, z) = z /\ Len(Prefix(x)) = 0
  <2>1. Len(x) \in Nat /\ 1 \in 1..Len(x) /\ Len(z) \in Nat
    BY <1>1
  <2>2. HasParam(x)
    BY <1>1, <2>1, ParamFound
  <2>3. FindFrom(x, Marker, 1) = 1
    <3>1. ~(1 < FindFrom(x, Marker, 1))
      BY <1>1, <2>1, ParamFound
    <3>2. FindFrom(x, Marker, 1) \in 1..Len(x) + 1
      BY ParamFound
    <3> HIDE DEF FindFrom
    <3> QED BY <2>1, <3>1, <3>2
  <2>4. Len(Prefix(x)) = 0
    <3>1. Len(Prefix(x)) = FindFrom(x, Marker, 1) - 1
      BY ParamFound
    <3> QED BY <2>3, <3>1
  <2>5. Fits(x, z)
    BY <2>1, <2>2, <2>4, FitsMeans
  <2>6. Left(x, z) = z
    <3>1. Left(x, z) = Slice(z, 1, Len(z) + 1)
      BY <2>4 DEF Left
    <3>2. /\ Slice(z, 1, Len(z) + 1) \in Seq(C) /\ Len(Slice(z, 1, Len(z) + 1)) = (Len(z) + 1) - 1
          /\ \A k \in 1..(Len(z) + 1) - 1 : Slice(z, 1, Len(z) + 1)[k] = z[1 + k - 1]
      <4>1. 1 \in 1..Len(z) + 1 /\ Len(z) + 1 \in 1..Len(z) + 1
        BY <2>1
      <4> QED BY <4>1, Sliced
    <3>3. (Len(z) + 1) - 1 = Len(z) /\ \A k \in 1..Len(z) : 1 + k - 1 = k
      BY <2>1
    <3> HIDE DEF Slice
    <3> QED BY <3>1, <3>2, <3>3, SameText
  <2> QED BY <2>2, <2>4, <2>5, <2>6
<1>2. ~HasParam(<< >>)
  BY DEF HasParam, ToSet
<1> QED BY <1>1, <1>2 DEF Fits

\* What the parameters get from the k-th component on, out of what later ones get.
LEMMA ParamsLaid ==
  ASSUME NEW p, NEW c, Len(p) \in Nat
  PROVE  /\ ParamsFrom(p, c, Len(p) + 1) = NoParams
         /\ \A k \in 1..Len(p) :
              ParamsFrom(p, c, k) = IF HasParam(p[k])
                                    THEN Emplaced(NameOf(p[k]), Left(p[k], c[k]), ParamsFrom(p, c, k + 1))
                                    ELSE ParamsFrom(p, c, k + 1)
<1> DEFINE N == Len(p)
           has(j) == HasParam(p[j])
           name(j) == NameOf(p[j])
           share(j) == Left(p[j], c[j])
           given(k) == {j \in k..N : has(j)}
           names(k) == {name(j) : j \in given(k)}
           named(k, x) == {j \in given(k) : name(j) = x}
           params(k) == [x \in names(k) |-> share(Min(named(k, x)))]
<1>1. \A k : ParamsFrom(p, c, k) = params(k)
  BY DEF ParamsFrom
<1> HIDE DEF has, name, share
<1>2. params(N + 1) = NoParams
  <2>1. given(N + 1) = {}
    OBVIOUS
  <2> HIDE DEF given
  <2>2. names(N + 1) = {}
    BY <2>1
  <2> HIDE DEF names, named
  <2> QED BY <2>2 DEF NoParams
<1>3. ASSUME NEW k \in 1..N
      PROVE  params(k) = IF has(k) THEN Emplaced(name(k), share(k), params(k + 1)) ELSE params(k + 1)
  <2>1. given(k) = IF has(k) THEN {k} \cup given(k + 1) ELSE given(k + 1)
    <3>1. k..N = {k} \cup (k + 1)..N
      OBVIOUS
    <3> QED BY <3>1
  <2>2. \A j \in given(k) : j \in Nat /\ j >= k
    OBVIOUS
  <2> HIDE DEF given
  <2>3. CASE ~has(k)
    <3>1. given(k) = given(k + 1)
      BY <2>1, <2>3
    <3> QED BY <2>3, <3>1
  <2>4. CASE has(k)
    <3>1. names(k) = {name(k)} \cup names(k + 1)
      BY <2>1, <2>4
    <3>2. ASSUME NEW x, x # name(k) PROVE named(k, x) = named(k + 1, x)
      BY <2>1, <2>4, <3>2
    <3>3. Min(named(k, name(k))) = k
      <4> DEFINE A == named(k, name(k))
      <4>1. k \in A /\ A \subseteq Nat /\ \A j \in A : j >= k
        BY <2>1, <2>2, <2>4
      <4> HIDE DEF A
      <4>2. Min(A) \in A /\ \A j \in A : Min(A) <= j
        BY <4>1, LeastNumber
      <4>3. Min(A) \in Nat /\ Min(A) >= k /\ Min(A) <= k
        BY <4>1, <4>2
      <4>4. Min(A) = k
        BY <4>3
      <4> QED BY <4>4 DEF A
    <3> HIDE DEF names, named
    <3>4. DOMAIN params(k + 1) = names(k + 1)
      OBVIOUS
    <3>5. \A x \in names(k + 1) : params(k + 1)[x] = share(Min(named(k + 1, x)))
      OBVIOUS
    <3>6. \A x \in names(k) : share(Min(named(k, x))) =
            IF x = name(k) THEN share(k) ELSE params(k + 1)[x]
      <4> TAKE x \in names(k)
      <4> HIDE DEF params
      <4>1. CASE x = name(k)
        BY <3>3, <4>1
      <4>2. CASE x # name(k)
        BY <3>1, <3>2, <3>5, <4>2
      <4> QED BY <4>1, <4>2
    <3>7. params(k) = [x \in {name(k)} \cup DOMAIN params(k + 1) |->
                         IF x = name(k) THEN share(k) ELSE params(k + 1)[x]]
      <4> DEFINE q == params(k + 1)
      <4>1. DOMAIN q = names(k + 1)
        BY <3>4
      <4>2. \A x \in names(k) : share(Min(named(k, x))) = IF x = name(k) THEN share(k) ELSE q[x]
        BY <3>6
      <4> HIDE DEF q
      <4>3. params(k) = [x \in {name(k)} \cup DOMAIN q |-> IF x = name(k) THEN share(k) ELSE q[x]]
        BY <3>1, <4>1, <4>2
      <4> QED BY <4>3 DEF q
    <3> HIDE DEF params
    <3> QED BY <2>4, <3>7 DEF Emplaced
  <2> QED BY <2>3, <2>4
<1> HIDE DEF params
<1> QED BY <1>1, <1>2, <1>3 DEF has, name, share

\* From the s-th to the n-th, components and pieces agree with those d further on,
\* and what follows the n-th gives the same.
Agree(p, c, q, e, d, s, n) ==
  /\ Len(p) \in Nat /\ Len(q) \in Nat /\ d \in Nat /\ n \in Nat /\ s \in 1..n + 1
  /\ n <= Len(q) /\ n + d <= Len(p)
  /\ \A k \in s..n : p[k + d] = q[k] /\ c[k + d] = e[k]
  /\ ParamsFrom(p, c, n + 1 + d) = ParamsFrom(q, e, n + 1)

\* Then they give the same from the s-th on.
LEMMA ParamsAgree ==
  ASSUME NEW p, NEW c, NEW q, NEW e, NEW d, NEW s, NEW n, Agree(p, c, q, e, d, s, n)
  PROVE  ParamsFrom(p, c, s + d) = ParamsFrom(q, e, s)
<1> DEFINE v(k) == ParamsFrom(p, c, k)
           w(k) == ParamsFrom(q, e, k)
           Q == {k \in 1..n + 1 : k >= s => v(k + d) = w(k)}
<1>1. /\ d \in Nat /\ n \in Nat /\ s \in 1..n + 1 /\ Len(p) \in Nat /\ Len(q) \in Nat
      /\ n <= Len(q) /\ n + d <= Len(p) /\ v(n + 1 + d) = w(n + 1)
      /\ \A k \in s..n : p[k + d] = q[k] /\ c[k + d] = e[k]
  BY DEF Agree
<1>2. /\ \A k \in 1..Len(p) : v(k) = IF HasParam(p[k]) THEN Emplaced(NameOf(p[k]), Left(p[k], c[k]), v(k + 1)) ELSE v(k + 1)
      /\ \A k \in 1..Len(q) : w(k) = IF HasParam(q[k]) THEN Emplaced(NameOf(q[k]), Left(q[k], e[k]), w(k + 1)) ELSE w(k + 1)
  BY <1>1, ParamsLaid
<1> HIDE DEF v, w
<1>3. n + 1 \in Q
  <2>1. n + 1 + d = (n + 1) + d /\ n + 1 \in 1..n + 1
    BY <1>1
  <2> QED BY <1>1, <2>1
<1>4. ASSUME NEW k \in 1..n, \A j \in 1..n + 1 : k < j => j \in Q PROVE k \in Q
  <2> SUFFICES ASSUME k >= s PROVE v(k + d) = w(k)
    BY <1>1
  <2>1. k + 1 \in 1..n + 1 /\ k < k + 1 /\ k + 1 >= s /\ (k + 1) + d = (k + d) + 1
    BY <1>1
  <2>2. v((k + d) + 1) = w(k + 1)
    BY <1>4, <2>1
  <2>3. k + d \in 1..Len(p) /\ k \in 1..Len(q) /\ k \in s..n
    BY <1>1
  <2>4. p[k + d] = q[k] /\ c[k + d] = e[k]
    BY <1>1, <2>3
  <2> QED BY ONLY <1>2, <2>2, <2>3, <2>4
<1>5. Q \in SUBSET (1..n + 1)
  OBVIOUS
<1> HIDE DEF Q
<1>6. Q = 1..n + 1
  BY <1>1, <1>3, <1>4, <1>5, SuffixInduction
<1>7. s \in Q /\ s >= s
  BY <1>1, <1>6
<1> QED BY <1>7 DEF Q, v, w

\* The number of a pattern's components without the empty one that Normal drops;
\* what Match should give for a pattern and a path with these components.
Ends(p) == IF p[Len(p)] = << >> /\ Len(p) > 1 /\ HasParam(p[Len(p) - 1]) THEN Len(p) - 1 ELSE Len(p)
Takes(p, c) ==
  /\ Len(c) = Ends(p) \/ (HasParam(p[Ends(p)]) /\ Len(c) = Ends(p) + 1 /\ c[Len(c)] = << >>)
  /\ \A k \in 1..Ends(p) : Fits(p[k], c[k])
Gives(p, c) == IF Takes(p, c) THEN {ParamsFrom(p, c, 1)} ELSE {}

\* A pattern has a last component, and behind it there are no values.
LEMMA EndsMeans ==
  ASSUME NEW C, NEW p \in Seq(Seq(C)), p # << >>
  PROVE  /\ Len(p) \in Nat /\ Ends(p) \in 1..Len(p)
         /\ \A c : ParamsFrom(p, c, Ends(p) + 1) = NoParams
<1> DEFINE n == Len(p)
<1>1. n \in Nat /\ n >= 1
  OBVIOUS
<1>2. Ends(p) = n \/ (Ends(p) = n - 1 /\ p[n] = << >> /\ n > 1)
  BY DEF Ends
<1>3. Ends(p) \in 1..n
  BY <1>1, <1>2
<1>4. ASSUME NEW c PROVE ParamsFrom(p, c, Ends(p) + 1) = NoParams
  <2>1. ParamsFrom(p, c, n + 1) = NoParams
    BY <1>1, ParamsLaid
  <2>2. CASE Ends(p) = n
    BY <2>1, <2>2
  <2>3. CASE Ends(p) = n - 1 /\ p[n] = << >> /\ n > 1
    <3>1. ~HasParam(p[n]) /\ n \in 1..n /\ Ends(p) + 1 = n
      BY <1>1, <2>3, ComponentBegins
    <3>2. ParamsFrom(p, c, n) = IF HasParam(p[n]) THEN Emplaced(NameOf(p[n]), Left(p[n], c[n]), ParamsFrom(p, c, n + 1))
                                ELSE ParamsFrom(p, c, n + 1)
      BY <1>1, <3>1, ParamsLaid
    <3> QED BY <2>1, <3>1, <3>2
  <2> QED BY <1>2, <2>2, <2>3
<1> QED BY <1>1, <1>3, <1>4

\* Gives is what RoutesByComponent says of components.
LEMMA GivesMeans ==
  ASSUME NEW C, NEW p \in Seq(Seq(C)), p # << >>, NEW c \in Seq(Seq(C)), c # << >>
  PROVE  LET q == Normal(p)
             fitting == Fitting(q, c)
         IN  Gives(p, c) = IF Fit(q, fitting) THEN {ParamsFrom(q, fitting, 1)} ELSE {}
<1> DEFINE q == Normal(p)
           f == IF HasParam(Last(q)) /\ Last(c) = << >> /\ Len(c) > Len(q) THEN Front(c) ELSE c
           n == Ends(p)
<1>1. /\ Len(p) \in Nat /\ n \in 1..Len(p) /\ Len(c) \in Nat /\ Len(c) >= 1
      /\ ParamsFrom(p, c, n + 1) = NoParams
  BY EndsMeans
<1>2. ASSUME NEW s \in Seq(Seq(C)), NEW m \in 0..Len(s)
      PROVE  /\ SubSeq(s, 1, m) \in Seq(Seq(C)) /\ Len(SubSeq(s, 1, m)) = m
             /\ \A k \in 1..m : SubSeq(s, 1, m)[k] = s[k]
  OBVIOUS
<1>3. q \in Seq(Seq(C)) /\ Len(q) = n /\ \A k \in 1..n : q[k] = p[k]
  <2> DEFINE drop == p[Len(p)] = << >> /\ Len(p) > 1 /\ HasParam(p[Len(p) - 1])
  <2>1. Len(p) > 1 => Last(Front(p)) = p[Len(p) - 1]
    <3> SUFFICES ASSUME Len(p) > 1 PROVE Last(Front(p)) = p[Len(p) - 1]
      OBVIOUS
    <3>1. Len(p) - 1 \in 0..Len(p) /\ Len(p) - 1 \in 1..Len(p) - 1
      BY <1>1
    <3>2. Len(Front(p)) = Len(p) - 1 /\ Front(p)[Len(p) - 1] = p[Len(p) - 1]
      BY <1>2, <3>1 DEF Front
    <3> QED BY <3>2 DEF Last
  <2>2. q = IF drop THEN Front(p) ELSE p
    BY <2>1 DEF Normal, Last
  <2>3. n = IF drop THEN Len(p) - 1 ELSE Len(p)
    BY DEF Ends
  <2> HIDE DEF q, n
  <2>4. CASE drop
    <3>1. Len(p) - 1 \in 0..Len(p)
      <4>1. Len(p) > 1 /\ Len(p) \in Nat
        BY <1>1, <2>4
      <4> QED BY ONLY <4>1
    <3> HIDE DEF drop
    <3> QED BY <1>2, <2>2, <2>3, <2>4, <3>1 DEF Front
  <2>5. CASE ~drop
    <3> HIDE DEF drop
    <3> QED BY <2>2, <2>3, <2>5
  <2> QED BY <2>4, <2>5
<1> HIDE DEF q, n
<1>4. Last(q) = p[n] /\ Last(c) = c[Len(c)]
  BY <1>1, <1>3 DEF Last
<1>5. /\ f \in Seq(Seq(C)) /\ (Len(f) = n => \A k \in 1..n : f[k] = c[k])
      /\ Len(f) = n <=> Len(c) = n \/ (HasParam(p[n]) /\ Len(c) = n + 1 /\ c[Len(c)] = << >>)
  <2>1. CASE HasParam(p[n]) /\ c[Len(c)] = << >> /\ Len(c) > n
    <3>1. f = Front(c) /\ Len(c) - 1 \in 0..Len(c)
      BY <1>1, <1>3, <1>4, <2>1
    <3>2. f \in Seq(Seq(C)) /\ Len(f) = Len(c) - 1 /\ \A k \in 1..Len(c) - 1 : f[k] = c[k]
      BY <1>2, <3>1 DEF Front
    <3> HIDE DEF f
    <3>3. Len(f) = n <=> Len(c) = n + 1
      BY <1>1, <3>2
    <3>4. ASSUME Len(f) = n, NEW k \in 1..n PROVE f[k] = c[k]
      <4>1. k \in 1..Len(c) - 1
        BY <3>2, <3>4
      <4> QED BY <3>2, <4>1
    <3>5. Len(c) # n
      BY <1>1, <2>1
    <3> QED BY <2>1, <3>2, <3>3, <3>4, <3>5
  <2>2. CASE ~(HasParam(p[n]) /\ c[Len(c)] = << >> /\ Len(c) > n)
    <3>1. f = c
      BY <1>3, <1>4, <2>2
    <3> HIDE DEF f
    <3> QED BY <1>1, <2>2, <3>1
  <2> QED BY <2>1, <2>2
<1> HIDE DEF f
<1>6. Fit(q, f) <=> Takes(p, c)
  <2>1. DOMAIN q = 1..n
    BY <1>3
  <2>2. Fit(q, f) <=> Len(f) = n /\ \A k \in 1..n : Fits(p[k], f[k])
    BY <1>3, <2>1 DEF Fit
  <2> QED BY <1>5, <2>2 DEF Takes, n
<1>7. ASSUME Len(f) = n PROVE ParamsFrom(p, c, 1) = ParamsFrom(q, f, 1)
  <2>1. ParamsFrom(q, f, n + 1) = NoParams
    <3>1. Len(q) \in Nat /\ Len(q) = n
      BY <1>1, <1>3
    <3>2. ParamsFrom(q, f, Len(q) + 1) = NoParams
      BY <3>1, ParamsLaid
    <3> QED BY <3>1, <3>2
  <2> DEFINE d == 0
  <2>2. /\ Len(q) \in Nat /\ d \in Nat /\ n \in Nat /\ n <= Len(q) /\ n + d <= Len(p)
        /\ 1 \in 1..n + 1 /\ n + 1 + d = n + 1 /\ 1 + d = 1 /\ \A k \in 1..n : k + d = k
    BY <1>1, <1>3
  <2> HIDE DEF d
  <2>3. \A k \in 1..n : p[k + d] = q[k] /\ c[k + d] = f[k]
    BY <1>3, <1>5, <1>7, <2>2
  <2>4. ParamsFrom(p, c, n + 1 + d) = ParamsFrom(q, f, n + 1)
    BY <1>1, <2>1, <2>2
  <2>5. ParamsFrom(p, c, 1 + d) = ParamsFrom(q, f, 1)
    <3>1. Agree(p, c, q, f, d, 1, n)
      BY <1>1, <2>2, <2>3, <2>4 DEF Agree
    <3> QED BY <3>1, ParamsAgree
  <2> QED BY <2>2, <2>5
<1>8. Takes(p, c) => Len(f) = n
  BY <1>5 DEF Takes, n
<1>9. Gives(p, c) = IF Fit(q, f) THEN {ParamsFrom(q, f, 1)} ELSE {}
  BY <1>6, <1>7, <1>8 DEF Gives
<1> QED BY <1>9 DEF q, f, Fitting

\* Components that are x and then q; components that are q but for a character a
\* before the first.
Follows(p, x, q) == Len(p) = Len(q) + 1 /\ p[1] = x /\ \A k \in 1..Len(q) : p[k + 1] = q[k]
Grows(p, a, q) == Len(p) = Len(q) /\ p[1] = <<a>> \o q[1] /\ \A k \in 2..Len(q) : p[k] = q[k]

\* Is what is left nothing, or just a slash that Normal drops?
Nothing(q) == Len(q) = 1 /\ q[1] = << >>

\* One more component leaves the end where it is, but for a parameter before nothing.
LEMMA EndsFollow ==
  ASSUME NEW C, NEW p \in Seq(Seq(C)), NEW q \in Seq(Seq(C)), q # << >>, NEW x,
         Follows(p, x, q), ~(HasParam(x) /\ Nothing(q))
  PROVE  Ends(p) = Ends(q) + 1
<1> DEFINE n == Len(q)
<1>1. /\ n \in Nat /\ n >= 1 /\ Len(p) = n + 1 /\ p[1] = x
      /\ \A k \in 1..n : p[k + 1] = q[k]
  BY DEF Follows
<1> HIDE DEF n
<1>2. p[n + 1] = q[n] /\ n + 1 > 1
  BY <1>1
<1>3. CASE n = 1
  <2>1. Ends(q) = 1
    BY <1>3 DEF Ends, n
  <2>2. p[(n + 1) - 1] = x
    BY <1>1, <1>3
  <2>3. Ends(p) = IF q[n] = << >> /\ HasParam(x) THEN (n + 1) - 1 ELSE n + 1
    BY <1>1, <1>2, <2>2 DEF Ends
  <2> QED BY <1>3, <2>1, <2>3 DEF Nothing, n
<1>4. CASE n # 1
  <2>1. n - 1 \in 1..n /\ (n - 1) + 1 = (n + 1) - 1 /\ n > 1
    BY <1>1, <1>4
  <2>2. p[(n + 1) - 1] = q[n - 1]
    BY <1>1, <2>1
  <2>3. Ends(p) = IF q[n] = << >> /\ HasParam(q[n - 1]) THEN (n + 1) - 1 ELSE n + 1
    BY <1>1, <1>2, <2>2 DEF Ends
  <2>4. Ends(q) = IF q[n] = << >> /\ HasParam(q[n - 1]) THEN n - 1 ELSE n
    BY <2>1 DEF Ends, n
  <2> QED BY <1>1, <2>3, <2>4
<1> QED BY <1>3, <1>4

\* The components of both are one more, and the first two fit.
LEMMA TakesFollow ==
  ASSUME NEW C, NEW p \in Seq(Seq(C)), NEW q \in Seq(Seq(C)), q # << >>, NEW x,
         Follows(p, x, q), ~(HasParam(x) /\ Nothing(q)),
         NEW c \in Seq(Seq(C)), NEW e \in Seq(Seq(C)), e # << >>, NEW z, Follows(c, z, e)
  PROVE  /\ Takes(p, c) <=> Fits(x, z) /\ Takes(q, e)
         /\ Takes(q, e) => ParamsFrom(p, c, 1) = IF HasParam(x) THEN Emplaced(NameOf(x), Left(x, z), ParamsFrom(q, e, 1))
                                                 ELSE ParamsFrom(q, e, 1)
<1> DEFINE n == Ends(q)
<1>1. Ends(p) = n + 1 /\ n \in 1..Len(q) /\ Len(q) \in Nat /\ Len(p) \in Nat
      /\ Len(e) \in Nat /\ Len(e) >= 1 /\ Len(c) = Len(e) + 1
  <2>1. Ends(p) = n + 1
    BY EndsFollow
  <2> QED BY <2>1, EndsMeans DEF Follows
<1>2. /\ p[1] = x /\ c[1] = z /\ Len(p) = Len(q) + 1
      /\ \A k \in 1..Len(q) : p[k + 1] = q[k]
      /\ \A k \in 1..Len(e) : c[k + 1] = e[k]
  BY DEF Follows
<1>3. \A d : ParamsFrom(p, d, Ends(p) + 1) = NoParams /\ ParamsFrom(q, d, n + 1) = NoParams
  <2>1. p # << >>
    BY <1>1, <1>2
  <2> QED BY <2>1, EndsMeans
<1> HIDE DEF n
<1>4. p[n + 1] = q[n] /\ c[Len(c)] = e[Len(e)] /\ 1 \in 1..Len(p)
  <2>1. p[n + 1] = q[n]
    BY <1>1, <1>2
  <2>2. c[Len(e) + 1] = e[Len(e)]
    <3>1. Len(e) \in 1..Len(e)
      BY <1>1
    <3> QED BY <1>2, <3>1
  <2>3. Len(c) = Len(e) + 1 /\ 1 \in 1..Len(p)
    BY <1>1, <1>2
  <2> QED BY <2>1, <2>2, <2>3
<1>5. Takes(p, c) <=> /\ Len(e) = n \/ (HasParam(q[n]) /\ Len(e) = n + 1 /\ e[Len(e)] = << >>)
                      /\ \A k \in 1..n + 1 : Fits(p[k], c[k])
  <2>1. Len(c) = n + 1 <=> Len(e) = n
    BY <1>1
  <2>2. Len(c) = (n + 1) + 1 <=> Len(e) = n + 1
    BY <1>1
  <2> QED BY <1>1, <1>4, <2>1, <2>2, Zenon DEF Takes
<1>6. Takes(q, e) <=> /\ Len(e) = n \/ (HasParam(q[n]) /\ Len(e) = n + 1 /\ e[Len(e)] = << >>)
                      /\ \A k \in 1..n : Fits(q[k], e[k])
  BY DEF Takes, n
<1>7. ASSUME Len(e) = n \/ Len(e) = n + 1
      PROVE  (\A k \in 1..n + 1 : Fits(p[k], c[k])) <=> Fits(x, z) /\ \A k \in 1..n : Fits(q[k], e[k])
  <2>1. ASSUME NEW k \in 1..n PROVE k + 1 \in 1..n + 1 /\ p[k + 1] = q[k] /\ c[k + 1] = e[k]
    <3>1. k \in 1..Len(q) /\ k \in 1..Len(e) /\ k + 1 \in 1..n + 1
      BY <1>1, <1>7
    <3> QED BY <1>2, <3>1
  <2>2. ASSUME NEW k \in 1..n + 1, k # 1 PROVE k - 1 \in 1..n /\ (k - 1) + 1 = k
    BY <1>1, <2>2
  <2>3. 1 \in 1..n + 1
    BY <1>1
  <2>4. ASSUME \A k \in 1..n + 1 : Fits(p[k], c[k]), NEW k \in 1..n PROVE Fits(q[k], e[k])
    BY <2>1, <2>4
  <2>5. ASSUME Fits(x, z), \A k \in 1..n : Fits(q[k], e[k]), NEW k \in 1..n + 1
        PROVE  Fits(p[k], c[k])
    <3>1. CASE k = 1
      BY <1>2, <2>5, <3>1
    <3>2. CASE k # 1
      <4>1. p[(k - 1) + 1] = q[k - 1] /\ c[(k - 1) + 1] = e[k - 1] /\ Fits(q[k - 1], e[k - 1])
        BY <2>1, <2>2, <2>5, <3>2
      <4> QED BY <2>2, <3>2, <4>1
    <3> QED BY <3>1, <3>2
  <2> QED BY <1>2, <2>3, <2>4, <2>5
<1>8. ASSUME Takes(q, e) PROVE ParamsFrom(p, c, 2) = ParamsFrom(q, e, 1)
  <2> DEFINE d == 1
  <2>1. /\ d \in Nat /\ n \in Nat /\ 1 \in 1..n + 1 /\ n <= Len(q) /\ n + d <= Len(p)
        /\ n + 1 + d = Ends(p) + 1 /\ 1 + d = 2 /\ \A k \in 1..n : k + d = k + 1
    BY <1>1, <1>2
  <2> HIDE DEF d
  <2>2. ASSUME NEW k \in 1..n PROVE p[k + d] = q[k] /\ c[k + d] = e[k]
    <3>1. k \in 1..Len(q) /\ k \in 1..Len(e)
      BY <1>1, <1>6, <1>8, SMTT(30)
    <3> QED BY <1>2, <2>1, <3>1
  <2>3. ParamsFrom(p, c, n + 1 + d) = ParamsFrom(q, e, n + 1)
    BY <1>3, <2>1
  <2>4. Agree(p, c, q, e, d, 1, n)
    BY <1>1, <2>1, <2>2, <2>3 DEF Agree
  <2>5. ParamsFrom(p, c, 1 + d) = ParamsFrom(q, e, 1)
    BY <2>4, ParamsAgree
  <2> QED BY <2>1, <2>5
<1>9. ParamsFrom(p, c, 1) = IF HasParam(x) THEN Emplaced(NameOf(x), Left(x, z), ParamsFrom(p, c, 2))
                            ELSE ParamsFrom(p, c, 2)
  <2>1. 1 \in 1..Len(p) /\ 1 + 1 = 2
    BY <1>4
  <2>2. \A k \in 1..Len(p) :
          ParamsFrom(p, c, k) = IF HasParam(p[k]) THEN Emplaced(NameOf(p[k]), Left(p[k], c[k]), ParamsFrom(p, c, k + 1))
                                ELSE ParamsFrom(p, c, k + 1)
    BY <1>1, ParamsLaid
  <2> QED BY <1>2, <2>1, <2>2
<1>10. Takes(p, c) <=> Fits(x, z) /\ Takes(q, e)
  BY <1>5, <1>6, <1>7
<1> QED BY <1>8, <1>9, <1>10

\* A character before both leaves what is given.
LEMMA GivesGrow ==
  ASSUME NEW C, NEW p \in Seq(Seq(C)), NEW q \in Seq(Seq(C)), q # << >>,
         NEW a \in C, a # Marker, Grows(p, a, q), NEW c \in Seq(Seq(C))
  PROVE  /\ (c = << >> \/ c[1] = << >> \/ c[1][1] # a) => Gives(p, c) = {}
         /\ \A e \in Seq(Seq(C)) : e # << >> /\ Grows(c, a, e) => Gives(p, c) = Gives(q, e)
<1> DEFINE n == Ends(q)
<1>1. /\ Len(q) \in Nat /\ Len(q) >= 1 /\ Len(p) = Len(q) /\ p[1] = <<a>> \o q[1]
      /\ \A k \in 2..Len(q) : p[k] = q[k]
      /\ q[1] \in Seq(C) /\ n \in 1..Len(q) /\ Len(c) \in Nat /\ p # << >>
  <2>1. Len(q) \in Nat /\ Len(q) >= 1 /\ Len(c) \in Nat
    OBVIOUS
  <2>2. n \in 1..Len(q)
    BY EndsMeans
  <2>3. Len(p) = Len(q) /\ p[1] = <<a>> \o q[1] /\ \A k \in 2..Len(q) : p[k] = q[k]
    BY DEF Grows
  <2> HIDE DEF n
  <2>4. q[1] \in Seq(C) /\ p # << >>
    BY <2>1, <2>3
  <2> QED BY <2>1, <2>2, <2>3, <2>4
<1>2. /\ p[1] \in Seq(C) /\ p[1] # << >> /\ (HasParam(p[1]) <=> HasParam(q[1]))
      /\ HasParam(q[1]) => NameOf(p[1]) = NameOf(q[1])
      /\ \A z \in Seq(C) : /\ Fits(p[1], <<a>> \o z) <=> Fits(q[1], z)
                           /\ HasParam(q[1]) /\ Fits(q[1], z)
                                => Left(p[1], <<a>> \o z) = Left(q[1], z)
      /\ \A z \in Seq(C) : Fits(p[1], z) => z # << >> /\ z[1] = a
  BY <1>1, ComponentGrows
<1>3. Ends(p) = n
  <2> DEFINE m == Len(q)
  <2>0. m \in Nat /\ m >= 1 /\ Len(p) = m /\ \A k \in 2..m : p[k] = q[k]
    BY <1>1
  <2>1. CASE m = 1
    BY <1>1, <2>1 DEF Ends
  <2>2. CASE m # 1
    <3> HIDE DEF m
    <3>1. m > 1 /\ m \in 2..m /\ (m - 1 = 1 \/ m - 1 \in 2..m)
      BY <2>0, <2>2
    <3>2. p[m] = q[m]
      BY <2>0, <3>1
    <3>3. HasParam(p[m - 1]) <=> HasParam(q[m - 1])
      BY <1>2, <2>0, <3>1
    <3> QED BY <2>0, <3>1, <3>2, <3>3 DEF Ends, n, m
  <2> QED BY <2>1, <2>2
<1>4. /\ ParamsFrom(p, c, n + 1) = NoParams
      /\ \A e : ParamsFrom(q, e, n + 1) = NoParams
  BY <1>1, <1>3, EndsMeans
<1> HIDE DEF n
<1>5. ASSUME c = << >> \/ c[1] = << >> \/ c[1][1] # a PROVE ~Takes(p, c)
  <2> SUFFICES ASSUME Takes(p, c) PROVE FALSE
    OBVIOUS
  <2>1. Len(c) >= 1 /\ Fits(p[1], c[1])
    <3>1. Len(c) = n \/ Len(c) = n + 1
      BY <1>3 DEF Takes
    <3>2. 1 \in 1..n /\ Len(c) >= 1
      BY <1>1, <3>1
    <3>3. \A k \in 1..n : Fits(p[k], c[k])
      BY <1>3 DEF Takes
    <3> QED BY <3>2, <3>3
  <2>2. c # << >> /\ c[1] \in Seq(C)
    BY <2>1
  <2> QED BY <1>2, <1>5, <2>1, <2>2
<1>6. ASSUME NEW e \in Seq(Seq(C)), e # << >>, Grows(c, a, e) PROVE Gives(p, c) = Gives(q, e)
  <2>1. /\ Len(e) \in Nat /\ Len(e) >= 1 /\ Len(c) = Len(e) /\ c[1] = <<a>> \o e[1]
        /\ \A k \in 2..Len(e) : c[k] = e[k]
        /\ e[1] \in Seq(C)
    BY <1>6 DEF Grows
  <2>2. Fits(p[1], c[1]) <=> Fits(q[1], e[1])
    BY <1>2, <2>1
  <2>3. ASSUME Len(e) = n \/ Len(e) = n + 1, NEW k \in 1..n
        PROVE  Fits(p[k], c[k]) <=> Fits(q[k], e[k])
    <3>1. CASE k = 1
      BY <2>2, <3>1
    <3>2. CASE k # 1
      <4>1. k \in 2..Len(q) /\ k \in 2..Len(e)
        <5>1. n \in Nat /\ n <= Len(q) /\ n <= Len(e) /\ k \in 2..n /\ Len(q) \in Nat /\ Len(e) \in Nat
          <6>1. n \in Nat /\ n <= Len(q) /\ Len(q) \in Nat /\ Len(e) \in Nat
            BY <1>1, <2>1
          <6>2. k \in 2..n
            BY <3>2, <6>1
          <6> QED BY <2>3, <6>1, <6>2
        <5> QED BY ONLY <5>1
      <4> QED BY <1>1, <2>1, <4>1
    <3> QED BY <3>1, <3>2
  <2>4. Len(e) = n + 1 => c[Len(c)] = e[Len(e)]
    <3> SUFFICES ASSUME Len(e) = n + 1 PROVE c[Len(c)] = e[Len(e)]
      OBVIOUS
    <3>1. Len(e) \in 2..Len(e)
      BY <1>1, <2>1
    <3> QED BY <2>1, <3>1
  <2>5. HasParam(p[n]) <=> HasParam(q[n])
    <3>1. n = 1 \/ n \in 2..Len(q)
      BY <1>1
    <3> QED BY <1>1, <1>2, <3>1
  <2>6. Takes(p, c) <=> /\ Len(e) = n \/ (HasParam(q[n]) /\ Len(e) = n + 1 /\ e[Len(e)] = << >>)
                        /\ \A k \in 1..n : Fits(q[k], e[k])
    <3>1. Takes(p, c) <=> /\ Len(c) = n \/ (HasParam(p[n]) /\ Len(c) = n + 1 /\ c[Len(c)] = << >>)
                          /\ \A k \in 1..n : Fits(p[k], c[k])
      BY <1>3 DEF Takes
    <3> QED BY <2>1, <2>3, <2>4, <2>5, <3>1
  <2>7. Takes(q, e) <=> /\ Len(e) = n \/ (HasParam(q[n]) /\ Len(e) = n + 1 /\ e[Len(e)] = << >>)
                        /\ \A k \in 1..n : Fits(q[k], e[k])
    BY DEF Takes, n
  <2>8. ASSUME Takes(q, e) PROVE ParamsFrom(p, c, 1) = ParamsFrom(q, e, 1)
    <3>1. ParamsFrom(p, c, 2) = ParamsFrom(q, e, 2)
      <4> DEFINE d == 0
      <4>1. /\ d \in Nat /\ n \in Nat /\ 2 \in 1..n + 1 /\ n <= Len(q) /\ n + d <= Len(p)
            /\ n + 1 + d = n + 1 /\ 2 + d = 2 /\ \A k \in 2..n : k + d = k
        BY <1>1
      <4> HIDE DEF d
      <4>2. ASSUME NEW k \in 2..n PROVE p[k + d] = q[k] /\ c[k + d] = e[k]
        <5>1. k \in 2..Len(q) /\ k \in 2..Len(e) /\ k + d = k
          <6>1. n \in Nat /\ n <= Len(q) /\ Len(q) \in Nat /\ Len(e) \in Nat
            BY <1>1, <2>1
          <6>2. Len(e) = n \/ Len(e) = n + 1
            BY <2>7, <2>8
          <6>3. n <= Len(e) /\ k \in Nat /\ k >= 2 /\ k <= n
            BY <6>1, <6>2
          <6> QED BY <4>1, <6>1, <6>3
        <5> QED BY <1>1, <2>1, <5>1
      <4>3. ParamsFrom(p, c, n + 1 + d) = ParamsFrom(q, e, n + 1)
        BY <1>4, <4>1
      <4>4. Agree(p, c, q, e, d, 2, n)
        BY <1>1, <4>1, <4>2, <4>3 DEF Agree
      <4>5. ParamsFrom(p, c, 2 + d) = ParamsFrom(q, e, 2)
        BY <4>4, ParamsAgree
      <4> QED BY <4>1, <4>5
    <3>2. /\ \A k \in 1..Len(p) :
               ParamsFrom(p, c, k) = IF HasParam(p[k]) THEN Emplaced(NameOf(p[k]), Left(p[k], c[k]), ParamsFrom(p, c, k + 1))
                                     ELSE ParamsFrom(p, c, k + 1)
          /\ \A k \in 1..Len(q) :
               ParamsFrom(q, e, k) = IF HasParam(q[k]) THEN Emplaced(NameOf(q[k]), Left(q[k], e[k]), ParamsFrom(q, e, k + 1))
                                     ELSE ParamsFrom(q, e, k + 1)
      BY <1>1, ParamsLaid
    <3>3. 1 \in 1..Len(p) /\ 1 \in 1..Len(q) /\ 1 + 1 = 2 /\ 1 \in 1..n
      BY <1>1
    <3>4. HasParam(q[1]) => Left(p[1], c[1]) = Left(q[1], e[1])
      <4>1. Fits(q[1], e[1])
        BY <2>7, <2>8, <3>3
      <4> QED BY <1>2, <2>1, <4>1
    <3>5. ParamsFrom(p, c, 1) = IF HasParam(p[1]) THEN Emplaced(NameOf(p[1]), Left(p[1], c[1]), ParamsFrom(p, c, 2))
                                ELSE ParamsFrom(p, c, 2)
      BY <3>2, <3>3
    <3>6. ParamsFrom(q, e, 1) = IF HasParam(q[1]) THEN Emplaced(NameOf(q[1]), Left(q[1], e[1]), ParamsFrom(q, e, 2))
                                ELSE ParamsFrom(q, e, 2)
      BY <3>2, <3>3
    <3> QED BY ONLY <1>2, <3>1, <3>4, <3>5, <3>6
  <2> QED BY <2>6, <2>7, <2>8 DEF Gives
<1> QED BY <1>5, <1>6 DEF Gives

\* f has, for each position of s, the pieces between separators from there on.
Laid(f, s) ==
  \A i \in 1..Len(s) + 1 :
    f[i] = LET end == FindFrom(s, Separator, i)
           IN  <<Slice(s, i, end)>> \o IF end > Len(s) THEN << >> ELSE f[end + 1]

\* The pieces of a text are laid one after the other.
LEMMA PiecesLaid ==
  ASSUME NEW C, NEW s \in Seq(C)
  PROVE  \E f \in [1..Len(s) + 1 -> Seq(Seq(C))] : Laid(f, s) /\ Pieces(s) = f[1]
<1> DEFINE N == Len(s)
           I == 1..N + 1
           S == Seq(Seq(C))
           end(i) == FindFrom(s, Separator, i)
           piece(i) == Slice(s, i, end(i))
           value(f, i) == <<piece(i)>> \o IF end(i) > N THEN << >> ELSE f[end(i) + 1]
           chosen == CHOOSE f : f = [i \in I |-> value(f, i)]
           next == [i \in 1..N |-> IF end(i) > N THEN N + 1 ELSE end(i) + 1]
           join == [p \in (1..N) \X S |-> <<piece(p[1])>> \o IF end(p[1]) > N THEN << >> ELSE p[2]]
           base == <<piece(N + 1)>>
<1>1. N \in Nat /\ << >> \in S
  OBVIOUS
<1>2. \A i \in I : end(i) \in i..N + 1
  <2> TAKE i \in I
  <2>1. i \in Nat /\ i <= N + 1
    BY <1>1
  <2>2. end(i) \in i..N \/ end(i) = N + 1
    BY <1>1, <2>1, FirstFound
  <2> HIDE DEF end
  <2> QED BY <1>1, <2>1, <2>2
<1>3. \A i \in I : <<piece(i)>> \in S
  <2> TAKE i \in I
  <2>1. Slice(s, i, end(i)) \in Seq(C)
    <3> HIDE DEF end
    <3> QED BY <1>2, Sliced
  <2> HIDE DEF end
  <2> QED BY <2>1
<1>4. end(N + 1) = N + 1 /\ N + 1 > N /\ N + 1 \in I /\ base \in S
  <2>1. N + 1 \in I
    BY <1>1
  <2>2. base \in S
    <3> HIDE DEF piece, S, I
    <3> QED BY <1>3, <2>1
  <2> HIDE DEF end, base
  <2> QED BY <1>1, <1>2, <2>1, <2>2
<1>5. next \in [1..N -> 1..N + 1] /\ \A i \in 1..N : i < next[i]
  <2>1. ASSUME NEW i \in 1..N
        PROVE  /\ (IF end(i) > N THEN N + 1 ELSE end(i) + 1) \in 1..N + 1
               /\ i < (IF end(i) > N THEN N + 1 ELSE end(i) + 1)
    <3>1. end(i) \in i..N + 1 /\ i \in 1..N
      BY <1>1, <1>2
    <3> HIDE DEF end
    <3> QED BY <1>1, <3>1
  <2> HIDE DEF end
  <2> QED BY <2>1
<1> HIDE DEF end, piece
<1>6. \A u, v \in S : u \o v \in S
  OBVIOUS
<1>7. join \in [(1..N) \X S -> S]
  <2>1. ASSUME NEW i \in 1..N, NEW x \in S
        PROVE  <<piece(i)>> \o (IF end(i) > N THEN << >> ELSE x) \in S
    <3>1. <<piece(i)>> \in S /\ (IF end(i) > N THEN << >> ELSE x) \in S
      BY <1>1, <1>3
    <3> HIDE DEF S
    <3> QED BY <1>6, <3>1
  <2> HIDE DEF S
  <2> QED BY <2>1
<1> HIDE DEF S
<1>8. \A i \in 1..N : \A x \in S :
        join[<<i, x>>] = <<piece(i)>> \o IF end(i) > N THEN << >> ELSE x
  OBVIOUS
<1> HIDE DEF join
<1>9. ASSUME NEW f, Unwinds(f, base, next, join, N), \A i \in I : f[i] \in S
      PROVE  \A i \in I : f[i] = value(f, i)
  <2>1. ASSUME NEW i \in 1..N PROVE join[<<i, f[next[i]]>>] = value(f, i)
    <3>1. next[i] \in 1..N + 1 /\ (~(end(i) > N) => next[i] = end(i) + 1)
      BY <1>5
    <3>2. join[<<i, f[next[i]]>>] = <<piece(i)>> \o IF end(i) > N THEN << >> ELSE f[next[i]]
      BY <1>8, <1>9, <3>1
    <3> QED BY <3>1, <3>2
  <2>2. value(f, N + 1) = base
    <3>1. <<piece(N + 1)>> \o << >> = <<piece(N + 1)>>
      OBVIOUS
    <3> QED BY <1>4, <3>1
  <2>3. \A i \in I : i \in 1..N \/ i = N + 1
    BY <1>1
  <2>4. N + 1 \in I /\ \A i \in 1..N : i \in I
    BY <1>1
  <2> HIDE DEF I, next, value, base
  <2> QED BY <1>9, <2>1, <2>2, <2>3, <2>4 DEF Unwinds
<1>10. PICK g \in [1..N + 1 -> S] : Unwinds(g, base, next, join, N)
  <2> HIDE DEF N, next, base
  <2> QED BY <1>1, <1>4, <1>5, <1>7, SuffixRecursion
<1>11. g = [i \in I |-> value(g, i)]
  <2>1. \A i \in I : g[i] \in S
    BY <1>10
  <2> HIDE DEF value, next, base
  <2> QED BY <1>9, <1>10, <2>1
<1>12. chosen = [i \in I |-> value(chosen, i)]
  <2> HIDE DEF value
  <2> QED BY <1>11
<1> HIDE DEF chosen
<1>13. \A i \in I : chosen[i] = value(chosen, i)
  BY <1>12
<1>14. \A i \in 1..N + 1 : chosen[i] \in S
  <2> DEFINE Q == {i \in I : chosen[i] \in S}
  <2>1. N + 1 \in Q
    <3>1. <<piece(N + 1)>> \o << >> \in S
      <4> HIDE DEF piece, I
      <4> QED BY <1>1, <1>3, <1>4, <1>6
    <3> QED BY <1>4, <1>13, <3>1
  <2>2. ASSUME NEW i \in 1..N, \A j \in I : i < j => j \in Q PROVE i \in Q
    <3>1. i \in I /\ <<piece(i)>> \in S
      BY <1>1, <1>3
    <3>2. (IF end(i) > N THEN << >> ELSE chosen[end(i) + 1]) \in S
      <4>1. end(i) \in i..N + 1
        BY <1>2, <3>1
      <4>2. ~(end(i) > N) => end(i) + 1 \in I /\ i < end(i) + 1
        BY <1>1, <4>1
      <4> HIDE DEF I
      <4> QED BY <1>1, <2>2, <4>2
    <3>3. chosen[i] \in S
      <4> HIDE DEF I
      <4> QED BY <1>6, <1>13, <3>1, <3>2
    <3> QED BY <3>1, <3>3
  <2>3. Q \in SUBSET I
    OBVIOUS
  <2> HIDE DEF Q
  <2>4. Q = I
    BY <1>1, <2>1, <2>2, <2>3, SuffixInduction
  <2> QED BY <2>4 DEF Q
<1>15. Pieces(s) = chosen[1]
  BY DEF Pieces, chosen, value, piece, end, I
<1>16. Laid(chosen, s)
  BY <1>13 DEF Laid, value, piece, end
<1> QED BY <1>12, <1>14, <1>15, <1>16 DEF S

\* Pieces from one position to the next.
LEMMA PieceSteps ==
  ASSUME NEW C, NEW s \in Seq(C), NEW f \in [1..Len(s) + 1 -> Seq(Seq(C))], Laid(f, s)
  PROVE  /\ Len(s) \in Nat /\ Nothing(f[Len(s) + 1])
         /\ \A i \in 1..Len(s) + 1 : f[i] \in Seq(Seq(C)) /\ f[i] # << >>
         /\ \A i \in 1..Len(s) + 1 :
              LET end == FindFrom(s, Separator, i)
              IN  /\ end \in i..Len(s) + 1
                  /\ end <= Len(s) => /\ end + 1 \in 1..Len(s) + 1
                                      /\ Follows(f[i], Slice(s, i, end), f[end + 1])
                  /\ end > Len(s) => Len(f[i]) = 1 /\ f[i][1] = Slice(s, i, end)
         /\ \A i \in 1..Len(s) : s[i] = Separator => Follows(f[i], << >>, f[i + 1])
         /\ \A i \in 1..Len(s) : s[i] # Separator => Grows(f[i], s[i], f[i + 1])
         /\ \A i \in 1..Len(s) : ~Nothing(f[i])
<1> DEFINE n == Len(s)
           end(i) == FindFrom(s, Separator, i)
           S == Seq(Seq(C))
<1>1. n \in Nat
  OBVIOUS
<1>2. ASSUME NEW i \in 1..n + 1
      PROVE  /\ i \in Nat /\ end(i) \in i..n + 1 /\ (end(i) <= n => s[end(i)] = Separator)
             /\ \A k \in i..n : k < end(i) => s[k] # Separator
  <2>1. i \in Nat
    BY <1>1
  <2>2. /\ (end(i) \in i..n /\ s[end(i)] = Separator) \/ end(i) = n + 1
        /\ \A k \in i..n : k < end(i) => s[k] # Separator
    BY <1>1, <2>1, FirstFound
  <2> HIDE DEF end
  <2> QED BY <1>1, <2>1, <2>2
<1> HIDE DEF end
<1>3. ASSUME NEW i \in 1..n + 1
      PROVE  f[i] = <<Slice(s, i, end(i))>> \o IF end(i) > n THEN << >> ELSE f[end(i) + 1]
  BY DEF Laid, end
<1>4. \A i \in 1..n + 1 : f[i] \in S
  BY <1>1
<1>5. ASSUME NEW x, NEW q \in S, NEW p \in S, p = <<x>> \o q
      PROVE  Follows(p, x, q)
  <2> DEFINE D == Seq(C) \cup {x}
  <2>1. q \in Seq(D) /\ <<x>> \in Seq(D) /\ Len(<<x>>) = 1 /\ <<x>>[1] = x
    OBVIOUS
  <2> HIDE DEF D
  <2>2. /\ Len(q) \in Nat /\ Len(<<x>> \o q) = Len(<<x>>) + Len(q)
        /\ \A k \in 1..Len(<<x>>) : (<<x>> \o q)[k] = <<x>>[k]
        /\ \A k \in 1..Len(q) : (<<x>> \o q)[Len(<<x>>) + k] = q[k]
    BY <2>1, Joined
  <2>3. \A k \in 1..Len(q) : Len(<<x>>) + k = k + 1
    BY <2>1
  <2> QED BY <1>5, <2>1, <2>2, <2>3 DEF Follows
<1>6. ASSUME NEW i \in 1..n + 1
      PROVE  /\ f[i] # << >>
             /\ end(i) <= n => end(i) + 1 \in 1..n + 1 /\ Follows(f[i], Slice(s, i, end(i)), f[end(i) + 1])
             /\ end(i) > n => Len(f[i]) = 1 /\ f[i][1] = Slice(s, i, end(i))
  <2>1. CASE end(i) <= n
    <3>1. end(i) + 1 \in 1..n + 1 /\ ~(end(i) > n)
      BY <1>1, <1>2, <2>1
    <3>2. f[i] \in S /\ f[end(i) + 1] \in S /\ f[i] = <<Slice(s, i, end(i))>> \o f[end(i) + 1]
      BY <1>3, <1>4, <3>1
    <3>3. Follows(f[i], Slice(s, i, end(i)), f[end(i) + 1])
      BY <1>5, <3>2
    <3>4. Len(f[i]) # 0
      BY <3>2, <3>3 DEF Follows
    <3> QED BY <2>1, <3>1, <3>3, <3>4
  <2>2. CASE end(i) > n
    <3>1. f[i] = <<Slice(s, i, end(i))>> \o << >>
      BY <1>3, <2>2
    <3>2. f[i] = <<Slice(s, i, end(i))>>
      BY <3>1
    <3>3. ~(end(i) <= n)
      BY <1>1, <1>2, <2>2
    <3> HIDE DEF Slice
    <3> QED BY <3>2, <3>3
  <2> QED BY <1>1, <1>2, <2>1, <2>2
<1>7. Nothing(f[n + 1])
  <2> DEFINE e == n + 1
  <2>1. e \in 1..n + 1 /\ end(e) = e /\ end(e) > n
    <3>1. e \in 1..n + 1 /\ e = n + 1
      BY <1>1
    <3>2. end(e) \in e..n + 1
      BY <1>2, <3>1
    <3> HIDE DEF e
    <3> QED BY <1>1, <3>1, <3>2
  <2>2. Slice(s, e, e) = << >>
    <3>1. Slice(s, e, e) \in Seq(C) /\ Len(Slice(s, e, e)) = e - e
      <4>1. e \in e..n + 1
        BY <1>1
      <4> HIDE DEF e
      <4> QED BY <2>1, <4>1, Sliced
    <3>2. e - e = 0
      BY <1>1
    <3> HIDE DEF Slice
    <3> QED BY <3>1, <3>2
  <2> QED BY <1>6, <2>1, <2>2 DEF Nothing
<1>8. ASSUME NEW i \in 1..n, s[i] = Separator PROVE Follows(f[i], << >>, f[i + 1])
  <2>1. i \in 1..n + 1 /\ i \in i..n /\ i \in i..n + 1
    BY <1>1
  <2>2. end(i) = i
    <3>1. ~(i < end(i))
      BY <1>2, <1>8, <2>1
    <3> QED BY <1>1, <1>2, <2>1, <3>1
  <2>3. Slice(s, i, i) = << >>
    <3>1. Slice(s, i, i) \in Seq(C) /\ Len(Slice(s, i, i)) = i - i
      BY <2>1, Sliced
    <3>2. i - i = 0
      BY <1>1
    <3> HIDE DEF Slice
    <3> QED BY <3>1, <3>2
  <2>4. end(i) <= n
    BY <1>1, <2>2
  <2> QED BY <1>6, <2>1, <2>2, <2>3, <2>4
<1>9. ASSUME NEW i \in 1..n, s[i] # Separator PROVE Grows(f[i], s[i], f[i + 1])
  <2> DEFINE e == end(i + 1)
             x == Slice(s, i, e)
             y == Slice(s, i + 1, e)
  <2>1. /\ i \in 1..n + 1 /\ i + 1 \in 1..n + 1 /\ i \in Nat
        /\ e \in i + 1..n + 1 /\ e \in i..n + 1
    BY <1>1, <1>2
  <2>2. end(i) = e
    <3>1. e = n + 1 \/ s[e] = Separator
      <4>1. e \in i + 1..n + 1 /\ (e <= n => s[e] = Separator)
        BY <1>2, <2>1
      <4> HIDE DEF e
      <4>2. e <= n \/ e = n + 1
        <5> HIDE DEF e, n
        <5> QED BY <1>1, <2>1
      <4> QED BY <4>1, <4>2
    <3>2. ASSUME NEW k \in i..n, k < e PROVE s[k] # Separator
      <4>1. k = i \/ k \in i + 1..n
        BY <1>1, <2>1
      <4> QED BY <1>2, <1>9, <2>1, <3>2, <4>1
    <3> HIDE DEF e
    <3> QED BY <1>1, <2>1, <3>1, <3>2, FoundAt DEF end
  <2>3. x \in Seq(C) /\ Len(x) = e - i /\ \A k \in 1..e - i : x[k] = s[i + k - 1]
    BY <2>1, Sliced, ZenonT(30)
  <2>4. y \in Seq(C) /\ Len(y) = e - (i + 1) /\ \A k \in 1..e - (i + 1) : y[k] = s[(i + 1) + k - 1]
    BY <2>1, Sliced, ZenonT(30)
  <2> HIDE DEF x, y, e
  <2>5. x = <<s[i]>> \o y
    <3> DEFINE a == s[i]
               w == <<a>> \o y
    <3>1. a \in C
      BY <1>1
    <3>2. w \in Seq(C) /\ Len(w) = 1 + Len(y) /\ w[1] = a /\ \A k \in 1..Len(y) : w[1 + k] = y[k]
      <4> HIDE DEF a
      <4>1. <<a>> \in Seq(C) /\ Len(<<a>>) = 1 /\ <<a>>[1] = a
        BY <3>1
      <4>2. /\ <<a>> \o y \in Seq(C) /\ Len(<<a>> \o y) = Len(<<a>>) + Len(y)
            /\ \A k \in 1..Len(<<a>>) : (<<a>> \o y)[k] = <<a>>[k]
            /\ \A k \in 1..Len(y) : (<<a>> \o y)[Len(<<a>>) + k] = y[k]
        BY <2>4, <4>1, Joined
      <4> QED BY <4>1, <4>2
    <3> HIDE DEF w
    <3>3. Len(w) = Len(x)
      BY <2>1, <2>3, <2>4, <3>2
    <3>4. ASSUME NEW k \in 1..Len(x) PROVE x[k] = w[k]
      <4>1. CASE k = 1
        <5>1. 1 \in 1..e - i /\ i + 1 - 1 = i
          BY <2>1
        <5> QED BY <2>3, <3>2, <4>1, <5>1
      <4>2. CASE k # 1
        <5>1. /\ k \in 1..e - i /\ k - 1 \in 1..Len(y) /\ k - 1 \in 1..e - (i + 1)
              /\ 1 + (k - 1) = k /\ (i + 1) + (k - 1) - 1 = i + k - 1
          BY <2>1, <2>3, <2>4, <4>2
        <5>2. x[k] = s[i + k - 1]
          BY <2>3, <5>1
        <5>3. y[k - 1] = s[i + k - 1]
          BY <2>4, <5>1
        <5>4. w[k] = y[k - 1]
          BY <3>2, <5>1
        <5> QED BY <5>2, <5>3, <5>4
      <4> QED BY <4>1, <4>2
    <3> QED BY <2>3, <3>2, <3>3, <3>4, SameText DEF w
  <2>6. CASE e <= n
    <3>1. Follows(f[i], x, f[e + 1]) /\ Follows(f[i + 1], y, f[e + 1]) /\ f[e + 1] \in S
      BY <1>4, <1>6, <2>1, <2>2, <2>6 DEF x, y, e
    <3>2. Len(f[e + 1]) \in Nat
      BY <3>1
    <3>3. ASSUME NEW k \in 2..Len(f[i + 1]) PROVE f[i][k] = f[i + 1][k]
      <4>1. k - 1 \in 1..Len(f[e + 1]) /\ (k - 1) + 1 = k
        BY <3>1, <3>2 DEF Follows
      <4> QED BY <3>1, <4>1 DEF Follows
    <3> QED BY <2>5, <3>1, <3>3 DEF Follows, Grows
  <2>7. CASE e > n
    <3>1. Len(f[i]) = 1 /\ f[i][1] = x /\ Len(f[i + 1]) = 1 /\ f[i + 1][1] = y
      BY <1>6, <2>1, <2>2, <2>7 DEF x, y, e
    <3>2. \A k \in 2..1 : FALSE
      OBVIOUS
    <3> QED BY <2>5, <3>1, <3>2 DEF Grows
  <2> QED BY <1>1, <2>1, <2>6, <2>7
<1>10. ASSUME NEW i \in 1..n PROVE ~Nothing(f[i])
  <2>1. i \in 1..n + 1 /\ i + 1 \in 1..n + 1
    BY <1>1
  <2>2. CASE s[i] = Separator
    <3>1. Len(f[i]) = Len(f[i + 1]) + 1 /\ f[i + 1] # << >> /\ f[i + 1] \in S
      BY <1>4, <1>6, <1>8, <2>1, <2>2 DEF Follows
    <3>2. Len(f[i]) # 1
      BY <3>1
    <3> QED BY <3>2 DEF Nothing
  <2>3. CASE s[i] # Separator
    <3>1. f[i][1] = <<s[i]>> \o f[i + 1][1] /\ f[i + 1][1] \in Seq(C)
      <4>1. f[i + 1] # << >> /\ f[i + 1] \in S
        BY <1>4, <1>6, <2>1
      <4> QED BY <1>9, <2>3, <4>1 DEF Grows
    <3>2. f[i][1] # << >>
      <4>1. s[i] \in C
        BY <1>1
      <4> QED BY <3>1, <4>1
    <3> QED BY <3>2 DEF Nothing
  <2> QED BY <2>2, <2>3
<1> QED BY <1>1, <1>2, <1>4, <1>6, <1>7, <1>8, <1>9, <1>10 DEF end

\* A separator in the pattern is a separator in the path.
LEMMA GivesSlash ==
  ASSUME NEW C, NEW p \in Seq(Seq(C)), NEW q \in Seq(Seq(C)), q # << >>,
         Follows(p, << >>, q), NEW c \in Seq(Seq(C)), c # << >>
  PROVE  /\ Len(c) = 1 \/ c[1] # << >> => Gives(p, c) = {}
         /\ \A e \in Seq(Seq(C)) : e # << >> /\ Follows(c, << >>, e) => Gives(p, c) = Gives(q, e)
<1>1. ~HasParam(<< >>) /\ \A z : Fits(<< >>, z) <=> z = << >>
  BY ComponentBegins
<1>2. ASSUME Len(c) = 1 \/ c[1] # << >> PROVE Gives(p, c) = {}
  <2> SUFFICES ASSUME Takes(p, c) PROVE FALSE
    BY DEF Gives
  <2>1. Ends(p) = Ends(q) + 1
    BY <1>1, EndsFollow
  <2>2. Ends(q) \in 1..Len(q) /\ Len(q) \in Nat
    BY EndsMeans
  <2>3. Len(c) = Ends(p) \/ Len(c) = Ends(p) + 1
    BY DEF Takes
  <2>4. Len(c) # 1 /\ 1 \in 1..Ends(p)
    <3>1. PICK m \in Nat : m >= 1 /\ Ends(q) = m
      BY <2>2
    <3>2. Ends(p) = m + 1 /\ (Len(c) = m + 1 \/ Len(c) = m + 2)
      BY <2>1, <2>3, <3>1
    <3>3. Len(c) # 1
      <4>1. m + 1 # 1 /\ m + 2 # 1
        BY <3>1
      <4> QED BY <3>2, <4>1
    <3>4. 1 \in 1..m + 1
      BY <3>1
    <3> QED BY <3>2, <3>3, <3>4
  <2>5. Fits(p[1], c[1]) /\ p[1] = << >>
    BY <2>4 DEF Takes, Follows
  <2> QED BY <1>1, <1>2, <2>4, <2>5
<1>3. ASSUME NEW e \in Seq(Seq(C)), e # << >>, Follows(c, << >>, e)
      PROVE  Gives(p, c) = Gives(q, e)
  <2>1. /\ Takes(p, c) <=> Fits(<< >>, << >>) /\ Takes(q, e)
        /\ Takes(q, e) => ParamsFrom(p, c, 1) = IF HasParam(<< >>)
                                                THEN Emplaced(NameOf(<< >>), Left(<< >>, << >>), ParamsFrom(q, e, 1))
                                                ELSE ParamsFrom(q, e, 1)
    <3>1. ~(HasParam(<< >>) /\ Nothing(q))
      BY <1>1
    <3>2. ASSUME NEW x, x = << >>, NEW z, z = << >>
          PROVE  /\ Takes(p, c) <=> Fits(x, z) /\ Takes(q, e)
                 /\ Takes(q, e) => ParamsFrom(p, c, 1) = IF HasParam(x)
                                                         THEN Emplaced(NameOf(x), Left(x, z), ParamsFrom(q, e, 1))
                                                         ELSE ParamsFrom(q, e, 1)
      <4>1. Follows(p, x, q) /\ Follows(c, z, e) /\ ~(HasParam(x) /\ Nothing(q))
        BY <1>3, <3>1, <3>2
      <4> QED BY <1>3, <4>1, TakesFollow
    <3> QED BY <3>2
  <2> QED BY <1>1, <2>1 DEF Gives
<1> QED BY <1>2, <1>3

\* Nothing takes nothing.
LEMMA GivesEmpty ==
  ASSUME NEW C, NEW p \in Seq(Seq(C)), Nothing(p), NEW c \in Seq(Seq(C))
  PROVE  Gives(p, c) = IF Nothing(c) THEN {NoParams} ELSE {}
<1>1. ~HasParam(<< >>) /\ \A z : Fits(<< >>, z) <=> z = << >>
  BY ComponentBegins
<1>2. Len(p) = 1 /\ p[1] = << >> /\ Ends(p) = 1
  BY DEF Nothing, Ends
<1>3. p # << >>
  <2>1. Len(<< >>) # 1
    OBVIOUS
  <2> QED BY <1>2, <2>1
<1>4. Takes(p, c) <=> Len(c) = 1 /\ \A k \in 1..1 : Fits(p[k], c[k])
  BY <1>1, <1>2 DEF Takes
<1>5. (\A k \in 1..1 : Fits(p[k], c[k])) <=> c[1] = << >>
  <2>1. \A k \in 1..1 : k = 1
    OBVIOUS
  <2>2. 1 \in 1..1
    OBVIOUS
  <2> QED BY <1>1, <1>2, <2>1, <2>2
<1>6. ParamsFrom(p, c, 1) = NoParams
  <2>1. ParamsFrom(p, c, 1 + 1) = NoParams
    BY <1>2, <1>3, EndsMeans
  <2>2. 1 \in 1..Len(p) /\ Len(p) \in Nat
    BY <1>2
  <2>3. ParamsFrom(p, c, 1) = IF HasParam(p[1]) THEN Emplaced(NameOf(p[1]), Left(p[1], c[1]), ParamsFrom(p, c, 1 + 1))
                              ELSE ParamsFrom(p, c, 1 + 1)
    BY <2>2, ParamsLaid
  <2> QED BY <1>1, <1>2, <2>1, <2>3
<1> QED BY <1>4, <1>5, <1>6 DEF Gives, Nothing

\* A parameter that nothing follows takes one component, and a slash behind it.
LEMMA GivesLast ==
  ASSUME NEW C, NEW p \in Seq(Seq(C)), NEW x \in Seq(C), x # << >>, x[1] = Marker,
         \/ Len(p) = 1 /\ p[1] = x
         \/ \E q : Follows(p, x, q) /\ Nothing(q),
         NEW c \in Seq(Seq(C)), c # << >>
  PROVE  Gives(p, c) = IF Len(c) = 1 \/ (Len(c) = 2 /\ c[2] = << >>)
                       THEN {Emplaced(NameOf(x), c[1], NoParams)} ELSE {}
<1>1. HasParam(x) /\ c[1] \in Seq(C) /\ Fits(x, c[1]) /\ Left(x, c[1]) = c[1]
  <2>1. c[1] \in Seq(C)
    OBVIOUS
  <2> QED BY <2>1, ComponentBegins
<1>2. p[1] = x /\ Ends(p) = 1 /\ Len(p) \in Nat /\ Len(p) >= 1
  <2>1. CASE Len(p) = 1 /\ p[1] = x
    BY <2>1 DEF Ends
  <2>2. CASE \E q : Follows(p, x, q) /\ Nothing(q)
    <3>1. PICK q : Follows(p, x, q) /\ Nothing(q)
      BY <2>2
    <3>2. Len(p) = 2 /\ p[1] = x
      BY <3>1 DEF Follows, Nothing
    <3>3. p[2] = << >>
      <4>1. 1 \in 1..Len(q) /\ 1 + 1 = 2
        BY <3>1 DEF Nothing
      <4> QED BY <3>1, <4>1 DEF Follows, Nothing
    <3>4. 2 - 1 = 1 /\ 2 > 1
      OBVIOUS
    <3> QED BY <1>1, <3>2, <3>3, <3>4 DEF Ends
  <2> QED BY <2>1, <2>2
<1>3. p # << >>
  BY <1>2
<1>4. Takes(p, c) <=> (Len(c) = 1 \/ (Len(c) = 2 /\ c[2] = << >>))
  <2>1. \A k \in 1..1 : k = 1
    OBVIOUS
  <2>2. \A k \in 1..Ends(p) : Fits(p[k], c[k])
    BY <1>1, <1>2, <2>1
  <2>3. Takes(p, c) <=> Len(c) = 1 \/ (Len(c) = 1 + 1 /\ c[Len(c)] = << >>)
    BY <1>1, <1>2, <2>2 DEF Takes
  <2>4. 1 + 1 = 2
    OBVIOUS
  <2> QED BY <2>3, <2>4
<1>5. ParamsFrom(p, c, 1) = Emplaced(NameOf(x), c[1], NoParams)
  <2>1. ParamsFrom(p, c, 1 + 1) = NoParams
    BY <1>2, <1>3, EndsMeans
  <2>2. 1 \in 1..Len(p) /\ Len(p) \in Nat
    BY <1>2
  <2>3. ParamsFrom(p, c, 1) = IF HasParam(p[1]) THEN Emplaced(NameOf(p[1]), Left(p[1], c[1]), ParamsFrom(p, c, 1 + 1))
                              ELSE ParamsFrom(p, c, 1 + 1)
    BY <2>2, ParamsLaid
  <2> QED BY <1>1, <1>2, <2>1, <2>3
<1> QED BY <1>4, <1>5 DEF Gives

\* Each map of parameters, with z under a name emplaced before them.
After(name, z, R) == {Emplaced(name, z, r) : r \in R}

\* A parameter that something follows takes a whole component.
LEMMA GivesParam ==
  ASSUME NEW C, NEW p \in Seq(Seq(C)), NEW q \in Seq(Seq(C)), q # << >>,
         NEW x \in Seq(C), x # << >>, x[1] = Marker, Follows(p, x, q), ~Nothing(q),
         NEW c \in Seq(Seq(C)), c # << >>
  PROVE  /\ Len(c) = 1 => Gives(p, c) = {}
         /\ \A z \in Seq(C), e \in Seq(Seq(C)) :
              e # << >> /\ Follows(c, z, e) => Gives(p, c) = After(NameOf(x), z, Gives(q, e))
<1>1. ASSUME Len(c) = 1 PROVE Gives(p, c) = {}
  <2> SUFFICES ASSUME Takes(p, c) PROVE FALSE
    BY DEF Gives
  <2>1. Ends(p) = Ends(q) + 1
    BY EndsFollow
  <2>2. Ends(q) \in 1..Len(q) /\ Len(q) \in Nat
    BY EndsMeans
  <2>3. Len(c) = Ends(p) \/ Len(c) = Ends(p) + 1
    BY DEF Takes
  <2> QED BY <1>1, <2>1, <2>2, <2>3
<1>2. ASSUME NEW z \in Seq(C), NEW e \in Seq(Seq(C)), e # << >>, Follows(c, z, e)
      PROVE  Gives(p, c) = After(NameOf(x), z, Gives(q, e))
  <2>1. HasParam(x) /\ Fits(x, z) /\ Left(x, z) = z
    BY ComponentBegins
  <2>2. /\ Takes(p, c) <=> Fits(x, z) /\ Takes(q, e)
        /\ Takes(q, e) => ParamsFrom(p, c, 1) = IF HasParam(x) THEN Emplaced(NameOf(x), Left(x, z), ParamsFrom(q, e, 1))
                                                ELSE ParamsFrom(q, e, 1)
    BY <1>2, TakesFollow
  <2> QED BY <2>1, <2>2 DEF Gives, After
<1> QED BY <1>1, <1>2

\* f lays out the pieces of the text s.
LaidOut(f, s, C) == s \in Seq(C) /\ f \in [1..Len(s) + 1 -> Seq(Seq(C))] /\ Laid(f, s)

\* A character of the pattern that is no marker is the next one of the path.
LEMMA OneTaken ==
  ASSUME NEW C, NEW s, NEW f, LaidOut(f, s, C), NEW t, NEW g, LaidOut(g, t, C),
         NEW i \in 1..Len(s), s[i] # Marker, NEW pos \in 1..Len(t) + 1
  PROVE  Gives(f[i], g[pos]) =
           IF pos <= Len(t) /\ t[pos] = s[i] THEN Gives(f[i + 1], g[pos + 1]) ELSE {}
<1> USE DEF LaidOut
<1> DEFINE n == Len(s)
           m == Len(t)
           a == s[i]
<1>0. /\ /\ Len(s) \in Nat /\ Nothing(f[Len(s) + 1])
         /\ \A k \in 1..Len(s) + 1 : f[k] \in Seq(Seq(C)) /\ f[k] # << >>
         /\ \A k \in 1..Len(s) : s[k] = Separator => Follows(f[k], << >>, f[k + 1])
         /\ \A k \in 1..Len(s) : s[k] # Separator => Grows(f[k], s[k], f[k + 1])
      /\ /\ Len(t) \in Nat /\ Nothing(g[Len(t) + 1])
         /\ \A k \in 1..Len(t) + 1 : g[k] \in Seq(Seq(C)) /\ g[k] # << >>
         /\ \A k \in 1..Len(t) : t[k] = Separator => Follows(g[k], << >>, g[k + 1])
         /\ \A k \in 1..Len(t) : t[k] # Separator => Grows(g[k], t[k], g[k + 1])
  BY PieceSteps, ZenonT(30)
<1>1. /\ n \in Nat /\ i \in 1..n + 1 /\ i + 1 \in 1..n + 1 /\ a \in C
      /\ f[i] \in Seq(Seq(C)) /\ f[i + 1] \in Seq(Seq(C)) /\ f[i + 1] # << >>
      /\ a = Separator => Follows(f[i], << >>, f[i + 1])
      /\ a # Separator => Grows(f[i], a, f[i + 1])
  <2>1. n \in Nat
    BY <1>0
  <2>2. i \in 1..n + 1 /\ i + 1 \in 1..n + 1 /\ a \in C
    BY <2>1
  <2> QED BY <1>0, <2>1, <2>2
<1>2. /\ m \in Nat /\ Nothing(g[m + 1]) /\ g[pos] \in Seq(Seq(C)) /\ g[pos] # << >>
      /\ pos <= m \/ pos = m + 1
  <2>1. m \in Nat /\ Nothing(g[m + 1]) /\ g[pos] \in Seq(Seq(C)) /\ g[pos] # << >>
    BY <1>0
  <2> QED BY <2>1
<1>3. ASSUME pos <= m
      PROVE  /\ t[pos] \in C /\ g[pos + 1] \in Seq(Seq(C)) /\ g[pos + 1] # << >>
             /\ t[pos] = Separator => Follows(g[pos], << >>, g[pos + 1])
             /\ t[pos] # Separator => Grows(g[pos], t[pos], g[pos + 1])
  <2>1. pos \in 1..m /\ pos + 1 \in 1..m + 1
    BY <1>2, <1>3
  <2>2. t[pos] \in C
    BY <2>1
  <2> QED BY <1>0, <2>1, <2>2
<1>4. ASSUME pos <= m, t[pos] # Separator
      PROVE  g[pos][1] # << >> /\ g[pos][1][1] = t[pos]
  <2>1. t[pos] \in C /\ g[pos + 1][1] \in Seq(C)
    BY <1>3, <1>4
  <2>2. g[pos][1] = <<t[pos]>> \o g[pos + 1][1]
    BY <1>3, <1>4 DEF Grows
  <2> QED BY <2>1, <2>2
<1> HIDE DEF n, m
<1>5. CASE a = Separator
  <2>1. CASE pos <= m /\ t[pos] = a
    <3>1. Follows(f[i], << >>, f[i + 1]) /\ Follows(g[pos], << >>, g[pos + 1])
      BY <1>1, <1>3, <1>5, <2>1
    <3>2. Gives(f[i], g[pos]) = Gives(f[i + 1], g[pos + 1])
      BY <1>1, <1>2, <1>3, <2>1, <3>1, GivesSlash, SMTT(30)
    <3> QED BY <2>1, <3>2 DEF m
  <2>2. CASE ~(pos <= m /\ t[pos] = a)
    <3>1. Follows(f[i], << >>, f[i + 1])
      BY <1>1, <1>5
    <3>2. Len(g[pos]) = 1 \/ g[pos][1] # << >>
      <4>1. CASE pos <= m
        BY <1>4, <1>5, <2>2, <4>1
      <4>2. CASE pos = m + 1
        BY <1>2, <4>2 DEF Nothing
      <4> QED BY <1>2, <4>1, <4>2
    <3>3. Gives(f[i], g[pos]) = {}
      BY <1>1, <1>2, <3>1, <3>2, GivesSlash
    <3> QED BY <2>2, <3>3 DEF m
  <2> QED BY <2>1, <2>2
<1>6. CASE a # Separator
  <2>1. CASE pos <= m /\ t[pos] = a
    <3>1. /\ Grows(f[i], a, f[i + 1]) /\ Grows(g[pos], a, g[pos + 1]) /\ a \in C /\ a # Marker
          /\ f[i] \in Seq(Seq(C)) /\ f[i + 1] \in Seq(Seq(C)) /\ f[i + 1] # << >>
          /\ g[pos] \in Seq(Seq(C)) /\ g[pos + 1] \in Seq(Seq(C)) /\ g[pos + 1] # << >>
      BY <1>1, <1>2, <1>3, <1>6, <2>1
    <3>2. Gives(f[i], g[pos]) = Gives(f[i + 1], g[pos + 1])
      BY ONLY <3>1, GivesGrow, SMTT(30)
    <3> QED BY <2>1, <3>2 DEF m
  <2>2. CASE ~(pos <= m /\ t[pos] = a)
    <3>1. Grows(f[i], a, f[i + 1])
      BY <1>1, <1>6
    <3>2. g[pos][1] = << >> \/ g[pos][1][1] # a
      <4>1. CASE pos <= m
        <5>1. CASE t[pos] = Separator
          BY <1>3, <4>1, <5>1 DEF Follows
        <5>2. CASE t[pos] # Separator
          BY <1>4, <2>2, <4>1, <5>2
        <5> QED BY <5>1, <5>2
      <4>2. CASE pos = m + 1
        BY <1>2, <4>2 DEF Nothing
      <4> QED BY <1>2, <4>1, <4>2
    <3>3. Gives(f[i], g[pos]) = {}
      BY <1>1, <1>2, <3>1, <3>2, GivesGrow, SMTT(30)
    <3> QED BY <2>2, <3>3 DEF m
  <2> QED BY <2>1, <2>2
<1> QED BY <1>5, <1>6

\* A stretch of the pattern without a marker is the next stretch of the path.
LEMMA StretchTaken ==
  ASSUME NEW C, NEW s, NEW f, LaidOut(f, s, C), NEW t, NEW g, LaidOut(g, t, C),
         NEW e \in 1..Len(s) + 1, NEW i \in 1..e, \A k \in i..e - 1 : s[k] # Marker,
         NEW pos \in 1..Len(t) + 1
  PROVE  Gives(f[i], g[pos]) =
           IF pos + (e - i) <= Len(t) + 1 /\ Slice(t, pos, pos + (e - i)) = Slice(s, i, e)
           THEN Gives(f[e], g[pos + (e - i)]) ELSE {}
<1>0. LaidOut(f, s, C) /\ LaidOut(g, t, C)
  OBVIOUS
<1> SUFFICES ASSUME s \in Seq(C), f \in [1..Len(s) + 1 -> Seq(Seq(C))], Laid(f, s),
                    t \in Seq(C), g \in [1..Len(t) + 1 -> Seq(Seq(C))], Laid(g, t)
             PROVE  Gives(f[i], g[pos]) =
                      IF pos + (e - i) <= Len(t) + 1 /\ Slice(t, pos, pos + (e - i)) = Slice(s, i, e)
                      THEN Gives(f[e], g[pos + (e - i)]) ELSE {}
  BY DEF LaidOut
<1> DEFINE n == Len(s)
           m == Len(t)
           Same(k, b) == b + (e - k) <= m + 1 /\ \A d \in 0..e - k - 1 : t[b + d] = s[k + d]
           Q == {k \in 1..(e - 1) + 1 : k >= i => \A b \in 1..m + 1 :
                   Gives(f[k], g[b]) = IF Same(k, b) THEN Gives(f[e], g[b + (e - k)]) ELSE {}}
<1>1. n \in Nat /\ m \in Nat /\ e \in Nat /\ i \in Nat /\ e - 1 \in Nat /\ (e - 1) + 1 = e /\ e <= n + 1
  BY PieceSteps
<1>2. e \in Q
  <2>1. ASSUME NEW b \in 1..m + 1 PROVE Same(e, b) /\ b + (e - e) = b
    BY <1>1
  <2>2. e \in 1..(e - 1) + 1
    BY <1>1
  <2> HIDE DEF Same, m
  <2> QED BY <2>1, <2>2
<1>3. ASSUME NEW k \in 1..e - 1, \A j \in 1..(e - 1) + 1 : k < j => j \in Q PROVE k \in Q
  <2>1. k \in 1..(e - 1) + 1
    BY <1>1
  <2> SUFFICES ASSUME k >= i, NEW b \in 1..m + 1
               PROVE  Gives(f[k], g[b]) = IF Same(k, b) THEN Gives(f[e], g[b + (e - k)]) ELSE {}
    BY <2>1
  <2>2. /\ k \in 1..n /\ k \in i..e - 1 /\ s[k] # Marker /\ k + 1 >= i
        /\ k + 1 \in 1..(e - 1) + 1 /\ k < k + 1 /\ k \in Nat /\ b \in Nat
    BY <1>1
  <2>3. Gives(f[k], g[b]) = IF b <= m /\ t[b] = s[k] THEN Gives(f[k + 1], g[b + 1]) ELSE {}
    <3>1. b \in 1..Len(t) + 1 /\ k \in 1..Len(s) /\ s[k] # Marker
      BY <2>2
    <3> QED BY ONLY <1>0, <3>1, OneTaken
  <2>4. ASSUME b <= m
        PROVE  Gives(f[k + 1], g[b + 1]) =
                 IF Same(k + 1, b + 1) THEN Gives(f[e], g[(b + 1) + (e - (k + 1))]) ELSE {}
    <3>1. b + 1 \in 1..m + 1
      BY <1>1, <2>2, <2>4
    <3>2. k + 1 \in Q
      <4> HIDE DEF Q
      <4> QED BY <1>3, <2>2
    <3> HIDE DEF Same
    <3> QED BY <2>2, <3>1, <3>2
  <2>5. (b + 1) + (e - (k + 1)) = b + (e - k)
    BY <1>1, <2>2
  <2>6. Same(k, b) <=> b <= m /\ t[b] = s[k] /\ Same(k + 1, b + 1)
    <3>1. ASSUME Same(k, b) PROVE b <= m /\ t[b] = s[k] /\ Same(k + 1, b + 1)
      <4>1. b <= m
        BY <1>1, <2>2, <3>1
      <4>2. t[b] = s[k]
        <5>1. 0 \in 0..e - k - 1 /\ b + 0 = b /\ k + 0 = k
          BY <1>1, <2>2
        <5> QED BY <3>1, <5>1
      <4>3. ASSUME NEW d \in 0..e - (k + 1) - 1 PROVE t[(b + 1) + d] = s[(k + 1) + d]
        <5>1. d + 1 \in 0..e - k - 1 /\ b + (d + 1) = (b + 1) + d /\ k + (d + 1) = (k + 1) + d
          BY <1>1, <2>2
        <5> QED BY <3>1, <5>1
      <4> QED BY <2>5, <3>1, <4>1, <4>2, <4>3
    <3>2. ASSUME b <= m, t[b] = s[k], Same(k + 1, b + 1) PROVE Same(k, b)
      <4>1. ASSUME NEW d \in 0..e - k - 1 PROVE t[b + d] = s[k + d]
        <5>1. CASE d = 0
          BY <1>1, <2>2, <3>2, <5>1
        <5>2. CASE d # 0
          <6>1. /\ d - 1 \in 0..e - (k + 1) - 1
                /\ (b + 1) + (d - 1) = b + d /\ (k + 1) + (d - 1) = k + d
            BY <1>1, <2>2, <5>2
          <6>2. t[(b + 1) + (d - 1)] = s[(k + 1) + (d - 1)]
            BY <3>2, <6>1
          <6> QED BY <6>1, <6>2
        <5> QED BY <5>1, <5>2
      <4> QED BY <2>5, <3>2, <4>1
    <3> HIDE DEF Same
    <3> QED BY <3>1, <3>2
  <2> HIDE DEF Same, m
  <2> QED BY <2>3, <2>4, <2>5, <2>6
<1>4. Q \in SUBSET (1..(e - 1) + 1)
  OBVIOUS
<1> HIDE DEF Q
<1>5. Q = 1..(e - 1) + 1
  <2> DEFINE N == e - 1
  <2>1. /\ N \in Nat /\ Q \in SUBSET (1..N + 1) /\ N + 1 \in Q
        /\ \A k \in 1..N : (\A j \in 1..N + 1 : k < j => j \in Q) => k \in Q
    BY <1>1, <1>2, <1>3, <1>4
  <2> HIDE DEF N
  <2>2. Q = 1..N + 1
    BY <2>1, SuffixInduction
  <2> QED BY <2>2 DEF N
<1>6. Gives(f[i], g[pos]) = IF Same(i, pos) THEN Gives(f[e], g[pos + (e - i)]) ELSE {}
  <2>1. i \in Q /\ i >= i
    BY <1>1, <1>5
  <2> HIDE DEF Same
  <2> QED BY <2>1 DEF Q
<1>7. ASSUME pos + (e - i) <= m + 1
      PROVE  Slice(t, pos, pos + (e - i)) = Slice(s, i, e) <=> \A d \in 0..e - i - 1 : t[pos + d] = s[i + d]
  <2> DEFINE to == pos + (e - i)
             u == Slice(t, pos, to)
             v == Slice(s, i, e)
             l == e - i
  <2>1. pos \in Nat /\ to \in pos..m + 1 /\ e \in i..n + 1 /\ i \in 1..n + 1 /\ to - pos = l /\ l \in Nat
    BY <1>1, <1>7
  <2>2. u \in Seq(C) /\ Len(u) = to - pos /\ \A k \in 1..to - pos : u[k] = t[pos + k - 1]
    <3> HIDE DEF to
    <3> QED BY <2>1, Sliced DEF m
  <2>3. v \in Seq(C) /\ Len(v) = e - i /\ \A k \in 1..e - i : v[k] = s[i + k - 1]
    BY <2>1, Sliced
  <2> HIDE DEF u, v, to
  <2>4. ASSUME u = v, NEW d \in 0..l - 1 PROVE t[pos + d] = s[i + d]
    <3>1. d + 1 \in 1..l /\ pos + (d + 1) - 1 = pos + d /\ i + (d + 1) - 1 = i + d
      BY <1>1, <2>1
    <3>2. u[d + 1] = t[pos + (d + 1) - 1]
      BY <2>1, <2>2, <3>1
    <3>3. v[d + 1] = s[i + (d + 1) - 1]
      BY <2>3, <3>1
    <3> QED BY <2>4, <3>1, <3>2, <3>3
  <2>5. ASSUME \A d \in 0..l - 1 : t[pos + d] = s[i + d] PROVE u = v
    <3>1. ASSUME NEW k \in 1..l PROVE u[k] = v[k]
      <4>1. k - 1 \in 0..l - 1 /\ pos + (k - 1) = pos + k - 1 /\ i + (k - 1) = i + k - 1
        BY <1>1, <2>1
      <4>2. u[k] = t[pos + k - 1] /\ v[k] = s[i + k - 1]
        BY <2>1, <2>2, <2>3
      <4>3. t[pos + (k - 1)] = s[i + (k - 1)]
        BY <2>5, <4>1
      <4> QED BY <4>1, <4>2, <4>3
    <3>2. Len(u) = Len(v) /\ \A k \in 1..Len(u) : u[k] = v[k]
      BY <2>1, <2>2, <2>3, <3>1
    <3> QED BY ONLY <2>2, <2>3, <3>2, SameText
  <2> QED BY <2>4, <2>5 DEF u, v, to, l
<1>8. Same(i, pos) <=> pos + (e - i) <= m + 1 /\ Slice(t, pos, pos + (e - i)) = Slice(s, i, e)
  BY <1>7
<1> HIDE DEF Same
<1> QED BY <1>6, <1>8 DEF m

\* What is given from the i-th character of a pattern of length n and from the
\* pos-th of a path of length m on; past its end, a pattern takes what is at the end.
FromThere(f, n, g, m, i, pos) ==
  IF i > n THEN (IF pos > m THEN {NoParams} ELSE {})
  ELSE IF pos > m + 1 THEN {} ELSE Gives(f[i], g[pos])

\* A parameter takes what comes before the next separator, which is skipped with it.
LEMMA ParamTaken ==
  ASSUME NEW C, NEW s, NEW f, LaidOut(f, s, C), NEW t, NEW g, LaidOut(g, t, C),
         NEW i \in 1..Len(s), s[i] = Marker, NEW pos \in 1..Len(t) + 1
  PROVE  LET sep == FindFrom(s, Separator, i + 1)
             end == FindFrom(t, Separator, pos)
         IN  Gives(f[i], g[pos]) =
               After(Slice(s, i + 1, sep), Slice(t, pos, end),
                     FromThere(f, Len(s), g, Len(t), sep + 1, end + 1))
<1> USE DEF LaidOut
<1> DEFINE n == Len(s)
           m == Len(t)
           sep == FindFrom(s, Separator, i + 1)
           end == FindFrom(t, Separator, pos)
           x == Slice(s, i, sep)
           z == Slice(t, pos, end)
           name == Slice(s, i + 1, sep)
           Rs == FromThere(f, n, g, m, sep + 1, end + 1)
<1>1. /\ /\ n \in Nat /\ Nothing(f[n + 1]) /\ \A k \in 1..n : ~Nothing(f[k])
         /\ \A k \in 1..n + 1 : f[k] \in Seq(Seq(C)) /\ f[k] # << >>
      /\ /\ m \in Nat /\ Nothing(g[m + 1]) /\ \A k \in 1..m : ~Nothing(g[k])
         /\ \A k \in 1..m + 1 : g[k] \in Seq(Seq(C)) /\ g[k] # << >>
  BY PieceSteps, ZenonT(30)
<1>2. i \in 1..n + 1 /\ i + 1 \in Nat /\ i \in Nat /\ i \in i..n
  BY <1>1
<1>3. FindFrom(s, Separator, i) = sep /\ sep \in i + 1..n + 1
  <2>1. /\ (sep \in i + 1..n /\ s[sep] = Separator) \/ sep = n + 1
        /\ \A k \in i + 1..n : k < sep => s[k] # Separator
    BY <1>1, <1>2, FirstFound
  <2> HIDE DEF sep
  <2>2. sep \in i + 1..n + 1 /\ sep \in i..n + 1 /\ (sep = n + 1 \/ s[sep] = Separator)
    <3>1. sep \in i + 1..n \/ sep = n + 1
      BY <2>1
    <3>2. sep \in i + 1..n + 1 /\ sep \in i..n + 1
      <4>1. i <= n /\ i \in Nat /\ n \in Nat
        BY <1>1
      <4> HIDE DEF n
      <4>2. CASE sep \in i + 1..n
        BY <4>1, <4>2
      <4>3. CASE sep = n + 1
        BY <4>1, <4>3
      <4> QED BY <3>1, <4>2, <4>3
    <3> QED BY <2>1, <3>2
  <2>3. ASSUME NEW k \in i..n, k < sep PROVE s[k] # Separator
    <3>1. k = i \/ k \in i + 1..n
      BY <1>2
    <3> QED BY <2>1, <2>3, <3>1 DEF Marker, Separator
  <2> QED BY <1>1, <1>2, <2>2, <2>3, FoundAt, SMTT(30)
<1>4. /\ sep <= n => sep + 1 \in 1..n + 1 /\ Follows(f[i], x, f[sep + 1])
      /\ sep > n => Len(f[i]) = 1 /\ f[i][1] = x
  <2>0. \A k \in 1..Len(s) + 1 :
          LET e == FindFrom(s, Separator, k)
          IN  /\ e \in k..Len(s) + 1
              /\ e <= Len(s) => /\ e + 1 \in 1..Len(s) + 1
                                /\ Follows(f[k], Slice(s, k, e), f[e + 1])
              /\ e > Len(s) => Len(f[k]) = 1 /\ f[k][1] = Slice(s, k, e)
    BY PieceSteps
  <2>1. LET e == FindFrom(s, Separator, i)
        IN  /\ e <= n => e + 1 \in 1..n + 1 /\ Follows(f[i], Slice(s, i, e), f[e + 1])
            /\ e > n => Len(f[i]) = 1 /\ f[i][1] = Slice(s, i, e)
    BY <1>2, <2>0
  <2> HIDE DEF sep, n
  <2> QED BY <1>3, <2>1
<1>5. /\ end \in pos..m + 1
      /\ end <= m => end + 1 \in 1..m + 1 /\ Follows(g[pos], z, g[end + 1])
      /\ end > m => Len(g[pos]) = 1 /\ g[pos][1] = z
  <2>1. \A k \in 1..Len(t) + 1 :
          LET e == FindFrom(t, Separator, k)
          IN  /\ e \in k..Len(t) + 1
              /\ e <= Len(t) => /\ e + 1 \in 1..Len(t) + 1
                                /\ Follows(g[k], Slice(t, k, e), g[e + 1])
              /\ e > Len(t) => Len(g[k]) = 1 /\ g[k][1] = Slice(t, k, e)
    BY PieceSteps
  <2> QED BY <2>1
<1> HIDE DEF sep, end, n, m
<1>6. x \in Seq(C) /\ x # << >> /\ x[1] = Marker /\ NameOf(x) = name
  <2>1. sep \in i..n + 1 /\ 1 \in 1..sep - i /\ i + 1 - 1 = i
    BY <1>1, <1>2, <1>3
  <2>2. x \in Seq(C) /\ Len(x) = sep - i /\ \A k \in 1..sep - i : x[k] = s[i + k - 1]
    BY <1>2, <2>1, Sliced DEF n
  <2> HIDE DEF x
  <2>3. Len(x) # 0 /\ x[1] = s[i] /\ x # << >>
    BY <2>1, <2>2
  <2>4. NameOf(x) = name
    <3>1. i \in 1..n + 1 /\ i \in Nat /\ sep \in i..n + 1 /\ i + 1 <= sep /\ sep \in Nat
      BY <1>1, <1>2, <1>3
    <3>2. Len(Prefix(x)) = 0
      BY <2>2, <2>3, ComponentBegins
    <3>3. NameOf(x) = Slice(x, 2, (sep - i) + 1)
      BY <2>2, <3>2 DEF NameOf
    <3> QED BY <3>1, <3>3, SlicedTwice DEF n, x
  <2> QED BY <2>2, <2>3, <2>4
<1>7. z \in Seq(C)
  <2>1. pos \in 1..m + 1
    BY DEF m
  <2> QED BY <1>5, <2>1, Sliced DEF m
<1>8. f[i] \in Seq(Seq(C)) /\ g[pos] \in Seq(Seq(C)) /\ g[pos] # << >> /\ pos \in 1..m + 1
  <2>1. pos \in 1..m + 1
    BY DEF m
  <2> QED BY <1>1, <1>2, <2>1
<1> HIDE DEF x, z, Rs, name
<1>9. CASE sep >= n
  <2>1. Rs = IF end + 1 > m THEN {NoParams} ELSE {}
    <3>1. sep + 1 > n
      BY <1>1, <1>3, <1>9
    <3> QED BY <3>1 DEF Rs, FromThere
  <2>2. \/ Len(f[i]) = 1 /\ f[i][1] = x
        \/ \E q : Follows(f[i], x, q) /\ Nothing(q)
    <3>1. sep = n \/ sep > n
      BY <1>1, <1>3, <1>9
    <3>2. CASE sep = n
      BY <1>1, <1>4, <3>2
    <3>3. CASE sep > n
      BY <1>4, <3>3
    <3> QED BY <3>1, <3>2, <3>3
  <2>3. Gives(f[i], g[pos]) = IF Len(g[pos]) = 1 \/ (Len(g[pos]) = 2 /\ g[pos][2] = << >>)
                             THEN {Emplaced(name, g[pos][1], NoParams)} ELSE {}
    BY <1>6, <1>8, <2>2, GivesLast
  <2>4. /\ g[pos][1] = z
        /\ Len(g[pos]) = 1 \/ (Len(g[pos]) = 2 /\ g[pos][2] = << >>) <=> end + 1 > m
    <3>1. CASE end > m
      <4>1. end + 1 > m
        BY <1>1, <1>5, <3>1
      <4> QED BY <1>5, <3>1, <4>1
    <3>2. CASE end <= m
      <4> DEFINE h == g[end + 1]
      <4>1. Follows(g[pos], z, h) /\ h \in Seq(Seq(C)) /\ h # << >>
        BY <1>1, <1>5, <3>2
      <4>2. Nothing(h) <=> end + 1 > m
        <5>1. CASE end = m
          BY <1>1, <5>1
        <5>2. CASE end # m
          <6>1. end + 1 \in 1..m /\ ~(end + 1 > m)
            BY <1>1, <1>5, <1>8, <3>2, <5>2
          <6> QED BY <1>1, <6>1
        <5> QED BY <5>1, <5>2
      <4> HIDE DEF h
      <4>3. g[pos][1] = z /\ Len(g[pos]) = Len(h) + 1 /\ Len(h) \in Nat /\ Len(h) >= 1
        BY <4>1 DEF Follows
      <4>4. g[pos][2] = h[1]
        <5>1. 1 \in 1..Len(h) /\ 1 + 1 = 2
          BY <4>3
        <5> QED BY <4>1, <5>1 DEF Follows
      <4>5. Len(g[pos]) # 1 /\ (Len(g[pos]) = 2 <=> Len(h) = 1)
        <5> DEFINE l == Len(h)
        <5>1. l \in Nat /\ l >= 1 /\ Len(g[pos]) = l + 1
          BY <4>3
        <5> HIDE DEF l
        <5>2. l + 1 # 1 /\ (l + 1 = 2 <=> l = 1)
          BY <5>1
        <5> QED BY <5>1, <5>2 DEF l
      <4> QED BY <4>2, <4>3, <4>4, <4>5 DEF Nothing
    <3>3. end > m \/ end <= m
      BY <1>1, <1>5
    <3> QED BY <3>1, <3>2, <3>3
  <2>5. After(name, z, {NoParams}) = {Emplaced(name, z, NoParams)} /\ After(name, z, {}) = {}
    BY DEF After
  <2>6. Gives(f[i], g[pos]) = After(name, z, Rs)
    BY <2>1, <2>3, <2>4, <2>5
  <2> QED BY <2>6 DEF Rs, z, name, end, sep, n, m
<1>10. CASE sep < n
  <2>1. sep + 1 \in 1..n /\ sep <= n /\ ~(sep + 1 > n) /\ sep + 1 \in 1..n + 1
    BY <1>1, <1>2, <1>3, <1>10
  <2> DEFINE q == f[sep + 1]
  <2>2. q \in Seq(Seq(C)) /\ q # << >> /\ ~Nothing(q) /\ Follows(f[i], x, q)
    BY <1>1, <1>4, <2>1
  <2>3. Rs = IF end + 1 > m + 1 THEN {} ELSE Gives(q, g[end + 1])
    BY <2>1 DEF Rs, FromThere
  <2> HIDE DEF q
  <2>4. /\ Len(g[pos]) = 1 => Gives(f[i], g[pos]) = {}
        /\ \A y \in Seq(C), e \in Seq(Seq(C)) :
             e # << >> /\ Follows(g[pos], y, e) => Gives(f[i], g[pos]) = After(NameOf(x), y, Gives(q, e))
    <3> DEFINE p == f[i]
               c == g[pos]
    <3>1. p \in Seq(Seq(C)) /\ c \in Seq(Seq(C)) /\ c # << >> /\ Follows(p, x, q)
      BY <1>8, <2>2
    <3> HIDE DEF p, c
    <3>2. /\ Len(c) = 1 => Gives(p, c) = {}
          /\ \A y \in Seq(C), e \in Seq(Seq(C)) :
               e # << >> /\ Follows(c, y, e) => Gives(p, c) = After(NameOf(x), y, Gives(q, e))
      <4>1. /\ q \in Seq(Seq(C)) /\ q # << >> /\ ~Nothing(q)
            /\ x \in Seq(C) /\ x # << >> /\ x[1] = Marker
        BY <1>6, <2>2
      <4>2. Len(c) = 1 => Gives(p, c) = {}
        BY <3>1, <4>1, GivesParam
      <4>3. ASSUME NEW y \in Seq(C), NEW e \in Seq(Seq(C)), e # << >>, Follows(c, y, e)
            PROVE  Gives(p, c) = After(NameOf(x), y, Gives(q, e))
        BY ONLY <3>1, <4>1, <4>3, GivesParam
      <4> QED BY <4>2, <4>3
    <3> QED BY <3>2 DEF p, c
  <2>5. CASE end > m
    <3>1. end + 1 > m + 1
      BY <1>1, <1>5, <2>5
    <3>2. Rs = {} /\ Gives(f[i], g[pos]) = {}
      BY <1>5, <2>3, <2>4, <2>5, <3>1
    <3>3. After(name, z, {}) = {}
      BY DEF After
    <3> QED BY <3>2, <3>3 DEF Rs, z, name, end, sep, n, m
  <2>6. CASE end <= m
    <3>1. ~(end + 1 > m + 1)
      BY <1>1, <1>5, <2>6
    <3>2. g[end + 1] \in Seq(Seq(C)) /\ g[end + 1] # << >> /\ Follows(g[pos], z, g[end + 1])
      BY <1>1, <1>5, <2>6
    <3>3. Gives(f[i], g[pos]) = After(name, z, Gives(q, g[end + 1]))
      BY <1>6, <1>7, <2>4, <3>2
    <3>4. Gives(f[i], g[pos]) = After(name, z, Rs)
      BY <2>3, <3>1, <3>3
    <3> QED BY <3>4 DEF Rs, z, name, end, sep, n, m
  <2>7. end > m \/ end <= m
    BY <1>1, <1>5
  <2> QED BY <2>5, <2>6, <2>7
<1>11. sep >= n \/ sep < n
  BY <1>1, <1>3
<1> QED BY <1>9, <1>10, <1>11

\* f has, for each position of s, the fragments and the names from there on.
Compiled(f, s) ==
  \A i \in 1..Len(s) + 2 :
    f[i] = LET mark == FindFrom(s, Marker, i)
               sep  == FindFrom(s, Separator, mark + 1)
           IN  IF mark <= Len(s)
               THEN [fragments |-> <<Slice(s, i, mark)>> \o f[sep + 1].fragments,
                     names     |-> <<Slice(s, mark + 1, sep)>> \o f[sep + 1].names]
               ELSE [fragments |-> IF i <= Len(s) THEN <<Slice(s, i, mark)>> ELSE << >>,
                     names     |-> << >>]

\* The fragments of a pattern are laid one after the other.
LEMMA CompileLaid ==
  ASSUME NEW C, NEW s \in Seq(C)
  PROVE  \E f \in [1..Len(s) + 2 -> [fragments : Seq(Seq(C)), names : Seq(Seq(C))]] :
           Compiled(f, s) /\ Compile(s) = f[1]
<1> DEFINE n == Len(s)
           N == n + 1
           I == 1..n + 2
           T == Seq(Seq(C))
           S == [fragments : T, names : T]
           mark(i) == FindFrom(s, Marker, i)
           sep(i) == FindFrom(s, Separator, mark(i) + 1)
           frag(i) == Slice(s, i, mark(i))
           name(i) == Slice(s, mark(i) + 1, sep(i))
           more(i, x) == [fragments |-> <<frag(i)>> \o x.fragments, names |-> <<name(i)>> \o x.names]
           last(i) == [fragments |-> IF i <= n THEN <<frag(i)>> ELSE << >>, names |-> << >>]
           value(f, i) == IF mark(i) <= n THEN more(i, f[sep(i) + 1]) ELSE last(i)
           code(f, i) == CASE mark(i) <= n -> more(i, f[sep(i) + 1])
                           [] mark(i) > n /\ i <= n -> [fragments |-> <<frag(i)>>, names |-> << >>]
                           [] OTHER -> [fragments |-> << >>, names |-> << >>]
           chosen == CHOOSE f : f = [i \in I |-> code(f, i)]
           next == [i \in 1..N |-> IF mark(i) <= n THEN sep(i) + 1 ELSE N + 1]
           join == [p \in (1..N) \X S |-> IF mark(p[1]) <= n THEN more(p[1], p[2]) ELSE last(p[1])]
           base == last(N + 1)
<1>1. n \in Nat /\ N \in Nat /\ I = 1..N + 1
  OBVIOUS
<1>2. ASSUME NEW i \in I
      PROVE  /\ mark(i) \in Nat /\ mark(i) <= n + 1 /\ (mark(i) <= n => mark(i) >= i)
             /\ mark(i) > n => mark(i) = n + 1
  <2>1. i \in Nat
    OBVIOUS
  <2>2. mark(i) \in i..n \/ mark(i) = n + 1
    BY <1>1, <2>1, FirstFound
  <2> HIDE DEF mark
  <2> QED BY <1>1, <2>1, <2>2
<1>3. ASSUME NEW i \in I, mark(i) <= n
      PROVE  sep(i) \in mark(i) + 1..n + 1 /\ i \in 1..n + 1 /\ mark(i) \in i..n + 1
  <2>1. mark(i) + 1 \in Nat /\ mark(i) + 1 <= n + 1
    BY <1>1, <1>2, <1>3
  <2>2. sep(i) \in mark(i) + 1..n \/ sep(i) = n + 1
    BY <1>1, <2>1, FirstFound
  <2> HIDE DEF mark, sep
  <2> QED BY <1>1, <1>2, <1>3, <2>1, <2>2
<1>4. ASSUME NEW i \in I, NEW x \in S, mark(i) <= n PROVE more(i, x) \in S
  <2>1. frag(i) \in Seq(C)
    <3> HIDE DEF mark
    <3> QED BY <1>3, <1>4, Sliced
  <2>2. name(i) \in Seq(C)
    <3>1. mark(i) + 1 \in 1..n + 1
      BY <1>1, <1>2, <1>4
    <3>2. sep(i) \in mark(i) + 1..n + 1
      BY <1>3, <1>4
    <3> HIDE DEF mark, sep
    <3> QED BY <3>1, <3>2, Sliced
  <2> HIDE DEF frag, name
  <2>3. <<frag(i)>> \o x.fragments \in T /\ <<name(i)>> \o x.names \in T
    BY <2>1, <2>2
  <2> QED BY <2>3
<1>5. ASSUME NEW i \in I, ~(mark(i) <= n) PROVE last(i) \in S
  <2>1. CASE i <= n
    <3>1. i \in 1..n + 1 /\ mark(i) \in i..n + 1
      BY <1>1, <1>2, <1>5, <2>1
    <3>2. frag(i) \in Seq(C)
      <4> HIDE DEF mark
      <4> QED BY <3>1, Sliced
    <3> HIDE DEF frag
    <3> QED BY <2>1, <3>2
  <2>2. CASE ~(i <= n)
    BY <2>2
  <2> QED BY <2>1, <2>2
<1>6. ~(mark(N + 1) <= n) /\ N + 1 \in I
  <2>1. N + 1 \in I
    BY <1>1
  <2>2. mark(N + 1) <= n => mark(N + 1) >= N + 1
    BY <1>2, <2>1
  <2>3. mark(N + 1) \in Nat
    BY <1>2, <2>1
  <2> HIDE DEF mark
  <2> QED BY <1>1, <2>1, <2>2, <2>3
<1>7. base \in S
  <2> HIDE DEF last, mark, S, I
  <2> QED BY <1>5, <1>6
<1>8. next \in [1..N -> 1..N + 1] /\ \A i \in 1..N : i < next[i]
  <2>1. ASSUME NEW i \in 1..N
        PROVE  /\ (IF mark(i) <= n THEN sep(i) + 1 ELSE N + 1) \in 1..N + 1
               /\ i < (IF mark(i) <= n THEN sep(i) + 1 ELSE N + 1)
    <3>1. i \in I
      BY <1>1
    <3>2. CASE mark(i) <= n
      <4>1. sep(i) \in mark(i) + 1..n + 1 /\ mark(i) \in i..n + 1
        BY <1>3, <3>1, <3>2
      <4> HIDE DEF mark, sep
      <4> QED BY <1>1, <3>2, <4>1
    <3>3. CASE ~(mark(i) <= n)
      BY <1>1, <3>3
    <3> QED BY <3>2, <3>3
  <2> HIDE DEF mark, sep, N
  <2> QED BY <2>1
<1>9. \A f : \A i \in I : code(f, i) = value(f, i)
  <2> TAKE f
  <2> TAKE i \in I
  <2>1. (mark(i) <= n \/ mark(i) > n) /\ ~(mark(i) <= n /\ mark(i) > n)
    BY <1>1, <1>2
  <2> HIDE DEF mark, more, frag
  <2> QED BY <2>1
<1> HIDE DEF mark, sep, frag, name
<1>10. join \in [(1..N) \X S -> S]
  <2>1. ASSUME NEW i \in 1..N, NEW x \in S
        PROVE  (IF mark(i) <= n THEN more(i, x) ELSE last(i)) \in S
    <3>1. i \in I
      BY <1>1
    <3> HIDE DEF more, last, S, I
    <3> QED BY <1>4, <1>5, <3>1
  <2> HIDE DEF more, last, S, N
  <2> QED BY <2>1
<1> HIDE DEF more, last, S
<1>11. \A i \in 1..N : \A x \in S : join[<<i, x>>] = IF mark(i) <= n THEN more(i, x) ELSE last(i)
  OBVIOUS
<1> HIDE DEF join, base
<1>12. PICK g \in [1..N + 1 -> S] : Unwinds(g, base, next, join, N)
  <2> HIDE DEF N, next
  <2> QED BY <1>1, <1>7, <1>8, <1>10, SuffixRecursion
<1>13. \A i \in I : g[i] \in S
  BY <1>1, <1>12
<1>14. \A i \in I : g[i] = value(g, i)
  <2>1. ASSUME NEW i \in 1..N PROVE g[i] = value(g, i)
    <3>1. next[i] \in 1..N + 1 /\ (mark(i) <= n => next[i] = sep(i) + 1)
      BY <1>8
    <3>2. g[i] = join[<<i, g[next[i]]>>] /\ g[next[i]] \in S
      <4> HIDE DEF next, N, I
      <4> QED BY <1>1, <1>12, <1>13, <2>1, <3>1 DEF Unwinds
    <3>3. g[i] = IF mark(i) <= n THEN more(i, g[next[i]]) ELSE last(i)
      <4> HIDE DEF next, N
      <4> QED BY <1>11, <2>1, <3>2
    <3> QED BY <3>1, <3>3
  <2>2. g[N + 1] = value(g, N + 1)
    <3>1. g[N + 1] = base
      BY <1>12 DEF Unwinds
    <3> HIDE DEF N
    <3> QED BY <1>6, <3>1 DEF base
  <2>3. \A i \in I : i \in 1..N \/ i = N + 1
    BY <1>1
  <2> HIDE DEF value, I, N
  <2> QED BY <2>1, <2>2, <2>3
<1>15. g = [i \in I |-> code(g, i)]
  <2> HIDE DEF code, value
  <2> QED BY <1>1, <1>9, <1>12, <1>14
<1>16. chosen = [i \in I |-> code(chosen, i)]
  <2> HIDE DEF code
  <2> QED BY <1>15
<1> HIDE DEF chosen
<1>17. \A i \in I : chosen[i] = value(chosen, i)
  <2> HIDE DEF code, value
  <2> QED BY <1>9, <1>16
<1>18. \A i \in I : chosen[i] \in S
  <2> DEFINE Q == {i \in I : chosen[i] \in S}
  <2>1. N + 1 \in Q
    <3>1. chosen[N + 1] = last(N + 1)
      <4> HIDE DEF I, N
      <4> QED BY <1>6, <1>17
    <3> HIDE DEF I, N
    <3> QED BY <1>6, <1>7, <3>1 DEF base
  <2>2. ASSUME NEW i \in 1..N, \A j \in I : i < j => j \in Q PROVE i \in Q
    <3>1. i \in I
      BY <1>1
    <3>2. CASE mark(i) <= n
      <4>1. sep(i) + 1 \in I /\ i < sep(i) + 1
        <5>1. sep(i) \in mark(i) + 1..n + 1 /\ mark(i) \in i..n + 1
          BY <1>3, <3>1, <3>2
        <5> QED BY <1>1, <3>2, <5>1
      <4>2. chosen[sep(i) + 1] \in S
        BY <2>2, <4>1
      <4>3. more(i, chosen[sep(i) + 1]) \in S
        BY <1>4, <3>1, <3>2, <4>2
      <4> QED BY <1>17, <3>1, <3>2, <4>3
    <3>3. CASE ~(mark(i) <= n)
      <4>1. last(i) \in S
        BY <1>5, <3>1, <3>3
      <4> QED BY <1>17, <3>1, <3>3, <4>1
    <3> QED BY <3>2, <3>3
  <2>3. Q \in SUBSET I
    OBVIOUS
  <2> HIDE DEF Q
  <2>4. Q = I
    <3> HIDE DEF I, N
    <3> QED BY <1>1, <2>1, <2>2, <2>3, SuffixInduction
  <2> QED BY <2>4 DEF Q
<1>19. Compile(s) = chosen[1]
  BY DEF Compile, chosen, code, more, mark, sep, frag, name, I
<1>20. Compiled(chosen, s)
  BY <1>17 DEF Compiled, value, more, last, mark, sep, frag, name
<1>21. chosen \in [I -> S]
  BY <1>16, <1>18
<1> QED BY <1>19, <1>20, <1>21 DEF S

\* v has, for the i-th fragment and each position of t, what Match finds from there.
Valued(v, p, t) ==
  \A i \in 1..Len(p.fragments) + 1 : \A b \in 1..Len(t) + 2 :
    v[i][b] = IF i > Len(p.fragments) THEN (IF b > Len(t) THEN {NoParams} ELSE {})
              ELSE LET end == b + Len(p.fragments[i])
                       sep == FindFrom(t, Separator, end)
                   IN  IF end > Len(t) + 1 \/ Slice(t, b, end) # p.fragments[i] THEN {}
                       ELSE IF i > Len(p.names) THEN v[i + 1][end]
                       ELSE After(p.names[i], Slice(t, end, sep), v[i + 1][AfterValue(sep)])

\* What Match finds is laid from the last fragment to the first.
LEMMA MatchLaid ==
  ASSUME NEW C, NEW s \in Seq(C), NEW t \in Seq(C), Compile(s).fragments \in Seq(Seq(C)),
         Compile(s).names \in Seq(Seq(C))
  PROVE  \E v : Valued(v, Compile(s), t) /\ Match(s, t) = v[1][1]
<1> DEFINE p == Compile(s)
           N == Len(p.fragments)
           m == Len(t)
           B == 1..m + 2
           I == 1..N + 1
           M == Maps(Seq(C), Seq(C))
           R == SUBSET M
           S == [B -> R]
           end(i, b) == b + Len(p.fragments[i])
           sep(i, b) == FindFrom(t, Separator, end(i, b))
           not(i, b) == end(i, b) > m + 1 \/ Slice(t, b, end(i, b)) # p.fragments[i]
           one(i, b) == Slice(t, end(i, b), sep(i, b))
           last == [b \in B |-> IF b > m THEN {NoParams} ELSE {}]
           found(i, b, x) == IF not(i, b) THEN {}
                             ELSE IF i > Len(p.names) THEN x[end(i, b)]
                             ELSE {Emplaced(p.names[i], one(i, b), r)
                                     : r \in x[AfterValue(sep(i, b))]}
           row(i, x) == [b \in B |-> found(i, b, x)]
           value(v, i) == IF i > N THEN last ELSE row(i, v[i + 1])
           chosen == CHOOSE v : v = [i \in I |-> value(v, i)]
           next == [i \in 1..N |-> i + 1]
           join == [q \in (1..N) \X S |-> row(q[1], q[2])]
<1>1. N \in Nat /\ m \in Nat /\ \A i \in 1..N : p.fragments[i] \in Seq(C)
  OBVIOUS
<1>2. \A i \in 1..N : Len(p.fragments[i]) \in Nat /\ (~(i > Len(p.names)) => p.names[i] \in Seq(C))
  <2>1. \A i \in 1..N : ~(i > Len(p.names)) => i \in 1..Len(p.names)
    OBVIOUS
  <2>2. \A i \in 1..Len(p.names) : p.names[i] \in Seq(C)
    OBVIOUS
  <2> QED BY <1>1, <2>1, <2>2
<1> HIDE DEF p
<1>3. ASSUME NEW i \in 1..N, NEW b \in B, ~not(i, b)
      PROVE  /\ end(i, b) \in B /\ AfterValue(sep(i, b)) \in B /\ one(i, b) \in Seq(C)
  <2>1. end(i, b) \in 1..m + 1
    BY <1>1, <1>2, <1>3
  <2> HIDE DEF end, not
  <2>2. sep(i, b) \in end(i, b)..m \/ sep(i, b) = m + 1
    BY <1>1, <2>1, FirstFound
  <2> HIDE DEF sep
  <2>3. sep(i, b) \in end(i, b)..m + 1
    BY <1>1, <2>1, <2>2
  <2>4. one(i, b) \in Seq(C)
    BY <2>1, <2>3, Sliced
  <2> QED BY <1>1, <2>1, <2>3, <2>4 DEF AfterValue
<1> HIDE DEF end, sep, not, one
<1>4. ASSUME NEW i \in 1..N, NEW x \in S PROVE row(i, x) \in S
  <2>1. ASSUME NEW b \in B PROVE found(i, b, x) \in R
    <3>1. CASE not(i, b)
      BY <3>1
    <3>2. CASE ~not(i, b)
      <4>1. end(i, b) \in B /\ AfterValue(sep(i, b)) \in B /\ one(i, b) \in Seq(C)
        BY <1>3, <3>2
      <4> HIDE DEF B, AfterValue
      <4>2. x[end(i, b)] \in R /\ x[AfterValue(sep(i, b))] \in R
        BY <4>1
      <4>3. ASSUME ~(i > Len(p.names)), NEW r \in x[AfterValue(sep(i, b))]
            PROVE  Emplaced(p.names[i], one(i, b), r) \in M
        <5>1. r \in M /\ p.names[i] \in Seq(C)
          BY <1>2, <4>2, <4>3
        <5> QED BY <4>1, <5>1, EmplacedTyped
      <4>4. ASSUME ~(i > Len(p.names))
            PROVE  {Emplaced(p.names[i], one(i, b), r) : r \in x[AfterValue(sep(i, b))]} \in R
        <5> HIDE DEF M
        <5> QED BY <4>3, <4>4
      <4> HIDE DEF R
      <4> QED BY <3>2, <4>2, <4>4
    <3> QED BY <3>1, <3>2
  <2> HIDE DEF found, R, B
  <2> QED BY <2>1
<1>5. last \in S
  <2>1. \A b \in B : (IF b > m THEN {NoParams} ELSE {}) \in R
    <3>1. NoParams \in M
      BY EmplacedTyped
    <3> HIDE DEF M, B
    <3> QED BY <3>1
  <2> HIDE DEF R, B
  <2> QED BY <2>1
<1> HIDE DEF S, row, last
<1>6. join \in [(1..N) \X S -> S]
  BY <1>4
<1>7. next \in [1..N -> 1..N + 1] /\ \A i \in 1..N : i < next[i] /\ next[i] = i + 1
  BY <1>1
<1>8. \A i \in 1..N : \A x \in S : join[<<i, x>>] = row(i, x)
  OBVIOUS
<1> HIDE DEF join
<1>9. PICK g \in [1..N + 1 -> S] : Unwinds(g, last, next, join, N)
  <2> HIDE DEF N, next
  <2> QED BY <1>1, <1>5, <1>6, <1>7, SuffixRecursion
<1>10. \A i \in I : g[i] = value(g, i)
  <2> TAKE i \in I
  <2> HIDE DEF N
  <2>1. CASE i \in 1..N
    <3>1. next[i] = i + 1 /\ i + 1 \in 1..N + 1 /\ ~(i > N)
      BY <1>1, <1>7, <2>1
    <3>2. g[i] = join[<<i, g[i + 1]>>] /\ g[i + 1] \in S
      BY <1>9, <2>1, <3>1 DEF Unwinds
    <3> QED BY <1>8, <2>1, <3>1, <3>2
  <2>2. CASE i \notin 1..N
    <3>1. i = N + 1 /\ i > N
      BY <1>1, <2>2
    <3> QED BY <1>9, <3>1 DEF Unwinds
  <2> QED BY <2>1, <2>2
<1>11. g = [i \in I |-> value(g, i)]
  <2> HIDE DEF value, N
  <2> QED BY <1>9, <1>10
<1>12. chosen = [i \in I |-> value(chosen, i)]
  <2> HIDE DEF value
  <2> QED BY <1>11
<1> HIDE DEF chosen
<1>13. \A i \in I : chosen[i] = value(chosen, i)
  BY <1>12
<1>14. Match(s, t) = chosen[1][1]
  BY DEF Match, chosen, value, row, last, found, not, one, sep, end, p, N, I, B, m
<1>15. Valued(chosen, p, t)
  <2>1. ASSUME NEW i \in 1..N + 1, NEW b \in B
        PROVE  chosen[i][b] = IF i > N THEN (IF b > m THEN {NoParams} ELSE {})
                              ELSE found(i, b, chosen[i + 1])
    <3> HIDE DEF found, N, B
    <3> QED BY <1>13 DEF row, last
  <2> QED BY <2>1 DEF Valued, After, not, one, sep, end
<1> QED BY <1>14, <1>15 DEF p

\* Is q what is left of p from the i-th fragment on?
LeftFrom(p, i, q) ==
  /\ Len(p.fragments) = Len(q.fragments) + (i - 1)
  /\ \A k \in 1..Len(q.fragments) : p.fragments[k + (i - 1)] = q.fragments[k]
  /\ Len(p.names) = Len(q.names) + (i - 1)
  /\ \A k \in 1..Len(q.names) : p.names[k + (i - 1)] = q.names[k]

\* h cuts the text s up into fragments and names.
CutUp(h, s, C) ==
  /\ h \in [1..Len(s) + 2 -> [fragments : Seq(Seq(C)), names : Seq(Seq(C))]]
  /\ Compiled(h, s)

\* Is what Match finds what is given, wherever what is left is h[j]?
Matches(f, s, g, t, h, p, v, j) ==
  \A i \in Nat \ {0} : LeftFrom(p, i, h[j])
    => \A b \in 1..Len(t) + 2 : v[i][b] = FromThere(f, Len(s), g, Len(t), j, b)

\* What Match finds is what is given, if it is from the next parameter on.
LEMMA MatchesFrom ==
  ASSUME NEW C, NEW s, NEW f, LaidOut(f, s, C), NEW t, NEW g, LaidOut(g, t, C),
         NEW h, CutUp(h, s, C),
         NEW p, NEW v, Valued(v, p, t), NEW j \in 1..Len(s) + 2,
         \A l \in 1..Len(s) + 2 : j < l => Matches(f, s, g, t, h, p, v, l)
  PROVE  Matches(f, s, g, t, h, p, v, j)
<1>0. LaidOut(f, s, C) /\ LaidOut(g, t, C)
  OBVIOUS
<1> SUFFICES ASSUME s \in Seq(C), f \in [1..Len(s) + 1 -> Seq(Seq(C))], Laid(f, s),
                    t \in Seq(C), g \in [1..Len(t) + 1 -> Seq(Seq(C))], Laid(g, t),
                    h \in [1..Len(s) + 2 -> [fragments : Seq(Seq(C)), names : Seq(Seq(C))]],
                    Compiled(h, s), NEW i \in Nat \ {0}, LeftFrom(p, i, h[j])
             PROVE  \A b \in 1..Len(t) + 2 : v[i][b] = FromThere(f, Len(s), g, Len(t), j, b)
  BY DEF LaidOut, CutUp, Matches
<1> DEFINE n == Len(s)
           m == Len(t)
           mark == FindFrom(s, Marker, j)
           sep == FindFrom(s, Separator, mark + 1)
           frag == Slice(s, j, mark)
           q == h[j]
<1>1. n \in Nat /\ m \in Nat /\ j \in Nat /\ j <= n + 2 /\ i \in Nat /\ i >= 1
  OBVIOUS
<1>2. /\ mark \in j..n \/ mark = n + 1
      /\ \A k \in j..n : k < mark => s[k] # Marker
      /\ mark <= n => s[mark] = Marker
  <2>1. /\ (mark \in j..n /\ s[mark] = Marker) \/ mark = n + 1
        /\ \A k \in j..n : k < mark => s[k] # Marker
    BY <1>1, FirstFound
  <2> HIDE DEF mark
  <2>2. ~(n + 1 <= n)
    BY <1>1
  <2> QED BY <2>1, <2>2
<1>3. q = IF mark <= n
          THEN [fragments |-> <<frag>> \o h[sep + 1].fragments,
                names     |-> <<Slice(s, mark + 1, sep)>> \o h[sep + 1].names]
          ELSE [fragments |-> IF j <= n THEN <<frag>> ELSE << >>, names |-> << >>]
  BY DEF Compiled
<1>4. \A b \in 1..m + 2 :
        v[i][b] = IF i > Len(p.fragments) THEN (IF b > m THEN {NoParams} ELSE {})
                  ELSE LET end == b + Len(p.fragments[i])
                           to == FindFrom(t, Separator, end)
                       IN  IF end > m + 1 \/ Slice(t, b, end) # p.fragments[i] THEN {}
                           ELSE IF i > Len(p.names) THEN v[i + 1][end]
                           ELSE After(p.names[i], Slice(t, end, to), v[i + 1][AfterValue(to)])
  <2>1. Len(p.fragments) = Len(q.fragments) + (i - 1) /\ Len(q.fragments) \in Nat
    BY DEF LeftFrom
  <2>2. i \in 1..Len(p.fragments) + 1
    BY <1>1, <2>1
  <2> QED BY <2>2 DEF Valued
<1> HIDE DEF mark, sep, frag, q
<1>5. CASE j > n
  <2>1. ~(mark <= n) /\ ~(j <= n)
    BY <1>1, <1>2, <1>5
  <2>2. Len(p.fragments) = i - 1
    <3>1. q.fragments = << >>
      BY <1>3, <2>1
    <3>2. Len(p.fragments) = 0 + (i - 1)
      BY <3>1 DEF LeftFrom, q
    <3> QED BY <1>1, <3>2
  <2>3. i > Len(p.fragments)
    BY <1>1, <2>2
  <2> QED BY <1>4, <1>5, <2>3 DEF FromThere
<1>6. CASE j <= n
  <2> DEFINE Same(b) == b + (mark - j) <= m + 1 /\ Slice(t, b, b + (mark - j)) = frag
  <2>1. mark \in 1..n + 1 /\ j \in 1..mark /\ j \in 1..n + 1 /\ mark \in j..n + 1
    BY <1>1, <1>2, <1>6
  <2>2. frag \in Seq(C) /\ Len(frag) = mark - j
    BY <2>1, Sliced DEF frag
  <2>3. \A b \in 1..m + 1 :
          Gives(f[j], g[b]) = IF Same(b) THEN Gives(f[mark], g[b + (mark - j)]) ELSE {}
    <3> TAKE b \in 1..m + 1
    <3>1. \A k \in j..mark - 1 : s[k] # Marker
      <4> TAKE k \in j..mark - 1
      <4>1. k \in j..n /\ k < mark
        BY <1>1, <2>1
      <4> QED BY <1>2, <4>1
    <3> DEFINE e == mark
    <3>2. /\ e \in 1..Len(s) + 1 /\ j \in 1..e /\ \A k \in j..e - 1 : s[k] # Marker
          /\ b \in 1..Len(t) + 1
      BY <2>1, <3>1
    <3> HIDE DEF e
    <3>3. Gives(f[j], g[b]) =
            IF b + (e - j) <= Len(t) + 1 /\ Slice(t, b, b + (e - j)) = Slice(s, j, e)
            THEN Gives(f[e], g[b + (e - j)]) ELSE {}
      BY ONLY <1>0, <3>2, StretchTaken
    <3> QED BY <3>3 DEF e, frag
  <2>4. \A b \in 1..m + 2 :
          FromThere(f, n, g, m, j, b) = IF Same(b) THEN Gives(f[mark], g[b + (mark - j)]) ELSE {}
    <3> TAKE b \in 1..m + 2
    <3>1. CASE b > m + 1
      <4>1. ~(b + (mark - j) <= m + 1) /\ ~(j > n)
        BY <1>1, <1>6, <2>1, <3>1
      <4> QED BY <3>1, <4>1 DEF FromThere
    <3>2. CASE ~(b > m + 1)
      <4>1. b \in 1..m + 1 /\ ~(j > n)
        BY <1>1, <1>6, <3>2
      <4> HIDE DEF Same
      <4> QED BY <2>3, <3>2, <4>1 DEF FromThere
    <3> QED BY <3>1, <3>2
  <2>5. /\ Len(p.fragments) = Len(q.fragments) + (i - 1)
        /\ \A k \in 1..Len(q.fragments) : p.fragments[k + (i - 1)] = q.fragments[k]
        /\ Len(p.names) = Len(q.names) + (i - 1)
        /\ \A k \in 1..Len(q.names) : p.names[k + (i - 1)] = q.names[k]
    BY DEF LeftFrom, q
  <2>6. ASSUME NEW x \in Seq(Seq(C)), q.fragments = <<frag>> \o x
        PROVE  /\ Len(x) \in Nat /\ Len(q.fragments) = Len(x) + 1
               /\ \A k \in 1..Len(x) : q.fragments[k + 1] = x[k]
               /\ p.fragments[i] = frag /\ ~(i > Len(p.fragments))
    <3> DEFINE z == q.fragments
    <3>1. <<frag>> \in Seq(Seq(C)) /\ Len(<<frag>>) = 1 /\ <<frag>>[1] = frag
      BY <2>2
    <3>2. /\ Len(x) \in Nat /\ Len(<<frag>> \o x) = Len(<<frag>>) + Len(x)
          /\ \A k \in 1..Len(<<frag>>) : (<<frag>> \o x)[k] = <<frag>>[k]
          /\ \A k \in 1..Len(x) : (<<frag>> \o x)[Len(<<frag>>) + k] = x[k]
      BY <3>1, Joined
    <3>3. /\ Len(x) \in Nat /\ Len(z) = 1 + Len(x) /\ z[1] = frag
          /\ \A k \in 1..Len(x) : z[1 + k] = x[k]
      BY <2>6, <3>1, <3>2
    <3> HIDE DEF z
    <3>4. \A k \in 1..Len(x) : k + 1 = 1 + k
      OBVIOUS
    <3>5. Len(z) = Len(x) + 1 /\ 1 \in 1..Len(z) /\ 1 + (i - 1) = i
      BY <1>1, <3>3
    <3>6. p.fragments[i] = frag
      BY <2>5, <3>3, <3>5 DEF z
    <3>7. Len(p.fragments) = (Len(x) + 1) + (i - 1)
      BY <2>5, <3>5 DEF z
    <3>8. ~(i > Len(p.fragments))
      BY <1>1, <3>3, <3>7
    <3> QED BY <3>3, <3>4, <3>5, <3>6, <3>8 DEF z
  <2>7. CASE mark > n
    <3>1. mark = n + 1 /\ ~(mark <= n)
      BY <1>1, <1>2, <2>7
    <3>2. q.fragments = <<frag>> \o << >> /\ q.names = << >>
      <4>1. <<frag>> \o << >> = <<frag>>
        BY <2>2
      <4> QED BY <1>3, <1>6, <3>1, <4>1
    <3>3. p.fragments[i] = frag /\ ~(i > Len(p.fragments)) /\ Len(p.fragments) = i /\ Len(p.names) = i - 1
      <4>1. << >> \in Seq(Seq(C)) /\ Len(<< >>) = 0
        OBVIOUS
      <4>2. p.fragments[i] = frag /\ ~(i > Len(p.fragments)) /\ Len(q.fragments) = 0 + 1
        BY <2>6, <3>2, <4>1
      <4>3. Len(p.names) = 0 + (i - 1)
        BY <2>5, <3>2, <4>1
      <4> QED BY <1>1, <2>5, <4>2, <4>3
    <3>4. i > Len(p.names) /\ i + 1 > Len(p.fragments) /\ i + 1 \in 1..Len(p.fragments) + 1
      BY <1>1, <3>3
    <3>5. \A b \in 1..m + 2 : v[i + 1][b] = IF b > m THEN {NoParams} ELSE {}
      BY <3>4 DEF Valued
    <3>6. ASSUME NEW b \in 1..m + 2, Same(b)
          PROVE  v[i + 1][b + (mark - j)] = Gives(f[mark], g[b + (mark - j)])
      <4> DEFINE end == b + (mark - j)
      <4>1. end \in 1..m + 1 /\ end \in 1..m + 2
        BY <1>1, <2>1, <3>6
      <4> HIDE DEF end
      <4>2. /\ /\ Len(s) \in Nat /\ Nothing(f[Len(s) + 1])
               /\ \A k \in 1..Len(s) + 1 : f[k] \in Seq(Seq(C)) /\ f[k] # << >>
            /\ /\ Len(t) \in Nat /\ Nothing(g[Len(t) + 1])
               /\ \A k \in 1..Len(t) + 1 : g[k] \in Seq(Seq(C)) /\ g[k] # << >>
               /\ \A k \in 1..Len(t) : ~Nothing(g[k])
        BY PieceSteps
      <4>3. Nothing(g[end]) <=> end > m
        <5>1. CASE end = m + 1
          BY <1>1, <4>2, <5>1
        <5>2. CASE end # m + 1
          <6>1. end \in 1..m /\ ~(end > m)
            BY <1>1, <4>1, <5>2
          <6> QED BY <4>2, <6>1
        <5> QED BY <5>1, <5>2
      <4>4. Gives(f[mark], g[end]) = IF Nothing(g[end]) THEN {NoParams} ELSE {}
        <5>1. f[mark] \in Seq(Seq(C)) /\ Nothing(f[mark]) /\ g[end] \in Seq(Seq(C))
          BY <2>1, <3>1, <4>1, <4>2
        <5> QED BY <5>1, GivesEmpty
      <4>5. v[i + 1][end] = Gives(f[mark], g[end])
        BY <3>5, <4>1, <4>3, <4>4
      <4> QED BY <4>5 DEF end
    <3> SUFFICES ASSUME NEW b \in 1..m + 2 PROVE v[i][b] = FromThere(f, n, g, m, j, b)
      OBVIOUS
    <3>7. v[i][b] = IF b + Len(frag) > m + 1 \/ Slice(t, b, b + Len(frag)) # frag THEN {}
                    ELSE v[i + 1][b + Len(frag)]
      BY <1>4, <3>3, <3>4
    <3>8. b + (mark - j) > m + 1 <=> ~(b + (mark - j) <= m + 1)
      BY <1>1, <2>1
    <3>9. v[i][b] = IF Same(b) THEN v[i + 1][b + (mark - j)] ELSE {}
      BY <2>2, <3>7, <3>8
    <3> HIDE DEF Same
    <3> QED BY <2>4, <3>6, <3>9
  <2>8. CASE mark <= n
    <3>1. mark \in 1..n /\ s[mark] = Marker /\ mark + 1 \in Nat /\ mark + 1 <= n + 1
      BY <1>1, <1>2, <2>1, <2>8
    <3>2. sep \in mark + 1..n + 1
      <4>1. sep \in mark + 1..n \/ sep = n + 1
        BY <1>1, <3>1, FirstFound DEF sep
      <4> QED BY <1>1, <3>1, <4>1
    <3>3. sep + 1 \in 1..n + 2 /\ j < sep + 1
      BY <1>1, <2>1, <3>1, <3>2
    <3> DEFINE r == h[sep + 1]
               y == Slice(s, mark + 1, sep)
    <3>4. r.fragments \in Seq(Seq(C)) /\ r.names \in Seq(Seq(C)) /\ y \in Seq(C)
      <4>1. mark + 1 \in 1..n + 1
        BY <1>1, <3>1
      <4>2. y \in Seq(C)
        BY <3>2, <4>1, Sliced
      <4> QED BY <3>3, <4>2
    <3>5. q.fragments = <<frag>> \o r.fragments /\ q.names = <<y>> \o r.names
      BY <1>3, <2>8
    <3> HIDE DEF r, y
    <3>6. /\ Len(r.fragments) \in Nat /\ Len(q.fragments) = Len(r.fragments) + 1
          /\ \A k \in 1..Len(r.fragments) : q.fragments[k + 1] = r.fragments[k]
          /\ p.fragments[i] = frag /\ ~(i > Len(p.fragments))
      BY <2>6, <3>4, <3>5
    <3>7. /\ Len(r.names) \in Nat /\ Len(q.names) = Len(r.names) + 1 /\ q.names[1] = y
          /\ \A k \in 1..Len(r.names) : q.names[1 + k] = r.names[k]
      <4> DEFINE z == r.names
      <4>1. <<y>> \in Seq(Seq(C)) /\ Len(<<y>>) = 1 /\ <<y>>[1] = y /\ z \in Seq(Seq(C))
        BY <3>4
      <4> HIDE DEF z
      <4>2. /\ Len(<<y>> \o z) = Len(<<y>>) + Len(z) /\ Len(z) \in Nat
            /\ \A k \in 1..Len(<<y>>) : (<<y>> \o z)[k] = <<y>>[k]
            /\ \A k \in 1..Len(z) : (<<y>> \o z)[Len(<<y>>) + k] = z[k]
        BY <4>1, Joined
      <4>3. q.names = <<y>> \o z
        BY <3>5 DEF z
      <4> QED BY <4>1, <4>2, <4>3 DEF z
    <3>8. ~(i > Len(p.names)) /\ p.names[i] = y
      <4>1. ~(i > Len(p.names))
        BY <1>1, <2>5, <3>7
      <4>2. 1 \in 1..Len(q.names) /\ 1 + (i - 1) = i
        <5>1. PICK l \in Nat : Len(q.names) = l + 1
          BY <3>7
        <5>2. 1 \in 1..l + 1 /\ 1 + (i - 1) = i
          BY <1>1
        <5> QED BY <5>1, <5>2
      <4>3. p.names[1 + (i - 1)] = q.names[1]
        BY <2>5, <4>2
      <4> QED BY <3>7, <4>1, <4>2, <4>3
    <3>9. LeftFrom(p, i + 1, r)
      <4>1. (i + 1) - 1 = i
        BY <1>1
      <4>2. Len(p.fragments) = Len(r.fragments) + i /\ Len(p.names) = Len(r.names) + i
        <5>1. \A l \in Nat : (l + 1) + (i - 1) = l + i
          BY <1>1
        <5>2. Len(p.fragments) = (Len(r.fragments) + 1) + (i - 1)
          BY <2>5, <3>6
        <5>3. Len(p.names) = (Len(r.names) + 1) + (i - 1)
          BY <2>5, <3>7
        <5> QED BY <3>6, <3>7, <5>1, <5>2, <5>3
      <4>3. ASSUME NEW k \in 1..Len(r.fragments) PROVE p.fragments[k + i] = r.fragments[k]
        <5>0. (k + 1) + (i - 1) = k + i
          BY <1>1
        <5>1. k + 1 \in 1..Len(q.fragments) /\ (k + 1) + (i - 1) = k + i
          <6>1. k + 1 \in 1..Len(r.fragments) + 1
            BY <3>6
          <6> QED BY <3>6, <5>0, <6>1
        <5>2. p.fragments[(k + 1) + (i - 1)] = q.fragments[k + 1]
          BY <2>5, <5>1
        <5> QED BY <3>6, <5>1, <5>2
      <4>4. ASSUME NEW k \in 1..Len(r.names) PROVE p.names[k + i] = r.names[k]
        <5>1. 1 + k \in 1..Len(q.names) /\ (1 + k) + (i - 1) = k + i
          <6>1. PICK l \in Nat : Len(q.names) = l + 1 /\ Len(r.names) = l
            BY <3>7
          <6>2. k \in 1..l
            BY <6>1
          <6>3. 1 + k \in 1..l + 1 /\ (1 + k) + (i - 1) = k + i
            BY <1>1, <6>2
          <6> QED BY <6>1, <6>3
        <5>2. p.names[(1 + k) + (i - 1)] = q.names[1 + k]
          BY <2>5, <5>1
        <5> QED BY <3>7, <5>1, <5>2
      <4> QED BY <4>1, <4>2, <4>3, <4>4 DEF LeftFrom
    <3>10. \A b \in 1..m + 2 : v[i + 1][b] = FromThere(f, n, g, m, sep + 1, b)
      <4>1. i + 1 \in Nat \ {0}
        BY <1>1
      <4>2. Matches(f, s, g, t, h, p, v, sep + 1)
        BY <3>3
      <4> QED BY <3>9, <4>1, <4>2 DEF r, Matches
    <3> SUFFICES ASSUME NEW b \in 1..m + 2 PROVE v[i][b] = FromThere(f, n, g, m, j, b)
      OBVIOUS
    <3> DEFINE end == b + (mark - j)
               to == FindFrom(t, Separator, end)
    <3>11. v[i][b] = IF b + Len(frag) > m + 1 \/ Slice(t, b, b + Len(frag)) # frag THEN {}
                     ELSE After(y, Slice(t, b + Len(frag), FindFrom(t, Separator, b + Len(frag))),
                                v[i + 1][AfterValue(FindFrom(t, Separator, b + Len(frag)))])
      BY <1>4, <3>6, <3>8
    <3>12. end > m + 1 <=> ~(end <= m + 1)
      BY <1>1, <2>1
    <3>13. v[i][b] = IF Same(b) THEN After(y, Slice(t, end, to), v[i + 1][to + 1]) ELSE {}
      BY <2>2, <3>11, <3>12 DEF AfterValue
    <3>14. ASSUME Same(b) PROVE Gives(f[mark], g[end]) = After(y, Slice(t, end, to), v[i + 1][to + 1])
      <4>1. end \in 1..m + 1
        BY <1>1, <2>1, <3>14
      <4> HIDE DEF end
      <4>2. Gives(f[mark], g[end]) = After(y, Slice(t, end, to), FromThere(f, n, g, m, sep + 1, to + 1))
        <5> DEFINE e == mark
                   b1 == end
        <5>1. e \in 1..Len(s) /\ s[e] = Marker /\ b1 \in 1..Len(t) + 1
          BY <3>1, <4>1
        <5> HIDE DEF e, b1
        <5>2. Gives(f[e], g[b1]) =
                After(Slice(s, e + 1, FindFrom(s, Separator, e + 1)),
                      Slice(t, b1, FindFrom(t, Separator, b1)),
                      FromThere(f, Len(s), g, Len(t), FindFrom(s, Separator, e + 1) + 1,
                                FindFrom(t, Separator, b1) + 1))
          BY ONLY <1>0, <5>1, ParamTaken
        <5> QED BY <5>2 DEF e, b1, sep, y
      <4>3. to + 1 \in 1..m + 2
        <5>1. to \in end..m \/ to = m + 1
          BY <1>1, <4>1, FirstFound
        <5> HIDE DEF to
        <5> QED BY <1>1, <4>1, <5>1
      <4> HIDE DEF to
      <4> QED BY <3>10, <4>2, <4>3
    <3> HIDE DEF Same
    <3> QED BY <2>4, <3>13, <3>14
  <2>9. mark > n \/ mark <= n
    BY <1>1, <2>1
  <2> QED BY <2>7, <2>8, <2>9
<1>7. j > n \/ j <= n
  BY <1>1
<1> QED BY <1>5, <1>6, <1>7

\* Every pattern, and every path: the fragments of the pattern take the paths that
\* its components take, and give the first parameter of each name the rest of its
\* component.
THEOREM RoutesGoByComponent ==
  ASSUME NEW C, NEW pattern \in Seq(C), NEW path \in Seq(C)
  PROVE  RoutesByComponent(pattern, path)
<1> DEFINE n == Len(pattern)
           m == Len(path)
<1>1. PICK f \in [1..n + 1 -> Seq(Seq(C))] : Laid(f, pattern) /\ Pieces(pattern) = f[1]
  BY PiecesLaid
<1>2. PICK g \in [1..m + 1 -> Seq(Seq(C))] : Laid(g, path) /\ Pieces(path) = g[1]
  BY PiecesLaid
<1>3. PICK h \in [1..n + 2 -> [fragments : Seq(Seq(C)), names : Seq(Seq(C))]] :
        Compiled(h, pattern) /\ Compile(pattern) = h[1]
  BY CompileLaid
<1> DEFINE p == Compile(pattern)
<1>4. n \in Nat /\ m \in Nat /\ p.fragments \in Seq(Seq(C)) /\ p.names \in Seq(Seq(C))
  <2>1. n \in Nat /\ m \in Nat /\ 1 \in 1..n + 2
    OBVIOUS
  <2> HIDE DEF p, n
  <2> QED BY <1>3, <2>1 DEF p
<1>5. PICK v : Valued(v, p, path) /\ Match(pattern, path) = v[1][1]
  BY <1>4, MatchLaid
<1> HIDE DEF p
<1> DEFINE Means(j) == Matches(f, pattern, g, path, h, p, v, j)
           Q == {j \in 1..(n + 1) + 1 : Means(j)}
<1>6. ASSUME NEW j \in 1..n + 2, \A l \in 1..n + 2 : j < l => Means(l) PROVE Means(j)
  <2>1. LaidOut(f, pattern, C) /\ LaidOut(g, path, C) /\ CutUp(h, pattern, C)
    BY <1>1, <1>2, <1>3 DEF LaidOut, CutUp
  <2>2. \A l \in 1..Len(pattern) + 2 : j < l => Matches(f, pattern, g, path, h, p, v, l)
    BY <1>6
  <2>3. j \in 1..Len(pattern) + 2
    OBVIOUS
  <2> QED BY ONLY <1>5, <2>1, <2>2, <2>3, MatchesFrom
<1> HIDE DEF Means
<1>7. Q = 1..(n + 1) + 1
  <2>1. \A j \in 1..(n + 1) + 1 : j \in 1..n + 2
    BY <1>4
  <2>2. ASSUME NEW j \in 1..(n + 1) + 1, \A l \in 1..(n + 1) + 1 : j < l => l \in Q PROVE j \in Q
    <3>1. \A l \in 1..n + 2 : j < l => Means(l)
      BY <1>4, <2>2
    <3> QED BY <1>6, <2>1, <3>1
  <2>3. (n + 1) + 1 \in Q
    <3>1. (n + 1) + 1 \in 1..(n + 1) + 1 /\ \A l \in 1..(n + 1) + 1 : ~((n + 1) + 1 < l)
      BY <1>4
    <3> QED BY <2>2, <3>1
  <2>4. Q \in SUBSET (1..(n + 1) + 1) /\ n + 1 \in Nat /\ \A j \in 1..n + 1 : j \in 1..(n + 1) + 1
    BY <1>4
  <2> HIDE DEF Q
  <2> QED BY <2>2, <2>3, <2>4, SuffixInduction
<1>8. v[1][1] = FromThere(f, n, g, m, 1, 1)
  <2>1. 1 \in 1..(n + 1) + 1 /\ 1 \in Nat \ {0} /\ 1 \in 1..m + 2
    BY <1>4
  <2>2. Means(1)
    BY <1>7, <2>1
  <2>3. LeftFrom(p, 1, h[1])
    BY <1>3 DEF LeftFrom, p
  <2> QED BY <2>1, <2>2, <2>3 DEF Means, Matches
<1>9. v[1][1] = Gives(f[1], g[1])
  <2>1. ~(1 > m + 1)
    BY <1>4
  <2>2. CASE ~(1 > n)
    BY <1>8, <2>1, <2>2 DEF FromThere
  <2>3. CASE 1 > n
    <3>1. v[1][1] = IF 1 > m THEN {NoParams} ELSE {}
      BY <1>8, <2>3 DEF FromThere
    <3>2. n = 0 /\ n + 1 = 1 /\ 1 \in 1..n + 1 /\ 1 \in 1..m + 1
      BY <1>4, <2>3
    <3>3. /\ Nothing(f[n + 1]) /\ \A k \in 1..n + 1 : f[k] \in Seq(Seq(C))
          /\ Nothing(g[m + 1]) /\ \A k \in 1..m + 1 : g[k] \in Seq(Seq(C))
          /\ \A k \in 1..m : ~Nothing(g[k])
      BY <1>1, <1>2, PieceSteps
    <3>4. Gives(f[1], g[1]) = IF Nothing(g[1]) THEN {NoParams} ELSE {}
      BY <3>2, <3>3, GivesEmpty
    <3>5. Nothing(g[1]) <=> 1 > m
      <4>1. CASE 1 > m
        <5>1. m + 1 = 1
          BY <1>4, <4>1
        <5> QED BY <3>3, <4>1, <5>1
      <4>2. CASE ~(1 > m)
        <5>1. 1 \in 1..m
          BY <1>4, <4>2
        <5> QED BY <3>3, <4>2, <5>1
      <4> QED BY <4>1, <4>2
    <3> QED BY <3>1, <3>4, <3>5
  <2> QED BY <2>2, <2>3
<1>10. /\ f[1] \in Seq(Seq(C)) /\ f[1] # << >> /\ g[1] \in Seq(Seq(C)) /\ g[1] # << >>
  <2>1. 1 \in 1..n + 1 /\ 1 \in 1..m + 1
    BY <1>4
  <2>2. /\ \A k \in 1..n + 1 : f[k] \in Seq(Seq(C)) /\ f[k] # << >>
        /\ \A k \in 1..m + 1 : g[k] \in Seq(Seq(C)) /\ g[k] # << >>
    BY <1>1, <1>2, PieceSteps
  <2> QED BY <2>1, <2>2
<1>11. LET q == Normal(f[1])
           fitting == Fitting(q, g[1])
       IN  Gives(f[1], g[1]) = IF Fit(q, fitting) THEN {ParamsFrom(q, fitting, 1)} ELSE {}
  BY <1>10, GivesMeans
<1> QED BY <1>1, <1>2, <1>5, <1>9, <1>11 DEF RoutesByComponent
=============================================================================
