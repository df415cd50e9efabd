----------------------- MODULE RobotControllerProofs -----------------------
(***************************************************************************)
(* Proofs about RobotController, for every resolution of the lidar, every   *)
(* set of readings and every length of a batch.                             *)
(***************************************************************************)
EXTENDS RobotController, FiniteSetTheorems, SequenceTheorems, TLAPS

-----------------------------------------------------------------------------
(* Minima, and what Keep keeps of a sequence.                               *)

\* A set of natural numbers that is not empty has a least element.
LEMMA LeastNatural ==
  ASSUME NEW T \in SUBSET Nat, T # {}
  PROVE  \E n \in T : \A m \in T : n <= m
<1>1. PICK n \in T : \A m \in T : ~(<<m, n>> \in OpToRel(<, Nat))
  BY NatLessThanWellFounded, WFMin
<1>2. \A m \in T : (m < n) => <<m, n>> \in OpToRel(<, Nat)
  BY DEF OpToRel
<1>3. \A m \in T : ~(m < n)
  BY <1>1, <1>2, Zenon
<1> QED
  BY <1>3

\* Min() of such a set is that element.
LEMMA MinNatural ==
  ASSUME NEW T \in SUBSET Nat, T # {}
  PROVE  Min(T) \in T /\ \A m \in T : Min(T) <= m
BY LeastNatural DEF Min

\* The positions of a sequence that hold elements of S are finitely many, and ranked
\* without gaps.
LEMMA PositionsFinite ==
  ASSUME NEW E, NEW s \in Seq(E), NEW S
  PROVE  /\ IsFiniteSet(Positions(s, S)) /\ Positions(s, S) \subseteq 1 .. Len(s)
         /\ Cardinality(Positions(s, S)) \in 0 .. Len(s)
<1>1. Len(s) \in Nat /\ DOMAIN s = 1 .. Len(s)
  OBVIOUS
<1>2. IsFiniteSet(1 .. Len(s)) /\ Cardinality(1 .. Len(s)) = Len(s)
  BY <1>1, FS_Interval
<1>3. Positions(s, S) \in SUBSET (1 .. Len(s))
  BY <1>1 DEF Positions
<1>4. IsFiniteSet(Positions(s, S)) /\ Cardinality(Positions(s, S)) <= Len(s)
  BY <1>2, <1>3, FS_Subset
<1>5. Cardinality(Positions(s, S)) \in Nat
  BY <1>4, FS_CardinalityType
<1> QED
  BY <1>1, <1>3, <1>4, <1>5

\* The elements of a finite set of integers, numbered by how many are not greater.
LEMMA RanksOfSet ==
  ASSUME NEW P \in SUBSET Int, IsFiniteSet(P)
  PROVE  /\ Cardinality(P) \in Nat
         /\ \A i \in P : Cardinality({j \in P : j <= i}) \in 1 .. Cardinality(P)
         /\ \A i, j \in P : i < j => Cardinality({h \in P : h <= i}) < Cardinality({h \in P : h <= j})
         /\ \A k \in 1 .. Cardinality(P) : \E i \in P : Cardinality({j \in P : j <= i}) = k
<1> DEFINE n == Cardinality(P)
           Upto(i) == {j \in P : j <= i}
<1>1. n \in Nat
  BY FS_CardinalityType
<1>2. \A i \in P : IsFiniteSet(Upto(i)) /\ Cardinality(Upto(i)) \in Nat /\ Cardinality(Upto(i)) <= n
  <2> SUFFICES ASSUME NEW i \in P
               PROVE  /\ IsFiniteSet(Upto(i)) /\ Cardinality(Upto(i)) \in Nat
                      /\ Cardinality(Upto(i)) <= n
    OBVIOUS
  <2>1. Upto(i) \in SUBSET P
    OBVIOUS
  <2>2. IsFiniteSet(Upto(i)) /\ Cardinality(Upto(i)) <= Cardinality(P)
    BY <2>1, FS_Subset
  <2> QED
    BY <2>2, FS_CardinalityType
<1>3. \A i \in P : Cardinality(Upto(i)) \in 1 .. n
  <2> SUFFICES ASSUME NEW i \in P PROVE Cardinality(Upto(i)) \in 1 .. n
    OBVIOUS
  <2>1. i \in Upto(i)
    OBVIOUS
  <2>2. Cardinality(Upto(i)) # 0
    BY <1>2, <2>1, FS_EmptySet
  <2>3. Cardinality(Upto(i)) \in Nat /\ Cardinality(Upto(i)) <= n
    BY <1>2, Zenon
  <2> QED
    BY <1>1, <2>2, <2>3
<1>4. ASSUME NEW i \in P, NEW j \in P, i < j PROVE Cardinality(Upto(i)) < Cardinality(Upto(j))
  <2>1. i \in Int /\ j \in Int /\ \A h \in P : h \in Int
    OBVIOUS
  <2>2. j \in Upto(j) /\ j \notin Upto(i)
    BY <1>4, <2>1
  <2>3. ASSUME NEW h \in Upto(i) PROVE h \in Upto(j)
    BY <1>4, <2>1
  <2>4. Upto(i) \in SUBSET Upto(j) /\ j \in Upto(j) /\ j \notin Upto(i)
    BY <2>2, <2>3, Zenon
  <2>5. Cardinality(Upto(i)) <= Cardinality(Upto(j)) /\ Cardinality(Upto(i)) # Cardinality(Upto(j))
    BY <1>2, <2>4, FS_Subset
  <2>6. Cardinality(Upto(i)) \in Nat /\ Cardinality(Upto(j)) \in Nat
    BY <1>2, Zenon
  <2> QED
    BY <2>5, <2>6
<1>5. \A i, j \in P : Cardinality(Upto(i)) = Cardinality(Upto(j)) => i = j
  <2> SUFFICES ASSUME NEW i \in P, NEW j \in P, i < j
               PROVE  Cardinality(Upto(i)) # Cardinality(Upto(j))
    OBVIOUS
  <2>1. Cardinality(Upto(i)) \in Nat /\ Cardinality(Upto(j)) \in Nat
    BY <1>2, Zenon
  <2> QED
    BY <1>4, <2>1
<1>6. \A k \in 1 .. n : \E i \in P : Cardinality(Upto(i)) = k
  <2> DEFINE f == [i \in P |-> Cardinality(Upto(i))]
  <2>1. f \in Injection(P, 1 .. n)
    BY <1>3, <1>5, Zenon DEF Injection, IsInjective
  <2>2. IsFiniteSet(1 .. n) /\ Cardinality(1 .. n) = n
    BY <1>1, FS_Interval
  <2>3. f \in Surjection(P, 1 .. n)
    BY <2>1, <2>2, FS_Injection
  <2> QED
    BY <2>3 DEF Surjection
<1> QED
  BY <1>1, <1>3, <1>4, <1>6

\* The ranks of positions run from 1 to their number.
LEMMA RankBijective ==
  ASSUME NEW E, NEW s \in Seq(E), NEW S
  PROVE  /\ \A i \in Positions(s, S) : Rank(s, S, i) \in 1 .. Cardinality(Positions(s, S))
         /\ \A i, j \in Positions(s, S) : Rank(s, S, i) = Rank(s, S, j) => i = j
         /\ \A k \in 1 .. Cardinality(Positions(s, S)) :
              \E i \in Positions(s, S) : Rank(s, S, i) = k
<1> DEFINE P == Positions(s, S)
           Upto(i) == {j \in P : j <= i}
<1>1. P \in SUBSET Int /\ IsFiniteSet(P)
  BY PositionsFinite
<1>2. /\ Cardinality(P) \in Nat
      /\ \A i \in P : Cardinality(Upto(i)) \in 1 .. Cardinality(P)
      /\ \A i, j \in P : i < j => Cardinality(Upto(i)) < Cardinality(Upto(j))
      /\ \A k \in 1 .. Cardinality(P) : \E i \in P : Cardinality(Upto(i)) = k
  BY <1>1, RanksOfSet, Zenon
<1>3. \A i : Rank(s, S, i) = Cardinality(Upto(i))
  BY DEF Rank
<1>4. ASSUME NEW i \in P, NEW j \in P, Rank(s, S, i) = Rank(s, S, j) PROVE i = j
  <2> SUFFICES ASSUME NEW h \in P, NEW k \in P, h < k PROVE Rank(s, S, h) # Rank(s, S, k)
    BY <1>1, <1>4
  <2>1. /\ Rank(s, S, h) < Rank(s, S, k)
        /\ Rank(s, S, h) \in 1 .. Cardinality(P) /\ Rank(s, S, k) \in 1 .. Cardinality(P)
    BY <1>2, <1>3, Zenon
  <2> QED
    BY <2>1
<1> QED
  BY <1>2, <1>3, <1>4, Zenon

\* Nth is the inverse of the rank.
LEMMA NthInverse ==
  ASSUME NEW E, NEW s \in Seq(E), NEW S
  PROVE  /\ \A k \in 1 .. Cardinality(Positions(s, S)) :
              Nth(s, S, k) \in Positions(s, S) /\ Rank(s, S, Nth(s, S, k)) = k
         /\ \A i \in Positions(s, S) : Nth(s, S, Rank(s, S, i)) = i
<1>1. \A k \in 1 .. Cardinality(Positions(s, S)) :
        Nth(s, S, k) \in Positions(s, S) /\ Rank(s, S, Nth(s, S, k)) = k
  BY RankBijective, Zenon DEF Nth
<1>2. ASSUME NEW i \in Positions(s, S) PROVE Nth(s, S, Rank(s, S, i)) = i
  <2>1. Rank(s, S, i) \in 1 .. Cardinality(Positions(s, S))
    BY RankBijective, Zenon
  <2>2. /\ Nth(s, S, Rank(s, S, i)) \in Positions(s, S)
        /\ Rank(s, S, Nth(s, S, Rank(s, S, i))) = Rank(s, S, i)
    BY <1>1, <2>1, Zenon
  <2>3. \A h, j \in Positions(s, S) : Rank(s, S, h) = Rank(s, S, j) => h = j
    BY RankBijective, Zenon
  <2> QED
    BY <2>2, <2>3, Zenon
<1> QED
  BY <1>1, <1>2, Zenon

\* What Keep keeps: elements of s in S, all of them.
LEMMA KeepFacts ==
  ASSUME NEW E, NEW s \in Seq(E), NEW S
  PROVE  /\ Keep(s, S) \in Seq(E \cap S)
         /\ Len(Keep(s, S)) = Cardinality(Positions(s, S))
         /\ Len(Keep(s, S)) \in 0 .. Len(s)
         /\ Range(Keep(s, S)) = Range(s) \cap S
<1> DEFINE n == Cardinality(Positions(s, S))
<1>1. n \in Nat /\ n \in 0 .. Len(s) /\ DOMAIN s = 1 .. Len(s)
  BY PositionsFinite
<1>2. \A i \in Positions(s, S) : s[i] \in E \cap S /\ i \in DOMAIN s
  BY DEF Positions
<1>3. \A k \in 1 .. n : s[Nth(s, S, k)] \in E \cap S
  BY <1>2, NthInverse
<1>4. Keep(s, S) \in Seq(E \cap S) /\ Len(Keep(s, S)) = n
  BY <1>1, <1>3 DEF Keep
<1>5. DOMAIN Keep(s, S) = 1 .. n /\ \A k \in 1 .. n : Keep(s, S)[k] = s[Nth(s, S, k)]
  BY DEF Keep
<1>6. Range(Keep(s, S)) \subseteq Range(s) \cap S
  BY <1>2, <1>3, <1>5, NthInverse DEF Range
<1>7. ASSUME NEW x \in Range(s) \cap S PROVE x \in Range(Keep(s, S))
  <2>1. PICK i \in DOMAIN s : s[i] = x
    BY <1>7 DEF Range
  <2>2. i \in Positions(s, S)
    BY <1>7, <2>1 DEF Positions
  <2>3. Rank(s, S, i) \in 1 .. n /\ Nth(s, S, Rank(s, S, i)) = i
    BY <2>2, RankBijective, NthInverse
  <2> QED
    BY <1>5, <2>1, <2>3 DEF Range
<1> QED
  BY <1>1, <1>4, <1>6, <1>7

\* What is kept is there as often as before.
LEMMA KeepCounts ==
  ASSUME NEW E, NEW s \in Seq(E), NEW S, NEW m \in S
  PROVE  Count(Keep(s, S), m) = Count(s, m)
<1> DEFINE n == Cardinality(Positions(s, S))
           A == {k \in 1 .. n : s[Nth(s, S, k)] = m}
           B == {i \in DOMAIN s : s[i] = m}
           f == [i \in B |-> Rank(s, S, i)]
<1>1. DOMAIN Keep(s, S) = 1 .. n /\ \A k \in 1 .. n : Keep(s, S)[k] = s[Nth(s, S, k)]
  BY DEF Keep
<1>2. {k \in DOMAIN Keep(s, S) : Keep(s, S)[k] = m} = A
  BY <1>1
<1>3. B \in SUBSET Positions(s, S)
  BY DEF Positions
<1>4. \A i \in B : Rank(s, S, i) \in 1 .. n /\ Nth(s, S, Rank(s, S, i)) = i
  BY <1>3, RankBijective, NthInverse, Zenon
<1>5. \A i \in B : Rank(s, S, i) \in A
  BY <1>4, Zenon
<1>6. \A i, j \in B : Rank(s, S, i) = Rank(s, S, j) => i = j
  BY <1>4, Zenon
<1>7. ASSUME NEW k \in A PROVE \E i \in B : Rank(s, S, i) = k
  <2>1. k \in 1 .. n /\ s[Nth(s, S, k)] = m
    BY <1>7
  <2>2. Nth(s, S, k) \in Positions(s, S) /\ Rank(s, S, Nth(s, S, k)) = k
    BY <2>1, NthInverse, Zenon
  <2>3. Nth(s, S, k) \in B
    BY <2>1, <2>2, Zenon DEF Positions
  <2> QED
    BY <2>2, <2>3, Zenon
<1>8. f \in Bijection(B, A)
  <2>1. f \in [B -> A] /\ \A i \in B : f[i] = Rank(s, S, i)
    BY <1>5, Zenon
  <2>2. f \in Injection(B, A)
    BY <1>6, <2>1, Zenon DEF Injection, IsInjective
  <2>3. f \in Surjection(B, A)
    BY <1>7, <2>1, Zenon DEF Surjection
  <2> QED
    BY <2>2, <2>3, Zenon DEF Bijection
<1>9. IsFiniteSet(B)
  BY <1>3, PositionsFinite, FS_Subset
<1>10. Cardinality(A) = Cardinality(B)
  <2>1. ExistsBijection(B, A)
    BY <1>8, Zenon DEF ExistsBijection
  <2> QED
    BY <1>9, <2>1, FS_Bijection
<1> QED
  BY <1>2, <1>10 DEF Count

\* Two sequences, one after the other, hold an element as often as both together.
LEMMA ConcatCounts ==
  ASSUME NEW E, NEW s \in Seq(E), NEW t \in Seq(E), NEW m
  PROVE  Count(s \o t, m) = Count(s, m) + Count(t, m)
<1> DEFINE A == {i \in DOMAIN s : s[i] = m}
           B == {i \in DOMAIN t : t[i] = m}
           C == {i \in Len(s) + 1 .. Len(s) + Len(t) : t[i - Len(s)] = m}
           f == [i \in B |-> i + Len(s)]
<1>1. /\ Len(s) \in Nat /\ Len(t) \in Nat /\ Len(s \o t) = Len(s) + Len(t)
      /\ DOMAIN s = 1 .. Len(s) /\ DOMAIN t = 1 .. Len(t) /\ DOMAIN (s \o t) = 1 .. Len(s) + Len(t)
  OBVIOUS
<1>2. {i \in DOMAIN (s \o t) : (s \o t)[i] = m} = A \cup C
  <2>1. \A i \in 1 .. Len(s) : (s \o t)[i] = s[i]
    OBVIOUS
  <2>2. \A i \in Len(s) + 1 .. Len(s) + Len(t) : (s \o t)[i] = t[i - Len(s)]
    OBVIOUS
  <2> QED
    BY <1>1, <2>1, <2>2
<1>3. IsFiniteSet(A) /\ IsFiniteSet(B) /\ IsFiniteSet(C)
  <2>1. IsFiniteSet(1 .. Len(s)) /\ IsFiniteSet(1 .. Len(t)) /\ IsFiniteSet(Len(s) + 1 .. Len(s) + Len(t))
    BY <1>1, FS_Interval
  <2>2. A \in SUBSET (1 .. Len(s)) /\ B \in SUBSET (1 .. Len(t))
        /\ C \in SUBSET (Len(s) + 1 .. Len(s) + Len(t))
    BY <1>1
  <2> QED
    BY <2>1, <2>2, FS_Subset
<1>4. A \cap C = {}
  BY <1>1
<1>5. Cardinality(B) = Cardinality(C)
  <2>1. \A i \in B : i + Len(s) \in C
    BY <1>1
  <2>2. \A i, j \in B : i + Len(s) = j + Len(s) => i = j
    BY <1>1
  <2>3. \A k \in C : k - Len(s) \in B /\ (k - Len(s)) + Len(s) = k
    BY <1>1
  <2>4. f \in [B -> C] /\ \A i \in B : f[i] = i + Len(s)
    BY <2>1, Zenon
  <2>5. f \in Injection(B, C)
    BY <2>2, <2>4, Zenon DEF Injection, IsInjective
  <2>6. f \in Surjection(B, C)
    BY <2>3, <2>4, Zenon DEF Surjection
  <2>7. ExistsBijection(B, C)
    BY <2>5, <2>6, Zenon DEF ExistsBijection, Bijection
  <2> QED
    BY <1>3, <2>7, FS_Bijection
<1>6. Cardinality(A) \in Nat /\ Cardinality(C) \in Nat
  BY <1>3, FS_CardinalityType
<1>7. Cardinality(A \cup C) = Cardinality(A) + Cardinality(C) - Cardinality(A \cap C)
  BY <1>3, FS_Union
<1>8. Cardinality(A \cap C) = 0
  BY <1>4, FS_EmptySet
<1>9. Count(s \o t, m) = Cardinality(A \cup C) /\ Count(s, m) = Cardinality(A)
      /\ Count(t, m) = Cardinality(B)
  BY <1>2 DEF Count
<1> HIDE DEF A, B, C
<1> QED
  BY <1>5, <1>6, <1>7, <1>8, <1>9

-----------------------------------------------------------------------------
(* Geometry.                                                                 *)

\* The remainder of a number less than two divisors.
LEMMA Remainder ==
  ASSUME NEW n \in Nat \ {0}, NEW x \in 0 .. n - 1
  PROVE  x % n = x /\ (x + n) % n = x
OBVIOUS

LEMMA QuarterBounds == lidar_resolution \div 4 \in 0 .. lidar_resolution - 1
BY GeoAssumption

\* update_sensor_values() stores every value of the range image, and each where no other
\* one goes: image_index is a permutation of the beams.
THEOREM ImagePermuted ==
  /\ \A i \in Beams : image_index(i) \in Beams
  /\ \A i, j \in Beams : image_index(i) = image_index(j) => i = j
  /\ \A i \in Beams : \E j \in Beams : image_index(j) = i
<1> DEFINE n == lidar_resolution
           q == lidar_resolution \div 4
           Turned(i) == IF i >= q THEN i - q ELSE i - q + n
<1>1. n \in Nat \ {0} /\ q \in 0 .. n - 1
  BY GeoAssumption, QuarterBounds
<1>2. ASSUME NEW i \in Beams PROVE Turned(i) \in 0 .. n - 1 /\ (i - q + n) % n = Turned(i)
  <2>1. i \in 0 .. n - 1
    BY DEF Beams
  <2> HIDE DEF n, q
  <2>2. CASE i >= q
    <3>1. i - q \in 0 .. n - 1
      BY <1>1, <2>1, <2>2
    <3> QED
      BY <1>1, <2>2, <3>1, Remainder
  <2>3. CASE i < q
    <3>1. i - q + n \in 0 .. n - 1
      BY <1>1, <2>1, <2>3
    <3> QED
      BY <1>1, <2>1, <2>3, <3>1, Remainder
  <2> QED
    BY <1>1, <2>1, <2>2, <2>3
<1>3. \A i \in Beams : image_index(i) = n - 1 - Turned(i)
  BY <1>2 DEF image_index
<1>4. \A i \in Beams : image_index(i) \in Beams
  BY <1>1, <1>2, <1>3 DEF Beams
<1>5. \A i, j \in Beams : image_index(i) = image_index(j) => i = j
  BY <1>1, <1>2, <1>3 DEF Beams
<1>6. ASSUME NEW i \in Beams PROVE \E j \in Beams : image_index(j) = i
  <2> DEFINE k == n - 1 - i
             j == IF k + q < n THEN k + q ELSE k + q - n
  <2>1. j \in Beams /\ n - 1 - Turned(j) = i
    BY <1>1 DEF Beams
  <2> QED
    BY <1>3, <2>1
<1> QED
  BY <1>4, <1>5, <1>6

\* The whole square root exists.
LEMMA RootNatural == ASSUME NEW n \in Nat PROVE Root(n) \in Nat
<1> DEFINE T == {k \in Nat : n < (k + 1) * (k + 1)}
<1>1. n \in T
  <2>1. (n + 1) * (n + 1) = n * n + 2 * n + 1 /\ n * n \in Nat
    OBVIOUS
  <2> QED
    BY <2>1
<1>2. PICK k \in T : \A m \in T : k <= m
  BY <1>1, LeastNatural
<1>3. k \in 0 .. n /\ n < (k + 1) * (k + 1)
  BY <1>1, <1>2
<1>4. k * k <= n
  <2>1. CASE k = 0
    BY <2>1
  <2>2. CASE k # 0
    <3>1. k - 1 \in Nat /\ k - 1 \notin T
      BY <1>2, <2>2
    <3>2. (k - 1) + 1 = k
      BY <1>3
    <3>3. ~(n < k * k) /\ k * k \in Nat
      BY <1>3, <3>1, <3>2
    <3> QED
      BY <3>3
  <2> QED
    BY <2>1, <2>2
<1>5. \E h \in 0 .. n : h * h <= n /\ n < (h + 1) * (h + 1)
  <2>1. WITNESS k \in 0 .. n
  <2> QED
    BY <1>3, <1>4
<1>6. Root(n) \in 0 .. n
  BY <1>5, Zenon DEF Root
<1> QED
  BY <1>6

\* The law of cosines does not go below zero.
LEMMA LawOfCosines ==
  ASSUME NEW r \in Nat, NEW d \in Nat, NEW c \in Thousandths
  PROVE  third_side_squared(r, d, c) \in Nat
<1> DEFINE p == 2 * r * d
<1>1. p \in Nat /\ p <= r * r + d * d /\ r * r + d * d \in Nat
  <2>1. (r - d) * (r - d) >= 0
    OBVIOUS
  <2>2. (r - d) * (r - d) = r * r + d * d - 2 * r * d
    OBVIOUS
  <2> QED
    BY <2>1, <2>2
<1>2. p * c \in Int /\ p * c <= p * 1000
  BY <1>1 DEF Thousandths
<1>3. (p * c) \div 1000 \in Int /\ (p * c) \div 1000 <= p
  <2> HIDE DEF p
  <2> QED
    BY <1>1, <1>2
<1> QED
  BY <1>1, <1>3 DEF third_side_squared

LEMMA ReadingTypes ==
  ASSUME NEW s \in Readings
  PROVE  /\ \A i \in Beams : length(s, i) \in Echoes \cup {lidar_max_range}
         /\ s.dist \in GoalDists /\ s.goal \in GoalAngles
<1>1. \A i \in Beams : ImageSource[i] \in Beams
  BY ImagePermuted DEF ImageSource
<1>2. PICK image \in [Beams -> Echoes], a \in GoalAngles, d \in GoalDists :
        s = [range |-> [i \in Beams |-> IF in_range(image[ImageSource[i]])
                                           THEN image[ImageSource[i]] ELSE NoRange],
             goal |-> a, dist |-> d]
  BY DEF Readings
<1>3. s.dist \in GoalDists /\ s.goal \in GoalAngles
  BY <1>2
<1>4. \A i \in Beams : s.range[i] = NoRange \/ s.range[i] \in Echoes
  BY <1>1, <1>2
<1> QED
  BY <1>3, <1>4 DEF length, has_value

LEMMA ToGoalNatural ==
  ASSUME NEW s \in Readings, NEW i \in Beams
  PROVE  to_goal(s, i) \in Nat
<1> DEFINE r == length(s, i)
           d == s.dist
           a == AngleMinus(index2angle(i), s.goal)
<1>1. r \in Echoes \cup {lidar_max_range} /\ d \in GoalDists /\ a \in DOMAIN Cosine
  BY ReadingTypes, ControllerAssumption
<1> HIDE DEF r, d, a
<1>2. r \in Nat /\ d \in Nat /\ Cosine[a] \in Thousandths
  BY <1>1, ControllerAssumption
<1>3. EndToGoal[r][d][a] = Root(third_side_squared(r, d, Cosine[a]))
  BY <1>1 DEF EndToGoal
<1>4. Root(third_side_squared(r, d, Cosine[a])) \in Nat
  <2>1. third_side_squared(r, d, Cosine[a]) \in Nat
    BY <1>2, LawOfCosines
  <2> QED
    BY <2>1, RootNatural
<1> QED
  BY <1>3, <1>4 DEF to_goal, r, d, a

LEMMA Obstacle2GoalType == ASSUME NEW s \in Readings PROVE obstacle2goal(s) \in 0 .. Infinity
<1> DEFINE T == {to_goal(s, i) : i \in {j \in Beams : has_value(s, j)}} \cup {Infinity}
<1>1. T \in SUBSET Nat /\ Infinity \in T
  BY ToGoalNatural DEF Infinity
<1> HIDE DEF T
<1>2. Min(T) \in T /\ Min(T) <= Infinity
  BY <1>1, MinNatural
<1>3. obstacle2goal(s) = Min(T)
  BY DEF obstacle2goal, T
<1>4. Min(T) \in Nat
  BY <1>1, <1>2
<1> QED
  BY <1>2, <1>3, <1>4 DEF Infinity

LEMMA MinOfTwo ==
  ASSUME NEW x \in 0 .. Infinity, NEW y \in 0 .. Infinity
  PROVE  Min({x, y}) \in 0 .. Infinity
<1>1. {x, y} \in SUBSET Nat /\ {x, y} # {}
  BY DEF Infinity
<1> QED
  BY <1>1, MinNatural

-----------------------------------------------------------------------------
(* Descriptors and registration.                                             *)

\* What the destructors rely on: the number that tcp::Server::close() gave back is free
\* again when the destructor of tcp::Server closes it a second time, because the client
\* that may have got it in between is closed by then; and what the port discovery
\* service was told last.
DescriptorInv ==
  /\ ~stolen
  /\ pc \in {"accept", "step", "receive", "communicate", "answered", "control", "close",
             "deregister", "hung", "aborted"} => told = "add_robot"
  /\ pc \in {"deregistered", "members", "ended", "terminated"} => told = "remove_robot"
  /\ pc \in {"deregister", "members"} => server.fd \notin DOMAIN fds
  /\ pc = "deregistered" => server.fd \notin DOMAIN fds \ {pds}

LEMMA DescriptorInit == Init => DescriptorInv
  BY DEF Init, ServerInit, DescriptorInv

LEMMA DescriptorStep == DescriptorInv /\ [Next]_vars => DescriptorInv'
<1> SUFFICES ASSUME DescriptorInv, [Next]_vars PROVE DescriptorInv'
  OBVIOUS
<1> USE DEF DescriptorInv, Goto, serverVars
<1>1. CASE Listen BY <1>1 DEF Listen
<1>2. CASE Register BY <1>2 DEF Register, Tell
<1>3. CASE Accept BY <1>3 DEF Accept
<1>4. CASE CloseServer
  <2>1. server' = server /\ DOMAIN fds' = DOMAIN fds \ {server.fd}
    BY <1>4 DEF CloseServer, Closed
  <2> QED
    BY <1>4, <2>1 DEF CloseServer
<1>5. CASE Deregister
  <2>1. /\ pc = "deregister" /\ pc' \in {"deregistered", "killed"} /\ server' = server
        /\ stolen' = stolen /\ (pc' = "deregistered" => told' = "remove_robot")
    BY <1>5 DEF Deregister, Tell
  <2>2. pds' = Free /\ DOMAIN fds' = DOMAIN fds \cup {Free}
    BY <1>5 DEF Deregister, Tell, Opened
  <2>3. server.fd \notin DOMAIN fds' \ {pds'}
    BY <2>1, <2>2
  <2> QED
    BY <2>1, <2>3
<1>6. CASE CloseClient
  <2>1. server' = server /\ DOMAIN fds' = DOMAIN fds \ {pds}
    BY <1>6 DEF CloseClient, Closed
  <2> QED
    BY <1>6, <2>1 DEF CloseClient
<1>7. CASE DestroyMembers
  BY <1>7 DEF DestroyMembers
<1>8. CASE Step BY <1>8 DEF Step
<1>9. CASE GetMessages
  <2>1. UNCHANGED serverVars /\ pc = "receive" /\ pc' \in {"communicate", "hung", "killed", "aborted"}
    BY <1>9 DEF GetMessages
  <2> QED
    BY <2>1
<1>10. CASE Communicate
  <2>1. UNCHANGED serverVars /\ pc = "communicate" /\ pc' \in {"answered", "aborted", "killed"}
    BY <1>10 DEF Communicate
  <2> QED
    BY <2>1
<1>11. CASE CommunicateReturns BY <1>11 DEF CommunicateReturns
<1>12. CASE Control
  <2>1. UNCHANGED serverVars /\ pc = "control" /\ pc' = "step"
    BY <1>12 DEF Control
  <2> QED
    BY <2>1
<1>13. CASE PeerCloses BY <1>13 DEF PeerCloses
<1>14. CASE UNCHANGED vars BY <1>14 DEF vars
<1> QED
  BY <1>1, <1>2, <1>3, <1>4, <1>5, <1>6, <1>7, <1>8, <1>9, <1>10, <1>11, <1>12, <1>13, <1>14
  DEF Next, Lifecycle

\* The second close() of ~Server() never hits a descriptor of another object, whichever
\* descriptors the process was started with; a controller that ran its destructors is
\* not registered any more, one that hangs or ended by an exception still is.
THEOREM DestructionIsSound == Spec => []DestructionSound
<1>1. Spec => []DescriptorInv
  BY DescriptorInit, DescriptorStep, PTL DEF Spec
<1>2. DescriptorInv => DestructionSound
  BY DEF DescriptorInv, DestructionSound, NoForeignClose, RegisteredUntilDestroyed
<1> QED
  BY <1>1, <1>2, PTL

-----------------------------------------------------------------------------
(* What a get_state reply reports.                                           *)

\* As long as no position has been read, the robot has not been told to move.
Untouched == position = Unread /\ gear = "halt" /\ phase = Motion2Goal

\* How old the position is, place by place of the loop.  The first iteration, which ends
\* before the sensors are read, is why it may be missing.
PositionInv ==
  /\ first_iteration => Untouched
  /\ pc \in {"listen", "register", "accept"} => first_iteration
  /\ pc = "step" => position = 0 \/ Untouched
  /\ pc \in {"receive", "communicate", "answered"} => position = 1 \/ Untouched
  /\ pc = "control" => ~first_iteration /\ (position = 1 \/ Untouched)
  /\ position \in {Unread, 0, 1}

ReportInv == ReportMatchesMotors /\ PositionInv

LEMMA ReportInit == Init => ReportInv
  BY DEF Init, ReportInv, ReportMatchesMotors, PositionInv, Untouched, Unread

\* Every command to the motors keeps LEDs, is_stopped and gear in step.
LEMMA CommandsMatch ==
  ASSUME ReportMatchesMotors, NoCommand \/ stop \/ \E a : go_towards_angle(a)
  PROVE  ReportMatchesMotors'
<1>1. CASE NoCommand
  BY <1>1 DEF NoCommand, ReportMatchesMotors
<1>2. CASE stop
  BY <1>2 DEF stop, ReportMatchesMotors
<1>3. ASSUME NEW a, go_towards_angle(a) PROVE ReportMatchesMotors'
  <2>1. gear' \in {"left", "right", "straight", "adjusted"}
    BY <1>3 DEF go_towards_angle, gear_of
  <2>2. /\ leds' = IF gear' \in {"left", "right"} THEN gear' ELSE "off"
        /\ is_stopped' = (is_stopped /\ gear' = "straight")
    BY <1>3 DEF go_towards_angle
  <2> QED
    BY <2>1, <2>2 DEF ReportMatchesMotors
<1> QED
  BY <1>1, <1>2, <1>3

\* A step of the controller gives the motors one command or none.
LEMMA ControlCommands ==
  ASSUME Control
  PROVE  NoCommand \/ stop \/ \E a : go_towards_angle(a)
<1>1. PICK s \in Readings :
        \/ stop
        \/ boundary_following(s)
        \/ motion2goal(s)
  BY DEF Control
<1>2. ASSUME NEW i, NEW b, go_to_discontinuity(s, i, b) PROVE \E a : go_towards_angle(a)
  BY <1>2 DEF go_to_discontinuity
<1>3. GoToOrigin => \E a : go_towards_angle(a)
  BY DEF GoToOrigin
<1>4. start_following(s) => NoCommand
  BY DEF start_following
<1>5. CASE boundary_following(s)
  BY <1>2, <1>3, <1>5 DEF boundary_following
<1>6. CASE motion2goal(s)
  BY <1>2, <1>3, <1>4, <1>6 DEF motion2goal
<1> QED
  BY <1>1, <1>5, <1>6

LEMMA ReportStep == ReportInv /\ [Next]_vars => ReportInv'
<1> SUFFICES ASSUME ReportInv, [Next]_vars PROVE ReportInv'
  OBVIOUS
<1> USE DEF ReportInv, PositionInv, Untouched, Goto
<1>1. CASE Lifecycle /\ UNCHANGED <<controlVars, talkVars, int_abs, first_iteration, peer>>
  <2>1. UNCHANGED <<is_stopped, gear, leds, phase, position, first_iteration>>
    BY <1>1 DEF controlVars
  <2>2. ReportMatchesMotors'
    BY <2>1 DEF ReportMatchesMotors
  <2>3. /\ pc' \in {"listen", "register", "accept"} => pc \in {"listen", "register"}
        /\ pc' = "step" => pc = "accept"
        /\ pc' \notin {"receive", "communicate", "answered", "control"}
    BY <1>1 DEF Lifecycle, Listen, Register, Tell, Accept, CloseServer, Deregister, CloseClient,
                DestroyMembers
  <2> QED
    BY <2>1, <2>2, <2>3
<1>2. CASE Step
  <2>1. ReportMatchesMotors'
    BY <1>2 DEF Step, ReportMatchesMotors
  <2> QED
    BY <1>2, <2>1 DEF Step, Unread
<1>3. CASE GetMessages \/ Communicate
  <2>1. /\ UNCHANGED <<is_stopped, gear, leds, phase, position, first_iteration>>
        /\ pc \in {"receive", "communicate"}
        /\ pc' \in {"communicate", "answered", "hung", "aborted", "killed"}
    BY <1>3 DEF GetMessages, Communicate, controlVars
  <2>2. ReportMatchesMotors'
    BY <2>1 DEF ReportMatchesMotors
  <2> QED
    BY <2>1, <2>2
<1>4. CASE CommunicateReturns
  <2>1. /\ UNCHANGED <<is_stopped, gear, leds, phase, position>> /\ first_iteration' = FALSE
        /\ pc = "answered" /\ pc' = IF first_iteration THEN "step" ELSE "control"
    BY <1>4 DEF CommunicateReturns, controlVars
  <2>2. ReportMatchesMotors'
    BY <2>1 DEF ReportMatchesMotors
  <2> QED
    BY <2>1, <2>2
<1>5. CASE Control
  <2>1. ReportMatchesMotors'
    BY <1>5, CommandsMatch, ControlCommands
  <2>2. pc' = "step" /\ position' = 0 /\ pc = "control" /\ first_iteration' = first_iteration
    BY <1>5 DEF Control, update_sensor_values
  <2> QED
    BY <2>1, <2>2
<1>6. CASE PeerCloses
  <2>1. UNCHANGED <<pc, is_stopped, gear, leds, phase, position, first_iteration>>
    BY <1>6 DEF PeerCloses, controlVars
  <2> QED
    BY <2>1 DEF ReportMatchesMotors
<1>7. CASE UNCHANGED vars
  <2>1. UNCHANGED <<pc, is_stopped, gear, leds, phase, position, first_iteration>>
    BY <1>7 DEF vars, controlVars
  <2> QED
    BY <2>1 DEF ReportMatchesMotors
<1> QED
  BY <1>1, <1>2, <1>3, <1>4, <1>5, <1>6, <1>7 DEF Next

\* What a get_state reply may be wrong about: at most one step of way, and a robot that
\* goes straight ahead; for every resolution of the lidar and whatever it sees.
THEOREM ReportIsSound == Spec => []ReportSound
<1>1. Spec => []ReportInv
  BY ReportInit, ReportStep, PTL DEF Spec
<1>2. ReportInv => ReportSound
  BY DEF ReportInv, PositionInv, Untouched, ReportSound, PositionIsLast
<1> QED
  BY <1>1, <1>2, PTL

-----------------------------------------------------------------------------
(* Types and phases.                                                         *)

\* The kernel always has a number to hand out.
LEMMA FreeNatural ==
  ASSUME DOMAIN fds \subseteq Nat, IsFiniteSet(DOMAIN fds)
  PROVE  Free \in Nat
<1> DEFINE n == Cardinality(DOMAIN fds)
<1>1. n \in Nat
  BY FS_CardinalityType
<1>2. IsFiniteSet(0 .. n) /\ Cardinality(0 .. n) = n + 1
  BY <1>1, FS_Interval
<1>3. ASSUME 0 .. n \subseteq DOMAIN fds PROVE FALSE
  <2>1. Cardinality(0 .. n) <= n
    BY <1>3, FS_Subset
  <2> QED
    BY <1>1, <1>2, <2>1
<1>4. (0 .. n) \ DOMAIN fds \in SUBSET Nat /\ (0 .. n) \ DOMAIN fds # {}
  BY <1>1, <1>3
<1> QED
  BY <1>4, MinNatural DEF Free

\* The batch of a step, its messages and replies are sequences of requests.
LEMMA BatchTypes ==
  ASSUME NEW batch \in BoundedSeq(Requests, MaxBatch)
  PROVE  batch \in Seq(Requests)
  BY ControllerAssumption DEF BoundedSeq, SeqOf

FirstBad == SelectInSeq(messages, LAMBDA m : m = "not_a_number")

LEMMA FirstBadFacts ==
  ASSUME messages \in Seq(Requests)
  PROVE  FirstBad = 0 \/ FirstBad \in 1 .. Len(messages)
<1> DEFINE I == {i \in 1 .. Len(messages) : messages[i] = "not_a_number"}
<1>1. I \in SUBSET Nat
  OBVIOUS
<1>2. FirstBad = IF I # {} THEN Min(I) ELSE 0
  BY DEF FirstBad, SelectInSeq
<1>3. I # {} => Min(I) \in I
  BY <1>1, MinNatural
<1> QED
  BY <1>2, <1>3

LEMMA AnsweredType ==
  ASSUME NEW batch \in Seq(Requests)
  PROVE  Answered(batch) \in Seq(Requests)
<1>1. Answered(batch) \in Seq(Requests \cap (Requests \ {"destination"}))
  BY KeepFacts DEF Answered
<1> QED
  BY <1>1

LEMMA PhasesInit == Init => PhasesSound
<1> SUFFICES ASSUME Init PROVE PhasesSound
  OBVIOUS
<1>1. DOMAIN fds = Preopened
  BY DEF Init, ServerInit
<1>2. raw \in Seq(Requests) /\ messages \in Seq(Requests) /\ sent \in Seq(Requests)
  BY DEF Init
<1>3. ServerTypeOK
  BY <1>1, ServerAssumption DEF Init, ServerInit, ServerTypeOK, Sockets, NotYet, None
<1>4. phase = Motion2Goal /\ dfollowed = Infinity /\ nearest = Infinity /\ position = Unread
  BY DEF Init
<1>5. gear = "halt" /\ leds = "off"
  BY DEF Init
<1> QED
  BY <1>2, <1>3, <1>4, <1>5
  DEF PhasesSound, TypeOK, DfollowedOfThisBoundary, Motion2Goal, BoundaryFollowing, Infinity, Unread

LEMMA ServerTypeStep == ASSUME ServerTypeOK, Lifecycle PROVE ServerTypeOK'
<1>1. Free \in Nat /\ IsFiniteSet(DOMAIN fds)
  BY FreeNatural DEF ServerTypeOK
<1>2. ASSUME NEW d PROVE IsFiniteSet(DOMAIN fds \cup {d}) /\ IsFiniteSet(DOMAIN fds \ {d})
  BY <1>1, FS_AddElement, FS_RemoveElement
<1> USE <1>1 DEF ServerTypeOK, Sockets
<1>3. CASE Listen
  <2>1. DOMAIN fds' = DOMAIN fds \cup {Free}
    BY <1>3 DEF Listen, Opened
  <2> QED
    BY <1>2, <1>3, <2>1 DEF Listen
<1>4. CASE Register \/ Deregister
  <2>1. DOMAIN fds' = DOMAIN fds \cup {Free}
    BY <1>4 DEF Register, Deregister, Tell, Opened
  <2> QED
    BY <1>2, <1>4, <2>1 DEF Register, Deregister, Tell
<1>5. CASE Accept
  <2>1. CASE UNCHANGED <<fds, client, pds>>
    BY <1>2, <1>5, <2>1 DEF Accept
  <2>2. CASE /\ client' = [fd |-> Free, open |-> TRUE] /\ pds' = None
             /\ fds' = Closed(Opened(fds, Free, "client"), pds)
    <3>1. DOMAIN fds' = (DOMAIN fds \cup {Free}) \ {pds}
      BY <2>2 DEF Opened, Closed
    <3>2. IsFiniteSet(DOMAIN fds \cup {Free})
      BY <1>2
    <3>3. IsFiniteSet((DOMAIN fds \cup {Free}) \ {pds})
      BY <3>2, FS_RemoveElement
    <3> QED
      BY <1>2, <1>5, <2>2, <3>1, <3>3 DEF Accept
  <2> QED
    BY <1>5, <2>1, <2>2 DEF Accept
<1>6. CASE CloseServer
  <2>1. DOMAIN fds' = DOMAIN fds \ {server.fd}
    BY <1>6 DEF CloseServer, Closed
  <2> QED
    BY <1>2, <1>6, <2>1 DEF CloseServer
<1>7. CASE CloseClient
  <2>1. DOMAIN fds' = DOMAIN fds \ {pds}
    BY <1>7 DEF CloseClient, Closed
  <2> QED
    BY <1>2, <1>7, <2>1 DEF CloseClient
<1>8. CASE DestroyMembers
  <2>1. DOMAIN fds' = DOMAIN fds \/ DOMAIN fds' = DOMAIN fds \ {server.fd}
    BY <1>8 DEF DestroyMembers, Closed
  <2> QED
    BY <1>2, <1>8, <2>1 DEF DestroyMembers
<1> QED
  BY <1>3, <1>4, <1>5, <1>6, <1>7, <1>8 DEF Lifecycle

controlTypes ==
  /\ gear \in {"halt", "left", "right", "straight", "adjusted"}
  /\ leds \in {"off", "left", "right"}
  /\ phase \in {Motion2Goal, Motion2Discontinuity, BoundaryFollowing}
  /\ dfollowed \in 0 .. Infinity /\ nearest \in 0 .. Infinity

\* The command of a step leaves gear and LEDs in their types.
LEMMA CommandTypes ==
  ASSUME controlTypes, Control
  PROVE  /\ gear' \in {"halt", "left", "right", "straight", "adjusted"}
         /\ leds' \in {"off", "left", "right"}
<1>1. CASE NoCommand
  BY <1>1 DEF NoCommand, controlTypes
<1>2. CASE stop
  BY <1>2 DEF stop, controlTypes
<1>3. ASSUME NEW a, go_towards_angle(a)
      PROVE  /\ gear' \in {"halt", "left", "right", "straight", "adjusted"}
             /\ leds' \in {"off", "left", "right"}
  BY <1>3 DEF go_towards_angle, gear_of
<1> QED
  BY <1>1, <1>2, <1>3, ControlCommands

\* A step of the phases, as far as dfollowed goes: it is set on entering a boundary, and
\* lowered while following it.
LEMMA PhaseMoves ==
  ASSUME Control
  PROVE  \E s \in Readings :
           \/ phase' = BoundaryFollowing /\ dfollowed' = obstacle2goal(s) /\ nearest' = obstacle2goal(s)
           \/ /\ phase' = BoundaryFollowing /\ phase = BoundaryFollowing
              /\ dfollowed' = Min({dfollowed, obstacle2goal(s)})
              /\ nearest' = Min({nearest, obstacle2goal(s)})
           \/ /\ phase' \in {phase, Motion2Goal, Motion2Discontinuity}
              /\ UNCHANGED <<dfollowed, nearest>>
<1>1. PICK s \in Readings :
        \/ UNCHANGED <<phase, dfollowed, nearest>>
        \/ phase = BoundaryFollowing /\ boundary_following(s)
        \/ motion2goal(s)
  BY DEF Control
<1>2. CASE phase = BoundaryFollowing /\ boundary_following(s)
  BY <1>2 DEF boundary_following
<1>3. CASE motion2goal(s)
  BY <1>3 DEF motion2goal, start_following
<1> QED
  BY <1>1, <1>2, <1>3

LEMMA ControlTypeStep ==
  ASSUME controlTypes, DfollowedOfThisBoundary, Control
  PROVE  controlTypes' /\ DfollowedOfThisBoundary'
<1>1. PICK s \in Readings :
        \/ phase' = BoundaryFollowing /\ dfollowed' = obstacle2goal(s) /\ nearest' = obstacle2goal(s)
        \/ /\ phase' = BoundaryFollowing /\ phase = BoundaryFollowing
           /\ dfollowed' = Min({dfollowed, obstacle2goal(s)})
           /\ nearest' = Min({nearest, obstacle2goal(s)})
        \/ /\ phase' \in {phase, Motion2Goal, Motion2Discontinuity}
           /\ UNCHANGED <<dfollowed, nearest>>
  BY PhaseMoves
<1>2. obstacle2goal(s) \in 0 .. Infinity
  BY Obstacle2GoalType
<1>3. dfollowed' \in 0 .. Infinity /\ nearest' \in 0 .. Infinity
  BY <1>1, <1>2, MinOfTwo DEF controlTypes
<1>4. phase' \in {Motion2Goal, Motion2Discontinuity, BoundaryFollowing}
  BY <1>1 DEF controlTypes
<1>5. DfollowedOfThisBoundary'
  BY <1>1 DEF DfollowedOfThisBoundary, Motion2Goal, Motion2Discontinuity, BoundaryFollowing
<1> QED
  BY <1>3, <1>4, <1>5, CommandTypes DEF controlTypes

talkTypes == raw \in Seq(Requests) /\ messages \in Seq(Requests) /\ sent \in Seq(Requests)

LEMMA UnderstoodType ==
  ASSUME NEW batch \in Seq(Requests)
  PROVE  /\ understood(batch) \in Seq(Requests) /\ Keep(batch, {"unknown"}) \in Seq(Requests)
<1>1. understood(batch) \in Seq(Requests \cap (Requests \ {"unknown"}))
  BY KeepFacts DEF understood
<1>2. Keep(batch, {"unknown"}) \in Seq(Requests \cap {"unknown"})
  BY KeepFacts
<1> QED
  BY <1>1, <1>2

LEMMA GetMessagesTypes ==
  ASSUME talkTypes, GetMessages
  PROVE  talkTypes' /\ (pc' # "aborted" => messages' = understood(raw') /\ sent' = Keep(raw', {"unknown"}))
<1>0. CASE Goto("receive", "aborted") /\ UNCHANGED talkVars
  BY <1>0 DEF talkVars, talkTypes, Goto
<1>4. SUFFICES ASSUME \E batch \in BoundedSeq(Requests, MaxBatch) :
                  raw' = batch /\ messages' = understood(batch) /\ sent' = Keep(batch, {"unknown"})
             PROVE  talkTypes' /\ messages' = understood(raw') /\ sent' = Keep(raw', {"unknown"})
  BY <1>0 DEF GetMessages
<1>1. PICK batch \in BoundedSeq(Requests, MaxBatch) :
        raw' = batch /\ messages' = understood(batch) /\ sent' = Keep(batch, {"unknown"})
  BY <1>4
<1>2. batch \in Seq(Requests)
  BY BatchTypes
<1> QED
  BY <1>1, <1>2, UnderstoodType DEF talkTypes

LEMMA CommunicateTypes ==
  ASSUME talkTypes, Communicate
  PROVE  /\ talkTypes'
         /\ pc' = "answered" => FirstBad = 0 /\ sent' = sent \o Answered(messages)
<1> DEFINE batch == IF FirstBad = 0 THEN messages ELSE SubSeq(messages, 1, FirstBad - 1)
<1>1. raw' = raw /\ messages' = messages /\ sent' = sent \o Answered(batch)
  BY DEF Communicate, FirstBad
<1>2. batch \in Seq(Requests)
  BY FirstBadFacts DEF talkTypes
<1>3. FirstBad = 0 => batch = messages
  OBVIOUS
<1> HIDE DEF batch
<1>4. sent \o Answered(batch) \in Seq(Requests)
  <2>1. Answered(batch) \in Seq(Requests) /\ sent \in Seq(Requests)
    BY <1>2, AnsweredType DEF talkTypes
  <2> QED
    BY <2>1
<1>5. pc' = "answered" => FirstBad = 0
  BY DEF Communicate, Goto, FirstBad
<1> QED
  BY <1>1, <1>3, <1>4, <1>5 DEF talkTypes

LEMMA PhasesStep == PhasesSound /\ ReportInv' /\ [Next]_vars => PhasesSound'
<1> SUFFICES ASSUME PhasesSound, ReportInv', [Next]_vars PROVE PhasesSound'
  OBVIOUS
<1>1. ServerTypeOK /\ controlTypes /\ DfollowedOfThisBoundary /\ talkTypes
  BY DEF PhasesSound, TypeOK, controlTypes, talkTypes
<1>2. position' \in -1 .. 2
  BY DEF ReportInv, PositionInv, Unread
<1>3. SUFFICES ServerTypeOK' /\ controlTypes' /\ DfollowedOfThisBoundary' /\ talkTypes'
  BY <1>2 DEF PhasesSound, TypeOK, controlTypes, talkTypes
<1>4. UNCHANGED serverVars => ServerTypeOK'
  BY <1>1 DEF serverVars, ServerTypeOK
<1>5. UNCHANGED <<gear, leds, phase, dfollowed, nearest>> => controlTypes' /\ DfollowedOfThisBoundary'
  BY <1>1 DEF controlTypes, DfollowedOfThisBoundary
<1>6. UNCHANGED talkVars => talkTypes'
  BY <1>1 DEF talkVars, talkTypes
<1>7. UNCHANGED controlVars => UNCHANGED <<gear, leds, phase, dfollowed, nearest>>
  BY DEF controlVars
<1>8. CASE Lifecycle /\ UNCHANGED <<controlVars, talkVars, int_abs, first_iteration, peer>>
  BY <1>1, <1>5, <1>6, <1>7, <1>8, ServerTypeStep
<1>9. CASE Step
  BY <1>4, <1>5, <1>6, <1>9 DEF Step
<1>10. CASE GetMessages
  <2>1. UNCHANGED <<serverVars, controlVars>>
    BY <1>10 DEF GetMessages
  <2> QED
    BY <1>1, <1>4, <1>5, <1>7, <1>10, <2>1, GetMessagesTypes
<1>11. CASE Communicate
  <2>1. UNCHANGED <<serverVars, controlVars>>
    BY <1>11 DEF Communicate
  <2> QED
    BY <1>1, <1>4, <1>5, <1>7, <1>11, <2>1, CommunicateTypes
<1>12. CASE CommunicateReturns
  <2>1. UNCHANGED <<serverVars, controlVars>>
    BY <1>12 DEF CommunicateReturns
  <2>2. talkTypes'
    BY <1>12 DEF CommunicateReturns, talkTypes
  <2> QED
    BY <1>4, <1>5, <1>7, <2>1, <2>2
<1>13. CASE Control
  <2>1. UNCHANGED <<serverVars, talkVars>>
    BY <1>13 DEF Control
  <2> QED
    BY <1>1, <1>4, <1>6, <1>13, <2>1, ControlTypeStep
<1>14. CASE PeerCloses
  BY <1>4, <1>5, <1>6, <1>7, <1>14 DEF PeerCloses
<1>15. CASE UNCHANGED vars
  BY <1>4, <1>5, <1>6, <1>7, <1>15 DEF vars
<1> QED
  BY <1>8, <1>9, <1>10, <1>11, <1>12, <1>13, <1>14, <1>15 DEF Next

\* Every variable keeps its type, and the distance that decides when the robot leaves a
\* boundary is the nearest an obstacle of this boundary came to the goal, whatever the
\* lidar returns.
THEOREM PhasesAreSound == Spec => []PhasesSound
<1>1. Spec => []ReportInv
  BY ReportInit, ReportStep, PTL DEF Spec
<1> QED
  BY <1>1, PhasesInit, PhasesStep, PTL DEF Spec

-----------------------------------------------------------------------------
(* Replies.                                                                  *)

\* What is known of the replies before communicate() runs: get_messages() has answered
\* what it does not know and passes on everything else.
TalkInv ==
  /\ talkTypes
  /\ pc = "communicate" => messages = understood(raw) /\ sent = Keep(raw, {"unknown"})
  /\ EachAnsweredOnce

LEMMA NotKept ==
  ASSUME NEW E, NEW s \in Seq(E), NEW S, NEW m, m \notin S
  PROVE  Count(Keep(s, S), m) = 0
<1>1. Range(Keep(s, S)) = Range(s) \cap S
  BY KeepFacts
<1>2. {i \in DOMAIN Keep(s, S) : Keep(s, S)[i] = m} = {}
  BY <1>1, Zenon DEF Range
<1> QED
  BY <1>2, FS_EmptySet DEF Count

\* The replies of get_messages() and of communicate() to one batch, counted together.
LEMMA RepliesCounted ==
  ASSUME NEW batch \in Seq(Requests), NEW m \in Requests \ {"destination"}
  PROVE  Count(Keep(batch, {"unknown"}) \o Answered(understood(batch)), m) = Count(batch, m)
<1>1. understood(batch) \in Seq(Requests) /\ Keep(batch, {"unknown"}) \in Seq(Requests)
  BY UnderstoodType
<1>2. Answered(understood(batch)) \in Seq(Requests)
  BY <1>1, AnsweredType
<1>3. Count(Keep(batch, {"unknown"}) \o Answered(understood(batch)), m)
        = Count(Keep(batch, {"unknown"}), m) + Count(Answered(understood(batch)), m)
  BY <1>1, <1>2, ConcatCounts
<1>4. Count(Answered(understood(batch)), m) = Count(understood(batch), m)
  BY <1>1, KeepCounts DEF Answered
<1>5. Count(batch, m) \in Nat
  <2>1. Count(batch, m) = Cardinality(Positions(batch, {m}))
    BY DEF Count, Positions
  <2> QED
    BY <2>1, PositionsFinite
<1>6. CASE m = "unknown"
  <2>1. Count(Keep(batch, {"unknown"}), m) = Count(batch, m)
    BY <1>6, KeepCounts
  <2>2. Count(understood(batch), m) = 0
    BY <1>6, NotKept DEF understood
  <2> QED
    BY <1>3, <1>4, <1>5, <2>1, <2>2
<1>7. CASE m # "unknown"
  <2>1. Count(Keep(batch, {"unknown"}), m) = 0
    BY <1>7, NotKept
  <2>2. Count(understood(batch), m) = Count(batch, m)
    BY <1>7, KeepCounts DEF understood
  <2> QED
    BY <1>3, <1>4, <1>5, <2>1, <2>2
<1> QED
  BY <1>6, <1>7

LEMMA TalkInit == Init => TalkInv
<1> SUFFICES ASSUME Init PROVE TalkInv
  OBVIOUS
<1>1. talkTypes
  BY DEF Init, talkTypes
<1> QED
  BY <1>1 DEF Init, TalkInv, EachAnsweredOnce

LEMMA TalkStep == TalkInv /\ [Next]_vars => TalkInv'
<1> SUFFICES ASSUME TalkInv, [Next]_vars PROVE TalkInv'
  OBVIOUS
<1>1. ASSUME UNCHANGED talkVars, pc' = pc \/ pc' \notin {"communicate", "answered"} PROVE TalkInv'
  BY <1>1 DEF talkVars, TalkInv, talkTypes, EachAnsweredOnce
<1>2. CASE Lifecycle /\ UNCHANGED <<controlVars, talkVars, int_abs, first_iteration, peer>>
  <2>1. pc' \notin {"communicate", "answered"}
    BY <1>2 DEF Lifecycle, Listen, Register, Tell, Accept, CloseServer, Deregister, CloseClient,
                DestroyMembers, Goto
  <2> QED
    BY <1>1, <1>2, <2>1
<1>3. CASE Step
  BY <1>1, <1>3 DEF Step, Goto
<1>4. CASE GetMessages
  <2>1. /\ talkTypes' /\ pc' # "answered"
        /\ pc' # "aborted" => messages' = understood(raw') /\ sent' = Keep(raw', {"unknown"})
    BY <1>4, GetMessagesTypes DEF TalkInv, GetMessages, Goto
  <2> QED
    BY <2>1 DEF TalkInv, EachAnsweredOnce, understood
<1>5. CASE Communicate
  <2>1. /\ talkTypes'
        /\ pc' = "answered" => FirstBad = 0 /\ sent' = sent \o Answered(messages)
    BY <1>5, CommunicateTypes DEF TalkInv
  <2>2. pc = "communicate" /\ pc' # "communicate" /\ raw' = raw
    BY <1>5 DEF Communicate, Goto
  <2>3. raw \in Seq(Requests)
    BY DEF TalkInv, talkTypes
  <2>4. ASSUME pc' = "answered", NEW m \in Requests \ {"destination"}
        PROVE  Count(raw', m) = Count(sent', m)
    <3>1. sent' = Keep(raw, {"unknown"}) \o Answered(understood(raw))
      BY <2>1, <2>2, <2>4 DEF TalkInv
    <3> QED
      BY <2>2, <2>3, <3>1, RepliesCounted
  <2> QED
    BY <2>1, <2>2, <2>4 DEF TalkInv, EachAnsweredOnce
<1>6. CASE CommunicateReturns
  <2>1. raw' = <<>> /\ messages' = <<>> /\ sent' = <<>> /\ pc' \in {"step", "control"}
    BY <1>6 DEF CommunicateReturns, Goto
  <2>2. talkTypes'
    BY <2>1 DEF talkTypes
  <2> QED
    BY <2>1, <2>2 DEF TalkInv, EachAnsweredOnce
<1>7. CASE Control
  <2>1. UNCHANGED talkVars /\ pc' = "step"
    BY <1>7 DEF Control, Goto
  <2> QED
    BY <1>1, <2>1
<1>8. CASE PeerCloses
  BY <1>1, <1>8 DEF PeerCloses
<1>9. CASE UNCHANGED vars
  BY <1>1, <1>9 DEF vars
<1> QED
  BY <1>2, <1>3, <1>4, <1>5, <1>6, <1>7, <1>8, <1>9 DEF Next

\* Each message of a batch that needs an answer has exactly one when communicate()
\* returns, for batches of every length and order.
THEOREM EachIsAnsweredOnce == Spec => []EachAnsweredOnce
<1>1. Spec => []TalkInv
  BY TalkInit, TalkStep, PTL DEF Spec
<1>2. TalkInv => EachAnsweredOnce
  BY DEF TalkInv
<1> QED
  BY <1>1, <1>2, PTL
=============================================================================
