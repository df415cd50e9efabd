-------------------------- MODULE SchedulesProofs --------------------------
(***************************************************************************)
(* Proofs about Schedules, for any roads, stations and bound.              *)
(*                                                                         *)
(* A trace tells a sequence of values if its samples pass through them in  *)
(* order, each as often as it likes (Telling).  The simulation keeps the   *)
(* traces telling what the trips of the robot say (StationInv,             *)
(* WaypointInv), whatever UPPAAL repeats; the printed answer is read back  *)
(* as the traces (Phases); and in the loop of convert_result() the queues  *)
(* stand behind samples of the traces, with what they told up to there in  *)
(* the schedule (StationLoop, WaypointLoop).                              *)
(***************************************************************************)
EXTENDS Schedules, FiniteSetTheorems, SequenceTheorems, TLAPS

\* A set of natural numbers that is not empty has a least element.
LEMMA LeastNatural ==
  ASSUME NEW T \in SUBSET Nat, T # {}
  PROVE  \E n \in T : \A m \in T : n <= m
<1>1. PICK n \in T : \A m \in T : ~(<<m, n>> \in OpToRel(<, Nat))
  BY NatLessThanWellFounded, WFMin
<1>2. \A m \in T : (m < n) => <<m, n>> \in OpToRel(<, Nat)
  BY DEF OpToRel
<1>3. \A m \in T : ~(m < n)
  BY <1>1, <1>2, Zenon
<1> QED
  BY <1>3

\* Induction, on a set.
LEMMA NatInSet ==
  ASSUME NEW S, 0 \in S, \A k \in Nat : k \in S => k + 1 \in S
  PROVE  \A k \in Nat : k \in S
<1> SUFFICES ASSUME NEW n \in Nat, n \notin S PROVE FALSE
  OBVIOUS
<1> DEFINE T == {k \in Nat : k \notin S}
<1>1. T \in SUBSET Nat /\ T # {}
  OBVIOUS
<1>2. PICK m \in T : \A k \in T : m <= k
  BY <1>1, LeastNatural
<1>3. m \in Nat /\ m # 0 /\ m \notin S
  OBVIOUS
<1>4. m - 1 \in Nat /\ (m - 1) + 1 = m
  BY <1>3
<1>5. m - 1 \in S
  BY <1>2, <1>4
<1> QED
  BY <1>3, <1>4, <1>5

\* Min() of such a set is that element.
LEMMA MinNatural ==
  ASSUME NEW T \in SUBSET Nat, T # {}
  PROVE  Min(T) \in T /\ \A m \in T : Min(T) <= m
BY LeastNatural DEF Min

\* The positions of a sequence that hold elements of S are finitely many, and ranked
\* without gaps.
LEMMA PositionsFinite ==
  ASSUME NEW E, NEW s \in Seq(E), NEW S
  PROVE  /\ IsFiniteSet(Positions(s, S)) /\ Positions(s, S) \subseteq 1 .. Len(s)
         /\ Cardinality(Positions(s, S)) \in 0 .. Len(s)
<1>1. Len(s) \in Nat /\ DOMAIN s = 1 .. Len(s)
  OBVIOUS
<1>2. IsFiniteSet(1 .. Len(s)) /\ Cardinality(1 .. Len(s)) = Len(s)
  <2>1. PICK n \in Nat : n = Len(s)
    BY <1>1
  <2>2. 1 \in Int /\ n \in Int /\ n - 1 + 1 = n /\ (1 > n => n = 0)
    OBVIOUS
  <2>3. IsFiniteSet(1 .. n) /\ Cardinality(1 .. n) = n
    BY <2>2, FS_Interval
  <2> QED
    BY <2>1, <2>3, Zenon
<1>3. Positions(s, S) \in SUBSET (1 .. Len(s))
  BY <1>1 DEF Positions
<1>4. IsFiniteSet(Positions(s, S)) /\ Cardinality(Positions(s, S)) <= Len(s)
  BY <1>2, <1>3, FS_Subset
<1>5. Cardinality(Positions(s, S)) \in Nat
  BY <1>4, FS_CardinalityType
<1> QED
  BY <1>1, <1>3, <1>4, <1>5

\* The elements of a finite set of integers, numbered by how many are not greater.
LEMMA RanksOfSet ==
  ASSUME NEW P \in SUBSET Int, IsFiniteSet(P)
  PROVE  /\ Cardinality(P) \in Nat
         /\ \A i \in P : Cardinality({j \in P : j <= i}) \in 1 .. Cardinality(P)
         /\ \A i, j \in P : i < j => Cardinality({h \in P : h <= i}) < Cardinality({h \in P : h <= j})
         /\ \A k \in 1 .. Cardinality(P) : \E i \in P : Cardinality({j \in P : j <= i}) = k
<1> DEFINE n == Cardinality(P)
           Upto(i) == {j \in P : j <= i}
<1>1. n \in Nat
  BY FS_CardinalityType
<1>2. \A i \in P : IsFiniteSet(Upto(i)) /\ Cardinality(Upto(i)) \in Nat /\ Cardinality(Upto(i)) <= n
  <2> SUFFICES ASSUME NEW i \in P
               PROVE  /\ IsFiniteSet(Upto(i)) /\ Cardinality(Upto(i)) \in Nat
                      /\ Cardinality(Upto(i)) <= n
    OBVIOUS
  <2>1. Upto(i) \in SUBSET P
    OBVIOUS
  <2>2. IsFiniteSet(Upto(i)) /\ Cardinality(Upto(i)) <= Cardinality(P)
    BY <2>1, FS_Subset
  <2> QED
    BY <2>2, FS_CardinalityType
<1>3. \A i \in P : Cardinality(Upto(i)) \in 1 .. n
  <2> SUFFICES ASSUME NEW i \in P PROVE Cardinality(Upto(i)) \in 1 .. n
    OBVIOUS
  <2>1. i \in Upto(i)
    OBVIOUS
  <2>2. Cardinality(Upto(i)) # 0
    BY <1>2, <2>1, FS_EmptySet
  <2>3. Cardinality(Upto(i)) \in Nat /\ Cardinality(Upto(i)) <= n
    BY <1>2, Zenon
  <2> QED
    BY <1>1, <2>2, <2>3
<1>4. ASSUME NEW i \in P, NEW j \in P, i < j PROVE Cardinality(Upto(i)) < Cardinality(Upto(j))
  <2>1. i \in Int /\ j \in Int /\ \A h \in P : h \in Int
    OBVIOUS
  <2>2. j \in Upto(j) /\ j \notin Upto(i)
    BY <1>4, <2>1
  <2>3. ASSUME NEW h \in Upto(i) PROVE h \in Upto(j)
    BY <1>4, <2>1
  <2>4. Upto(i) \in SUBSET Upto(j) /\ j \in Upto(j) /\ j \notin Upto(i)
    BY <2>2, <2>3, Zenon
  <2>5. Cardinality(Upto(i)) <= Cardinality(Upto(j)) /\ Cardinality(Upto(i)) # Cardinality(Upto(j))
    BY <1>2, <2>4, FS_Subset
  <2>6. Cardinality(Upto(i)) \in Nat /\ Cardinality(Upto(j)) \in Nat
    BY <1>2, Zenon
  <2> QED
    BY <2>5, <2>6
<1>5. \A i, j \in P : Cardinality(Upto(i)) = Cardinality(Upto(j)) => i = j
  <2> SUFFICES ASSUME NEW i \in P, NEW j \in P, i < j
               PROVE  Cardinality(Upto(i)) # Cardinality(Upto(j))
    OBVIOUS
  <2>1. Cardinality(Upto(i)) \in Nat /\ Cardinality(Upto(j)) \in Nat
    BY <1>2, Zenon
  <2> QED
    BY <1>4, <2>1
<1>6. \A k \in 1 .. n : \E i \in P : Cardinality(Upto(i)) = k
  <2> DEFINE f == [i \in P |-> Cardinality(Upto(i))]
  <2>1. f \in Injection(P, 1 .. n)
    BY <1>3, <1>5, Zenon DEF Injection, IsInjective
  <2>2. IsFiniteSet(1 .. n) /\ Cardinality(1 .. n) = n
    BY <1>1, FS_Interval
  <2>3. f \in Surjection(P, 1 .. n)
    BY <2>1, <2>2, FS_Injection
  <2> QED
    BY <2>3 DEF Surjection
<1> QED
  BY <1>1, <1>3, <1>4, <1>6

\* The ranks of positions run from 1 to their number.
LEMMA RankBijective ==
  ASSUME NEW E, NEW s \in Seq(E), NEW S
  PROVE  /\ \A i \in Positions(s, S) : Rank(s, S, i) \in 1 .. Cardinality(Positions(s, S))
         /\ \A i, j \in Positions(s, S) : Rank(s, S, i) = Rank(s, S, j) => i = j
         /\ \A k \in 1 .. Cardinality(Positions(s, S)) :
              \E i \in Positions(s, S) : Rank(s, S, i) = k
<1> DEFINE P == Positions(s, S)
           Upto(i) == {j \in P : j <= i}
<1>1. P \in SUBSET Int /\ IsFiniteSet(P)
  BY PositionsFinite
<1>2. /\ Cardinality(P) \in Nat
      /\ \A i \in P : Cardinality(Upto(i)) \in 1 .. Cardinality(P)
      /\ \A i, j \in P : i < j => Cardinality(Upto(i)) < Cardinality(Upto(j))
      /\ \A k \in 1 .. Cardinality(P) : \E i \in P : Cardinality(Upto(i)) = k
  BY <1>1, RanksOfSet, Zenon
<1>3. \A i : Rank(s, S, i) = Cardinality(Upto(i))
  BY DEF Rank
<1>4. ASSUME NEW i \in P, NEW j \in P, Rank(s, S, i) = Rank(s, S, j) PROVE i = j
  <2> SUFFICES ASSUME NEW h \in P, NEW k \in P, h < k PROVE Rank(s, S, h) # Rank(s, S, k)
    BY <1>1, <1>4
  <2>1. /\ Rank(s, S, h) < Rank(s, S, k)
        /\ Rank(s, S, h) \in 1 .. Cardinality(P) /\ Rank(s, S, k) \in 1 .. Cardinality(P)
    BY <1>2, <1>3, Zenon
  <2> QED
    BY <2>1
<1> QED
  BY <1>2, <1>3, <1>4, Zenon

\* Nth is the inverse of the rank.
LEMMA NthInverse ==
  ASSUME NEW E, NEW s \in Seq(E), NEW S
  PROVE  /\ \A k \in 1 .. Cardinality(Positions(s, S)) :
              Nth(s, S, k) \in Positions(s, S) /\ Rank(s, S, Nth(s, S, k)) = k
         /\ \A i \in Positions(s, S) : Nth(s, S, Rank(s, S, i)) = i
<1>1. \A k \in 1 .. Cardinality(Positions(s, S)) :
        Nth(s, S, k) \in Positions(s, S) /\ Rank(s, S, Nth(s, S, k)) = k
  BY RankBijective, Zenon DEF Nth
<1>2. ASSUME NEW i \in Positions(s, S) PROVE Nth(s, S, Rank(s, S, i)) = i
  <2>1. Rank(s, S, i) \in 1 .. Cardinality(Positions(s, S))
    BY RankBijective, Zenon
  <2>2. /\ Nth(s, S, Rank(s, S, i)) \in Positions(s, S)
        /\ Rank(s, S, Nth(s, S, Rank(s, S, i))) = Rank(s, S, i)
    BY <1>1, <2>1, Zenon
  <2>3. \A h, j \in Positions(s, S) : Rank(s, S, h) = Rank(s, S, j) => h = j
    BY RankBijective, Zenon
  <2> QED
    BY <2>2, <2>3, Zenon
<1> QED
  BY <1>1, <1>2, Zenon

\* What Keep keeps: elements of s in S, all of them.
LEMMA KeepFacts ==
  ASSUME NEW E, NEW s \in Seq(E), NEW S
  PROVE  /\ Keep(s, S) \in Seq(E \cap S)
         /\ Len(Keep(s, S)) = Cardinality(Positions(s, S))
         /\ Len(Keep(s, S)) \in 0 .. Len(s)
         /\ Range(Keep(s, S)) = Range(s) \cap S
<1> DEFINE n == Cardinality(Positions(s, S))
<1>1. n \in Nat /\ n \in 0 .. Len(s) /\ DOMAIN s = 1 .. Len(s)
  BY PositionsFinite
<1>2. \A i \in Positions(s, S) : s[i] \in E \cap S /\ i \in DOMAIN s
  BY DEF Positions
<1>3. \A k \in 1 .. n : s[Nth(s, S, k)] \in E \cap S
  BY <1>2, NthInverse
<1>4. Keep(s, S) \in Seq(E \cap S) /\ Len(Keep(s, S)) = n
  BY <1>1, <1>3 DEF Keep
<1>5. DOMAIN Keep(s, S) = 1 .. n /\ \A k \in 1 .. n : Keep(s, S)[k] = s[Nth(s, S, k)]
  BY DEF Keep
<1>6. Range(Keep(s, S)) \subseteq Range(s) \cap S
  BY <1>2, <1>3, <1>5, NthInverse DEF Range
<1>7. ASSUME NEW x \in Range(s) \cap S PROVE x \in Range(Keep(s, S))
  <2>1. PICK i \in DOMAIN s : s[i] = x
    BY <1>7 DEF Range
  <2>2. i \in Positions(s, S)
    BY <1>7, <2>1 DEF Positions
  <2>3. Rank(s, S, i) \in 1 .. n /\ Nth(s, S, Rank(s, S, i)) = i
    BY <2>2, RankBijective, NthInverse
  <2> QED
    BY <1>5, <2>1, <2>3 DEF Range
<1> QED
  BY <1>1, <1>4, <1>6, <1>7

-----------------------------------------------------------------------------
(* A trace that tells a sequence: the samples of a variable repeat each of *)
(* its values, one or more times, in the order the variable took them.     *)

Sample == [time : 0 .. Bound, value : Int]

Telling(tr, D, r) ==
  /\ r \in [1 .. Len(tr) -> 1 .. Len(D)]
  /\ Len(tr) >= 1 /\ Len(D) >= 1
  /\ r[1] = 1 /\ r[Len(tr)] = Len(D)
  /\ \A i \in 1 .. Len(tr) - 1 : r[i + 1] \in {r[i], r[i] + 1}
  /\ \A i \in 1 .. Len(tr) : tr[i].value = D[r[i]]

Tells(tr, D) == \E r \in [1 .. Len(tr) -> 1 .. Len(D)] : Telling(tr, D, r)

Distinct(D) == \A k \in 1 .. Len(D) - 1 : D[k] # D[k + 1]

\* A first sample tells its value.
LEMMA TellsFirst ==
  ASSUME NEW s \in Sample
  PROVE  Tells(<<s>>, <<s.value>>)
<1> DEFINE r == [i \in 1 .. 1 |-> 1]
<1>1. Len(<<s>>) = 1 /\ Len(<<s.value>>) = 1 /\ <<s>>[1] = s /\ <<s.value>>[1] = s.value
  OBVIOUS
<1>2. r \in [1 .. 1 -> 1 .. 1] /\ r[1] = 1
  OBVIOUS
<1>3. Telling(<<s>>, <<s.value>>, r)
  BY <1>1, <1>2 DEF Telling
<1> QED
  BY <1>1, <1>2, <1>3 DEF Tells

\* A sample that repeats the last value adds nothing to what is told.
LEMMA TellingSame ==
  ASSUME NEW tr \in Seq(Sample), NEW D \in Seq(Int), NEW r, Telling(tr, D, r),
         NEW s \in Sample, s.value = Last(tr).value
  PROVE  \E u \in [1 .. Len(Append(tr, s)) -> 1 .. Len(D)] :
           /\ Telling(Append(tr, s), D, u)
           /\ u[Len(tr) + 1] = r[Len(tr)] /\ \A i \in 1 .. Len(tr) : u[i] = r[i]
<1> DEFINE n == Len(tr)
           u == [i \in 1 .. n + 1 |-> IF i <= n THEN r[i] ELSE r[n]]
<1>1. /\ n \in Nat /\ n >= 1 /\ Len(D) \in Nat /\ Len(D) >= 1
      /\ r \in [1 .. n -> 1 .. Len(D)] /\ r[1] = 1 /\ r[n] = Len(D)
      /\ \A i \in 1 .. n - 1 : r[i + 1] \in {r[i], r[i] + 1}
      /\ \A i \in 1 .. n : tr[i].value = D[r[i]]
  BY DEF Telling
<1>2. /\ Len(Append(tr, s)) = n + 1 /\ Append(tr, s)[n + 1] = s
      /\ \A i \in 1 .. n : Append(tr, s)[i] = tr[i]
  OBVIOUS
<1> HIDE DEF n
<1>3. u \in [1 .. n + 1 -> 1 .. Len(D)] /\ u[n + 1] = r[n] /\ \A i \in 1 .. n : u[i] = r[i]
  BY <1>1
<1>4. \A i \in 1 .. n : u[i + 1] \in {u[i], u[i] + 1}
  <2> SUFFICES ASSUME NEW i \in 1 .. n PROVE u[i + 1] \in {u[i], u[i] + 1}
    OBVIOUS
  <2>1. CASE i = n
    BY <1>1, <1>3, <2>1
  <2>2. CASE i # n
    <3>1. i \in 1 .. n - 1 /\ i + 1 \in 1 .. n
      BY <1>1, <2>2
    <3>2. u[i] = r[i] /\ u[i + 1] = r[i + 1] /\ r[i + 1] \in {r[i], r[i] + 1}
      BY <1>1, <1>3, <3>1, Zenon
    <3> QED
      BY <3>2, Zenon
  <2> QED
    BY <2>1, <2>2
<1>5. s.value = D[r[n]]
  BY <1>1 DEF Last, n
<1>6. \A i \in 1 .. n + 1 : Append(tr, s)[i].value = D[u[i]]
  <2> SUFFICES ASSUME NEW i \in 1 .. n + 1 PROVE Append(tr, s)[i].value = D[u[i]]
    OBVIOUS
  <2>1. CASE i = n + 1
    BY <1>2, <1>3, <1>5, <2>1
  <2>2. CASE i # n + 1
    <3>1. i \in 1 .. n
      BY <1>1, <2>2
    <3> QED
      BY <1>1, <1>2, <1>3, <3>1, Zenon
  <2> QED
    BY <2>1, <2>2
<1> HIDE DEF u
<1>7. Telling(Append(tr, s), D, u)
  BY <1>1, <1>2, <1>3, <1>4, <1>6 DEF Telling
<1>8. u \in [1 .. Len(Append(tr, s)) -> 1 .. Len(D)]
  BY <1>2, <1>3
<1> QED
  BY <1>3, <1>7, <1>8 DEF n

\* What a trace tells with its last value repeated,
LEMMA TellsSame ==
  ASSUME NEW tr \in Seq(Sample), NEW D \in Seq(Int), Tells(tr, D),
         NEW s \in Sample, s.value = Last(tr).value
  PROVE  Tells(Append(tr, s), D) /\ tr # <<>>
<1>1. PICK r \in [1 .. Len(tr) -> 1 .. Len(D)] : Telling(tr, D, r)
  BY DEF Tells
<1>2. tr # <<>>
  BY <1>1 DEF Telling
<1> QED
  BY <1>1, <1>2, TellingSame DEF Tells

\* A sample of another value tells that value too.
LEMMA TellingNew ==
  ASSUME NEW tr \in Seq(Sample), NEW D \in Seq(Int), NEW r, Telling(tr, D, r), NEW s \in Sample
  PROVE  \E u \in [1 .. Len(Append(tr, s)) -> 1 .. Len(Append(D, s.value))] :
           /\ Telling(Append(tr, s), Append(D, s.value), u)
           /\ u[Len(tr) + 1] = Len(D) + 1 /\ \A i \in 1 .. Len(tr) : u[i] = r[i]
<1> DEFINE n == Len(tr)
           d == Len(D)
           u == [i \in 1 .. n + 1 |-> IF i <= n THEN r[i] ELSE d + 1]
           E == Append(D, s.value)
<1>1. /\ n \in Nat /\ n >= 1 /\ d \in Nat /\ d >= 1
      /\ r \in [1 .. n -> 1 .. d] /\ r[1] = 1 /\ r[n] = d
      /\ \A i \in 1 .. n - 1 : r[i + 1] \in {r[i], r[i] + 1}
      /\ \A i \in 1 .. n : tr[i].value = D[r[i]]
  BY DEF Telling
<1>2. /\ Len(Append(tr, s)) = n + 1 /\ Append(tr, s)[n + 1] = s
      /\ \A i \in 1 .. n : Append(tr, s)[i] = tr[i]
      /\ Len(E) = d + 1 /\ E[d + 1] = s.value /\ \A i \in 1 .. d : E[i] = D[i]
  OBVIOUS
<1> HIDE DEF n, d, E
<1>3. u \in [1 .. n + 1 -> 1 .. d + 1] /\ u[n + 1] = d + 1 /\ \A i \in 1 .. n : u[i] = r[i]
  BY <1>1
<1>4. \A i \in 1 .. n : u[i + 1] \in {u[i], u[i] + 1}
  <2> SUFFICES ASSUME NEW i \in 1 .. n PROVE u[i + 1] \in {u[i], u[i] + 1}
    OBVIOUS
  <2>1. CASE i = n
    BY <1>1, <1>3, <2>1
  <2>2. CASE i # n
    <3>1. i \in 1 .. n - 1 /\ i + 1 \in 1 .. n
      BY <1>1, <2>2
    <3>2. u[i] = r[i] /\ u[i + 1] = r[i + 1] /\ r[i + 1] \in {r[i], r[i] + 1}
      BY <1>1, <1>3, <3>1, Zenon
    <3> QED
      BY <3>2, Zenon
  <2> QED
    BY <2>1, <2>2
<1>5. \A i \in 1 .. n + 1 : Append(tr, s)[i].value = E[u[i]]
  <2> SUFFICES ASSUME NEW i \in 1 .. n + 1 PROVE Append(tr, s)[i].value = E[u[i]]
    OBVIOUS
  <2>1. CASE i = n + 1
    BY <1>2, <1>3, <2>1
  <2>2. CASE i # n + 1
    <3>1. i \in 1 .. n
      BY <1>1, <2>2
    <3>2. r[i] \in 1 .. d /\ u[i] = r[i]
      BY <1>1, <1>3, <3>1, Zenon
    <3>3. Append(tr, s)[i].value = D[r[i]] /\ E[r[i]] = D[r[i]]
      BY <1>1, <1>2, <3>1, <3>2, Zenon
    <3> QED
      BY <3>2, <3>3, Zenon
  <2> QED
    BY <2>1, <2>2
<1> HIDE DEF u
<1>6. Telling(Append(tr, s), E, u)
  BY <1>1, <1>2, <1>3, <1>4, <1>5 DEF Telling
<1>7. u \in [1 .. Len(Append(tr, s)) -> 1 .. Len(E)]
  BY <1>2, <1>3
<1> QED
  BY <1>3, <1>6, <1>7 DEF n, d, E

\* and with a new one.
LEMMA TellsNew ==
  ASSUME NEW tr \in Seq(Sample), NEW D \in Seq(Int), Tells(tr, D), NEW s \in Sample
  PROVE  Tells(Append(tr, s), Append(D, s.value)) /\ tr # <<>>
<1>1. PICK r \in [1 .. Len(tr) -> 1 .. Len(D)] : Telling(tr, D, r)
  BY DEF Tells
<1>2. tr # <<>>
  BY <1>1 DEF Telling
<1> QED
  BY <1>1, <1>2, TellingNew DEF Tells

\* The sequence told ends with the last value.
LEMMA TellsLast ==
  ASSUME NEW tr \in Seq(Sample), NEW D \in Seq(Int), Tells(tr, D)
  PROVE  Len(D) >= 1 /\ tr # <<>> /\ Last(tr).value = Last(D)
BY DEF Tells, Telling, Last

\* From a sample on, the first one of another value is the next of what is told; where
\* there is none, all is told.
LEMMA TellsNext ==
  ASSUME NEW tr \in Seq(Sample), NEW D \in Seq(Int), Distinct(D),
         NEW r, Telling(tr, D, r), NEW i \in 1 .. Len(tr)
  PROVE  LET later == {k \in i + 1 .. Len(tr) : tr[k].value # tr[i].value}
         IN /\ later = {} => r[i] = Len(D)
            /\ \A k \in later : (\A m \in later : k <= m) => r[k] = r[i] + 1
            /\ \A k \in i .. Len(tr) : (\A m \in i + 1 .. k : m \notin later) => r[k] = r[i]
<1> DEFINE n == Len(tr)
           later == {k \in i + 1 .. n : tr[k].value # tr[i].value}
           up == {k \in i + 1 .. n : r[k] # r[i]}
<1>1. /\ n \in Nat /\ Len(D) \in Nat
      /\ r \in [1 .. n -> 1 .. Len(D)] /\ r[1] = 1 /\ r[n] = Len(D)
      /\ \A k \in 1 .. n - 1 : r[k + 1] \in {r[k], r[k] + 1}
      /\ \A k \in 1 .. n : tr[k].value = D[r[k]]
      /\ i \in 1 .. n
  BY DEF Telling
<1> HIDE DEF n
<1>2. ASSUME NEW k \in up, \A m \in up : k <= m
      PROVE  r[k] = r[i] + 1 /\ k \in later
  <2>1. k \in 2 .. n /\ k - 1 \in 1 .. n - 1 /\ r[k] # r[i] /\ (k - 1) + 1 = k
    BY <1>1
  <2>2. r[k - 1] = r[i]
    <3>1. CASE k - 1 = i
      BY <3>1
    <3>2. CASE k - 1 # i
      <4>1. k \in i + 1 .. n /\ k - 1 \in i + 1 .. n /\ ~(k <= k - 1)
        BY <1>1, <3>2
      <4> QED
        BY <1>2, <4>1
    <3> QED
      BY <3>1, <3>2
  <2>3. r[k] \in {r[k - 1], r[k - 1] + 1}
    BY <1>1, <2>1
  <2>4. r[k] = r[i] + 1
    BY <2>1, <2>2, <2>3
  <2>5. r[i] \in 1 .. Len(D) - 1 /\ D[r[i] + 1] # D[r[i]]
    BY <1>1, <2>1, <2>4 DEF Distinct
  <2> QED
    BY <1>1, <2>1, <2>4, <2>5
<1>3. \A k \in later : k \in up
  <2> SUFFICES ASSUME NEW k \in later PROVE r[k] # r[i]
    OBVIOUS
  <2>1. k \in 1 .. n /\ tr[k].value # tr[i].value
    BY <1>1
  <2>2. tr[k].value = D[r[k]] /\ tr[i].value = D[r[i]]
    BY <1>1, <2>1, Zenon
  <2> QED
    BY <2>1, <2>2
<1>4. up # {} => \E k \in up : \A m \in up : k <= m
  <2>1. up \in SUBSET Nat
    BY <1>1
  <2> QED
    BY <2>1, LeastNatural
<1>5. later = {} => up = {}
  BY <1>2, <1>4
<1>6. up = {} => r[i] = Len(D)
  <2>1. i = n \/ n \in i + 1 .. n
    BY <1>1
  <2>2. n \in i + 1 .. n /\ up = {} => r[n] = r[i]
    OBVIOUS
  <2> QED
    BY <1>1, <2>1, <2>2
<1>7. ASSUME NEW k \in later, \A m \in later : k <= m PROVE r[k] = r[i] + 1
  <2>1. PICK h \in up : \A m \in up : h <= m
    BY <1>3, <1>4
  <2>2. h \in later /\ r[h] = r[i] + 1
    BY <1>2, <2>1
  <2>3. k <= h /\ h <= k
    BY <1>3, <1>7, <2>1, <2>2
  <2> QED
    BY <1>1, <2>2, <2>3
<1>8. ASSUME NEW k \in i .. n, \A m \in i + 1 .. k : m \notin later PROVE r[k] = r[i]
  <2> SUFFICES ASSUME r[k] # r[i] PROVE FALSE
    OBVIOUS
  <2>1. k \in up
    BY <1>1
  <2>2. PICK h \in up : \A m \in up : h <= m
    BY <1>4, <2>1
  <2>3. h \in later /\ h <= k
    BY <1>2, <2>1, <2>2
  <2> QED
    BY <1>1, <1>8, <2>3
<1> QED
  BY <1>5, <1>6, <1>7, <1>8 DEF n

-----------------------------------------------------------------------------
(* The traces of a simulation.                                             *)

Vars == Range(Variables(model))

Timed(tr, t) ==
  /\ tr # <<>>
  /\ \A i \in 2 .. Len(tr) : tr[i - 1].time <= tr[i].time
  /\ Last(tr).time <= t

Typed ==
  /\ model \in {"waypoint", "station"} /\ sampling \in {"changes", "end", "delays"}
  /\ now \in 0 .. Bound
  /\ value \in [Vars -> Int]
  /\ trace \in [Vars -> Seq(Sample)]
  /\ \A v \in Vars : Timed(trace[v], now) /\ Last(trace[v]).value = value[v]

\* tr is old with more behind it, up to time t; it ends with x.
Longer(tr, old, t, x) ==
  /\ tr \in Seq(Sample) /\ Timed(tr, t) /\ Last(tr).value = x
  /\ Len(tr) >= Len(old) /\ \A i \in 1 .. Len(old) : tr[i] = old[i]

\* The variables of the two models.
LEMMA VariablesOfModel ==
  /\ model = "waypoint" => /\ Cur = "Robot.cur_waypoint" /\ Dest = "Robot.dest_waypoint"
                           /\ Vars = {Cur, Dest, "Robot.Holding"} /\ Looked = Vars
                           /\ Variables(model) = <<Cur, Dest, "Robot.Holding">>
                           /\ Cur # Dest /\ "Robot.Holding" \notin {Cur, Dest}
  /\ model = "station" => /\ Cur = "Robot.converted_cur()" /\ Dest = "Robot.converted_dest()"
                          /\ Vars = {"Robot.initial_station", Cur, Dest} /\ Looked = {Dest}
                          /\ Variables(model) = <<"Robot.initial_station", Cur, Dest>>
                          /\ Cur # Dest /\ "Robot.initial_station" \notin {Cur, Dest}
<1>1. model = "waypoint" => model # "station"
  OBVIOUS
<1>2. ASSUME NEW s, NEW a, NEW b, NEW c, s = <<a, b, c>>
      PROVE  s[1] = a /\ s[2] = b /\ s[3] = c /\ Range(s) = {a, b, c}
  BY <1>2 DEF Range
<1>3. CASE model = "waypoint"
  <2>1. Variables(model) = <<"Robot.cur_waypoint", "Robot.dest_waypoint", "Robot.Holding">>
    BY <1>3 DEF Variables
  <2>2. Cur = "Robot.cur_waypoint" /\ Dest = "Robot.dest_waypoint"
        /\ Vars = {"Robot.cur_waypoint", "Robot.dest_waypoint", "Robot.Holding"} /\ Looked = Vars
    BY <1>2, <1>3, <2>1 DEF Cur, Dest, Vars, Looked
  <2> QED
    BY <1>1, <1>3, <2>1, <2>2
<1>4. CASE model = "station"
  <2>1. Variables(model) = <<"Robot.initial_station", "Robot.converted_cur()", "Robot.converted_dest()">>
    BY <1>4 DEF Variables
  <2>2. Cur = "Robot.converted_cur()" /\ Dest = "Robot.converted_dest()"
        /\ Vars = {"Robot.initial_station", "Robot.converted_cur()", "Robot.converted_dest()"}
        /\ Looked = {Dest}
    BY <1>2, <1>4, <2>1 DEF Cur, Dest, Vars, Looked
  <2> QED
    BY <1>1, <1>4, <2>1, <2>2
<1> QED
  BY <1>3, <1>4

\* One sample more.
LEMMA AppendLonger ==
  ASSUME NEW tr \in Seq(Sample), NEW t0 \in Int, Timed(tr, t0), NEW t \in 0 .. Bound, t0 <= t, NEW x \in Int
  PROVE  Longer(Append(tr, [time |-> t, value |-> x]), tr, t, x) /\ [time |-> t, value |-> x] \in Sample
<1> DEFINE s == [time |-> t, value |-> x]
           n == Len(tr)
<1>1. s \in Sample /\ s.time = t /\ s.value = x
  BY DEF Sample
<1>2. n \in Nat /\ n >= 1 /\ Last(tr) = tr[n] /\ tr[n] \in Sample /\ \A i \in 1 .. n : tr[i] \in Sample
  BY DEF Last, Timed
<1>3. /\ Append(tr, s) \in Seq(Sample) /\ Len(Append(tr, s)) = n + 1 /\ Append(tr, s)[n + 1] = s
      /\ \A i \in 1 .. n : Append(tr, s)[i] = tr[i]
  BY <1>1
<1>4. Last(Append(tr, s)) = s /\ Append(tr, s) # <<>>
  BY <1>2, <1>3 DEF Last
<1>5. \A i \in 1 .. n : tr[i].time \in Int
  BY <1>2 DEF Sample
<1>6. tr[n].time <= t
  BY <1>2, <1>5 DEF Timed
<1>7. \A i \in 2 .. n : tr[i - 1].time <= tr[i].time
  BY DEF Timed
<1> HIDE DEF n, s
<1>8. ASSUME NEW i \in 2 .. n + 1 PROVE Append(tr, s)[i - 1].time <= Append(tr, s)[i].time
  <2>1. CASE i = n + 1
    <3>1. i - 1 = n /\ n \in 1 .. n
      BY <1>2, <2>1
    <3>2. Append(tr, s)[i - 1] = tr[n] /\ Append(tr, s)[i] = s
      BY <1>3, <2>1, <3>1, Zenon
    <3> QED
      BY <1>1, <1>6, <3>2, Zenon
  <2>2. CASE i # n + 1
    <3>1. i \in 2 .. n /\ i \in 1 .. n /\ i - 1 \in 1 .. n
      BY <1>2, <2>2
    <3>2. Append(tr, s)[i - 1] = tr[i - 1] /\ Append(tr, s)[i] = tr[i]
      BY <1>3, <3>1, Zenon
    <3> QED
      BY <1>7, <3>1, <3>2, Zenon
  <2> QED
    BY <2>1, <2>2
<1>9. Last(Append(tr, s)).time = t /\ Last(Append(tr, s)).value = x /\ t <= t
  BY <1>1, <1>4
<1>10. Timed(Append(tr, s), t)
  BY <1>3, <1>4, <1>8, <1>9, Zenon DEF Timed
<1>11. n + 1 >= n
  BY <1>2
<1>12. Longer(Append(tr, s), tr, t, x)
  BY <1>3, <1>9, <1>10, <1>11, Zenon DEF Longer, n
<1> QED
  BY <1>1, <1>12 DEF s

\* What is not longer by a sample is still timed at a later time.
LEMMA SameLonger ==
  ASSUME NEW tr \in Seq(Sample), NEW t0 \in Int, Timed(tr, t0), NEW t \in Int, t0 <= t
  PROVE  Longer(tr, tr, t, Last(tr).value)
<1>1. Last(tr) \in Sample
  BY DEF Last, Timed
<1> QED
  BY <1>1 DEF Longer, Timed, Sample

\* Longer than a longer trace is longer.
LEMMA LongerTwice ==
  ASSUME NEW a, NEW b, NEW c, NEW t, NEW u, NEW x, NEW y, Len(a) \in Nat,
         Longer(b, a, t, x), Longer(c, b, u, y)
  PROVE  Longer(c, a, u, y)
<1>1. Len(b) \in Nat /\ Len(c) \in Nat /\ Len(c) >= Len(b) /\ Len(b) >= Len(a)
  BY DEF Longer
<1>2. Len(c) >= Len(a) /\ \A i \in 1 .. Len(a) : i \in 1 .. Len(b)
  BY <1>1
<1>3. \A i \in 1 .. Len(a) : c[i] = a[i]
  BY <1>2 DEF Longer
<1> QED
  BY <1>2, <1>3 DEF Longer

\* The last two samples of a variable where UPPAAL repeats the last one.
TwoAtEnd(tr) == Len(tr) >= 2 /\ tr[Len(tr)].value = tr[Len(tr) - 1].value

\* A repeated sample makes two.
LEMMA AppendTwo ==
  ASSUME NEW tr \in Seq(Sample), tr # <<>>, NEW s \in Sample, s.value = Last(tr).value
  PROVE  TwoAtEnd(Append(tr, s))
<1> DEFINE a == Append(tr, s)
           n == Len(tr)
<1>1. n \in Nat /\ n >= 1
  OBVIOUS
<1>2. Len(a) = n + 1 /\ a[n + 1] = s /\ a[n] = tr[n]
  OBVIOUS
<1> HIDE DEF a, n
<1>3. (n + 1) - 1 = n /\ n + 1 >= 2
  BY <1>1
<1>4. s.value = tr[n].value
  BY DEF Last, n
<1>5. TwoAtEnd(a)
  BY <1>2, <1>3, <1>4, Zenon DEF TwoAtEnd
<1> QED
  BY <1>5 DEF a

\* A trace with n samples more of its last value.
More(tr, t, n) == tr \o [i \in 1 .. n |-> [time |-> t, value |-> Last(tr).value]]

\* The sample that repeats the last one at t.
Again(s, tr, t) == s = [time |-> t, value |-> Last(tr).value]

\* One more of them is one sample more.
OneAgain(tr, t, s, k) == More(tr, t, 0) = tr /\ More(tr, t, k + 1) = Append(More(tr, t, k), s)

LEMMA MoreNext ==
  ASSUME NEW tr \in Seq(Sample), NEW t, NEW s \in Sample, Again(s, tr, t), NEW k \in Nat
  PROVE  OneAgain(tr, t, s, k)
<1>2. \A n : More(tr, t, n) = tr \o [i \in 1 .. n |-> s]
  BY Zenon DEF More, Again
<1>3. tr \o [i \in 1 .. 0 |-> s] = tr
  OBVIOUS
<1>4. tr \o [i \in 1 .. k + 1 |-> s] = Append(tr \o [i \in 1 .. k |-> s], s)
  <2>1. [i \in 1 .. k |-> s] \in Seq(Sample) /\ Len([i \in 1 .. k |-> s]) = k
    OBVIOUS
  <2>2. PICK q \in Seq(Sample) : q = [i \in 1 .. k |-> s] /\ Len(q) = k
    BY <2>1
  <2>3. [i \in 1 .. k + 1 |-> s] = Append(q, s)
    BY <2>2
  <2>4. tr \o Append(q, s) = Append(tr \o q, s)
    BY <2>2
  <2> QED
    BY <2>2, <2>3, <2>4, Zenon
<1>5. More(tr, t, 0) = tr /\ More(tr, t, k + 1) = Append(More(tr, t, k), s)
  BY <1>2, <1>3, <1>4, Zenon
<1> QED
  BY <1>5, Zenon DEF OneAgain

\* They repeat what the trace tells.
Repeats(tr, old, t, x) ==
  /\ Longer(tr, old, t, x)
  /\ \A D \in Seq(Int) : Tells(old, D) => Tells(tr, D)

\* A trace with n samples more of its last value repeats it.
LEMMA MoreRepeats ==
  ASSUME NEW tr \in Seq(Sample), NEW t0 \in Int, Timed(tr, t0), NEW t \in 0 .. Bound, t0 <= t,
         NEW x \in Int, x = Last(tr).value, NEW n \in Nat
  PROVE  Repeats(More(tr, t, n), tr, t, x) /\ (n >= 1 => TwoAtEnd(More(tr, t, n)))
<1>1. PICK s : s = [time |-> t, value |-> x]
  OBVIOUS
<1>2. s \in Sample /\ s.value = x
  BY <1>1 DEF Sample
<1>3. \A k \in Nat : More(tr, t, 0) = tr /\ More(tr, t, k + 1) = Append(More(tr, t, k), s)
  <2> SUFFICES ASSUME NEW k \in Nat
               PROVE  More(tr, t, 0) = tr /\ More(tr, t, k + 1) = Append(More(tr, t, k), s)
    OBVIOUS
  <2>1. Again(s, tr, t)
    BY <1>1, Zenon DEF Again
  <2>2. s \in Sample
    BY <1>2
  <2>3. OneAgain(tr, t, s, k)
    BY <2>1, <2>2, MoreNext
  <2> QED
    BY <2>3, Zenon DEF OneAgain
<1> DEFINE S == {k \in Nat : Repeats(More(tr, t, k), tr, t, x)}
<1>4. 0 \in S
  <2>1. Longer(tr, tr, t, x)
    BY SameLonger
  <2> QED
    BY <1>3, <2>1 DEF Repeats
<1>5. ASSUME NEW k \in Nat, k \in S
      PROVE  k + 1 \in S /\ TwoAtEnd(More(tr, t, k + 1))
  <2>1. PICK q : q = More(tr, t, k)
    OBVIOUS
  <2>2. Longer(q, tr, t, x) /\ \A D \in Seq(Int) : Tells(tr, D) => Tells(q, D)
    BY <1>5, <2>1 DEF Repeats
  <2>3. q \in Seq(Sample) /\ Timed(q, t) /\ Last(q).value = x /\ q # <<>>
    BY <2>2 DEF Longer, Timed
  <2>4. t \in Int /\ t <= t
    BY SchedulesAssumption
  <2>5. Longer(Append(q, s), q, t, x)
    BY <1>1, <2>3, <2>4, AppendLonger
  <2>6. Len(tr) \in Nat
    OBVIOUS
  <2>7. Longer(Append(q, s), tr, t, x)
    BY <2>2, <2>5, <2>6, LongerTwice, Zenon
  <2>8. ASSUME NEW D \in Seq(Int), Tells(tr, D) PROVE Tells(Append(q, s), D)
    <3>1. Tells(q, D)
      BY <2>2, <2>8, Zenon
    <3> QED
      BY <1>2, <2>3, <3>1, TellsSame
  <2>9. TwoAtEnd(Append(q, s))
    BY <1>2, <2>3, AppendTwo
  <2>10. Append(q, s) = More(tr, t, k + 1) /\ k + 1 \in Nat
    <3>1. k + 1 \in Nat
      OBVIOUS
    <3> QED
      BY <1>3, <2>1, <3>1, Zenon
  <2>11. Repeats(More(tr, t, k + 1), tr, t, x)
    BY <2>7, <2>8, <2>10, Zenon DEF Repeats
  <2> QED
    BY <2>9, <2>10, <2>11, Zenon
<1> HIDE DEF S
<1>6. \A k \in Nat : k \in S
  BY <1>4, <1>5, NatInSet
<1>7. Repeats(More(tr, t, n), tr, t, x)
  BY <1>6 DEF S
<1>8. ASSUME n >= 1 PROVE TwoAtEnd(More(tr, t, n))
  <2>1. n - 1 \in Nat /\ (n - 1) + 1 = n
    BY <1>8
  <2> QED
    BY <1>5, <1>6, <2>1, Zenon
<1> QED
  BY <1>7, <1>8

\* The last values once more, or several times, or never.
LEMMA RepeatedTraces ==
  ASSUME Typed, NEW t \in 0 .. Bound, now <= t, NEW n \in Nat
  PROVE  /\ Repeated(trace, t, n) \in [Vars -> Seq(Sample)]
         /\ \A v \in Vars : /\ Longer(Repeated(trace, t, n)[v], trace[v], t, value[v])
                            /\ n >= 1 => TwoAtEnd(Repeated(trace, t, n)[v])
                            /\ \A D \in Seq(Int) : Tells(trace[v], D) => Tells(Repeated(trace, t, n)[v], D)
<1>1. now \in Int /\ trace \in [Vars -> Seq(Sample)] /\ DOMAIN trace = Vars /\ value \in [Vars -> Int]
      /\ \A v \in Vars : Timed(trace[v], now) /\ Last(trace[v]).value = value[v]
  BY DEF Typed
<1>2. Repeated(trace, t, n) = [v \in Vars |-> More(trace[v], t, n)]
  BY <1>1, Zenon DEF Repeated, More
<1>3. ASSUME NEW v \in Vars
      PROVE  Repeats(More(trace[v], t, n), trace[v], t, value[v]) /\ (n >= 1 => TwoAtEnd(More(trace[v], t, n)))
  <2>1. trace[v] \in Seq(Sample) /\ Timed(trace[v], now) /\ value[v] = Last(trace[v]).value /\ value[v] \in Int
    BY <1>1
  <2> QED
    BY <1>1, <2>1, MoreRepeats
<1>4. \A v \in Vars : More(trace[v], t, n) \in Seq(Sample)
  BY <1>3, Zenon DEF Repeats, Longer
<1>5. Repeated(trace, t, n) \in [Vars -> Seq(Sample)]
  BY <1>2, <1>4, Zenon
<1>6. \A v \in Vars : Repeated(trace, t, n)[v] = More(trace[v], t, n)
  BY <1>2, Zenon
<1> QED
  BY <1>3, <1>5, <1>6, Zenon DEF Repeats

\* A delay leaves the values as they are, however it is split.
LEMMA DelayedTraces ==
  ASSUME Typed, NEW t \in 0 .. Bound, now <= t, NEW splits \in Nat
  PROVE  /\ Delayed(trace, t, splits) \in [Vars -> Seq(Sample)]
         /\ \A v \in Vars : /\ Longer(Delayed(trace, t, splits)[v], trace[v], t, value[v])
                            /\ \A D \in Seq(Int) : Tells(trace[v], D) => Tells(Delayed(trace, t, splits)[v], D)
<1>1. CASE sampling = "delays" /\ t # now
  <2>1. Delayed(trace, t, splits) = Repeated(trace, t, splits + 1) /\ splits + 1 \in Nat
    BY <1>1 DEF Delayed
  <2> QED
    BY <2>1, RepeatedTraces
<1>2. CASE ~(sampling = "delays" /\ t # now)
  <2>1. now \in Int /\ trace \in [Vars -> Seq(Sample)]
        /\ \A v \in Vars : Timed(trace[v], now) /\ Last(trace[v]).value = value[v]
    BY DEF Typed
  <2>2. Delayed(trace, t, splits) = trace
    BY <1>2 DEF Delayed
  <2>3. \A v \in Vars : Longer(trace[v], trace[v], t, value[v])
    BY <2>1, SameLonger
  <2> QED
    BY <2>1, <2>2, <2>3
<1> QED
  BY <1>1, <1>2

\* Traces C after a change of v from x to new, where they were T.
AddsValue(C, T, v, t, x, new) ==
  /\ C \in [Vars -> Seq(Sample)]
  /\ \A u \in Vars : u # v => C[u] = T[u]
  /\ Longer(C[v], T[v], t, new)
  /\ \A D \in Seq(Int) : Tells(T[v], D) => Tells(C[v], IF new # x THEN Append(D, new) ELSE D)

\* A change adds the new value to what the traces tell.
LEMMA ChangedTraces ==
  ASSUME NEW T \in [Vars -> Seq(Sample)], NEW t \in 0 .. Bound, NEW v \in Vars, NEW new \in Int,
         NEW x \in Int, Timed(T[v], t), Last(T[v]).value = x
  PROVE  AddsValue(Changed(T, v, t, new), T, v, t, x, new)
<1>1. T[v] \in Seq(Sample) /\ Bound \in Nat /\ t \in Int /\ t <= t
  BY SchedulesAssumption
<1>2. CASE x = new
  <2>1. Changed(T, v, t, new) = T
    BY <1>2 DEF Changed
  <2>2. Longer(T[v], T[v], t, new)
    BY <1>1, <1>2, SameLonger
  <2> QED
    BY <1>2, <2>1, <2>2 DEF AddsValue
<1>3. CASE x # new
  <2> DEFINE s == [time |-> t, value |-> new]
             o == [time |-> t, value |-> x]
  <2>1. CASE Last(T[v]).time = t
    <3>1. Changed(T, v, t, new) = [T EXCEPT ![v] = @ \o <<>> \o <<s>>]
      BY <1>3, <2>1 DEF Changed
    <3>2. T[v] \o <<>> \o <<s>> = Append(T[v], s)
      BY <1>1
    <3>3. /\ \A u \in Vars : u # v => Changed(T, v, t, new)[u] = T[u]
          /\ Changed(T, v, t, new)[v] = Append(T[v], s)
          /\ Append(T[v], s) \in Seq(Sample) => Changed(T, v, t, new) \in [Vars -> Seq(Sample)]
      BY <3>1, <3>2
    <3>4. Longer(Append(T[v], s), T[v], t, new) /\ s \in Sample
      BY <1>1, AppendLonger
    <3>5. Append(T[v], s) \in Seq(Sample) /\ s.value = new
      BY <3>4 DEF Longer
    <3>6. ASSUME NEW D \in Seq(Int), Tells(T[v], D) PROVE Tells(Append(T[v], s), Append(D, new))
      <4> HIDE DEF s
      <4>1. Tells(Append(T[v], s), Append(D, s.value))
        BY <1>1, <3>4, <3>6, TellsNew
      <4> QED
        BY <3>5, <4>1
    <3> QED
      BY <1>3, <3>3, <3>4, <3>5, <3>6 DEF AddsValue
  <2>2. CASE Last(T[v]).time # t
    <3> DEFINE A == Append(T[v], o)
    <3>1. Changed(T, v, t, new) = [T EXCEPT ![v] = @ \o <<o>> \o <<s>>]
      BY <1>3, <2>2 DEF Changed
    <3>2. T[v] \o <<o>> \o <<s>> = Append(A, s)
      <4>1. s \in Sample /\ o \in Sample
        BY DEF Sample
      <4> HIDE DEF s, o
      <4> QED
        BY <1>1, <4>1
    <3>3. /\ \A u \in Vars : u # v => Changed(T, v, t, new)[u] = T[u]
          /\ Changed(T, v, t, new)[v] = Append(A, s)
          /\ Append(A, s) \in Seq(Sample) => Changed(T, v, t, new) \in [Vars -> Seq(Sample)]
      BY <3>1, <3>2
    <3>4. Longer(A, T[v], t, x) /\ o \in Sample /\ o.value = x
      BY <1>1, AppendLonger
    <3>5. A \in Seq(Sample) /\ Timed(A, t) /\ Last(A).value = x
      BY <3>4 DEF Longer
    <3> HIDE DEF A
    <3>6. Longer(Append(A, s), A, t, new) /\ s \in Sample
      BY <1>1, <3>5, AppendLonger
    <3>7. Longer(Append(A, s), T[v], t, new)
      BY <1>1, <3>4, <3>6, LongerTwice
    <3>8. Append(A, s) \in Seq(Sample) /\ s.value = new
      BY <3>6 DEF Longer
    <3>9. ASSUME NEW D \in Seq(Int), Tells(T[v], D) PROVE Tells(Append(A, s), Append(D, new))
      <4> HIDE DEF s, o
      <4>1. Tells(A, D)
        BY <1>1, <3>4, <3>9, TellsSame DEF A
      <4>2. Tells(Append(A, s), Append(D, s.value))
        BY <3>5, <3>6, <4>1, TellsNew
      <4> QED
        BY <3>8, <4>2
    <3> QED
      BY <1>3, <3>3, <3>7, <3>8, <3>9 DEF AddsValue
  <2> QED
    BY <2>1, <2>2
<1> QED
  BY <1>2, <1>3

\* The traces grow, and tell a new value of v.
Grows(v, t, new) ==
  /\ \A u \in Vars : Longer(trace'[u], trace[u], t, value'[u])
  /\ \A u \in Vars : \A D \in Seq(Int) : Tells(trace[u], D) =>
       Tells(trace'[u], IF u = v /\ new # value[v] THEN Append(D, new) ELSE D)

\* What a move of the robot does to the traces: they grow, and tell the new value.
LEMMA MoveTraces ==
  ASSUME Typed, NEW from, NEW to, NEW t \in Int, now <= t, NEW v \in Vars, NEW new \in Int,
         Move(from, to, t, v, new)
  PROVE  /\ Typed'
         /\ value' = [value EXCEPT ![v] = new]
         /\ Grows(v, t, new)
<1>11. PICK splits \in 0 .. MaxSplits : trace' = Changed(Delayed(trace, t, splits), v, t, new)
  BY Zenon DEF Move
<1> DEFINE T == Delayed(trace, t, splits)
           C == Changed(T, v, t, new)
<1>1. now \in 0 .. Bound /\ Bound \in Nat
  BY SchedulesAssumption DEF Typed
<1>2. /\ t \in 0 .. Bound /\ now' = t /\ model' = model /\ sampling' = sampling
      /\ value' = [value EXCEPT ![v] = new] /\ trace' = C
  <2>1. /\ t <= Bound /\ now' = t /\ model' = model /\ sampling' = sampling
        /\ value' = [value EXCEPT ![v] = new] /\ trace' = C
    BY <1>11, Zenon DEF Move, simVars
  <2> QED
    BY <1>1, <2>1
<1>3. value \in [Vars -> Int] /\ trace \in [Vars -> Seq(Sample)] /\ Vars' = Vars
      /\ model \in {"waypoint", "station"} /\ sampling \in {"changes", "end", "delays"}
  BY <1>2 DEF Typed, Vars
<1>4. T \in [Vars -> Seq(Sample)]
      /\ \A u \in Vars : /\ Longer(T[u], trace[u], t, value[u])
                         /\ \A D \in Seq(Int) : Tells(trace[u], D) => Tells(T[u], D)
  <2>1. splits \in Nat
    BY SchedulesAssumption
  <2> HIDE DEF C
  <2> QED
    BY <1>2, <2>1, DelayedTraces
<1> HIDE DEF T, C
<1>5. Timed(T[v], t) /\ Last(T[v]).value = value[v] /\ value[v] \in Int
  BY <1>3, <1>4 DEF Longer
<1>6. /\ C \in [Vars -> Seq(Sample)]
      /\ \A u \in Vars : u # v => C[u] = T[u]
      /\ Longer(C[v], T[v], t, new)
      /\ \A D \in Seq(Int) : Tells(T[v], D) => Tells(C[v], IF new # value[v] THEN Append(D, new) ELSE D)
  <2>1. /\ T \in [Vars -> Seq(Sample)] /\ t \in 0 .. Bound
        /\ Timed(T[v], t) /\ Last(T[v]).value = value[v] /\ value[v] \in Int
    BY <1>2, <1>4, <1>5
  <2>2. AddsValue(Changed(T, v, t, new), T, v, t, value[v], new)
    BY <2>1, ChangedTraces, Zenon
  <2> QED
    BY <2>2 DEF C, AddsValue
<1>7. value' \in [Vars -> Int] /\ value'[v] = new /\ \A u \in Vars : u # v => value'[u] = value[u]
  BY <1>2, <1>3
<1>8. ASSUME NEW u \in Vars PROVE Longer(C[u], trace[u], t, value'[u])
  <2>1. CASE u = v
    <3>1. Len(trace[v]) \in Nat
      BY <1>3
    <3>2. Longer(T[v], trace[v], t, value[v]) /\ Longer(C[v], T[v], t, new)
      BY <1>4, <1>6
    <3>3. Longer(C[v], trace[v], t, new)
      BY <3>1, <3>2, LongerTwice
    <3> QED
      BY <1>7, <2>1, <3>3
  <2>2. CASE u # v
    <3>1. C[u] = T[u] /\ value'[u] = value[u] /\ Longer(T[u], trace[u], t, value[u])
      BY <1>4, <1>6, <1>7, <2>2
    <3> QED
      BY <3>1
  <2> QED
    BY <2>1, <2>2
<1>9. ASSUME NEW u \in Vars, NEW D \in Seq(Int), Tells(trace[u], D)
      PROVE  Tells(C[u], IF u = v /\ new # value[v] THEN Append(D, new) ELSE D)
  <2>1. Tells(T[u], D)
    BY <1>4, <1>9
  <2>2. CASE u = v
    BY <1>6, <2>1, <2>2
  <2>3. CASE u # v
    BY <1>6, <2>1, <2>3
  <2> QED
    BY <2>2, <2>3
<1>10. Typed'
  <2>1. \A u \in Vars : Timed(C[u], t) /\ Last(C[u]).value = value'[u]
    BY <1>8 DEF Longer
  <2> QED
    BY <1>2, <1>3, <1>6, <1>7, <2>1 DEF Typed
<1> QED
  BY <1>2, <1>8, <1>9, <1>10 DEF Grows

-----------------------------------------------------------------------------
(* The station model.                                                      *)

StationTrip == [id : Stations, held : {0}, arrived : BOOLEAN]

\* What converted_dest() tells: station 1 before the first choice, then the choices.
StationsTold ==
  <<convert_to_waypoint_id[1]>> \o
    (IF trips # <<>> /\ trips[1].id = 1 THEN <<>>
     ELSE [i \in DOMAIN trips |-> convert_to_waypoint_id[trips[i].id]])

StationInv ==
  /\ trips \in Seq(StationTrip)
  /\ visited \subseteq Stations
  /\ loc \in {"Start", "ToNext", "Choose", "EnRoute", "Waiting", "Done", "Convert", "Loop"}
  /\ loc \in {"EnRoute", "Waiting"} => trips # <<>>
  /\ loc \in {"Start", "ToNext"} => trips = <<>>
  /\ loc \in {"Choose", "Done"} => \A k \in 1 .. Len(trips) : trips[k].id \in visited
  /\ \A k \in 1 .. Len(trips) - 1 : trips[k].id \in visited
  /\ \A k \in 1 .. Len(trips) - 1 : ~is_endstation(trips[k].id) /\ trips[k].id # trips[k + 1].id
  /\ Tells(trace[Dest], StationsTold)

\* What the station model does before the answer.
StationMove ==
  \/ StationStart \/ StationToNext \/ StationDone \/ StationArrive \/ StationVisited
  \/ \E id \in Stations : StationChoose(id)

\* What the station model takes from its constants.
LEMMA StationConstants ==
  /\ Stations \subseteq Nat /\ 1 \in Stations /\ is_endstation(1)
  /\ convert_to_waypoint_id \in [Stations -> Nat]
  /\ \A s, t \in Stations : convert_to_waypoint_id[s] = convert_to_waypoint_id[t] => s = t
  /\ StationTimes \subseteq Nat /\ Bound \in Nat
<1>1. Cardinality(Stations) \in Nat
  BY SchedulesAssumption, FS_CardinalityType
<1>2. /\ Stations = 1 .. Cardinality(Stations) /\ num_end_stations \in Stations
      /\ convert_to_waypoint_id \in [Stations -> Nat]
      /\ \A s, t \in Stations : convert_to_waypoint_id[s] = convert_to_waypoint_id[t] => s = t
      /\ StationTimes \subseteq Nat /\ Bound \in Nat
  BY SchedulesAssumption
<1>3. Stations \subseteq Nat /\ 1 \in Stations /\ 1 <= num_end_stations
  BY <1>1, <1>2
<1> QED
  BY <1>2, <1>3 DEF is_endstation

\* The types of what is told; it repeats no station.
LEMMA StationsToldFacts ==
  ASSUME StationInv
  PROVE  /\ StationsTold \in Seq(Int) /\ Distinct(StationsTold)
         /\ trips # <<>> /\ trips[1].id = 1 => Len(trips) = 1 /\ StationsTold = <<convert_to_waypoint_id[1]>>
         /\ ~(trips # <<>> /\ trips[1].id = 1) =>
               /\ Len(StationsTold) = Len(trips) + 1 /\ StationsTold[1] = convert_to_waypoint_id[1]
               /\ \A i \in 1 .. Len(trips) : StationsTold[i + 1] = convert_to_waypoint_id[trips[i].id]
<1> DEFINE n == Len(trips)
           w == convert_to_waypoint_id
           W == [i \in 1 .. n |-> w[trips[i].id]]
<1>1. /\ trips \in Seq(StationTrip) /\ n \in Nat /\ DOMAIN trips = 1 .. n
      /\ \A i \in 1 .. n : trips[i].id \in Stations
      /\ \A k \in 1 .. n - 1 : ~is_endstation(trips[k].id) /\ trips[k].id # trips[k + 1].id
  <2>1. trips \in Seq(StationTrip)
        /\ \A k \in 1 .. Len(trips) - 1 : ~is_endstation(trips[k].id) /\ trips[k].id # trips[k + 1].id
    BY DEF StationInv
  <2>2. n \in Nat /\ DOMAIN trips = 1 .. n /\ \A i \in 1 .. n : trips[i] \in StationTrip
    BY <2>1
  <2>3. \A i \in 1 .. n : trips[i].id \in Stations
    BY <2>2 DEF StationTrip
  <2> QED
    BY <2>1, <2>2, <2>3
<1>2. /\ Stations \subseteq Nat /\ 1 \in Stations /\ is_endstation(1)
      /\ w \in [Stations -> Nat]
      /\ \A s, t \in Stations : w[s] = w[t] => s = t
  BY StationConstants
<1>3. \A i \in 1 .. n : w[trips[i].id] \in Int
  <2> SUFFICES ASSUME NEW i \in 1 .. n PROVE w[trips[i].id] \in Int
    OBVIOUS
  <2>1. trips[i].id \in Stations
    BY <1>1
  <2>2. w \in [Stations -> Nat]
    BY <1>2
  <2> QED
    BY <2>1, <2>2
<1>4. W \in Seq(Int) /\ Len(W) = n /\ \A i \in 1 .. n : W[i] = w[trips[i].id]
  BY <1>1, <1>3
<1>5. w[1] \in Int
  BY <1>2
<1>6. CASE trips # <<>> /\ trips[1].id = 1
  <2>1. StationsTold = <<w[1]>>
    BY <1>5, <1>6 DEF StationsTold
  <2>2. n = 1
    <3>1. n >= 1
      BY <1>1, <1>6
    <3> QED
      BY <1>1, <1>2, <1>6, <3>1
  <2>3. <<w[1]>> \in Seq(Int) /\ Distinct(<<w[1]>>)
    BY <1>5 DEF Distinct
  <2> QED
    BY <1>6, <2>1, <2>2, <2>3
<1>7. CASE ~(trips # <<>> /\ trips[1].id = 1)
  <2> HIDE DEF W
  <2>1. StationsTold = <<w[1]>> \o W
    BY <1>1, <1>7 DEF StationsTold, W
  <2>2. /\ StationsTold \in Seq(Int) /\ Len(StationsTold) = n + 1 /\ StationsTold[1] = w[1]
        /\ \A i \in 1 .. n : StationsTold[i + 1] = W[i]
    BY <1>4, <1>5, <2>1
  <2>3. ASSUME NEW k \in 1 .. n PROVE StationsTold[k] # StationsTold[k + 1]
    <3>1. CASE k = 1
      <4>1. trips # <<>> /\ trips[1].id \in Stations /\ trips[1].id # 1
        BY <1>1, <1>7, <3>1
      <4>2. StationsTold[k] = w[1] /\ StationsTold[k + 1] = w[trips[1].id]
        BY <1>4, <2>2, <3>1
      <4> QED
        BY <1>2, <4>1, <4>2
    <3>2. CASE k # 1
      <4>1. k - 1 \in 1 .. n - 1 /\ k - 1 \in 1 .. n /\ (k - 1) + 1 = k
        BY <1>1, <3>2
      <4>2. trips[k - 1].id # trips[k].id /\ trips[k - 1].id \in Stations /\ trips[k].id \in Stations
        BY <1>1, <4>1
      <4>3. StationsTold[k] = w[trips[k - 1].id] /\ StationsTold[k + 1] = w[trips[k].id]
        BY <1>4, <2>2, <4>1
      <4> QED
        BY <1>2, <4>2, <4>3
    <3> QED
      BY <3>1, <3>2
  <2>4. Distinct(StationsTold)
    BY <1>1, <2>2, <2>3 DEF Distinct
  <2> QED
    BY <1>4, <1>7, <2>2, <2>4
<1> QED
  BY <1>6, <1>7

\* A move that chooses no station leaves told what was told.
LEMMA StationQuietMove ==
  ASSUME Typed, model = "station", StationInv, NEW from, NEW to, NEW t \in Int, now <= t, NEW v \in Vars,
         NEW new \in Int, Move(from, to, t, v, new), v = Dest => new = value[Dest],
         StationsTold' = StationsTold
  PROVE  Typed' /\ Tells(trace'[Dest'], StationsTold') /\ loc = from /\ loc' = to /\ model' = "station"
         /\ Dest' = Dest
<1>1. Dest \in Vars
  BY VariablesOfModel
<1>2. StationsTold \in Seq(Int)
  BY StationsToldFacts
<1>3. Typed' /\ Grows(v, t, new)
  BY MoveTraces
<1>4. Tells(trace[Dest], StationsTold)
  BY DEF StationInv
<1>5. Tells(trace'[Dest], IF Dest = v /\ new # value[v] THEN Append(StationsTold, new) ELSE StationsTold)
  BY <1>1, <1>2, <1>3, <1>4 DEF Grows
<1>6. Tells(trace'[Dest], StationsTold)
  BY <1>5
<1>7. model' = model /\ loc = from /\ loc' = to
  BY Zenon DEF Move, simVars
<1>8. Dest' = Dest
  BY <1>7 DEF Dest, Variables
<1> QED
  BY <1>3, <1>6, <1>7, <1>8

\* The last element of a sequence.
LEMMA LastInSeq ==
  ASSUME NEW T, NEW s \in Seq(T), s # <<>>
  PROVE  s[Len(s)] \in T
OBVIOUS

\* Another last element of a sequence.
LEMMA NewLast ==
  ASSUME NEW T, NEW s \in Seq(T), s # <<>>, NEW x \in T, NEW y, y = [s EXCEPT ![Len(s)] = x]
  PROVE  /\ y \in Seq(T) /\ Len(y) = Len(s) /\ y[Len(s)] = x /\ Len(s) \in Nat
         /\ \A k \in 1 .. Len(s) : k # Len(s) => y[k] = s[k]
OBVIOUS

\* Arriving changes no id.
LEMMA ArrivedIds ==
  ASSUME NEW S, NEW H, trips \in Seq([id : S, held : H, arrived : BOOLEAN]), trips # <<>>, Arrived
  PROVE  /\ trips' \in Seq([id : S, held : H, arrived : BOOLEAN]) /\ Len(trips') = Len(trips)
         /\ \A k \in 1 .. Len(trips) : trips'[k].id = trips[k].id /\ trips'[k].held = trips[k].held
         /\ \A k \in 1 .. Len(trips) - 1 : trips'[k] = trips[k]
         /\ trips'[Len(trips)].arrived = TRUE
<1> DEFINE T == [id : S, held : H, arrived : BOOLEAN]
           n == Len(trips)
           last == [trips[n] EXCEPT !.arrived = TRUE]
<1>1. trips \in Seq(T)
  OBVIOUS
<1>2. trips' = [trips EXCEPT ![Len(trips)] = last]
  BY DEF Arrived
<1>3. trips[n] \in T
  BY <1>1, LastInSeq, Zenon
<1>4. last \in T /\ last.id = trips[n].id /\ last.held = trips[n].held /\ last.arrived = TRUE
  BY <1>3
<1> HIDE DEF last, T
<1>5. /\ trips' \in Seq(T) /\ Len(trips') = n /\ trips'[n] = last /\ n \in Nat
      /\ \A k \in 1 .. n : k # n => trips'[k] = trips[k]
  <2>1. trips # <<>>
    OBVIOUS
  <2> QED
    BY <1>1, <1>2, <1>4, <2>1, NewLast
<1> HIDE DEF n
<1>6. \A k \in 1 .. n : trips'[k].id = trips[k].id /\ trips'[k].held = trips[k].held
  BY <1>4, <1>5
<1>7. \A k \in 1 .. n - 1 : k \in 1 .. n /\ k # n
  BY <1>5
<1>8. \A k \in 1 .. n - 1 : trips'[k] = trips[k]
  BY <1>5, <1>7
<1> QED
  BY <1>4, <1>5, <1>6, <1>8 DEF T, n

\* Trips to the same stations tell the same.
LEMMA SameStationsTold ==
  ASSUME trips \in Seq(StationTrip), trips' \in Seq(StationTrip), Len(trips') = Len(trips),
         \A k \in 1 .. Len(trips) : trips'[k].id = trips[k].id
  PROVE  StationsTold' = StationsTold
<1> DEFINE w == convert_to_waypoint_id
<1>1. DOMAIN trips = 1 .. Len(trips) /\ DOMAIN trips' = 1 .. Len(trips) /\ Len(trips) \in Nat
  OBVIOUS
<1>2. [i \in DOMAIN trips' |-> w[trips'[i].id]] = [i \in DOMAIN trips |-> w[trips[i].id]]
  BY <1>1
<1>3. (trips' # <<>> /\ trips'[1].id = 1) = (trips # <<>> /\ trips[1].id = 1)
  <2>1. (trips' # <<>>) = (Len(trips) >= 1) /\ (trips # <<>>) = (Len(trips) >= 1)
    BY <1>1
  <2>2. Len(trips) >= 1 => 1 \in 1 .. Len(trips)
    BY <1>1
  <2> QED
    BY <2>1, <2>2
<1> QED
  BY <1>2, <1>3, Zenon DEF StationsTold

\* Each move of the robot in the station model.
LEMMA StationChooses ==
  ASSUME Typed, model = "station", StationInv, NEW id \in Stations, StationChoose(id)
  PROVE  Typed' /\ StationInv' /\ model' = "station"
<1> DEFINE w == convert_to_waypoint_id
           n == Len(trips)
           trip == [id |-> id, held |-> 0, arrived |-> FALSE]
<1>1. /\ ~endstation_visited /\ id \notin visited
      /\ Move("Choose", "EnRoute", now, Dest, w[id]) /\ trips' = Append(trips, trip) /\ visited' = visited
  BY DEF StationChoose, can_visit, Chosen
<1>2. /\ Stations \subseteq Nat /\ 1 \in Stations /\ is_endstation(1) /\ w \in [Stations -> Nat]
      /\ \A s, t \in Stations : w[s] = w[t] => s = t
  BY StationConstants
<1>3. w[id] \in Int /\ now \in Int /\ now <= now /\ Dest \in Vars /\ Bound \in Nat
  BY <1>2, VariablesOfModel, StationConstants DEF Typed
<1>4. Typed' /\ Grows(Dest, now, w[id])
  BY <1>1, <1>3, MoveTraces
<1>5. loc = "Choose" /\ loc' = "EnRoute" /\ model' = "station" /\ Dest' = Dest
  BY <1>1, Zenon DEF Move, simVars, Dest, Variables
<1>6. /\ trips \in Seq(StationTrip) /\ n \in Nat /\ visited \subseteq Stations
      /\ \A k \in 1 .. n : trips[k].id \in visited
      /\ \A k \in 1 .. n - 1 : ~is_endstation(trips[k].id) /\ trips[k].id # trips[k + 1].id
      /\ Tells(trace[Dest], StationsTold)
  BY <1>5 DEF StationInv
<1>7. /\ StationsTold \in Seq(Int)
      /\ trips # <<>> /\ trips[1].id = 1 => n = 1 /\ StationsTold = <<w[1]>>
      /\ ~(trips # <<>> /\ trips[1].id = 1) =>
            /\ Len(StationsTold) = n + 1 /\ StationsTold[1] = w[1]
            /\ \A i \in 1 .. n : StationsTold[i + 1] = w[trips[i].id]
  BY StationsToldFacts
<1>8. value[Dest] = Last(StationsTold)
  <2>1. trace[Dest] \in Seq(Sample) /\ Last(trace[Dest]).value = value[Dest]
    BY <1>3 DEF Typed
  <2> QED
    BY <1>6, <1>7, <2>1, TellsLast
<1>9. \A k \in 1 .. n : ~is_endstation(trips[k].id) /\ trips[k].id # id
  BY <1>1, <1>6 DEF endstation_visited
<1>10. trip \in StationTrip /\ trip.id = id
  BY DEF StationTrip
<1> HIDE DEF trip, n
<1>11. /\ trips' \in Seq(StationTrip) /\ Len(trips') = n + 1 /\ trips'[n + 1] = trip /\ trips' # <<>>
       /\ \A k \in 1 .. n : trips'[k] = trips[k]
  BY <1>1, <1>6, <1>10 DEF n
<1>12. \A k \in 1 .. n : ~is_endstation(trips'[k].id) /\ trips'[k].id # trips'[k + 1].id
  <2> SUFFICES ASSUME NEW k \in 1 .. n
               PROVE  ~is_endstation(trips'[k].id) /\ trips'[k].id # trips'[k + 1].id
    OBVIOUS
  <2>1. trips'[k] = trips[k] /\ ~is_endstation(trips[k].id) /\ trips[k].id # id
    BY <1>9, <1>11
  <2>2. CASE k = n
    BY <1>10, <1>11, <2>1, <2>2
  <2>3. CASE k # n
    <3>1. k \in 1 .. n - 1 /\ k + 1 \in 1 .. n
      BY <1>6, <2>3
    <3>2. trips'[k + 1] = trips[k + 1] /\ trips[k].id # trips[k + 1].id
      BY <1>6, <1>11, <3>1
    <3> QED
      BY <2>1, <3>2
  <2> QED
    BY <2>2, <2>3
<1>13. Tells(trace'[Dest], StationsTold')
  <2>1. trips = <<>> \/ trips[1].id # 1
    <3>1. trips # <<>> => 1 \in 1 .. n
      BY <1>6 DEF n
    <3> QED
      BY <1>2, <1>9, <3>1
  <2>2. Tells(trace'[Dest], IF w[id] # value[Dest] THEN Append(StationsTold, w[id]) ELSE StationsTold)
    BY <1>3, <1>4, <1>6, <1>7 DEF Grows
  <2>3. CASE n = 0 /\ id = 1
    <3>1. trips = <<>>
      BY <1>6, <2>3 DEF n
    <3>2. StationsTold = <<w[1]>> \o [i \in DOMAIN trips |-> w[trips[i].id]]
      BY <3>1 DEF StationsTold
    <3>3. StationsTold = <<w[1]>>
      BY <1>2, <3>1, <3>2
    <3>4. StationsTold' = <<w[1]>> \o <<>>
      <4>1. trips' # <<>> /\ trips'[1].id = 1
        BY <1>10, <1>11, <2>3
      <4> QED
        BY <4>1, Zenon DEF StationsTold
    <3>5. StationsTold' = <<w[1]>>
      BY <1>2, <3>4
    <3>6. value[Dest] = w[1]
      BY <1>8, <3>3 DEF Last
    <3> QED
      BY <2>2, <2>3, <3>3, <3>5, <3>6
  <2>4. CASE ~(n = 0 /\ id = 1)
    <3>1. ~(trips' # <<>> /\ trips'[1].id = 1)
      <4>1. CASE n = 0
        BY <1>10, <1>11, <2>4, <4>1
      <4>2. CASE n # 0
        <5>1. 1 \in 1 .. n /\ trips # <<>>
          BY <1>6, <4>2 DEF n
        <5> QED
          BY <1>11, <2>1, <5>1
      <4> QED
        BY <4>1, <4>2
    <3> DEFINE W == [i \in 1 .. n + 1 |-> w[trips'[i].id]]
    <3>2. StationsTold' = <<w[1]>> \o W
      BY <1>11, <3>1 DEF StationsTold
    <3>3. \A i \in 1 .. n + 1 : w[trips'[i].id] \in Int
      <4> SUFFICES ASSUME NEW i \in 1 .. n + 1 PROVE w[trips'[i].id] \in Int
        OBVIOUS
      <4>1. trips'[i] \in StationTrip
        BY <1>6, <1>11
      <4>2. trips'[i].id \in Stations
        BY <4>1 DEF StationTrip
      <4>3. w \in [Stations -> Nat]
        BY <1>2
      <4> QED
        BY <4>2, <4>3
    <3>4. W \in Seq(Int) /\ Len(W) = n + 1 /\ \A i \in 1 .. n + 1 : W[i] = w[trips'[i].id]
      BY <1>6, <3>3
    <3> HIDE DEF W
    <3>5. w[1] \in Int
      BY <1>2
    <3>6. /\ StationsTold' \in Seq(Int) /\ Len(StationsTold') = n + 2 /\ StationsTold'[1] = w[1]
          /\ \A i \in 1 .. n + 1 : StationsTold'[i + 1] = W[i]
      BY <1>6, <3>2, <3>4, <3>5
    <3> DEFINE A == Append(StationsTold, w[id])
    <3>7. Len(StationsTold) = n + 1 /\ StationsTold[1] = w[1]
          /\ \A i \in 1 .. n : StationsTold[i + 1] = w[trips[i].id]
      BY <1>7, <2>1
    <3>8. A \in Seq(Int) /\ Len(A) = n + 2 /\ A[n + 2] = w[id] /\ \A j \in 1 .. n + 1 : A[j] = StationsTold[j]
      BY <1>3, <1>6, <1>7, <3>7
    <3> HIDE DEF A
    <3>9. ASSUME NEW j \in 1 .. n + 2 PROVE A[j] = StationsTold'[j]
      <4>1. CASE j = 1
        BY <1>6, <3>6, <3>7, <3>8, <4>1
      <4>2. CASE j = n + 2
        <5>1. n + 1 \in 1 .. n + 1 /\ (n + 1) + 1 = n + 2
          BY <1>6
        <5>2. StationsTold'[n + 2] = w[trips'[n + 1].id]
          BY <3>4, <3>6, <5>1
        <5> QED
          BY <1>10, <1>11, <3>8, <4>2, <5>2
      <4>3. CASE j # 1 /\ j # n + 2
        <5>1. j - 1 \in 1 .. n /\ j - 1 \in 1 .. n + 1 /\ (j - 1) + 1 = j /\ j \in 1 .. n + 1
          BY <1>6, <4>3
        <5>2. A[j] = w[trips[j - 1].id]
          BY <3>7, <3>8, <5>1
        <5>3. StationsTold'[j] = w[trips'[j - 1].id] /\ trips'[j - 1] = trips[j - 1]
          BY <1>11, <3>4, <3>6, <5>1
        <5> QED
          BY <5>2, <5>3
      <4> QED
        BY <4>1, <4>2, <4>3
    <3>10. StationsTold' = A
      BY <1>6, <3>6, <3>8, <3>9
    <3>11. w[id] # value[Dest]
      <4>1. CASE n = 0
        <5>1. Last(StationsTold) = w[1]
          BY <3>7, <4>1 DEF Last
        <5> QED
          BY <1>2, <1>8, <2>4, <4>1, <5>1
      <4>2. CASE n # 0
        <5>1. n \in 1 .. n
          BY <1>6, <4>2
        <5>2. Last(StationsTold) = w[trips[n].id] /\ trips[n].id # id
          BY <1>9, <3>7, <5>1 DEF Last
        <5>3. trips[n].id \in Stations
          BY <1>6, <5>1
        <5> QED
          BY <1>2, <1>8, <5>2, <5>3
      <4> QED
        BY <4>1, <4>2
    <3> QED
      BY <2>2, <3>10, <3>11 DEF A
  <2> QED
    BY <2>3, <2>4
<1>14. \A k \in 1 .. Len(trips') - 1 : ~is_endstation(trips'[k].id) /\ trips'[k].id # trips'[k + 1].id
  BY <1>6, <1>11, <1>12
<1>15. \A k \in 1 .. Len(trips') - 1 : trips'[k].id \in visited'
  <2>1. Len(trips') - 1 = n
    BY <1>6, <1>11
  <2> QED
    BY <1>1, <1>6, <1>11, <2>1
<1>16. StationInv'
  BY <1>1, <1>5, <1>6, <1>11, <1>13, <1>14, <1>15 DEF StationInv, is_endstation
<1> QED
  BY <1>4, <1>5, <1>16

\* A time later than now.
LEMMA LaterTimes ==
  ASSUME Typed
  PROVE  /\ now \in Int /\ now <= now
         /\ \A t \in Nat : now + t \in Int /\ now <= now + t
<1>1. now \in Int
  BY SchedulesAssumption DEF Typed
<1> QED
  BY <1>1

\* Every move of the robot in the station model.
LEMMA StationMoves ==
  ASSUME Typed, model = "station", StationInv, StationMove
  PROVE  Typed' /\ StationInv' /\ model' = "station"
<1>1. /\ Vars = {"Robot.initial_station", Cur, Dest} /\ Cur # Dest
      /\ "Robot.initial_station" # Dest
  BY VariablesOfModel
<1>2. now \in Int /\ now <= now /\ \A t \in StationTimes : now + t \in Int /\ now <= now + t
  BY LaterTimes, StationConstants
<1>3. value[Dest] \in Int
  BY <1>1 DEF Typed
<1>4. /\ trips \in Seq(StationTrip) /\ Len(trips) \in Nat /\ visited \subseteq Stations
      /\ loc \in {"EnRoute", "Waiting"} => trips # <<>>
      /\ loc \in {"Start", "ToNext"} => trips = <<>>
      /\ loc \in {"Choose", "Done"} => \A k \in 1 .. Len(trips) : trips[k].id \in visited
      /\ \A k \in 1 .. Len(trips) - 1 : trips[k].id \in visited
      /\ \A k \in 1 .. Len(trips) - 1 : ~is_endstation(trips[k].id) /\ trips[k].id # trips[k + 1].id
  BY DEF StationInv
<1>5. trips' = trips => StationsTold' = StationsTold
  BY Zenon DEF StationsTold
<1>6. CASE StationStart
  <2>1. Move("Start", "ToNext", now, "Robot.initial_station", 1) /\ visited' = visited /\ trips' = trips
    BY <1>6 DEF StationStart
  <2>2. "Robot.initial_station" \in Vars /\ "Robot.initial_station" # Dest /\ 1 \in Int
    BY <1>1
  <2>3. StationsTold' = StationsTold
    BY <1>5, <2>1
  <2>4. Typed' /\ Tells(trace'[Dest'], StationsTold') /\ loc = "Start" /\ loc' = "ToNext" /\ model' = "station"
    BY <1>2, <2>1, <2>2, <2>3, StationQuietMove
  <2> QED
    BY <1>4, <2>1, <2>4 DEF StationInv, is_endstation
<1>7. CASE StationToNext
  <2>1. PICK t \in StationTimes : Move("ToNext", "Choose", now + t, Dest, value[Dest])
    BY <1>7 DEF StationToNext
  <2>2. visited' = visited /\ trips' = trips
    BY <1>7 DEF StationToNext
  <2>3. Typed' /\ Tells(trace'[Dest'], StationsTold') /\ loc = "ToNext" /\ loc' = "Choose" /\ model' = "station"
    BY <1>1, <1>2, <1>3, <1>5, <2>1, <2>2, StationQuietMove
  <2>4. trips = <<>>
    BY <1>4, <2>3
  <2>5. \A k \in 1 .. Len(trips') : trips'[k].id \in visited'
    BY <2>2, <2>4
  <2> QED
    BY <1>4, <2>2, <2>3, <2>5 DEF StationInv, is_endstation
<1>8. CASE StationDone
  <2>1. Move("Choose", "Done", now, Dest, value[Dest]) /\ visited' = visited /\ trips' = trips
    BY <1>8 DEF StationDone
  <2>2. Typed' /\ Tells(trace'[Dest'], StationsTold') /\ loc = "Choose" /\ loc' = "Done" /\ model' = "station"
    BY <1>1, <1>2, <1>3, <1>5, <2>1, StationQuietMove
  <2> QED
    BY <1>4, <2>1, <2>2 DEF StationInv, is_endstation
<1>9. CASE StationArrive
  <2>1. PICK t \in StationTimes : Move("EnRoute", "Waiting", now + t, Cur, value[Dest])
    BY <1>9 DEF StationArrive
  <2>2. visited' = visited /\ Arrived
    BY <1>9 DEF StationArrive
  <2>3. loc = "EnRoute"
    BY <2>1 DEF Move
  <2>4. trips # <<>>
    BY <1>4, <2>3
  <2>5. /\ trips' \in Seq(StationTrip) /\ Len(trips') = Len(trips)
        /\ \A k \in 1 .. Len(trips) : trips'[k].id = trips[k].id
    BY <1>4, <2>2, <2>4, ArrivedIds DEF StationTrip
  <2>6. StationsTold' = StationsTold
    BY <1>4, <2>5, SameStationsTold
  <2>7. Typed' /\ Tells(trace'[Dest'], StationsTold') /\ loc' = "Waiting" /\ model' = "station"
    BY <1>1, <1>2, <1>3, <2>1, <2>6, StationQuietMove
  <2>8. \A k \in 1 .. Len(trips') - 1 : ~is_endstation(trips'[k].id) /\ trips'[k].id # trips'[k + 1].id
    <3> SUFFICES ASSUME NEW k \in 1 .. Len(trips) - 1
                 PROVE  ~is_endstation(trips'[k].id) /\ trips'[k].id # trips'[k + 1].id
      BY <2>5
    <3>1. k \in 1 .. Len(trips) /\ k + 1 \in 1 .. Len(trips)
      BY <1>4
    <3>2. trips'[k].id = trips[k].id /\ trips'[k + 1].id = trips[k + 1].id
      BY <2>5, <3>1
    <3> QED
      BY <1>4, <3>2
  <2>9. trips' # <<>> /\ \A k \in 1 .. Len(trips') - 1 : trips'[k].id \in visited'
    <3>1. \A k \in 1 .. Len(trips) - 1 : k \in 1 .. Len(trips)
      BY <1>4
    <3> QED
      BY <1>4, <2>2, <2>4, <2>5, <3>1
  <2> QED
    BY <1>4, <2>2, <2>5, <2>7, <2>8, <2>9 DEF StationInv, is_endstation
<1>10. CASE StationVisited
  <2>1. PICK t \in StationTimes : Move("Waiting", "Choose", now + t, Dest, value[Dest])
    BY <1>10 DEF StationVisited
  <2>2. visited' = visited \cup {Last(trips).id} /\ trips' = trips
    BY <1>10 DEF StationVisited
  <2>3. Typed' /\ Tells(trace'[Dest'], StationsTold') /\ loc = "Waiting" /\ loc' = "Choose" /\ model' = "station"
    BY <1>1, <1>2, <1>3, <1>5, <2>1, <2>2, StationQuietMove
  <2>4. trips # <<>>
    BY <1>4, <2>3
  <2>5. Last(trips).id \in Stations
    <3>1. trips[Len(trips)] \in StationTrip
      BY <1>4, <2>4, LastInSeq
    <3> QED
      BY <3>1 DEF Last, StationTrip
  <2>6. \A k \in 1 .. Len(trips) : trips[k].id \in visited'
    <3> SUFFICES ASSUME NEW k \in 1 .. Len(trips) PROVE trips[k].id \in visited'
      OBVIOUS
    <3>1. CASE k = Len(trips)
      BY <2>2, <3>1 DEF Last
    <3>2. CASE k # Len(trips)
      <4>1. k \in 1 .. Len(trips) - 1
        BY <1>4, <3>2
      <4> QED
        BY <1>4, <2>2, <4>1
    <3> QED
      BY <3>1, <3>2
  <2> QED
    BY <1>4, <2>2, <2>3, <2>5, <2>6 DEF StationInv, is_endstation
<1>11. CASE \E id \in Stations : StationChoose(id)
  BY <1>11, StationChooses
<1> QED
  BY <1>6, <1>7, <1>8, <1>9, <1>10, <1>11 DEF StationMove

-----------------------------------------------------------------------------
(* The waypoint model.                                                     *)

WaypointTrip == [id : WaypointIds, held : 0 .. MaxHolds, arrived : BOOLEAN]

\* The trips that ended, all but the last one or all of them.
Reached == IF trips # <<>> /\ ~Last(trips).arrived THEN SubSeq(trips, 1, Len(trips) - 1) ELSE trips

\* What cur_waypoint and dest_waypoint tell of some trips.
Stops(s) == <<next_waypoint>> \o Ids(s)
Targets(s) == <<0, -1>> \o Ids(s)

WaypointInv ==
  /\ trips \in Seq(WaypointTrip)
  /\ loc \in {"Start", "Choose", "BetweenWaypoints", "QueueUp", "Holding", "Waiting", "Done", "Convert", "Loop"}
  /\ \A k \in 1 .. Len(trips) - 1 : trips[k].arrived
  /\ loc \in {"QueueUp", "Holding", "Waiting"} => trips # <<>>
  /\ loc \in {"Choose", "QueueUp", "Holding", "Waiting", "Done"} => trips = <<>> \/ Last(trips).arrived
  /\ loc = "BetweenWaypoints" => /\ trips # <<>> /\ ~Last(trips).arrived
                                 /\ get_waypoint_dist[<<value[Cur], value[Dest]>>] # -1
  /\ Distinct(Stops(trips))
  /\ Tells(trace[Cur], Stops(Reached))
  /\ loc = "Start" => trips = <<>> /\ trace[Dest] = <<[time |-> 0, value |-> 0]>> /\ now = 0
  /\ loc # "Start" => /\ Tells(trace[Dest], Targets(trips))
                      /\ Len(trace[Dest]) >= 2 /\ trace[Dest][2].value = -1

WaypointMove ==
  \/ WaypointStart \/ WaypointDone \/ WaypointArrive
  \/ WaypointHold \/ WaypointHeld \/ WaypointQueue \/ WaypointGo
  \/ \E id \in WaypointIds : WaypointChoose(id)

\* What the waypoint model takes from its constants.
LEMMA WaypointConstants ==
  /\ WaypointIds \subseteq Nat /\ next_waypoint \in WaypointIds
  /\ get_waypoint_dist \in [WaypointIds \X WaypointIds -> Nat \cup {-1}]
  /\ \A id \in WaypointIds : get_waypoint_dist[<<id, id>>] = -1
  /\ WaitingTimes \subseteq Nat /\ Bound \in Nat /\ MaxHolds \in Nat /\ uncertainty \in Nat
BY SchedulesAssumption

\* The types of what is told of trips.
TripsTold(s) ==
  /\ Ids(s) \in Seq(WaypointIds) /\ Len(Ids(s)) = Len(s)
  /\ \A i \in 1 .. Len(s) : Ids(s)[i] = s[i].id /\ s[i].id \in WaypointIds /\ s[i].id \in Nat
  /\ Stops(s) \in Seq(Int) /\ Len(Stops(s)) = Len(s) + 1 /\ Stops(s)[1] = next_waypoint
  /\ \A i \in 1 .. Len(s) : Stops(s)[i + 1] = s[i].id
  /\ Targets(s) \in Seq(Int) /\ Len(Targets(s)) = Len(s) + 2
  /\ Targets(s)[1] = 0 /\ Targets(s)[2] = -1
  /\ \A i \in 1 .. Len(s) : Targets(s)[i + 2] = s[i].id

\* For the trips of the waypoint model.
LEMMA IdsFacts ==
  ASSUME NEW s \in Seq(WaypointTrip)
  PROVE  TripsTold(s)
<1>1. Len(s) \in Nat /\ DOMAIN s = 1 .. Len(s) /\ \A i \in 1 .. Len(s) : s[i] \in WaypointTrip
  OBVIOUS
<1>2. \A i \in 1 .. Len(s) : s[i].id \in WaypointIds
  BY <1>1 DEF WaypointTrip
<1>3. WaypointIds \subseteq Nat /\ next_waypoint \in WaypointIds
  BY WaypointConstants
<1>4. \A i \in 1 .. Len(s) : s[i].id \in Nat
  BY <1>2, <1>3
<1>5. Ids(s) = [i \in 1 .. Len(s) |-> s[i].id]
  BY <1>1 DEF Ids
<1>6. /\ Ids(s) \in Seq(WaypointIds) /\ Ids(s) \in Seq(Int) /\ Len(Ids(s)) = Len(s)
      /\ \A i \in 1 .. Len(s) : Ids(s)[i] = s[i].id
  BY <1>1, <1>2, <1>4, <1>5
<1>7. next_waypoint \in Int
  BY <1>3
<1>8. /\ Stops(s) \in Seq(Int) /\ Len(Stops(s)) = Len(s) + 1 /\ Stops(s)[1] = next_waypoint
      /\ \A i \in 1 .. Len(s) : Stops(s)[i + 1] = s[i].id
  BY <1>1, <1>6, <1>7 DEF Stops
<1>9. <<0, -1>> \in Seq(Int) /\ Len(<<0, -1>>) = 2 /\ <<0, -1>>[1] = 0 /\ <<0, -1>>[2] = -1
  OBVIOUS
<1>10. /\ Targets(s) \in Seq(Int) /\ Len(Targets(s)) = Len(s) + 2
       /\ Targets(s)[1] = 0 /\ Targets(s)[2] = -1
       /\ \A i \in 1 .. Len(s) : Targets(s)[i + 2] = s[i].id
  BY <1>1, <1>6, <1>9 DEF Targets
<1> QED
  BY <1>2, <1>4, <1>6, <1>8, <1>10 DEF TripsTold

\* Where Stops() repeats no waypoint, Targets() repeats none.
LEMMA TargetsDistinct ==
  ASSUME NEW s \in Seq(WaypointTrip), Distinct(Stops(s))
  PROVE  Distinct(Targets(s))
<1> DEFINE n == Len(s)
           A == Stops(s)
           B == Targets(s)
<1>1. /\ n \in Nat /\ Len(A) = n + 1 /\ Len(B) = n + 2 /\ B[1] = 0 /\ B[2] = -1
      /\ \A i \in 1 .. n : A[i + 1] = s[i].id /\ B[i + 2] = s[i].id /\ s[i].id \in Nat
      /\ \A k \in 1 .. n : A[k] # A[k + 1]
  <2>1. n \in Nat /\ Len(A) = n + 1
    BY IdsFacts DEF TripsTold
  <2>2. \A k \in 1 .. n : A[k] # A[k + 1]
    BY <2>1 DEF Distinct
  <2> QED
    BY <2>1, <2>2, IdsFacts DEF TripsTold
<1> HIDE DEF n, A, B
<1>2. ASSUME NEW k \in 1 .. n + 1 PROVE B[k] # B[k + 1]
  <2>1. CASE k = 1
    BY <1>1, <2>1
  <2>2. CASE k = 2
    <3>1. 1 \in 1 .. n /\ 1 + 2 = k + 1
      BY <1>1, <2>2
    <3>2. B[k + 1] \in Nat
      BY <1>1, <3>1
    <3> QED
      BY <1>1, <2>2, <3>2
  <2>3. CASE k > 2
    <3>1. k - 2 \in 1 .. n /\ k - 1 \in 1 .. n /\ (k - 2) + 2 = k /\ (k - 1) + 2 = k + 1
          /\ (k - 2) + 1 = k - 1 /\ (k - 1) + 1 = k
      BY <1>1, <2>3
    <3>2. B[k] = s[k - 2].id /\ B[k + 1] = s[k - 1].id /\ A[k - 1] = s[k - 2].id /\ A[k] = s[k - 1].id
      BY <1>1, <3>1
    <3> QED
      BY <1>1, <3>1, <3>2
  <2> QED
    BY <2>1, <2>2, <2>3
<1>3. \A k \in 1 .. Len(B) - 1 : B[k] # B[k + 1]
  BY <1>1, <1>2
<1> QED
  BY <1>3 DEF Distinct, B

\* What is told of trips of the same waypoints.
LEMMA SameIds ==
  ASSUME NEW s \in Seq(WaypointTrip), NEW u \in Seq(WaypointTrip), Len(u) = Len(s),
         \A k \in 1 .. Len(s) : u[k].id = s[k].id
  PROVE  Ids(u) = Ids(s) /\ Stops(u) = Stops(s) /\ Targets(u) = Targets(s)
<1>1. DOMAIN s = 1 .. Len(s) /\ DOMAIN u = 1 .. Len(s)
  OBVIOUS
<1>2. Ids(u) = Ids(s)
  BY <1>1 DEF Ids
<1> QED
  BY <1>2 DEF Stops, Targets

\* One trip more.
LEMMA MoreIds ==
  ASSUME NEW s \in Seq(WaypointTrip), NEW x \in WaypointTrip
  PROVE  /\ Stops(Append(s, x)) = Append(Stops(s), x.id)
         /\ Targets(Append(s, x)) = Append(Targets(s), x.id)
<1> DEFINE u == Append(s, x)
           n == Len(s)
<1>1. u \in Seq(WaypointTrip) /\ n \in Nat /\ Len(u) = n + 1 /\ u[n + 1] = x
      /\ \A k \in 1 .. n : u[k] = s[k]
  OBVIOUS
<1> HIDE DEF u
<1>2. /\ Stops(u) \in Seq(Int) /\ Len(Stops(u)) = n + 2 /\ Stops(u)[1] = next_waypoint
      /\ \A i \in 1 .. n + 1 : Stops(u)[i + 1] = u[i].id
      /\ Targets(u) \in Seq(Int) /\ Len(Targets(u)) = n + 3
      /\ Targets(u)[1] = 0 /\ Targets(u)[2] = -1
      /\ \A i \in 1 .. n + 1 : Targets(u)[i + 2] = u[i].id
      /\ \A i \in 1 .. n + 1 : u[i].id \in Int
  <2>1. /\ Stops(u) \in Seq(Int) /\ Len(Stops(u)) = Len(u) + 1 /\ Stops(u)[1] = next_waypoint
        /\ \A i \in 1 .. Len(u) : Stops(u)[i + 1] = u[i].id
        /\ Targets(u) \in Seq(Int) /\ Len(Targets(u)) = Len(u) + 2
        /\ Targets(u)[1] = 0 /\ Targets(u)[2] = -1
        /\ \A i \in 1 .. Len(u) : Targets(u)[i + 2] = u[i].id
        /\ \A i \in 1 .. Len(u) : u[i].id \in Nat
    <3>1. TripsTold(u)
      BY <1>1, IdsFacts
    <3> QED
      BY <3>1, Zenon DEF TripsTold
  <2>2. Len(u) = n + 1 /\ Len(u) + 1 = n + 2 /\ Len(u) + 2 = n + 3
    BY <1>1
  <2>3. \A i \in 1 .. Len(u) : u[i].id \in Int
    <3>1. \A k \in Nat : k \in Int
      OBVIOUS
    <3> QED
      BY <2>1, <3>1, Zenon
  <2> DEFINE f == Stops(u)
             g == Targets(u)
  <2>4. /\ f \in Seq(Int) /\ Len(f) = Len(u) + 1 /\ f[1] = next_waypoint
        /\ \A i \in 1 .. Len(u) : f[i + 1] = u[i].id
        /\ g \in Seq(Int) /\ Len(g) = Len(u) + 2
        /\ g[1] = 0 /\ g[2] = -1
        /\ \A i \in 1 .. Len(u) : g[i + 2] = u[i].id
    BY <2>1, Zenon
  <2> HIDE DEF f, g
  <2>5. /\ f \in Seq(Int) /\ Len(f) = n + 2 /\ f[1] = next_waypoint
        /\ \A i \in 1 .. n + 1 : f[i + 1] = u[i].id
        /\ g \in Seq(Int) /\ Len(g) = n + 3
        /\ g[1] = 0 /\ g[2] = -1
        /\ \A i \in 1 .. n + 1 : g[i + 2] = u[i].id
        /\ \A i \in 1 .. n + 1 : u[i].id \in Int
    BY <2>2, <2>3, <2>4
  <2> QED
    BY <2>5, Zenon DEF f, g
<1>3. /\ Stops(s) \in Seq(Int) /\ Len(Stops(s)) = n + 1 /\ Stops(s)[1] = next_waypoint
      /\ \A i \in 1 .. n : Stops(s)[i + 1] = s[i].id
      /\ Targets(s) \in Seq(Int) /\ Len(Targets(s)) = n + 2
      /\ Targets(s)[1] = 0 /\ Targets(s)[2] = -1
      /\ \A i \in 1 .. n : Targets(s)[i + 2] = s[i].id
  <2>1. TripsTold(s)
    BY IdsFacts
  <2> QED
    BY <2>1, Zenon DEF TripsTold
<1>4. x.id \in Int /\ n + 1 \in 1 .. n + 1
  <2>1. n + 1 \in 1 .. n + 1
    BY <1>1
  <2> QED
    BY <1>1, <1>2, <2>1, Zenon
<1> DEFINE A == Append(Stops(s), x.id)
           B == Append(Targets(s), x.id)
<1>5. /\ A \in Seq(Int) /\ Len(A) = n + 2 /\ A[n + 2] = x.id /\ \A i \in 1 .. n + 1 : A[i] = Stops(s)[i]
      /\ B \in Seq(Int) /\ Len(B) = n + 3 /\ B[n + 3] = x.id /\ \A i \in 1 .. n + 2 : B[i] = Targets(s)[i]
  BY <1>3, <1>4
<1> HIDE DEF A, B, n
<1>6. ASSUME NEW j \in 1 .. n + 2 PROVE Stops(u)[j] = A[j]
  <2>1. CASE j = 1
    BY <1>1, <1>2, <1>3, <1>5, <2>1
  <2>2. CASE j = n + 2
    <3>1. (n + 1) + 1 = n + 2
      BY <1>1
    <3> QED
      BY <1>1, <1>2, <1>4, <1>5, <2>2, <3>1
  <2>3. CASE j # 1 /\ j # n + 2
    <3>1. j - 1 \in 1 .. n /\ j - 1 \in 1 .. n + 1 /\ (j - 1) + 1 = j /\ j \in 1 .. n + 1
      BY <1>1, <2>3
    <3>2. Stops(u)[j] = u[j - 1].id /\ Stops(s)[j] = s[j - 1].id /\ u[j - 1] = s[j - 1]
      BY <1>1, <1>2, <1>3, <3>1
    <3> QED
      BY <1>5, <3>1, <3>2
  <2> QED
    BY <2>1, <2>2, <2>3
<1>7. ASSUME NEW j \in 1 .. n + 3 PROVE Targets(u)[j] = B[j]
  <2>1. CASE j \in {1, 2}
    <3>1. j \in 1 .. n + 2
      BY <1>1, <2>1
    <3> QED
      BY <1>2, <1>3, <1>5, <2>1, <3>1
  <2>2. CASE j = n + 3
    <3>1. (n + 1) + 2 = n + 3
      BY <1>1
    <3> QED
      BY <1>1, <1>2, <1>4, <1>5, <2>2, <3>1
  <2>3. CASE j \notin {1, 2} /\ j # n + 3
    <3>1. j - 2 \in 1 .. n /\ j - 2 \in 1 .. n + 1 /\ (j - 2) + 2 = j /\ j \in 1 .. n + 2
      BY <1>1, <2>3
    <3>2. Targets(u)[j] = u[j - 2].id /\ Targets(s)[j] = s[j - 2].id /\ u[j - 2] = s[j - 2]
      BY <1>1, <1>2, <1>3, <3>1
    <3> QED
      BY <1>5, <3>1, <3>2
  <2> QED
    BY <2>1, <2>2, <2>3
<1>8. Stops(u) = A /\ Targets(u) = B
  <2>1. Stops(u) = A
    BY <1>1, <1>2, <1>5, <1>6, SeqEqual
  <2>2. Targets(u) = B
    BY <1>1, <1>2, <1>5, <1>7, SeqEqual
  <2> QED
    BY <2>1, <2>2
<1> QED
  BY <1>8 DEF A, B, u

\* A part of a sequence.
LEMMA PartFacts ==
  ASSUME NEW S, NEW s \in Seq(S), NEW i \in Int, NEW j \in Int, 1 <= i, i <= j + 1, j <= Len(s)
  PROVE  /\ SubSeq(s, i, j) \in Seq(S) /\ Len(SubSeq(s, i, j)) = j - i + 1
         /\ \A k \in 1 .. j - i + 1 : SubSeq(s, i, j)[k] = s[i + k - 1]
OBVIOUS

\* The trips that ended are a beginning of the trips.
LEMMA ReachedFacts ==
  ASSUME trips \in Seq(WaypointTrip)
  PROVE  /\ Reached \in Seq(WaypointTrip) /\ Len(Reached) <= Len(trips)
         /\ \A k \in 1 .. Len(Reached) : Reached[k] = trips[k]
         /\ trips = <<>> \/ Last(trips).arrived => Reached = trips
         /\ trips # <<>> /\ ~Last(trips).arrived => Len(Reached) = Len(trips) - 1
<1>1. CASE trips = <<>> \/ Last(trips).arrived
  BY <1>1 DEF Reached
<1>2. CASE trips # <<>> /\ ~Last(trips).arrived
  <2>1. Reached = SubSeq(trips, 1, Len(trips) - 1)
    BY <1>2 DEF Reached
  <2>2. Len(trips) \in Nat /\ Len(trips) >= 1
    BY <1>2
  <2>3. /\ Reached \in Seq(WaypointTrip) /\ Len(Reached) = Len(trips) - 1
        /\ \A k \in 1 .. Len(trips) - 1 : Reached[k] = trips[k]
    <3> DEFINE m == Len(trips) - 1
    <3>1. m \in Int /\ 1 \in Int /\ 1 <= 1 /\ 1 <= m + 1 /\ m <= Len(trips) /\ m - 1 + 1 = m
          /\ \A k \in 1 .. m : 1 + k - 1 = k
      BY <2>2
    <3> HIDE DEF m
    <3>2. /\ SubSeq(trips, 1, m) \in Seq(WaypointTrip) /\ Len(SubSeq(trips, 1, m)) = m - 1 + 1
          /\ \A k \in 1 .. m - 1 + 1 : SubSeq(trips, 1, m)[k] = trips[1 + k - 1]
      BY <3>1, PartFacts
    <3> QED
      BY <2>1, <3>1, <3>2 DEF m
  <2>4. Len(Reached) <= Len(trips)
    BY <2>2, <2>3
  <2>5. ~(trips = <<>> \/ Last(trips).arrived)
    BY <1>2, Zenon
  <2>6. \A k \in 1 .. Len(Reached) : Reached[k] = trips[k]
    BY <2>3, Zenon
  <2> QED
    BY <2>3, <2>4, <2>5, <2>6, Zenon
<1> QED
  BY <1>1, <1>2

\* What a move after the first one leaves in the traces.
MoveTold(v, new) ==
  /\ Typed' /\ model' = "waypoint" /\ Dest' = Dest /\ Cur' = Cur
  /\ value' = [value EXCEPT ![v] = new]
  /\ Len(trace'[Dest]) >= 2 /\ trace'[Dest][2].value = -1
  /\ Tells(trace'[Dest], IF v = Dest /\ new # value[Dest] THEN Append(Targets(trips), new) ELSE Targets(trips))
  /\ Tells(trace'[Cur], IF v = Cur /\ new # value[Cur] THEN Append(Stops(Reached), new) ELSE Stops(Reached))
  /\ value[Dest] = Last(Targets(trips)) /\ value[Cur] = Last(Stops(Reached))

\* A move of the waypoint model, but for the first one.
LEMMA WaypointMoved ==
  ASSUME Typed, model = "waypoint", WaypointInv, NEW from, NEW to, NEW t \in Int, now <= t, NEW v \in Vars,
         NEW new \in Int, Move(from, to, t, v, new), from # "Start"
  PROVE  MoveTold(v, new) /\ loc = from /\ loc' = to
<1>1. loc = from /\ loc' = to /\ model' = "waypoint" /\ Dest' = Dest /\ Cur' = Cur
  BY Zenon DEF Move, simVars, Dest, Cur, Variables
<1>2. Typed' /\ Grows(v, t, new) /\ value' = [value EXCEPT ![v] = new]
  BY MoveTraces
<1>3. Dest \in Vars /\ Cur \in Vars
  BY VariablesOfModel
<1>4. /\ trips \in Seq(WaypointTrip) /\ Tells(trace[Dest], Targets(trips)) /\ Tells(trace[Cur], Stops(Reached))
      /\ Len(trace[Dest]) >= 2 /\ trace[Dest][2].value = -1
  BY <1>1 DEF WaypointInv
<1>5. Targets(trips) \in Seq(Int) /\ Stops(Reached) \in Seq(Int)
  BY <1>4, IdsFacts, ReachedFacts DEF TripsTold
<1>6. /\ Tells(trace'[Dest], IF Dest = v /\ new # value[v] THEN Append(Targets(trips), new) ELSE Targets(trips))
      /\ Tells(trace'[Cur], IF Cur = v /\ new # value[v] THEN Append(Stops(Reached), new) ELSE Stops(Reached))
  BY <1>2, <1>3, <1>4, <1>5 DEF Grows
<1>7. /\ trace[Dest] \in Seq(Sample) /\ Last(trace[Dest]).value = value[Dest]
      /\ trace[Cur] \in Seq(Sample) /\ Last(trace[Cur]).value = value[Cur]
  BY <1>3 DEF Typed
<1>8. value[Dest] = Last(Targets(trips)) /\ value[Cur] = Last(Stops(Reached))
  BY <1>4, <1>5, <1>7, TellsLast
<1>9. Len(trace'[Dest]) >= 2 /\ trace'[Dest][2].value = -1
  <2>1. Len(trace'[Dest]) >= Len(trace[Dest]) /\ trace'[Dest] \in Seq(Sample)
        /\ \A i \in 1 .. Len(trace[Dest]) : trace'[Dest][i] = trace[Dest][i]
    BY <1>2, <1>3 DEF Grows, Longer
  <2> QED
    BY <1>4, <1>7, <2>1
<1> QED
  BY <1>1, <1>2, <1>6, <1>8, <1>9 DEF MoveTold

\* A move that starts no trip and ends none.
LEMMA WaypointQuietMove ==
  ASSUME Typed, model = "waypoint", WaypointInv, NEW from, NEW to, NEW t \in Int, now <= t, NEW v \in Vars,
         NEW new \in Int, Move(from, to, t, v, new), v # Cur, v = Dest => new = value[Dest],
         trips' \in Seq(WaypointTrip), Len(trips') = Len(trips),
         \A k \in 1 .. Len(trips) : trips'[k].id = trips[k].id /\ trips'[k].arrived = trips[k].arrived,
         from \in {"Choose", "QueueUp", "Holding", "Waiting"},
         to \in {"Choose", "QueueUp", "Holding", "Waiting", "Done"}, trips # <<>> \/ to \in {"Choose", "Done"}
  PROVE  Typed' /\ WaypointInv' /\ model' = "waypoint"
<1>1. MoveTold(v, new) /\ loc = from /\ loc' = to
  BY WaypointMoved
<1>2. /\ trips \in Seq(WaypointTrip) /\ Len(trips) \in Nat
      /\ \A k \in 1 .. Len(trips) - 1 : trips[k].arrived
      /\ trips = <<>> \/ Last(trips).arrived
      /\ Distinct(Stops(trips))
  BY <1>1 DEF WaypointInv
<1>3. Stops(trips') = Stops(trips) /\ Targets(trips') = Targets(trips)
  BY <1>2, SameIds
<1>4. trips' = <<>> \/ Last(trips').arrived
  <2>1. trips # <<>> => Len(trips) \in 1 .. Len(trips)
    BY <1>2
  <2>2. trips = <<>> => trips' = <<>>
    BY <1>2
  <2> QED
    BY <1>2, <2>1, <2>2 DEF Last
<1>5. Reached = trips
  BY <1>2, ReachedFacts
<1>6. Reached' = trips'
  BY <1>4 DEF Reached
<1>7. Tells(trace'[Dest'], Targets(trips')) /\ Tells(trace'[Cur'], Stops(Reached'))
      /\ Len(trace'[Dest']) >= 2 /\ trace'[Dest'][2].value = -1
  BY <1>1, <1>3, <1>5, <1>6 DEF MoveTold
<1>8. \A k \in 1 .. Len(trips') - 1 : trips'[k].arrived
  <2>1. \A k \in 1 .. Len(trips) - 1 : k \in 1 .. Len(trips)
    BY <1>2
  <2> QED
    BY <1>2, <2>1
<1>9. trips # <<>> => trips' # <<>>
  BY <1>2
<1>10. /\ trips' \in Seq(WaypointTrip)
       /\ loc' \in {"Choose", "QueueUp", "Holding", "Waiting", "Done"}
       /\ Distinct(Stops(trips'))
       /\ loc' \in {"QueueUp", "Holding", "Waiting"} => trips' # <<>>
       /\ loc' # "Start" /\ loc' # "BetweenWaypoints"
  BY <1>1, <1>2, <1>3, <1>9
<1>11. WaypointInv'
  BY <1>4, <1>7, <1>8, <1>10 DEF WaypointInv, Stops, Targets
<1> QED
  BY <1>1, <1>11 DEF MoveTold

\* Sequences of one and two elements.
LEMMA AppendOne ==
  ASSUME NEW S, NEW x \in S, NEW y \in S
  PROVE  Append(<<x>>, y) = <<x, y>> /\ <<x>> \o <<>> \o <<y>> = <<x, y>>
<1>1. /\ <<x>> \in Seq(S) /\ Len(<<x>>) = 1 /\ <<x>>[1] = x
      /\ <<y>> \in Seq(S) /\ Len(<<y>>) = 1 /\ <<y>>[1] = y
      /\ <<x, y>> \in Seq(S) /\ Len(<<x, y>>) = 2 /\ <<x, y>>[1] = x /\ <<x, y>>[2] = y
  OBVIOUS
<1>2. /\ <<x>> \o <<y>> \in Seq(S) /\ Len(<<x>> \o <<y>>) = 2
      /\ (<<x>> \o <<y>>)[1] = x /\ (<<x>> \o <<y>>)[2] = y
  <2>1. /\ <<x>> \o <<y>> \in Seq(S)
        /\ Len(<<x>> \o <<y>>) = Len(<<x>>) + Len(<<y>>)
        /\ \A i \in 1 .. Len(<<x>>) + Len(<<y>>) : (<<x>> \o <<y>>)[i] =
              IF i <= Len(<<x>>) THEN <<x>>[i] ELSE <<y>>[i - Len(<<x>>)]
    BY <1>1, ConcatProperties, Zenon
  <2> QED
    BY <1>1, <2>1
<1>3. \A i \in 1 .. Len(<<x>> \o <<y>>) : (<<x>> \o <<y>>)[i] = <<x, y>>[i]
  BY <1>1, <1>2
<1>4. <<x>> \o <<y>> = <<x, y>>
  BY <1>1, <1>2, <1>3, SeqEqual
<1>5. Append(<<x>>, y) = <<x>> \o <<y>> /\ <<x>> \o <<>> = <<x>>
  BY <1>1, AppendIsConcat, ConcatEmptySeq
<1> QED
  BY <1>4, <1>5

\* The first move sets the target to -1.
LEMMA WaypointStarts ==
  ASSUME Typed, model = "waypoint", WaypointInv, WaypointStart
  PROVE  Typed' /\ WaypointInv' /\ model' = "waypoint"
<1>1. Move("Start", "Choose", now, Dest, -1) /\ trips' = trips
  BY DEF WaypointStart
<1>2. loc = "Start" /\ loc' = "Choose" /\ model' = "waypoint" /\ Dest' = Dest /\ Cur' = Cur
  BY <1>1, Zenon DEF Move, simVars, Dest, Cur, Variables
<1>3. Dest \in Vars /\ Cur \in Vars /\ Dest # Cur /\ now \in Int /\ now <= now /\ -1 \in Int
  BY VariablesOfModel, LaterTimes
<1>4. Typed' /\ Grows(Dest, now, -1)
  BY <1>1, <1>3, MoveTraces
<1>5. /\ trips = <<>> /\ trace[Dest] = <<[time |-> 0, value |-> 0]>> /\ now = 0
      /\ Tells(trace[Cur], Stops(Reached)) /\ Distinct(Stops(trips)) /\ trips \in Seq(WaypointTrip)
  BY <1>2 DEF WaypointInv
<1>6. Reached' = Reached /\ Reached = <<>>
  BY <1>1, <1>5 DEF Reached
<1>7. Stops(Reached) \in Seq(Int) /\ Targets(<<>>) = <<0, -1>>
  <2>1. TripsTold(<<>>) /\ Len(<<>>) = 0
    BY <1>5, IdsFacts
  <2>2. Stops(Reached) \in Seq(Int)
    BY <1>6, <2>1 DEF TripsTold
  <2> DEFINE c == <<0, -1>>
  <2>3. c \in Seq(Int) /\ Len(c) = 2 /\ c[1] = 0 /\ c[2] = -1
    OBVIOUS
  <2> HIDE DEF c
  <2>4. Targets(<<>>) \in Seq(Int) /\ Len(Targets(<<>>)) = 2 /\ Targets(<<>>)[1] = 0 /\ Targets(<<>>)[2] = -1
    BY <2>1 DEF TripsTold
  <2>5. \A i \in 1 .. Len(Targets(<<>>)) : Targets(<<>>)[i] = c[i]
    <3>1. \A i \in 1 .. 2 : i = 1 \/ i = 2
      OBVIOUS
    <3> QED
      BY <2>3, <2>4, <3>1
  <2>6. Targets(<<>>) = c
    BY <2>3, <2>4, <2>5, SeqEqual
  <2> QED
    BY <2>2, <2>6 DEF c
<1>8. Tells(trace'[Cur], Stops(Reached))
  <2>1. Tells(trace'[Cur], IF Cur = Dest /\ -1 # value[Dest] THEN Append(Stops(Reached), -1) ELSE Stops(Reached))
    BY <1>3, <1>4, <1>5, <1>7 DEF Grows
  <2> QED
    BY <1>3, <2>1
<1>9. value[Dest] = 0
  <2>1. Last(trace[Dest]).value = value[Dest]
    BY <1>3 DEF Typed
  <2>2. Len(<<[time |-> 0, value |-> 0]>>) = 1
    OBVIOUS
  <2>3. Last(trace[Dest]) = [time |-> 0, value |-> 0]
    BY <1>5, <2>2 DEF Last
  <2> QED
    BY <2>1, <2>3
<1>10. Tells(trace'[Dest], <<0, -1>>)
  <2> DEFINE s == [time |-> 0, value |-> 0]
  <2>1. s \in Sample /\ s.value = 0
    BY SchedulesAssumption DEF Sample
  <2> HIDE DEF s
  <2>2. Tells(<<s>>, <<s.value>>)
    BY <2>1, TellsFirst
  <2>3. Tells(trace[Dest], <<0>>) /\ <<0>> \in Seq(Int)
    BY <1>5, <2>1, <2>2 DEF s
  <2>4. Tells(trace'[Dest], IF Dest = Dest /\ -1 # value[Dest] THEN Append(<<0>>, -1) ELSE <<0>>)
    BY <1>3, <1>4, <2>3 DEF Grows
  <2>5. Append(<<0>>, -1) = <<0, -1>>
    <3>1. 0 \in Int /\ -1 \in Int
      OBVIOUS
    <3> QED
      BY <3>1, AppendOne
  <2> QED
    <3>1. -1 # value[Dest]
      BY <1>9
    <3> QED
      BY <2>4, <2>5, <3>1, Zenon
<1>11. Len(trace'[Dest]) >= 2 /\ trace'[Dest][2].value = -1
  <2> DEFINE s == [time |-> 0, value |-> 0]
             u == [time |-> 0, value |-> -1]
  <2>1. s.time = 0 /\ s.value = 0 /\ u.value = -1 /\ s.value # -1
    OBVIOUS
  <2>2. PICK splits \in 0 .. MaxSplits : trace' = Changed(Delayed(trace, now, splits), Dest, now, -1)
    BY <1>1, Zenon DEF Move
  <2>3. Delayed(trace, now, splits) = trace
    BY DEF Delayed
  <2> HIDE DEF s
  <2>4. Last(trace[Dest]) = s
    <3>1. Len(<<s>>) = 1 /\ <<s>>[1] = s
      OBVIOUS
    <3> QED
      BY <1>5, <3>1 DEF Last, s
  <2>5. trace' = [trace EXCEPT ![Dest] = @ \o <<>> \o <<u>>]
    BY <1>5, <2>1, <2>2, <2>3, <2>4 DEF Changed
  <2>6. DOMAIN trace = Vars
    BY DEF Typed
  <2> HIDE DEF u
  <2>7. trace'[Dest] = <<s>> \o <<>> \o <<u>>
    BY <1>3, <1>5, <2>5, <2>6 DEF s
  <2>8. trace'[Dest] = <<s, u>>
    <3>1. s \in {s, u} /\ u \in {s, u}
      OBVIOUS
    <3> QED
      BY <2>7, <3>1, AppendOne
  <2> QED
    BY <2>1, <2>8
<1>12. WaypointInv'
  BY <1>1, <1>2, <1>5, <1>6, <1>7, <1>8, <1>10, <1>11 DEF WaypointInv, Stops, Targets
<1> QED
  BY <1>2, <1>4, <1>12

\* A choice starts a trip and tells its target.
LEMMA WaypointChooses ==
  ASSUME Typed, model = "waypoint", WaypointInv, NEW id \in WaypointIds, WaypointChoose(id)
  PROVE  Typed' /\ WaypointInv' /\ model' = "waypoint" /\ Reached' = Reached /\ Last(trips').held = 0
<1> DEFINE trip == [id |-> id, held |-> 0, arrived |-> FALSE]
           n == Len(trips)
<1>1. /\ Move("Choose", "BetweenWaypoints", now, Dest, id) /\ trips' = Append(trips, trip)
      /\ get_waypoint_dist[<<value[Cur], id>>] # -1
  BY DEF WaypointChoose, Chosen
<1>2. /\ WaypointIds \subseteq Nat /\ next_waypoint \in WaypointIds /\ MaxHolds \in Nat
      /\ \A i \in WaypointIds : get_waypoint_dist[<<i, i>>] = -1
  BY WaypointConstants
<1>3. Dest \in Vars /\ Cur \in Vars /\ Dest # Cur /\ now \in Int /\ now <= now /\ id \in Int
  BY <1>2, VariablesOfModel, LaterTimes
<1>4. MoveTold(Dest, id) /\ loc = "Choose" /\ loc' = "BetweenWaypoints"
  BY <1>1, <1>3, WaypointMoved
<1>5. /\ trips \in Seq(WaypointTrip) /\ n \in Nat
      /\ \A k \in 1 .. n - 1 : trips[k].arrived
      /\ trips = <<>> \/ Last(trips).arrived
      /\ Distinct(Stops(trips))
  BY <1>4 DEF WaypointInv
<1>6. trip \in WaypointTrip /\ trip.id = id /\ trip.arrived = FALSE
  BY <1>2 DEF WaypointTrip
<1> HIDE DEF trip, n
<1>7. /\ trips' \in Seq(WaypointTrip) /\ Len(trips') = n + 1 /\ trips'[n + 1] = trip /\ trips' # <<>>
      /\ \A k \in 1 .. n : trips'[k] = trips[k]
  BY <1>1, <1>5, <1>6 DEF n
<1>8. Stops(trips') = Append(Stops(trips), id) /\ Targets(trips') = Append(Targets(trips), id)
  BY <1>1, <1>5, <1>6, MoreIds
<1>9. Last(trips') = trip /\ Last(trips').arrived = FALSE
  BY <1>6, <1>7 DEF Last
<1>10. Reached = trips
  BY <1>5, ReachedFacts
<1>11. Reached' = trips
  <2>1. Reached' = SubSeq(trips', 1, n)
    BY <1>5, <1>7, <1>9 DEF Reached
  <2>2. SubSeq(trips', 1, n) \in Seq(WaypointTrip) /\ Len(SubSeq(trips', 1, n)) = n
        /\ \A k \in 1 .. n : SubSeq(trips', 1, n)[k] = trips[k]
    BY <1>5, <1>7
  <2>3. SubSeq(trips', 1, n) = trips
    BY <1>5, <2>2, SeqEqual DEF n
  <2> QED
    BY <2>1, <2>3
<1>12. TripsTold(trips) /\ Len(Stops(trips)) = n + 1 /\ Stops(trips) \in Seq(Int)
       /\ Targets(trips) \in Seq(Int) /\ Len(Targets(trips)) = n + 2
  BY <1>5, IdsFacts DEF TripsTold, n
<1>13. value[Cur] # id
  <2>1. value[Cur] \in WaypointIds
    <3>1. value[Cur] = Stops(trips)[n + 1]
      BY <1>4, <1>10, <1>12 DEF MoveTold, Last
    <3>2. CASE n = 0
      BY <1>2, <1>12, <3>1, <3>2 DEF TripsTold
    <3>3. CASE n # 0
      <4>1. n \in 1 .. n
        BY <1>5, <3>3
      <4>2. Stops(trips)[n + 1] = trips[n].id /\ trips[n].id \in WaypointIds
        BY <1>12, <4>1 DEF TripsTold, n
      <4> QED
        BY <3>1, <4>2
    <3> QED
      BY <3>2, <3>3
  <2> QED
    BY <1>1, <1>2, <2>1
<1>14. value[Dest] # id
  <2>1. value[Dest] = Targets(trips)[n + 2]
    BY <1>4, <1>12 DEF MoveTold, Last
  <2>2. CASE n = 0
    BY <1>2, <1>12, <2>1, <2>2 DEF TripsTold
  <2>3. CASE n # 0
    <3>1. n \in 1 .. n
      BY <1>5, <2>3
    <3>2. Targets(trips)[n + 2] = trips[n].id /\ Stops(trips)[n + 1] = trips[n].id
      BY <1>12, <3>1 DEF TripsTold, n
    <3>3. value[Cur] = Stops(trips)[n + 1]
      BY <1>4, <1>10, <1>12 DEF MoveTold, Last
    <3> QED
      BY <1>13, <2>1, <3>2, <3>3
  <2> QED
    BY <2>2, <2>3
<1>15. Tells(trace'[Dest'], Targets(trips')) /\ Tells(trace'[Cur'], Stops(Reached'))
       /\ Len(trace'[Dest']) >= 2 /\ trace'[Dest'][2].value = -1
  BY <1>3, <1>4, <1>8, <1>10, <1>11, <1>14 DEF MoveTold
<1>16. Distinct(Stops(trips'))
  <2>1. value[Cur] = Stops(trips)[n + 1]
    BY <1>4, <1>10, <1>12 DEF MoveTold, Last
  <2>2. /\ Len(Stops(trips')) = n + 2 /\ Stops(trips')[n + 2] = id
        /\ \A k \in 1 .. n + 1 : Stops(trips')[k] = Stops(trips)[k]
    <3> DEFINE A == Stops(trips)
    <3>1. A \in Seq(Int) /\ Len(A) = n + 1 /\ n \in Nat /\ id \in Int
      BY <1>3, <1>5, <1>12
    <3> HIDE DEF A
    <3>2. /\ Len(Append(A, id)) = n + 2 /\ Append(A, id)[n + 2] = id
          /\ \A k \in 1 .. n + 1 : Append(A, id)[k] = A[k]
      BY <3>1
    <3> QED
      BY <1>8, <3>2 DEF A
  <2>3. \A k \in 1 .. n : Stops(trips)[k] # Stops(trips)[k + 1]
    BY <1>5, <1>12 DEF Distinct
  <2>4. ASSUME NEW k \in 1 .. n + 1 PROVE Stops(trips')[k] # Stops(trips')[k + 1]
    <3>1. CASE k = n + 1
      BY <1>5, <1>13, <2>1, <2>2, <3>1
    <3>2. CASE k # n + 1
      <4>1. k \in 1 .. n /\ k + 1 \in 1 .. n + 1
        BY <1>5, <3>2
      <4> QED
        BY <2>2, <2>3, <4>1
    <3> QED
      BY <3>1, <3>2
  <2>5. \A k \in 1 .. Len(Stops(trips')) - 1 : Stops(trips')[k] # Stops(trips')[k + 1]
    BY <1>5, <2>2, <2>4
  <2> QED
    BY <2>5 DEF Distinct
<1>17. get_waypoint_dist[<<value'[Cur'], value'[Dest']>>] # -1
  <2>1. value \in [Vars -> Int]
    BY DEF Typed
  <2>2. value'[Cur'] = value[Cur] /\ value'[Dest'] = id
    BY <1>3, <1>4, <2>1 DEF MoveTold
  <2> QED
    BY <1>1, <2>2
<1>18. \A k \in 1 .. Len(trips') - 1 : trips'[k].arrived
  <2>1. \A k \in 1 .. n : trips[k].arrived
    <3> SUFFICES ASSUME NEW k \in 1 .. n PROVE trips[k].arrived
      OBVIOUS
    <3>1. CASE k = n
      <4>1. trips # <<>>
        BY <1>5, <3>1 DEF n
      <4> QED
        BY <1>5, <3>1, <4>1 DEF Last, n
    <3>2. CASE k # n
      <4>1. k \in 1 .. n - 1
        BY <1>5, <3>2
      <4> QED
        BY <1>5, <4>1
    <3> QED
      BY <3>1, <3>2
  <2>2. Len(trips') - 1 = n
    BY <1>5, <1>7
  <2> QED
    BY <1>7, <2>1, <2>2
<1>19. WaypointInv'
  BY <1>4, <1>7, <1>9, <1>15, <1>16, <1>17, <1>18 DEF WaypointInv, Stops, Targets
<1>20. Last(trips').held = 0
  BY <1>9 DEF trip
<1> QED
  BY <1>4, <1>10, <1>11, <1>19, <1>20 DEF MoveTold

\* A robot on the way to the last of its targets, which is behind the last of its stops.
OnTheWay ==
  /\ trips # <<>> /\ Len(trips) \in Nat /\ Len(Reached) = Len(trips) - 1
  /\ \A k \in 1 .. Len(trips) - 1 : Reached[k] = trips[k]
  /\ Append(Stops(Reached), value[Dest]) = Stops(trips) /\ value[Dest] = Last(Targets(trips))
  /\ value[Cur] # value[Dest] /\ value[Dest] \in Int
  /\ get_waypoint_dist[<<value[Cur], value[Dest]>>] \in Nat
  /\ <<value[Cur], value[Dest]>> \in DOMAIN get_waypoint_dist
  /\ \A t \in RoadTimes : t \in Nat /\ t >= get_waypoint_dist[<<value[Cur], value[Dest]>>]

\* A robot between two waypoints is on its last trip.
LEMMA WaypointOnTheWay ==
  ASSUME Typed, model = "waypoint", WaypointInv, loc = "BetweenWaypoints"
  PROVE  OnTheWay
<1> DEFINE n == Len(trips)
           d == value[Dest]
<1>1. /\ trips \in Seq(WaypointTrip) /\ n \in Nat
      /\ \A k \in 1 .. n - 1 : trips[k].arrived
      /\ trips # <<>> /\ ~Last(trips).arrived
      /\ get_waypoint_dist[<<value[Cur], d>>] # -1
      /\ Distinct(Stops(trips))
  BY DEF WaypointInv
<1>2. Dest \in Vars /\ Cur \in Vars /\ Dest # Cur /\ d \in Int
  BY VariablesOfModel DEF Typed
<1>3. /\ n >= 1 /\ n \in 1 .. n
      /\ Reached \in Seq(WaypointTrip) /\ Len(Reached) = n - 1
      /\ \A k \in 1 .. n - 1 : Reached[k] = trips[k]
  BY <1>1, ReachedFacts
<1>4. TripsTold(trips) /\ TripsTold(Reached)
  BY <1>1, <1>3, IdsFacts
<1>5. /\ Len(Stops(trips)) = n + 1 /\ Stops(trips) \in Seq(Int) /\ Stops(trips)[n + 1] = trips[n].id
      /\ Len(Targets(trips)) = n + 2 /\ Targets(trips) \in Seq(Int) /\ Targets(trips)[n + 2] = trips[n].id
      /\ Stops(trips)[1] = next_waypoint
      /\ \A i \in 1 .. n : Stops(trips)[i + 1] = trips[i].id /\ trips[i].id \in WaypointIds
  BY <1>3, <1>4 DEF TripsTold
<1>6. /\ Len(Stops(Reached)) = n /\ Stops(Reached) \in Seq(Int)
      /\ Stops(Reached)[1] = next_waypoint
      /\ \A i \in 1 .. n - 1 : Stops(Reached)[i + 1] = Reached[i].id
  BY <1>1, <1>3, <1>4 DEF TripsTold
<1>7. \A k \in 1 .. n : Stops(Reached)[k] = Stops(trips)[k]
  <2> SUFFICES ASSUME NEW k \in 1 .. n PROVE Stops(Reached)[k] = Stops(trips)[k]
    OBVIOUS
  <2>1. CASE k = 1
    BY <1>5, <1>6, <2>1
  <2>2. CASE k # 1
    <3>1. k - 1 \in 1 .. n - 1 /\ k - 1 \in 1 .. n /\ (k - 1) + 1 = k
      BY <1>1, <2>2
    <3>2. Stops(Reached)[k] = Reached[k - 1].id /\ Stops(trips)[k] = trips[k - 1].id
          /\ Reached[k - 1] = trips[k - 1]
      BY <1>3, <1>5, <1>6, <3>1
    <3> QED
      BY <3>2
  <2> QED
    BY <2>1, <2>2
\* Where the robot comes from and where it goes.
<1>8. value[Cur] = Stops(trips)[n] /\ d = trips[n].id /\ value[Cur] # d
  <2>1. Tells(trace[Dest], Targets(trips)) /\ Tells(trace[Cur], Stops(Reached))
    BY DEF WaypointInv
  <2>2. /\ trace[Dest] \in Seq(Sample) /\ Last(trace[Dest]).value = d
        /\ trace[Cur] \in Seq(Sample) /\ Last(trace[Cur]).value = value[Cur]
    BY <1>2 DEF Typed
  <2>3. d = Last(Targets(trips)) /\ value[Cur] = Last(Stops(Reached))
    BY <1>5, <1>6, <2>1, <2>2, TellsLast
  <2>4. Last(Targets(trips)) = trips[n].id /\ Last(Stops(Reached)) = Stops(trips)[n]
    BY <1>3, <1>5, <1>6, <1>7 DEF Last
  <2>5. Stops(trips)[n] # Stops(trips)[n + 1]
    BY <1>1, <1>3, <1>5 DEF Distinct
  <2> QED
    BY <1>5, <2>3, <2>4, <2>5
<1>9. value[Cur] \in WaypointIds /\ d \in WaypointIds
  <2>1. next_waypoint \in WaypointIds
    BY WaypointConstants
  <2>2. CASE n = 1
    BY <1>3, <1>5, <1>8, <2>1, <2>2
  <2>3. CASE n # 1
    <3>1. n - 1 \in 1 .. n /\ (n - 1) + 1 = n
      BY <1>1, <1>3, <2>3
    <3> QED
      BY <1>3, <1>5, <1>8, <3>1
  <2> QED
    BY <2>2, <2>3
<1>10. /\ get_waypoint_dist[<<value[Cur], d>>] \in Nat
       /\ <<value[Cur], d>> \in DOMAIN get_waypoint_dist
       /\ \A t \in RoadTimes : t \in Nat /\ t >= get_waypoint_dist[<<value[Cur], d>>]
  <2> DEFINE dist == get_waypoint_dist[<<value[Cur], d>>]
  <2>1. get_waypoint_dist \in [WaypointIds \X WaypointIds -> Nat \cup {-1}] /\ uncertainty \in Nat
    BY WaypointConstants
  <2>2. <<value[Cur], d>> \in WaypointIds \X WaypointIds
    BY <1>9
  <2>3. dist \in Nat \cup {-1} /\ <<value[Cur], d>> \in DOMAIN get_waypoint_dist
    BY <2>1, <2>2, Zenon
  <2>4. dist \in Nat
    BY <1>1, <2>3
  <2>5. RoadTimes = dist .. dist * uncertainty
    BY DEF RoadTimes
  <2> HIDE DEF dist
  <2>6. \A t \in RoadTimes : t \in Nat /\ t >= dist
    BY <2>4, <2>5
  <2> QED
    BY <2>3, <2>4, <2>6 DEF dist
<1>11. Append(Stops(Reached), d) = Stops(trips)
  <2>1. d \in Int
    BY <1>2
  <2>2. /\ Append(Stops(Reached), d) \in Seq(Int) /\ Len(Append(Stops(Reached), d)) = n + 1
        /\ Append(Stops(Reached), d)[n + 1] = d
        /\ \A i \in 1 .. n : Append(Stops(Reached), d)[i] = Stops(Reached)[i]
    BY <1>6, <2>1, AppendProperties
  <2>3. \A i \in 1 .. n + 1 : Append(Stops(Reached), d)[i] = Stops(trips)[i]
    <3> SUFFICES ASSUME NEW i \in 1 .. n + 1 PROVE Append(Stops(Reached), d)[i] = Stops(trips)[i]
      OBVIOUS
    <3>1. CASE i = n + 1
      BY <1>5, <1>8, <2>2, <3>1
    <3>2. CASE i # n + 1
      <4>1. i \in 1 .. n
        BY <1>1, <3>2
      <4> QED
        BY <1>7, <2>2, <4>1
    <3> QED
      BY <3>1, <3>2
  <2> QED
    BY <1>5, <2>2, <2>3, SeqEqual
<1>12. d = Last(Targets(trips))
  BY <1>5, <1>8 DEF Last
<1> QED
  BY <1>1, <1>2, <1>3, <1>8, <1>10, <1>11, <1>12, Zenon DEF OnTheWay

\* An arrival ends the last trip and tells where the robot is.
LEMMA WaypointArrives ==
  ASSUME Typed, model = "waypoint", WaypointInv, WaypointArrive
  PROVE  /\ Typed' /\ WaypointInv' /\ model' = "waypoint"
         /\ Reached' = trips' /\ Stops(Reached)' = Append(Stops(Reached), value[Dest])
         /\ Len(trips') = Len(trips) /\ \A k \in 1 .. Len(trips) - 1 : trips'[k] = trips[k]
<1> DEFINE n == Len(trips)
           d == value[Dest]
<1>1. PICK t \in RoadTimes : Move(loc, "QueueUp", now + t, Cur, d)
  BY DEF WaypointArrive
<1>2. loc = "BetweenWaypoints" /\ Arrived
  BY DEF WaypointArrive
<1>3. /\ trips \in Seq(WaypointTrip) /\ n \in Nat /\ trips # <<>>
      /\ \A k \in 1 .. n - 1 : trips[k].arrived
      /\ Distinct(Stops(trips))
  BY <1>2 DEF WaypointInv
<1>4. Dest \in Vars /\ Cur \in Vars /\ Dest # Cur /\ d \in Int
  BY VariablesOfModel DEF Typed
<1>5. OnTheWay
  BY <1>2, WaypointOnTheWay
<1>6. /\ n >= 1 /\ n \in 1 .. n /\ value[Cur] # d /\ Append(Stops(Reached), d) = Stops(trips)
      /\ t \in Nat /\ now + t \in Int /\ now <= now + t
  <2>1. t \in Nat /\ value[Cur] # d /\ Append(Stops(Reached), d) = Stops(trips)
    BY <1>5 DEF OnTheWay
  <2>2. n >= 1 /\ n \in 1 .. n
    BY <1>3
  <2>3. now + t \in Int /\ now <= now + t
    BY <2>1, LaterTimes
  <2> QED
    BY <2>1, <2>2, <2>3
<1> HIDE DEF d
<1>7. MoveTold(Cur, d) /\ loc' = "QueueUp"
  BY <1>1, <1>2, <1>4, <1>6, WaypointMoved DEF d
<1>8. /\ trips' \in Seq(WaypointTrip) /\ Len(trips') = n
      /\ \A k \in 1 .. n : trips'[k].id = trips[k].id
      /\ \A k \in 1 .. n - 1 : trips'[k] = trips[k]
      /\ trips'[n].arrived = TRUE
  BY <1>2, <1>3, ArrivedIds DEF WaypointTrip
<1> HIDE DEF n
<1>9. Stops(trips') = Stops(trips) /\ Targets(trips') = Targets(trips)
  BY <1>3, <1>8, SameIds DEF n
<1>10. trips' # <<>> /\ Last(trips').arrived
  BY <1>3, <1>6, <1>8 DEF Last
<1>11. Reached' = trips'
  BY <1>10 DEF Reached
<1>12. Tells(trace'[Dest'], Targets(trips')) /\ Tells(trace'[Cur'], Stops(Reached'))
       /\ Len(trace'[Dest']) >= 2 /\ trace'[Dest'][2].value = -1
  BY <1>4, <1>6, <1>7, <1>9, <1>11 DEF MoveTold
<1>13. \A k \in 1 .. Len(trips') - 1 : trips'[k].arrived
  BY <1>3, <1>8
<1>14. Distinct(Stops(trips'))
  BY <1>3, <1>9
<1>15. WaypointInv'
  BY <1>7, <1>8, <1>10, <1>12, <1>13, <1>14 DEF WaypointInv, Stops, Targets
<1>16. Stops(Reached)' = Append(Stops(Reached), d)
  <2>1. Stops(Reached)' = Stops(trips')
    BY <1>11, Zenon DEF Stops, Ids
  <2> QED
    BY <1>6, <1>9, <2>1
<1>17. Typed' /\ model' = "waypoint"
  BY <1>7 DEF MoveTold
<1> QED
  BY <1>8, <1>11, <1>15, <1>16, <1>17 DEF d, n

\* Every move of the robot in the waypoint model.
LEMMA WaypointMoves ==
  ASSUME Typed, model = "waypoint", WaypointInv, WaypointMove
  PROVE  Typed' /\ WaypointInv' /\ model' = "waypoint"
<1> DEFINE h == "Robot.Holding"
<1>1. /\ Dest \in Vars /\ Cur \in Vars /\ h \in Vars /\ Dest # Cur /\ h # Cur /\ h # Dest
  BY VariablesOfModel
<1>2. /\ now \in Int /\ now <= now /\ now + 1 \in Int /\ now <= now + 1
      /\ \A t \in WaitingTimes : now + t \in Int /\ now <= now + t
  BY LaterTimes, WaypointConstants
<1>3. value[Dest] \in Int /\ 0 \in Int /\ 1 \in Int
  BY <1>1 DEF Typed
<1>4. /\ trips \in Seq(WaypointTrip) /\ Len(trips) \in Nat
      /\ loc \in {"QueueUp", "Holding", "Waiting"} => trips # <<>>
  BY DEF WaypointInv
<1>5. trips' = trips =>
        /\ trips' \in Seq(WaypointTrip) /\ Len(trips') = Len(trips)
        /\ \A k \in 1 .. Len(trips) : trips'[k].id = trips[k].id /\ trips'[k].arrived = trips[k].arrived
  BY <1>4
<1> HIDE DEF h
<1>6. CASE WaypointStart
  BY <1>6, WaypointStarts
<1>7. CASE WaypointDone
  <2>1. Move("Choose", "Done", now, Dest, value[Dest]) /\ trips' = trips
    BY <1>7 DEF WaypointDone
  <2> QED
    BY <1>1, <1>2, <1>3, <1>5, <2>1, WaypointQuietMove
<1>8. CASE WaypointArrive
  BY <1>8, WaypointArrives
<1>9. CASE WaypointHold
  <2>1. /\ Move("QueueUp", "Holding", now, h, 1) /\ trips # <<>> /\ Last(trips).held < MaxHolds
        /\ trips' = [trips EXCEPT ![Len(trips)].held = @ + 1]
    BY <1>9 DEF WaypointHold, h
  <2> DEFINE last == [trips[Len(trips)] EXCEPT !.held = @ + 1]
  <2>2. trips' = [trips EXCEPT ![Len(trips)] = last]
    BY <2>1
  <2>3. trips[Len(trips)] \in WaypointTrip /\ MaxHolds \in Nat
    BY <1>4, <2>1, LastInSeq, WaypointConstants
  <2>4. last \in WaypointTrip /\ last.id = trips[Len(trips)].id /\ last.arrived = trips[Len(trips)].arrived
    BY <2>1, <2>3 DEF WaypointTrip, Last
  <2> HIDE DEF last
  <2>5. /\ trips' \in Seq(WaypointTrip) /\ Len(trips') = Len(trips) /\ trips'[Len(trips)] = last
        /\ \A k \in 1 .. Len(trips) : k # Len(trips) => trips'[k] = trips[k]
    BY <1>4, <2>1, <2>2, <2>4, NewLast
  <2>6. \A k \in 1 .. Len(trips) : trips'[k].id = trips[k].id /\ trips'[k].arrived = trips[k].arrived
    BY <2>4, <2>5
  <2> QED
    BY <1>1, <1>2, <1>3, <2>1, <2>5, <2>6, WaypointQuietMove
<1>10. CASE WaypointHeld
  <2>1. Move("Holding", "QueueUp", now + 1, h, 0) /\ trips' = trips /\ trips # <<>>
    BY <1>4, <1>10 DEF WaypointHeld, h
  <2> QED
    BY <1>1, <1>2, <1>3, <1>5, <2>1, WaypointQuietMove
<1>11. CASE WaypointQueue
  <2>1. Move("QueueUp", "Waiting", now, Dest, value[Dest]) /\ trips' = trips
    BY <1>11 DEF WaypointQueue
  <2>2. trips # <<>>
    BY <1>4, <2>1 DEF Move
  <2> QED
    BY <1>1, <1>2, <1>3, <1>5, <2>1, <2>2, WaypointQuietMove
<1>12. CASE WaypointGo
  <2>1. PICK w \in WaitingTimes : Move("Waiting", "Choose", now + w, Dest, value[Dest])
    BY <1>12 DEF WaypointGo
  <2>2. trips' = trips
    BY <1>12 DEF WaypointGo
  <2> QED
    BY <1>1, <1>2, <1>3, <1>5, <2>1, <2>2, WaypointQuietMove
<1>13. CASE \E id \in WaypointIds : WaypointChoose(id)
  BY <1>13, WaypointChooses
<1> QED
  BY <1>6, <1>7, <1>8, <1>9, <1>10, <1>11, <1>12, <1>13 DEF WaypointMove

-----------------------------------------------------------------------------
(* The parser.                                                             *)

Line == {Formula(n) : n \in 1 .. 3} \cup {Verdict, Blank, OddRun}
        \cup {Name(v) : v \in Vars} \cup {Run(trace[v]) : v \in Vars}

\* The text of formula 2 with the expressions, where the runs in O are odd.
PrintedLines(R, O) ==
  /\ R \in Seq(Line) /\ Len(R) \in {11, 12, 14} /\ O \subseteq {2, 4, 6}
  /\ R[1] = Formula(1) /\ R[2] = Verdict /\ R[3] = Blank /\ R[4] = Formula(2) /\ R[5] = Verdict
  /\ \A k \in 1 .. 3 : /\ R[2 * k + 4] = Name(Variables(model)[k])
                       /\ 2 * k \in O => R[2 * k + 5] = OddRun
                       /\ 2 * k \notin O => R[2 * k + 5] = Run(trace[Variables(model)[k]])
  /\ Len(R) > 11 => R[12] = Blank
  /\ Len(R) = 14 => R[13] = Formula(3) /\ R[14] = Verdict

\* No expressions: formula 2 has no strategy or is not satisfied.
NoExpressions(R) ==
  /\ R \in Seq(Line) /\ Len(R) \in {2, 8}
  /\ R[1] = Formula(1) /\ R[2] = Verdict
  /\ Len(R) = 8 => /\ R[3] = Blank /\ R[4] = Formula(2) /\ R[5] = Verdict
                   /\ R[6] = Blank /\ R[7] = Formula(3) /\ R[8] = Verdict

\* The lines by their kinds.
LEMMA LineKinds ==
  /\ \A n : Formula(n).kind = "formula" /\ Formula(n).n = n
  /\ Verdict.kind = "verdict" /\ Blank.kind = "blank"
  /\ OddRun.kind = "odd" /\ OddRun.name = "[0]:"
  /\ \A v : Name(v).kind = "name" /\ Name(v).name = v
  /\ \A p : Run(p).kind = "run" /\ Run(p).pairs = p
BY DEF Formula, Verdict, Blank, OddRun, Name, Run

\* The three variables of a query.
LEMMA ThreeVariables ==
  ASSUME Typed
  PROVE  /\ \A k \in 1 .. 3 : Variables(model)[k] \in Vars /\ Variables(model)[k] # "[0]:"
         /\ \A v \in Vars : \E k \in 1 .. 3 : v = Variables(model)[k]
         /\ \A j, k \in 1 .. 3 : Variables(model)[j] = Variables(model)[k] => j = k
<1>1. ASSUME NEW a, NEW b, NEW c, NEW s, s = <<a, b, c>>
      PROVE  s[1] = a /\ s[2] = b /\ s[3] = c /\ Range(s) = {a, b, c}
  BY <1>1 DEF Range
<1>2. \A k \in 1 .. 3 : k = 1 \/ k = 2 \/ k = 3
  OBVIOUS
<1>3. CASE model = "waypoint"
  <2>1. Variables(model) = <<"Robot.cur_waypoint", "Robot.dest_waypoint", "Robot.Holding">>
    BY <1>3 DEF Variables
  <2>2. /\ Variables(model)[1] = "Robot.cur_waypoint" /\ Variables(model)[2] = "Robot.dest_waypoint"
        /\ Variables(model)[3] = "Robot.Holding"
        /\ Vars = {"Robot.cur_waypoint", "Robot.dest_waypoint", "Robot.Holding"}
    BY <1>1, <2>1 DEF Vars
  <2> QED
    BY <1>2, <2>2
<1>4. CASE model = "station"
  <2>1. Variables(model) = <<"Robot.initial_station", "Robot.converted_cur()", "Robot.converted_dest()">>
    BY <1>4 DEF Variables
  <2>2. /\ Variables(model)[1] = "Robot.initial_station" /\ Variables(model)[2] = "Robot.converted_cur()"
        /\ Variables(model)[3] = "Robot.converted_dest()"
        /\ Vars = {"Robot.initial_station", "Robot.converted_cur()", "Robot.converted_dest()"}
    BY <1>1, <2>1 DEF Vars
  <2> QED
    BY <1>2, <2>2
<1> QED
  BY <1>3, <1>4 DEF Typed

\* The lines of the three variables.
LEMMA PrintedFacts ==
  ASSUME Typed
  PROVE  /\ Printed(trace) \in Seq(Line) /\ Len(Printed(trace)) = 6
         /\ \A k \in 1 .. 3 : /\ Printed(trace)[2 * k - 1] = Name(Variables(model)[k])
                              /\ Printed(trace)[2 * k] = Run(trace[Variables(model)[k]])
<1> DEFINE x(k) == Variables(model)[k]
<1>1. \A k \in 1 .. 3 : Name(x(k)) \in Line /\ Run(trace[x(k)]) \in Line
  BY ThreeVariables, Zenon DEF Line
<1>2. Printed(trace) = <<Name(x(1)), Run(trace[x(1)]), Name(x(2)), Run(trace[x(2)]), Name(x(3)), Run(trace[x(3)])>>
  BY DEF Printed
<1> HIDE DEF x
<1>3. /\ Name(x(1)) \in Line /\ Run(trace[x(1)]) \in Line /\ Name(x(2)) \in Line
      /\ Run(trace[x(2)]) \in Line /\ Name(x(3)) \in Line /\ Run(trace[x(3)]) \in Line
  BY <1>1
<1>4. ASSUME NEW a \in Line, NEW b \in Line, NEW c \in Line, NEW d \in Line, NEW e \in Line, NEW f \in Line
      PROVE  LET s == <<a, b, c, d, e, f>>
             IN s \in Seq(Line) /\ Len(s) = 6 /\ s[1] = a /\ s[2] = b /\ s[3] = c /\ s[4] = d /\ s[5] = e /\ s[6] = f
  OBVIOUS
<1>5. /\ Printed(trace) \in Seq(Line) /\ Len(Printed(trace)) = 6
      /\ Printed(trace)[1] = Name(x(1)) /\ Printed(trace)[2] = Run(trace[x(1)])
      /\ Printed(trace)[3] = Name(x(2)) /\ Printed(trace)[4] = Run(trace[x(2)])
      /\ Printed(trace)[5] = Name(x(3)) /\ Printed(trace)[6] = Run(trace[x(3)])
  BY <1>2, <1>3, <1>4
<1>6. \A k \in 1 .. 3 : k = 1 \/ k = 2 \/ k = 3
  OBVIOUS
<1>7. \A k \in 1 .. 3 : Printed(trace)[2 * k - 1] = Name(x(k)) /\ Printed(trace)[2 * k] = Run(trace[x(k)])
  BY <1>5, <1>6
<1> QED
  BY <1>5, <1>7 DEF x

\* Lines after the lines of formula 1 and the verdict on formula 2.
LEMMA AfterVerdict ==
  ASSUME NEW L, Formula(1) \in L, Formula(2) \in L, Verdict \in L, Blank \in L, NEW s \in Seq(L)
  PROVE  LET before == <<Formula(1), Verdict, Blank, Formula(2), Verdict>>
         IN /\ before \o s \in Seq(L) /\ Len(before \o s) = Len(s) + 5
            /\ (before \o s)[1] = Formula(1) /\ (before \o s)[2] = Verdict /\ (before \o s)[3] = Blank
            /\ (before \o s)[4] = Formula(2) /\ (before \o s)[5] = Verdict
            /\ \A i \in 1 .. Len(s) : (before \o s)[i + 5] = s[i]
<1> DEFINE b == <<Formula(1), Verdict, Blank, Formula(2), Verdict>>
<1>1. /\ b \in Seq(L) /\ Len(b) = 5 /\ b[1] = Formula(1) /\ b[2] = Verdict /\ b[3] = Blank
      /\ b[4] = Formula(2) /\ b[5] = Verdict
  OBVIOUS
<1> HIDE DEF b
<1>2. /\ b \o s \in Seq(L) /\ Len(b \o s) = Len(b) + Len(s)
      /\ \A i \in 1 .. Len(b) + Len(s) : (b \o s)[i] = IF i <= Len(b) THEN b[i] ELSE s[i - Len(b)]
  BY <1>1, ConcatProperties
<1>3. Len(s) \in Nat
  OBVIOUS
<1>4. \A i \in 1 .. 5 : (b \o s)[i] = b[i]
  BY <1>1, <1>2, <1>3
<1>5. \A i \in 1 .. Len(s) : (b \o s)[i + 5] = s[i]
  BY <1>1, <1>2, <1>3
<1>6. (b \o s)[1] = b[1] /\ (b \o s)[2] = b[2] /\ (b \o s)[3] = b[3] /\ (b \o s)[4] = b[4] /\ (b \o s)[5] = b[5]
  <2>1. 1 \in 1 .. 5 /\ 2 \in 1 .. 5 /\ 3 \in 1 .. 5 /\ 4 \in 1 .. 5 /\ 5 \in 1 .. 5
    OBVIOUS
  <2> QED
    BY <1>4, <2>1, Zenon
<1>7. Len(b \o s) = Len(s) + 5
  BY <1>1, <1>2, <1>3
<1> QED
  BY <1>1, <1>2, <1>5, <1>6, <1>7 DEF b

OneNew(S, y, s, i, x) ==
  /\ y \in Seq(S) /\ Len(y) = Len(s) /\ y[i] = x
  /\ \A k \in 1 .. Len(s) : k # i => y[k] = s[k]

\* Another element at a position of a sequence.
LEMMA NewAt ==
  ASSUME NEW S, NEW s \in Seq(S), NEW i \in 1 .. Len(s), NEW x \in S, NEW y, y = [s EXCEPT ![i] = x]
  PROVE  OneNew(S, y, s, i, x)
BY DEF OneNew

\* The lines with some runs odd.
LinesWithOdd(s, O) ==
  /\ s \in Seq(Line) /\ Len(s) = 6 /\ O \subseteq {2, 4, 6}
  /\ \A k \in 1 .. 3 : /\ s[2 * k - 1] = Name(Variables(model)[k])
                       /\ 2 * k \in O => s[2 * k] = OddRun
                       /\ 2 * k \notin O => s[2 * k] = Run(trace[Variables(model)[k]])

\* The lines of an answer, with no odd run or with one.
LEMMA OddLines ==
  ASSUME Typed
  PROVE  /\ LinesWithOdd(Printed(trace), {})
         /\ \A i \in {2, 4, 6} : LinesWithOdd([Printed(trace) EXCEPT ![i] = OddRun], {i})
<1> DEFINE p == Printed(trace)
<1>1. /\ p \in Seq(Line) /\ Len(p) = 6
      /\ \A k \in 1 .. 3 : /\ p[2 * k - 1] = Name(Variables(model)[k])
                           /\ p[2 * k] = Run(trace[Variables(model)[k]])
  BY PrintedFacts
<1> HIDE DEF p
<1>2. LinesWithOdd(p, {})
  BY <1>1 DEF LinesWithOdd
<1>3. ASSUME NEW i \in {2, 4, 6} PROVE LinesWithOdd([p EXCEPT ![i] = OddRun], {i})
  <2> DEFINE q == [p EXCEPT ![i] = OddRun]
  <2>1. OddRun \in Line
    BY DEF Line
  <2>2. q \in Seq(Line) /\ Len(q) = 6 /\ q[i] = OddRun /\ \A j \in 1 .. 6 : j # i => q[j] = p[j]
    <3>1. i \in 1 .. Len(p)
      BY <1>1
    <3>2. q = [p EXCEPT ![i] = OddRun]
      OBVIOUS
    <3> HIDE DEF q
    <3>3. OneNew(Line, q, p, i, OddRun)
      BY <1>1, <2>1, <3>1, <3>2, NewAt, Zenon
    <3> QED
      BY <1>1, <3>3 DEF OneNew
  <2> HIDE DEF q
  <2>3. \A k \in 1 .. 3 : 2 * k - 1 \in 1 .. 6 /\ 2 * k \in 1 .. 6 /\ 2 * k - 1 # i
    OBVIOUS
  <2>4. ASSUME NEW k \in 1 .. 3
        PROVE  /\ q[2 * k - 1] = Name(Variables(model)[k])
               /\ 2 * k \in {i} => q[2 * k] = OddRun
               /\ 2 * k \notin {i} => q[2 * k] = Run(trace[Variables(model)[k]])
    BY <1>1, <2>2, <2>3
  <2> QED
    BY <2>2, <2>4 DEF LinesWithOdd, q
<1> QED
  BY <1>2, <1>3 DEF p

\* The text of an answer.
LEMMA LinesPrinted ==
  ASSUME Typed, NEW s, NEW O, LinesWithOdd(s, O), NEW tail \in Seq(Line),
         \/ tail = <<>> \/ tail = <<Blank>> \/ tail = <<Blank, Formula(3), Verdict>>
  PROVE  PrintedLines(<<Formula(1), Verdict, Blank, Formula(2), Verdict>> \o s \o tail, O)
<1> DEFINE b == <<Formula(1), Verdict, Blank, Formula(2), Verdict>>
           u == b \o s
           R == u \o tail
<1>1. /\ Formula(1) \in Line /\ Formula(2) \in Line /\ Verdict \in Line /\ Blank \in Line
  BY DEF Line
<1>2. s \in Seq(Line) /\ Len(s) = 6 /\ O \subseteq {2, 4, 6}
  BY DEF LinesWithOdd
<1>3. /\ u \in Seq(Line) /\ Len(u) = Len(s) + 5
      /\ u[1] = Formula(1) /\ u[2] = Verdict /\ u[3] = Blank /\ u[4] = Formula(2) /\ u[5] = Verdict
      /\ \A i \in 1 .. Len(s) : u[i + 5] = s[i]
  BY <1>1, <1>2, AfterVerdict
<1> HIDE DEF u
<1>4. /\ R \in Seq(Line) /\ Len(R) = Len(u) + Len(tail)
      /\ \A i \in 1 .. Len(u) + Len(tail) : R[i] = IF i <= Len(u) THEN u[i] ELSE tail[i - Len(u)]
  BY <1>3, ConcatProperties
<1> HIDE DEF R
<1>5. Len(u) = 11 /\ Len(tail) \in Nat
  BY <1>2, <1>3
<1>6. \A i \in 1 .. 11 : R[i] = u[i]
  BY <1>4, <1>5
<1>7. \A i \in 1 .. Len(tail) : R[i + 11] = tail[i]
  BY <1>4, <1>5
<1>8. Len(tail) \in {0, 1, 3} /\ (Len(tail) > 0 => tail[1] = Blank)
      /\ (Len(tail) = 3 => tail[2] = Formula(3) /\ tail[3] = Verdict)
  OBVIOUS
<1>9. Len(R) \in {11, 12, 14} /\ Len(R) = 11 + Len(tail)
  <2> DEFINE t == Len(tail)
             r == Len(R)
  <2>1. r = 11 + t /\ (t = 0 \/ t = 1 \/ t = 3)
    BY <1>4, <1>5, <1>8
  <2> HIDE DEF t, r
  <2>2. r \in {11, 12, 14}
    BY <2>1
  <2> QED
    BY <2>1, <2>2 DEF t, r
<1>10. Len(R) > 11 => R[12] = Blank
  <2>1. Len(R) > 11 => 1 \in 1 .. Len(tail) /\ Len(tail) > 0 /\ 1 + 11 = 12
    BY <1>5, <1>9
  <2> QED
    BY <1>7, <1>8, <2>1
<1>11. Len(R) = 14 => R[13] = Formula(3) /\ R[14] = Verdict
  <2>1. Len(R) = 14 => 2 \in 1 .. Len(tail) /\ 3 \in 1 .. Len(tail) /\ Len(tail) = 3 /\ 2 + 11 = 13 /\ 3 + 11 = 14
    <3>1. Len(R) = 14 => Len(tail) = 3
      <4> DEFINE t == Len(tail)
                 r == Len(R)
      <4>1. t \in Nat /\ r = 11 + t
        BY <1>5, <1>9
      <4> HIDE DEF t, r
      <4>2. r = 14 => t = 3
        BY <4>1
      <4> QED
        BY <4>2 DEF t, r
    <3>2. 2 \in 1 .. 3 /\ 3 \in 1 .. 3 /\ 2 + 11 = 13 /\ 3 + 11 = 14
      OBVIOUS
    <3> QED
      BY <3>1, <3>2
  <2> QED
    BY <1>7, <1>8, <2>1
<1>12. R[1] = Formula(1) /\ R[2] = Verdict /\ R[3] = Blank /\ R[4] = Formula(2) /\ R[5] = Verdict
  BY <1>3, <1>6
<1>13. \A k \in 1 .. 3 : R[2 * k + 4] = s[2 * k - 1] /\ R[2 * k + 5] = s[2 * k]
  <2> SUFFICES ASSUME NEW k \in 1 .. 3 PROVE R[2 * k + 4] = s[2 * k - 1] /\ R[2 * k + 5] = s[2 * k]
    OBVIOUS
  <2>1. /\ 2 * k - 1 \in 1 .. Len(s) /\ 2 * k \in 1 .. Len(s) /\ (2 * k - 1) + 5 = 2 * k + 4
        /\ 2 * k + 4 \in 1 .. 11 /\ 2 * k + 5 \in 1 .. 11
    BY <1>2
  <2> QED
    BY <1>3, <1>6, <2>1
<1>14. PrintedLines(R, O)
  BY <1>2, <1>4, <1>9, <1>10, <1>11, <1>12, <1>13 DEF PrintedLines, LinesWithOdd
<1> QED
  BY <1>14 DEF R, u, b

\* The answers of UPPAAL.
LEMMA AnswerShapes ==
  ASSUME Typed, NEW R \in Answers(trace)
  PROVE  (\E O \in SUBSET {2, 4, 6} : PrintedLines(R, O)) \/ NoExpressions(R)
<1> DEFINE b == <<Formula(1), Verdict, Blank, Formula(2), Verdict>>
           p == Printed(trace)
           bt == <<Blank, Formula(3), Verdict>>
<1>1. /\ Formula(1) \in Line /\ Formula(2) \in Line /\ Formula(3) \in Line /\ Verdict \in Line /\ Blank \in Line
  BY DEF Line
<1>2. <<>> \in Seq(Line) /\ <<Blank>> \in Seq(Line) /\ bt \in Seq(Line)
  BY <1>1
<1>3. /\ LinesWithOdd(p, {})
      /\ \A i \in {2, 4, 6} : LinesWithOdd([p EXCEPT ![i] = OddRun], {i})
  BY OddLines
<1>4. \/ R = b \o p \/ R = b \o p \o bt
      \/ R = <<Formula(1), Verdict>> \/ R = b \o bt
      \/ \E i \in {2, 4, 6} : R = b \o [p EXCEPT ![i] = OddRun] \o <<Blank>>
  BY Zenon DEF Answers
<1>5. CASE R = b \o p
  <2>1. PrintedLines(b \o p \o <<>>, {})
    BY <1>2, <1>3, LinesPrinted
  <2>2. b \o p \o <<>> = b \o p
    <3>1. p \in Seq(Line)
      BY PrintedFacts
    <3>2. b \o p \in Seq(Line)
      BY <1>1, <3>1, AfterVerdict
    <3> QED
      BY <3>2, ConcatEmptySeq
  <2> QED
    BY <1>5, <2>1, <2>2
<1>6. CASE R = b \o p \o bt
  <2>1. PrintedLines(b \o p \o bt, {})
    BY <1>2, <1>3, LinesPrinted
  <2> QED
    BY <1>6, <2>1
<1>7. CASE \E i \in {2, 4, 6} : R = b \o [p EXCEPT ![i] = OddRun] \o <<Blank>>
  <2>1. PICK i \in {2, 4, 6} : R = b \o [p EXCEPT ![i] = OddRun] \o <<Blank>>
    BY <1>7
  <2>2. PrintedLines(b \o [p EXCEPT ![i] = OddRun] \o <<Blank>>, {i})
    BY <1>2, <1>3, LinesPrinted
  <2> QED
    BY <2>1, <2>2
<1>8. CASE R = <<Formula(1), Verdict>>
  <2>1. ASSUME NEW a \in Line, NEW c \in Line, NEW s, s = <<a, c>>
        PROVE  s \in Seq(Line) /\ Len(s) = 2 /\ s[1] = a /\ s[2] = c
    BY <2>1
  <2> QED
    BY <1>1, <1>8, <2>1 DEF NoExpressions
<1>9. CASE R = b \o bt
  <2>1. /\ R \in Seq(Line) /\ Len(R) = Len(bt) + 5
        /\ R[1] = Formula(1) /\ R[2] = Verdict /\ R[3] = Blank /\ R[4] = Formula(2) /\ R[5] = Verdict
        /\ \A i \in 1 .. Len(bt) : R[i + 5] = bt[i]
    <3> HIDE DEF bt
    <3>1. /\ b \o bt \in Seq(Line) /\ Len(b \o bt) = Len(bt) + 5
          /\ (b \o bt)[1] = Formula(1) /\ (b \o bt)[2] = Verdict /\ (b \o bt)[3] = Blank
          /\ (b \o bt)[4] = Formula(2) /\ (b \o bt)[5] = Verdict
          /\ \A i \in 1 .. Len(bt) : (b \o bt)[i + 5] = bt[i]
      BY <1>1, <1>2, AfterVerdict
    <3> HIDE DEF b
    <3> QED
      BY <1>9, <3>1
  <2>2. Len(bt) = 3 /\ bt[1] = Blank /\ bt[2] = Formula(3) /\ bt[3] = Verdict
    OBVIOUS
  <2>3. 1 \in 1 .. 3 /\ 2 \in 1 .. 3 /\ 3 \in 1 .. 3 /\ 1 + 5 = 6 /\ 2 + 5 = 7 /\ 3 + 5 = 8
    OBVIOUS
  <2> HIDE DEF bt
  <2>4. R[6] = Blank /\ R[7] = Formula(3) /\ R[8] = Verdict /\ Len(R) = 8
    BY <2>1, <2>2, <2>3
  <2> QED
    BY <2>1, <2>4 DEF NoExpressions
<1> QED
  BY <1>4, <1>5, <1>6, <1>7, <1>8, <1>9

\* The first of some positions, where it is known.
LEMMA FirstIs ==
  ASSUME NEW S, NEW i \in Nat, i \in S, S \in SUBSET Nat, \A j \in S : i <= j
  PROVE  First(S) = i
<1>1. Min(S) \in S /\ \A m \in S : Min(S) <= m
  BY MinNatural
<1> DEFINE m == Min(S)
<1>2. m \in Nat /\ m \in S
  BY <1>1
<1>3. m <= i
  BY <1>1, Zenon
<1>4. i <= m
  BY <1>2, Zenon
<1> HIDE DEF m
<1>5. m = i
  BY <1>2, <1>3, <1>4
<1> QED
  BY <1>5, Zenon DEF First, m

\* The body of formula 2: the lines of the variables.
LEMMA BodyPrinted ==
  ASSUME Typed, NEW R, NEW O, PrintedLines(R, O)
  PROVE  /\ formula_text(R, 2) # <<>>
         /\ formula_body(R, 2) \in Seq(Line) /\ Len(formula_body(R, 2)) = 6
         /\ \A i \in 1 .. 6 : formula_body(R, 2)[i] = R[i + 5]
<1> DEFINE n == Len(R)
           m == IF n = 14 THEN 12 ELSE n
           starts == {i \in DOMAIN R : R[i] = Formula(2)}
           stops == {i \in DOMAIN R : R[i] = Formula(2 + 1)}
<1>1. /\ R \in Seq(Line) /\ n \in {11, 12, 14} /\ DOMAIN R = 1 .. n /\ O \subseteq {2, 4, 6}
      /\ R[1] = Formula(1) /\ R[2] = Verdict /\ R[3] = Blank /\ R[4] = Formula(2) /\ R[5] = Verdict
      /\ \A k \in 1 .. 3 : /\ R[2 * k + 4] = Name(Variables(model)[k])
                           /\ 2 * k \in O => R[2 * k + 5] = OddRun
                           /\ 2 * k \notin O => R[2 * k + 5] = Run(trace[Variables(model)[k]])
      /\ n > 11 => R[12] = Blank
      /\ n = 14 => R[13] = Formula(3) /\ R[14] = Verdict
  BY DEF PrintedLines
<1>2. /\ R[1].kind = "formula" /\ R[1].n = 1 /\ R[2].kind = "verdict" /\ R[3].kind = "blank"
      /\ R[4].kind = "formula" /\ R[4].n = 2 /\ R[5].kind = "verdict"
      /\ n > 11 => R[12].kind = "blank"
      /\ n = 14 => R[13].kind = "formula" /\ R[13].n = 3 /\ R[14].kind = "verdict"
  <2>1. /\ Formula(1).kind = "formula" /\ Formula(1).n = 1 /\ Formula(2).kind = "formula" /\ Formula(2).n = 2
        /\ Formula(3).kind = "formula" /\ Formula(3).n = 3
    BY LineKinds, Zenon
  <2>2. Verdict.kind = "verdict" /\ Blank.kind = "blank"
    BY LineKinds, Zenon
  <2> QED
    BY <1>1, <2>1, <2>2
<1>3. \A k \in 1 .. 3 : R[2 * k + 4].kind = "name" /\ R[2 * k + 5].kind \in {"odd", "run"}
  <2> SUFFICES ASSUME NEW k \in 1 .. 3
               PROVE  R[2 * k + 4].kind = "name" /\ R[2 * k + 5].kind \in {"odd", "run"}
    OBVIOUS
  <2>1. R[2 * k + 4].kind = "name"
    BY <1>1, LineKinds
  <2>2. R[2 * k + 5] = OddRun \/ R[2 * k + 5] = Run(trace[Variables(model)[k]])
    BY <1>1
  <2>3. R[2 * k + 5].kind = "odd" \/ R[2 * k + 5].kind = "run"
    BY <2>2, LineKinds
  <2> QED
    BY <2>1, <2>3
<1>4. \A i \in 6 .. 11 : R[i].kind \in {"name", "odd", "run"}
  <2>1. \A i \in 6 .. 11 : \E k \in 1 .. 3 : i = 2 * k + 4 \/ i = 2 * k + 5
    <3>1. 6 = 2 * 1 + 4 /\ 7 = 2 * 1 + 5 /\ 8 = 2 * 2 + 4 /\ 9 = 2 * 2 + 5 /\ 10 = 2 * 3 + 4 /\ 11 = 2 * 3 + 5
      OBVIOUS
    <3> QED
      BY <3>1
  <2> QED
    BY <1>3, <2>1
<1>5. \A i \in 1 .. n : i \in {1, 2, 3, 4, 5, 12, 13, 14} \/ i \in 6 .. 11
  <2>1. n = 11 \/ n = 12 \/ n = 14
    BY <1>1, Zenon
  <2> HIDE DEF n
  <2>2. n <= 14 /\ n \in Nat
    BY <2>1
  <2> QED
    BY <2>2
<1> HIDE DEF n
<1>6. \A i \in 1 .. n : R[i].kind = "formula" => i \in {1, 4, 13} /\ (i = 13 => n = 14)
  BY <1>1, <1>2, <1>4, <1>5
<1>7. First(starts) = 4
  <2>1. 4 \in starts /\ starts \subseteq {4}
    <3>1. \A i \in starts : R[i].kind = "formula" /\ R[i].n = 2 /\ i \in 1 .. n
      BY <1>1, LineKinds
    <3>2. 4 \in 1 .. n
      BY <1>1
    <3> QED
      BY <1>1, <1>2, <1>6, <3>1, <3>2
  <2> QED
    BY <2>1, FirstIs
<1>8. First(stops) = (IF n = 14 THEN 13 ELSE 0)
  <2>1. \A i \in stops : R[i].kind = "formula" /\ R[i].n = 3 /\ i \in 1 .. n
    BY <1>1, LineKinds
  <2>2. \A i \in stops : i = 13 /\ n = 14
    BY <1>2, <1>6, <2>1
  <2>3. CASE n = 14
    <3>1. 13 \in stops /\ stops \subseteq {13}
      BY <1>1, <2>2, <2>3
    <3> QED
      BY <2>3, <3>1, FirstIs
  <2>4. CASE n # 14
    <3>1. stops = {}
      BY <2>2, <2>4
    <3> QED
      BY <2>4, <3>1 DEF First
  <2> QED
    BY <2>3, <2>4
<1> HIDE DEF starts, stops
<1>9. formula_text(R, 2) = SubSeq(R, 4, m)
  <2>1. formula_text(R, 2) = IF First(starts) = 0 THEN <<>>
                             ELSE SubSeq(R, First(starts), IF First(stops) = 0 THEN Len(R) ELSE First(stops) - 1)
    BY Zenon DEF formula_text, starts, stops
  <2>2. formula_text(R, 2) = SubSeq(R, 4, IF First(stops) = 0 THEN n ELSE First(stops) - 1)
    BY <1>7, <2>1 DEF n
  <2>3. (IF First(stops) = 0 THEN n ELSE First(stops) - 1) = m
    BY <1>8
  <2> QED
    BY <2>2, <2>3
<1>10. m \in {11, 12} /\ m <= n /\ n \in Int
  BY <1>1
<1> DEFINE F == SubSeq(R, 4, m)
           rest == SubSeq(F, 3, Len(F))
<1> HIDE DEF m
<1>11. F \in Seq(Line) /\ Len(F) = m - 3 /\ \A k \in 1 .. m - 3 : F[k] = R[k + 3]
  <2>1. /\ SubSeq(R, 4, m) \in Seq(Line) /\ Len(SubSeq(R, 4, m)) = m - 4 + 1
        /\ \A k \in 1 .. m - 4 + 1 : SubSeq(R, 4, m)[k] = R[4 + k - 1]
    <3>1. 4 \in Int /\ m \in Int /\ 1 <= 4 /\ 4 <= m + 1 /\ m <= Len(R)
      BY <1>10 DEF n
    <3> QED
      BY <1>1, <3>1, PartFacts
  <2> QED
    BY <1>10, <2>1
<1> HIDE DEF F
<1>12. rest \in Seq(Line) /\ Len(rest) = m - 5 /\ \A k \in 1 .. m - 5 : rest[k] = R[k + 5]
  <2>1. /\ SubSeq(F, 3, Len(F)) \in Seq(Line) /\ Len(SubSeq(F, 3, Len(F))) = Len(F) - 3 + 1
        /\ \A k \in 1 .. Len(F) - 3 + 1 : SubSeq(F, 3, Len(F))[k] = F[3 + k - 1]
    <3>1. 3 \in Int /\ Len(F) \in Int /\ 1 <= 3 /\ 3 <= Len(F) + 1 /\ Len(F) <= Len(F)
      BY <1>10, <1>11
    <3> QED
      BY <1>11, <3>1, PartFacts
  <2>2. Len(F) - 3 + 1 = m - 5 /\ \A k \in 1 .. m - 5 : k + 2 \in 1 .. m - 3 /\ 3 + k - 1 = k + 2 /\ (k + 2) + 3 = k + 5
    BY <1>10, <1>11
  <2> QED
    BY <1>11, <2>1, <2>2
<1> HIDE DEF rest
<1> DEFINE blanks == {i \in DOMAIN rest : rest[i] = Blank}
<1>13. \A i \in blanks : i = 7 /\ m = 12
  <2> SUFFICES ASSUME NEW i \in blanks PROVE i = 7 /\ m = 12
    OBVIOUS
  <2>1. i \in 1 .. m - 5 /\ R[i + 5] = Blank
    BY <1>12
  <2>2. R[i + 5].kind = "blank"
    BY <2>1, LineKinds
  <2>3. i \in 1 .. 6 => i + 5 \in 6 .. 11
    OBVIOUS
  <2> QED
    BY <1>4, <1>10, <2>1, <2>2, <2>3
<1>14. m = 12 => 7 \in blanks
  <2>1. m = 12 => n > 11 /\ 7 \in 1 .. m - 5 /\ 7 + 5 = 12
    BY <1>10
  <2> QED
    BY <1>1, <1>12, <2>1
<1>15. First(blanks) = IF m = 12 THEN 7 ELSE 0
  <2>1. CASE m = 12
    <3>1. 7 \in blanks /\ blanks \subseteq {7}
      BY <1>13, <1>14, <2>1
    <3> QED
      BY <2>1, <3>1, FirstIs
  <2>2. CASE m # 12
    <3>1. blanks = {}
      BY <1>13, <2>2
    <3> QED
      BY <2>2, <3>1 DEF First
  <2> QED
    BY <2>1, <2>2
<1>16. formula_body(R, 2) = IF First(blanks) = 0 THEN rest ELSE SubSeq(rest, 1, First(blanks) - 1)
  BY <1>9, Zenon DEF formula_body, blanks, rest, F
<1>17. /\ formula_body(R, 2) \in Seq(Line) /\ Len(formula_body(R, 2)) = 6
       /\ \A i \in 1 .. 6 : formula_body(R, 2)[i] = rest[i]
  <2>1. CASE m = 12
    <3>1. formula_body(R, 2) = SubSeq(rest, 1, 6)
      BY <1>15, <1>16, <2>1
    <3>2. /\ SubSeq(rest, 1, 6) \in Seq(Line) /\ Len(SubSeq(rest, 1, 6)) = 6 - 1 + 1
          /\ \A k \in 1 .. 6 - 1 + 1 : SubSeq(rest, 1, 6)[k] = rest[1 + k - 1]
      <4>1. 1 \in Int /\ 6 \in Int /\ 1 <= 1 /\ 1 <= 6 + 1 /\ 6 <= Len(rest)
        BY <1>12, <2>1
      <4> QED
        BY <1>12, <4>1, PartFacts
    <3>3. 6 - 1 + 1 = 6 /\ \A k \in 1 .. 6 : 1 + k - 1 = k
      OBVIOUS
    <3> HIDE DEF blanks
    <3> DEFINE s == SubSeq(rest, 1, 6)
    <3>4. s \in Seq(Line) /\ Len(s) = 6 /\ \A k \in 1 .. 6 : s[k] = rest[k]
      BY <3>2, <3>3
    <3> QED
      BY <3>1, <3>4, Zenon
  <2>2. CASE m = 11
    BY <1>12, <1>15, <1>16, <2>2
  <2> QED
    BY <1>10, <2>1, <2>2
<1>18. \A i \in 1 .. 6 : rest[i] = R[i + 5]
  BY <1>10, <1>12
<1>19. formula_text(R, 2) # <<>>
  BY <1>9, <1>10, <1>11 DEF F
<1> QED
  BY <1>17, <1>18, <1>19

\* Without expressions there is no text, or nothing in its body.
LEMMA BodyAbsent ==
  ASSUME Typed, NEW R, NoExpressions(R), formula_text(R, 2) # <<>>
  PROVE  formula_body(R, 2) \in Seq(Line) /\ Len(formula_body(R, 2)) = 0
<1> DEFINE n == Len(R)
           starts == {i \in DOMAIN R : R[i] = Formula(2)}
           stops == {i \in DOMAIN R : R[i] = Formula(2 + 1)}
<1>1. /\ R \in Seq(Line) /\ (n = 2 \/ n = 8) /\ DOMAIN R = 1 .. n
      /\ R[1] = Formula(1) /\ R[2] = Verdict
      /\ n = 8 => /\ R[3] = Blank /\ R[4] = Formula(2) /\ R[5] = Verdict
                  /\ R[6] = Blank /\ R[7] = Formula(3) /\ R[8] = Verdict
  BY DEF NoExpressions
<1>2. /\ R[1].kind = "formula" /\ R[1].n = 1 /\ R[2].kind = "verdict"
      /\ n = 8 => /\ R[3].kind = "blank" /\ R[4].kind = "formula" /\ R[4].n = 2 /\ R[5].kind = "verdict"
                  /\ R[6].kind = "blank" /\ R[7].kind = "formula" /\ R[7].n = 3 /\ R[8].kind = "verdict"
  BY <1>1, LineKinds
<1>3. formula_text(R, 2) = IF First(starts) = 0 THEN <<>>
                           ELSE SubSeq(R, First(starts), IF First(stops) = 0 THEN Len(R) ELSE First(stops) - 1)
  BY Zenon DEF formula_text, starts, stops
<1> HIDE DEF n
<1>4. n = 8
  <2>1. SUFFICES ASSUME n = 2 PROVE FALSE
    BY <1>1
  <2>2. \A i \in starts : (i = 1 \/ i = 2) /\ R[i].kind = "formula" /\ R[i].n = 2
    BY <1>1, <2>1, LineKinds
  <2>3. starts = {}
    BY <1>2, <2>2
  <2> QED
    BY <1>3, <2>3 DEF First
<1>5. \A i \in 1 .. n : i = 1 \/ i = 2 \/ i = 3 \/ i = 4 \/ i = 5 \/ i = 6 \/ i = 7 \/ i = 8
  BY <1>4
<1>6. First(starts) = 4
  <2>1. \A i \in starts : i \in 1 .. n /\ R[i].kind = "formula" /\ R[i].n = 2
    BY <1>1, LineKinds
  <2>2. \A i \in starts : i = 4
    BY <1>2, <1>4, <1>5, <2>1
  <2>3. 4 \in starts
    BY <1>1, <1>4
  <2>4. starts \in SUBSET Nat /\ (\A i \in starts : 4 <= i) /\ 4 \in Nat
    BY <2>2
  <2> QED
    BY <2>3, <2>4, FirstIs
<1>7. First(stops) = 7
  <2>1. \A i \in stops : i \in 1 .. n /\ R[i].kind = "formula" /\ R[i].n = 3
    BY <1>1, LineKinds
  <2>2. \A i \in stops : i = 7
    BY <1>2, <1>4, <1>5, <2>1
  <2>3. 7 \in stops
    BY <1>1, <1>4
  <2>4. stops \in SUBSET Nat /\ (\A i \in stops : 7 <= i) /\ 7 \in Nat
    BY <2>2
  <2> QED
    BY <2>3, <2>4, FirstIs
<1> HIDE DEF starts, stops
<1> DEFINE F == SubSeq(R, 4, 6)
           rest == SubSeq(F, 3, Len(F))
           blanks == {i \in DOMAIN rest : rest[i] = Blank}
<1>8. formula_text(R, 2) = F
  BY <1>3, <1>6, <1>7
<1>9. F \in Seq(Line) /\ Len(F) = 3 /\ F[3] = Blank
  <2>1. 4 \in Int /\ 6 \in Int /\ 1 <= 4 /\ 4 <= 6 + 1 /\ 6 <= Len(R)
    BY <1>4 DEF n
  <2>2. F \in Seq(Line) /\ Len(F) = 6 - 4 + 1 /\ \A k \in 1 .. 6 - 4 + 1 : F[k] = R[4 + k - 1]
    BY <1>1, <2>1, PartFacts
  <2>3. 6 - 4 + 1 = 3 /\ 3 \in 1 .. 3 /\ 4 + 3 - 1 = 6
    OBVIOUS
  <2> HIDE DEF F
  <2>4. F[3] = R[6]
    BY <2>2, <2>3
  <2> QED
    BY <1>1, <1>4, <2>2, <2>3, <2>4
<1> HIDE DEF F
<1>10. rest \in Seq(Line) /\ Len(rest) = 1 /\ rest[1] = Blank
  <2>1. 3 \in Int /\ Len(F) \in Int /\ 1 <= 3 /\ 3 <= Len(F) + 1 /\ Len(F) <= Len(F)
    BY <1>9
  <2>2. rest \in Seq(Line) /\ Len(rest) = Len(F) - 3 + 1 /\ \A k \in 1 .. Len(F) - 3 + 1 : rest[k] = F[3 + k - 1]
    BY <1>9, <2>1, PartFacts
  <2>3. Len(F) - 3 + 1 = 1 /\ 1 \in 1 .. 1 /\ 3 + 1 - 1 = 3
    BY <1>9
  <2> HIDE DEF rest
  <2> QED
    BY <1>9, <2>2, <2>3
<1> HIDE DEF rest
<1>11. First(blanks) = 1
  <2>1. 1 \in blanks /\ blanks \subseteq {1}
    BY <1>10
  <2>2. blanks \in SUBSET Nat /\ (\A i \in blanks : 1 <= i) /\ 1 \in Nat
    BY <2>1
  <2> QED
    BY <2>1, <2>2, FirstIs
<1>12. formula_body(R, 2) = IF First(blanks) = 0 THEN rest ELSE SubSeq(rest, 1, First(blanks) - 1)
  BY <1>8, Zenon DEF formula_body, blanks, rest
<1>13. formula_body(R, 2) = SubSeq(rest, 1, 0)
  BY <1>11, <1>12
<1>14. SubSeq(rest, 1, 0) \in Seq(Line) /\ Len(SubSeq(rest, 1, 0)) = 0 - 1 + 1
  <2>1. 1 \in Int /\ 0 \in Int /\ 1 <= 1 /\ 1 <= 0 + 1 /\ 0 <= Len(rest)
    BY <1>10
  <2> QED
    BY <1>10, <2>1, PartFacts
<1> QED
  BY <1>13, <1>14

\* The expressions of a body.
Expressions(body) == {i \in DOMAIN body : body[i].kind # "run" \/ i = 1}
StopOf(body, i) == Min({j \in Expressions(body) : j > i} \cup {Len(body) + 1})
RunsOf(body, i) == [r \in 1 .. (StopOf(body, i) - i - 1) |-> body[i + r].pairs]

\* parse() by the expressions of the body.
LEMMA ParseOfBody ==
  ASSUME NEW R, NEW body, body = formula_body(R, 2)
  PROVE  parse(R, 2) = [i \in Expressions(body) |-> [name |-> body[i].name, runs |-> RunsOf(body, i)]]
BY Zenon DEF parse, Expressions, StopOf, RunsOf

\* The body with the lines of the three variables, some of their runs odd.
BodyLines(B, O) ==
  /\ B \in Seq(Line) /\ Len(B) = 6 /\ O \subseteq {2, 4, 6}
  /\ \A k \in 1 .. 3 : /\ B[2 * k - 1] = Name(Variables(model)[k])
                       /\ 2 * k \in O => B[2 * k] = OddRun
                       /\ 2 * k \notin O => B[2 * k] = Run(trace[Variables(model)[k]])

\* The body of an answer.
LEMMA BodyOfAnswer ==
  ASSUME Typed, NEW R, NEW O, PrintedLines(R, O)
  PROVE  formula_text(R, 2) # <<>> /\ BodyLines(formula_body(R, 2), O)
<1> DEFINE B == formula_body(R, 2)
<1>1. formula_text(R, 2) # <<>> /\ B \in Seq(Line) /\ Len(B) = 6 /\ \A i \in 1 .. 6 : B[i] = R[i + 5]
  BY BodyPrinted
<1> HIDE DEF B
<1>2. ASSUME NEW k \in 1 .. 3
      PROVE  B[2 * k - 1] = R[2 * k + 4] /\ B[2 * k] = R[2 * k + 5]
  <2>1. 2 * k - 1 \in 1 .. 6 /\ (2 * k - 1) + 5 = 2 * k + 4 /\ 2 * k \in 1 .. 6
    OBVIOUS
  <2> QED
    BY <1>1, <2>1
<1>3. BodyLines(B, O)
  BY <1>1, <1>2 DEF BodyLines, PrintedLines
<1> QED
  BY <1>1, <1>3 DEF B

\* Its expressions are the names and the odd runs.
LEMMA ExpressionsPrinted ==
  ASSUME Typed, NEW B, NEW O, BodyLines(B, O)
  PROVE  /\ Expressions(B) = {1, 3, 5} \cup O
         /\ \A k \in 1 .. 3 : /\ B[2 * k - 1].name = Variables(model)[k]
                              /\ StopOf(B, 2 * k - 1) = IF 2 * k \in O THEN 2 * k ELSE 2 * k + 1
         /\ \A i \in O : B[i].name = "[0]:"
<1>1. /\ B \in Seq(Line) /\ Len(B) = 6 /\ O \subseteq {2, 4, 6} /\ DOMAIN B = 1 .. 6
      /\ \A k \in 1 .. 3 : /\ B[2 * k - 1] = Name(Variables(model)[k])
                           /\ 2 * k \in O => B[2 * k] = OddRun
                           /\ 2 * k \notin O => B[2 * k] = Run(trace[Variables(model)[k]])
  BY DEF BodyLines
<1>2. \A k \in 1 .. 3 : /\ B[2 * k - 1].kind = "name" /\ B[2 * k - 1].name = Variables(model)[k]
                        /\ 2 * k \in O => B[2 * k].kind = "odd" /\ B[2 * k].name = "[0]:"
                        /\ 2 * k \notin O => B[2 * k].kind = "run"
  BY <1>1, LineKinds
<1>3. 1 \in 1 .. 3 /\ 2 \in 1 .. 3 /\ 3 \in 1 .. 3 /\ 2 * 1 - 1 = 1 /\ 2 * 2 - 1 = 3 /\ 2 * 3 - 1 = 5
      /\ 2 * 1 = 2 /\ 2 * 2 = 4 /\ 2 * 3 = 6
  OBVIOUS
<1>4. /\ B[1].kind = "name" /\ B[3].kind = "name" /\ B[5].kind = "name"
      /\ 2 \in O => B[2].kind = "odd" /\ B[2].name = "[0]:"
      /\ 4 \in O => B[4].kind = "odd" /\ B[4].name = "[0]:"
      /\ 6 \in O => B[6].kind = "odd" /\ B[6].name = "[0]:"
      /\ 2 \notin O => B[2].kind = "run"
      /\ 4 \notin O => B[4].kind = "run"
      /\ 6 \notin O => B[6].kind = "run"
  BY <1>2, <1>3
<1>5. \A i : i \in 1 .. 6 <=> i = 1 \/ i = 2 \/ i = 3 \/ i = 4 \/ i = 5 \/ i = 6
  OBVIOUS
<1>6. Expressions(B) = {1, 3, 5} \cup O
  <2>1. \A i : i \in Expressions(B) <=> i \in 1 .. 6 /\ (B[i].kind # "run" \/ i = 1)
    BY <1>1, Zenon DEF Expressions
  <2>2. \A i : i \in Expressions(B) <=> i \in {1, 3, 5} \/ i \in O
    BY <1>1, <1>4, <1>5, <2>1
  <2> QED
    BY <2>2, Zenon
<1>7. \A i \in O : B[i].name = "[0]:"
  BY <1>1, <1>4
<1>8. ASSUME NEW k \in 1 .. 3
      PROVE  StopOf(B, 2 * k - 1) = IF 2 * k \in O THEN 2 * k ELSE 2 * k + 1
  <2> DEFINE S == {j \in {1, 3, 5} \cup O : j > 2 * k - 1} \cup {7}
             a == IF 2 * k \in O THEN 2 * k ELSE 2 * k + 1
  <2>1. StopOf(B, 2 * k - 1) = Min(S)
    <3>1. Len(B) + 1 = 7
      BY <1>1
    <3> QED
      BY <1>6, <3>1, Zenon DEF StopOf
  <2>2. \A j : j \in S <=> ((j = 1 \/ j = 3 \/ j = 5 \/ j \in O) /\ j > 2 * k - 1) \/ j = 7
    BY Zenon
  <2>3. \A j \in O : j = 2 \/ j = 4 \/ j = 6
    BY <1>1, Zenon
  <2>4. 2 * k \in O => a = 2 * k
    OBVIOUS
  <2>5. 2 * k \notin O => a = 2 * k + 1
    OBVIOUS
  <2>6. k = 1 \/ k = 2 \/ k = 3
    OBVIOUS
  <2> HIDE DEF S, a
  <2>7. \A j \in S : j \in Nat /\ (j = 3 \/ j = 5 \/ j \in O \/ j = 7) /\ j > 2 * k - 1
    BY <2>2, <2>3
  <2>8. a \in S /\ a \in Nat
    BY <2>2, <2>3, <2>4, <2>5, <2>6
  <2>9. \A j \in S : a <= j
    BY <2>3, <2>4, <2>5, <2>6, <2>7
  <2>10. First(S) = a
    BY <2>7, <2>8, <2>9, FirstIs
  <2> QED
    BY <2>1, <2>8, <2>10, Zenon DEF First, a
<1> QED
  BY <1>2, <1>6, <1>7, <1>8

\* The runs of the expression of a variable.
LEMMA RunsPrinted ==
  ASSUME Typed, NEW B, NEW O, BodyLines(B, O), NEW k \in 1 .. 3
  PROVE  RunsOf(B, 2 * k - 1) = IF 2 * k \in O THEN <<>> ELSE <<trace[Variables(model)[k]]>>
<1> DEFINE i == 2 * k - 1
           n == StopOf(B, i) - i - 1
<1>1. StopOf(B, i) = IF 2 * k \in O THEN 2 * k ELSE 2 * k + 1
  BY ExpressionsPrinted
<1>2. n = IF 2 * k \in O THEN 0 ELSE 1
  BY <1>1
<1>3. RunsOf(B, i) = [r \in 1 .. n |-> B[i + r].pairs]
  BY Zenon DEF RunsOf
<1> HIDE DEF n
<1>4. CASE 2 * k \in O
  <2>1. RunsOf(B, i) = [r \in 1 .. 0 |-> B[i + r].pairs]
    BY <1>2, <1>3, <1>4
  <2>2. ASSUME NEW x, NEW f, f = [r \in 1 .. 0 |-> x[r]] PROVE f = <<>>
    BY <2>2
  <2>3. 1 .. 0 = {}
    OBVIOUS
  <2>4. RunsOf(B, i) = [r \in {} |-> B[i + r].pairs] /\ <<>> = [r \in {} |-> B[i + r].pairs]
    BY <2>1, <2>3
  <2> QED
    BY <1>4, <2>4
<1>5. CASE 2 * k \notin O
  <2>1. RunsOf(B, i) = [r \in 1 .. 1 |-> B[i + r].pairs]
    BY <1>2, <1>3, <1>5
  <2>2. B[i + 1].pairs = trace[Variables(model)[k]]
    <3>1. B[2 * k] = Run(trace[Variables(model)[k]]) /\ i + 1 = 2 * k
      BY <1>5 DEF BodyLines
    <3> QED
      BY <3>1, LineKinds
  <2>3. \A r \in 1 .. 1 : B[i + r].pairs = trace[Variables(model)[k]]
    <3>1. \A r \in 1 .. 1 : r = 1
      OBVIOUS
    <3> QED
      BY <2>2, <3>1, Zenon
  <2>4. RunsOf(B, i) = [r \in 1 .. 1 |-> trace[Variables(model)[k]]]
    BY <2>1, <2>3, Zenon
  <2>5. ASSUME NEW x PROVE [r \in 1 .. 1 |-> x] = <<x>>
    <3>1. DOMAIN <<x>> = 1 .. 1 /\ <<x>>[1] = x /\ \A r \in 1 .. 1 : r = 1
      OBVIOUS
    <3> QED
      BY <3>1
  <2> QED
    BY <1>5, <2>4, <2>5, Zenon
<1> QED
  BY <1>4, <1>5

\* What the parser finds for a variable.
LEMMA FindPrinted ==
  ASSUME Typed, NEW R, NEW O, BodyLines(formula_body(R, 2), O), NEW k \in 1 .. 3
  PROVE  findFirstRunAsQueue(parse(R, 2), Variables(model)[k]) =
           IF 2 * k \in O THEN {} ELSE {trace[Variables(model)[k]]}
<1> DEFINE B == formula_body(R, 2)
           v == Variables(model)[k]
           D == parse(R, 2)
           S == {j \in DOMAIN D : D[j].name = v}
<1>1. D = [i \in Expressions(B) |-> [name |-> B[i].name, runs |-> RunsOf(B, i)]]
  BY ParseOfBody
<1>2. BodyLines(B, O)
  OBVIOUS
<1> HIDE DEF B
<1>3. /\ Expressions(B) = {1, 3, 5} \cup O
      /\ \A j \in 1 .. 3 : B[2 * j - 1].name = Variables(model)[j]
      /\ \A i \in O : B[i].name = "[0]:"
  BY <1>2, ExpressionsPrinted
<1>4. O \subseteq {2, 4, 6}
  BY <1>2 DEF BodyLines
<1> HIDE DEF D
<1>5. /\ DOMAIN D = {1, 3, 5} \cup O
      /\ \A i \in DOMAIN D : D[i].name = B[i].name /\ D[i].runs = RunsOf(B, i)
  <2>1. ASSUME NEW i \in DOMAIN D PROVE D[i].name = B[i].name /\ D[i].runs = RunsOf(B, i)
    BY <1>1
  <2> QED
    BY <1>1, <1>3, <2>1
<1>6. 2 * k - 1 \in DOMAIN D /\ D[2 * k - 1].name = v
  <2>1. k = 1 \/ k = 2 \/ k = 3
    OBVIOUS
  <2>2. 2 * k - 1 \in {1, 3, 5}
    BY <2>1
  <2>3. B[2 * k - 1].name = v
    BY <1>3
  <2> QED
    BY <1>5, <2>2, <2>3
<1>7. \A i \in S : i = 2 * k - 1
  <2> SUFFICES ASSUME NEW i \in S PROVE i = 2 * k - 1
    OBVIOUS
  <2>1. i \in DOMAIN D /\ B[i].name = v
    BY <1>5
  <2>2. i \notin O
    BY <1>3, <2>1, ThreeVariables
  <2>3. i = 1 \/ i = 3 \/ i = 5
    BY <1>5, <2>1, <2>2
  <2>4. \E j \in 1 .. 3 : i = 2 * j - 1
    <3>1. 1 = 2 * 1 - 1 /\ 3 = 2 * 2 - 1 /\ 5 = 2 * 3 - 1
      OBVIOUS
    <3> QED
      BY <2>3, <3>1
  <2>5. PICK j \in 1 .. 3 : i = 2 * j - 1
    BY <2>4
  <2>6. Variables(model)[j] = Variables(model)[k]
    BY <1>3, <2>1, <2>5
  <2>7. j = k
    BY <2>6, ThreeVariables
  <2> QED
    BY <2>5, <2>7
<1>8. First(S) = 2 * k - 1
  <2>1. 2 * k - 1 \in S
    BY <1>6
  <2>2. S \in SUBSET Nat /\ (\A i \in S : 2 * k - 1 <= i) /\ 2 * k - 1 \in Nat
    BY <1>7
  <2> QED
    BY <2>1, <2>2, FirstIs
<1>9. D[2 * k - 1].runs = IF 2 * k \in O THEN <<>> ELSE <<trace[v]>>
  BY <1>2, <1>5, <1>6, RunsPrinted
<1>10. findFirstRunAsQueue(D, v) =
         IF First(S) = 0 \/ D[First(S)].runs = <<>> THEN {} ELSE {D[First(S)].runs[1]}
  BY Zenon DEF findFirstRunAsQueue, S
<1> HIDE DEF S
<1>11. 2 * k - 1 # 0
  OBVIOUS
<1>12. CASE 2 * k \in O
  BY <1>8, <1>9, <1>10, <1>12 DEF D
<1>13. CASE 2 * k \notin O
  <2>1. D[2 * k - 1].runs = <<trace[v]>>
    BY <1>9, <1>13
  <2>2. ASSUME NEW x PROVE <<x>> # <<>> /\ <<x>>[1] = x
    OBVIOUS
  <2> HIDE DEF v
  <2>3. D[2 * k - 1].runs # <<>> /\ D[2 * k - 1].runs[1] = trace[v]
    BY <2>1, <2>2
  <2>4. findFirstRunAsQueue(D, v) = {trace[v]}
    BY <1>8, <1>10, <1>11, <2>3
  <2> QED
    BY <1>13, <2>4 DEF D, v
<1> QED
  BY <1>12, <1>13

\* Without odd runs the parser gives back what was printed.
LEMMA ParsePrinted ==
  ASSUME Typed, NEW R, BodyLines(formula_body(R, 2), {})
  PROVE  parse(R, 2) = [i \in {1, 3, 5} |-> LET v == Variables(model)[(i + 1) \div 2]
                                            IN  [name |-> v, runs |-> <<trace[v]>>]]
<1> DEFINE B == formula_body(R, 2)
<1>1. parse(R, 2) = [i \in Expressions(B) |-> [name |-> B[i].name, runs |-> RunsOf(B, i)]]
  BY ParseOfBody
<1>2. BodyLines(B, {})
  OBVIOUS
<1> HIDE DEF B
<1>3. /\ Expressions(B) = {1, 3, 5} \cup {}
      /\ \A j \in 1 .. 3 : B[2 * j - 1].name = Variables(model)[j]
  BY <1>2, ExpressionsPrinted
<1>4. \A j \in 1 .. 3 : RunsOf(B, 2 * j - 1) = <<trace[Variables(model)[j]]>>
  BY <1>2, RunsPrinted
<1>5. ASSUME NEW i \in {1, 3, 5}
      PROVE  /\ B[i].name = Variables(model)[(i + 1) \div 2]
             /\ RunsOf(B, i) = <<trace[Variables(model)[(i + 1) \div 2]]>>
  <2>1. (i + 1) \div 2 \in 1 .. 3 /\ 2 * ((i + 1) \div 2) - 1 = i
    OBVIOUS
  <2> QED
    BY <1>3, <1>4, <2>1
<1>6. Expressions(B) = {1, 3, 5}
  BY <1>3
<1> QED
  BY <1>1, <1>5, <1>6, Zenon

\* A variable is readable where its run is.
LEMMA ReadableWhere ==
  ASSUME Typed, NEW O, PrintedLines(result, O), NEW k \in 1 .. 3
  PROVE  Readable(Variables(model)[k]) <=> 2 * k \notin O
<1> DEFINE v == Variables(model)[k]
           n == Len(result)
<1>1. /\ (n = 11 \/ n = 12 \/ n = 14) /\ O \subseteq {2, 4, 6}
      /\ result[1] = Formula(1) /\ result[2] = Verdict /\ result[3] = Blank
      /\ result[4] = Formula(2) /\ result[5] = Verdict
      /\ \A j \in 1 .. 3 : /\ result[2 * j + 4] = Name(Variables(model)[j])
                           /\ 2 * j \in O => result[2 * j + 5] = OddRun
                           /\ 2 * j \notin O => result[2 * j + 5] = Run(trace[Variables(model)[j]])
      /\ n > 11 => result[12] = Blank
      /\ n = 14 => result[13] = Formula(3) /\ result[14] = Verdict
  BY DEF PrintedLines
<1>2. Readable(v) <=> \E i \in 2 .. n : result[i - 1] = Name(v) /\ result[i] = Run(trace[v])
  BY Zenon DEF Readable
<1> HIDE DEF n
<1>3. ASSUME 2 * k \notin O PROVE Readable(v)
  <2>1. result[2 * k + 4] = Name(v) /\ result[2 * k + 5] = Run(trace[v])
    BY <1>1, <1>3
  <2>2. 2 * k + 5 \in 2 .. n /\ (2 * k + 5) - 1 = 2 * k + 4
    BY <1>1
  <2> QED
    BY <1>2, <2>1, <2>2
<1>4. ASSUME Readable(v) PROVE 2 * k \notin O
  <2>1. PICK i \in 2 .. n : result[i - 1] = Name(v) /\ result[i] = Run(trace[v])
    BY <1>2, <1>4
  <2>2. result[i - 1].kind = "name" /\ result[i - 1].name = v /\ result[i].kind = "run"
    BY <2>1, LineKinds
  <2>3. result[1].kind # "run" /\ result[2].kind # "run" /\ result[3].kind # "run" /\ result[4].kind # "run"
        /\ result[5].kind # "run" /\ (n > 11 => result[12].kind # "run")
        /\ (n = 14 => result[13].kind # "run" /\ result[14].kind # "run")
    BY <1>1, LineKinds
  <2>4. \A j \in 1 .. 3 : result[2 * j + 4].kind = "name" /\ result[2 * j + 4].name = Variables(model)[j]
    BY <1>1, LineKinds
  <2>5. \E j \in 1 .. 3 : i = 2 * j + 4 \/ i = 2 * j + 5
    <3>1. \/ i = 2 \/ i = 3 \/ i = 4 \/ i = 5 \/ i = 6 \/ i = 7 \/ i = 8 \/ i = 9 \/ i = 10 \/ i = 11
          \/ (i = 12 /\ n > 11) \/ (i = 13 /\ n = 14) \/ (i = 14 /\ n = 14)
      BY <1>1
    <3>2. i = 6 \/ i = 7 \/ i = 8 \/ i = 9 \/ i = 10 \/ i = 11
      BY <2>2, <2>3, <3>1
    <3>3. 6 = 2 * 1 + 4 /\ 7 = 2 * 1 + 5 /\ 8 = 2 * 2 + 4 /\ 9 = 2 * 2 + 5 /\ 10 = 2 * 3 + 4 /\ 11 = 2 * 3 + 5
      OBVIOUS
    <3> QED
      BY <3>2, <3>3
  <2>6. PICK j \in 1 .. 3 : i = 2 * j + 4 \/ i = 2 * j + 5
    BY <2>5
  <2>7. i = 2 * j + 5
    BY <2>2, <2>4, <2>6
  <2>8. result[i - 1] = result[2 * j + 4]
    BY <2>7
  <2>9. Variables(model)[j] = v
    BY <2>2, <2>4, <2>8
  <2>10. j = k
    BY <2>9, ThreeVariables
  <2>11. 2 * k \in O => result[i] = OddRun
    BY <1>1, <2>7, <2>10
  <2> QED
    BY <2>2, <2>11, LineKinds
<1> QED
  BY <1>3, <1>4

\* Without expressions nothing is readable.
LEMMA NothingReadable ==
  ASSUME Typed, NoExpressions(result), NEW v
  PROVE  ~Readable(v)
<1> DEFINE n == Len(result)
<1>1. /\ (n = 2 \/ n = 8)
      /\ result[1] = Formula(1) /\ result[2] = Verdict
      /\ n = 8 => /\ result[3] = Blank /\ result[4] = Formula(2) /\ result[5] = Verdict
                  /\ result[6] = Blank /\ result[7] = Formula(3) /\ result[8] = Verdict
  BY DEF NoExpressions
<1>2. Readable(v) <=> \E i \in 2 .. n : result[i - 1] = Name(v) /\ result[i] = Run(trace[v])
  BY Zenon DEF Readable
<1> HIDE DEF n
<1>3. ASSUME NEW i \in 2 .. n PROVE result[i].kind # "run"
  <2>1. /\ result[2].kind # "run"
        /\ n = 8 => /\ result[3].kind # "run" /\ result[4].kind # "run" /\ result[5].kind # "run"
                    /\ result[6].kind # "run" /\ result[7].kind # "run" /\ result[8].kind # "run"
    BY <1>1, LineKinds
  <2>2. i = 2 \/ (n = 8 /\ (i = 3 \/ i = 4 \/ i = 5 \/ i = 6 \/ i = 7 \/ i = 8))
    BY <1>1
  <2> QED
    BY <2>1, <2>2
<1>4. \A i \in 2 .. n : result[i] # Run(trace[v])
  BY <1>3, LineKinds
<1> QED
  BY <1>2, <1>4

\* Without expressions nothing is found.
LEMMA NothingFound ==
  ASSUME Typed, NEW R, NoExpressions(R), formula_text(R, 2) # <<>>, NEW v
  PROVE  findFirstRunAsQueue(parse(R, 2), v) = {}
<1> DEFINE B == formula_body(R, 2)
           D == parse(R, 2)
<1>1. D = [i \in Expressions(B) |-> [name |-> B[i].name, runs |-> RunsOf(B, i)]]
  BY ParseOfBody
<1>2. B \in Seq(Line) /\ Len(B) = 0
  BY BodyAbsent
<1> HIDE DEF B, D
<1>3. DOMAIN B = {}
  BY <1>2
<1>4. DOMAIN D = {}
  BY <1>1, <1>3 DEF Expressions
<1>5. {j \in DOMAIN D : D[j].name = v} = {}
  BY <1>4
<1>6. findFirstRunAsQueue(D, v) = {}
  <2>1. First({j \in DOMAIN D : D[j].name = v}) = 0
    BY <1>5, Zenon DEF First
  <2> QED
    BY <2>1, Zenon DEF findFirstRunAsQueue
<1> QED
  BY <1>6 DEF D

-----------------------------------------------------------------------------
(* The answer and the schedule that is made from it.                       *)

Sampled == result # <<>> /\ sampling # "changes" => \A v \in Vars : TwoAtEnd(trace[v])

\* The answer keeps what the traces tell.
LEMMA AnswerTraces ==
  ASSUME Typed, Answer
  PROVE  /\ Typed' /\ Vars' = Vars /\ Dest' = Dest /\ Cur' = Cur /\ Sampled'
         /\ \A v \in Vars : /\ Len(trace'[v]) >= Len(trace[v])
                            /\ \A i \in 1 .. Len(trace[v]) : trace'[v][i] = trace[v][i]
                            /\ \A D \in Seq(Int) : Tells(trace[v], D) => Tells(trace'[v], D)
<1>1. /\ model' = model /\ sampling' = sampling /\ value' = value /\ now' = Bound
  BY Zenon DEF Answer, simVars
<1>9. PICK n \in Nat : trace' = Repeated(trace, Bound, n) /\ (sampling # "changes" => n >= 1)
  <2>1. PICK n \in LastSamples : trace' = Repeated(trace, Bound, n)
    BY Zenon DEF Answer
  <2>2. n \in Nat /\ (sampling # "changes" => n >= 1)
    BY SchedulesAssumption DEF LastSamples, Typed
  <2> QED
    BY <2>1, <2>2
<1>2. Vars' = Vars /\ Dest' = Dest /\ Cur' = Cur
  BY <1>1 DEF Vars, Dest, Cur, Variables
<1>3. /\ model \in {"waypoint", "station"} /\ sampling \in {"changes", "end", "delays"}
      /\ now \in 0 .. Bound /\ value \in [Vars -> Int] /\ trace \in [Vars -> Seq(Sample)]
      /\ \A v \in Vars : Timed(trace[v], now) /\ Last(trace[v]).value = value[v]
  BY DEF Typed
<1>4. Bound \in 0 .. Bound /\ now <= Bound /\ now \in Int /\ Bound \in Int
  BY <1>3, WaypointConstants
<1>5. /\ trace' \in [Vars -> Seq(Sample)]
      /\ \A v \in Vars : /\ Longer(trace'[v], trace[v], Bound, value[v])
                         /\ \A D \in Seq(Int) : Tells(trace[v], D) => Tells(trace'[v], D)
  BY <1>4, <1>9, RepeatedTraces
<1>6. Sampled'
  <2>1. sampling # "changes" => \A v \in Vars : TwoAtEnd(trace'[v])
    <3> SUFFICES ASSUME sampling # "changes" PROVE \A v \in Vars : TwoAtEnd(trace'[v])
      OBVIOUS
    <3> QED
      BY <1>4, <1>9, RepeatedTraces
  <2> QED
    BY <1>1, <1>2, <2>1 DEF Sampled, TwoAtEnd
<1>7. \A v \in Vars : Timed(trace'[v], Bound) /\ Last(trace'[v]).value = value[v]
  BY <1>5 DEF Longer
<1>8. Typed'
  BY <1>1, <1>2, <1>3, <1>4, <1>5, <1>7 DEF Typed, Timed
<1> QED
  BY <1>2, <1>5, <1>6, <1>8 DEF Longer

\* The answer keeps what the simulation left.
LEMMA AnswerInvs ==
  ASSUME Typed, Answer
  PROVE  /\ model = "station" /\ StationInv => StationInv'
         /\ model = "waypoint" /\ WaypointInv => WaypointInv'
<1>1. /\ UNCHANGED <<trips, visited, loc, model, value>> /\ loc # "Start"
  BY Zenon DEF Answer, simVars, Delays
<1>2. Dest \in Vars /\ Cur \in Vars
  BY VariablesOfModel DEF Typed
<1>3. /\ Dest' = Dest /\ Cur' = Cur
      /\ \A v \in Vars : /\ Len(trace'[v]) >= Len(trace[v])
                         /\ \A i \in 1 .. Len(trace[v]) : trace'[v][i] = trace[v][i]
                         /\ \A D \in Seq(Int) : Tells(trace[v], D) => Tells(trace'[v], D)
  BY AnswerTraces
<1>4. ASSUME model = "station", StationInv PROVE StationInv'
  <2>1. StationsTold' = StationsTold /\ StationsTold \in Seq(Int)
    BY <1>1, <1>4, StationsToldFacts DEF StationsTold
  <2>2. Tells(trace[Dest], StationsTold)
    BY <1>4 DEF StationInv
  <2>3. Tells(trace'[Dest'], StationsTold')
    BY <1>2, <1>3, <2>1, <2>2
  <2> QED
    BY <1>1, <1>4, <2>3 DEF StationInv, is_endstation
<1>5. ASSUME model = "waypoint", WaypointInv PROVE WaypointInv'
  <2>1. Stops(Reached)' = Stops(Reached) /\ Targets(trips)' = Targets(trips)
    BY <1>1 DEF Reached, Stops, Targets
  <2>2. /\ trips \in Seq(WaypointTrip) /\ Tells(trace[Cur], Stops(Reached)) /\ Tells(trace[Dest], Targets(trips))
        /\ Len(trace[Dest]) >= 2 /\ trace[Dest][2].value = -1
    BY <1>1, <1>5 DEF WaypointInv
  <2>3. Targets(trips) \in Seq(Int) /\ Stops(Reached) \in Seq(Int)
    BY <2>2, IdsFacts, ReachedFacts DEF TripsTold
  <2>4. Tells(trace'[Cur'], Stops(Reached)') /\ Tells(trace'[Dest'], Targets(trips)')
    BY <1>2, <1>3, <2>1, <2>2, <2>3
  <2>5. Len(trace'[Dest']) >= 2 /\ trace'[Dest'][2].value = -1
    <3>1. trace[Dest] \in Seq(Sample) /\ trace'[Dest] \in Seq(Sample)
      BY <1>2, AnswerTraces DEF Typed
    <3>2. 2 \in 1 .. Len(trace[Dest])
      BY <2>2, <3>1
    <3>3. trace'[Dest][2] = trace[Dest][2] /\ Len(trace'[Dest]) >= Len(trace[Dest])
      BY <1>2, <1>3, <3>2
    <3>4. Len(trace'[Dest]) >= 2
      BY <2>2, <3>1, <3>3
    <3> QED
      BY <1>3, <2>2, <3>3, <3>4
  <2> QED
    BY <1>1, <1>3, <1>5, <2>4, <2>5 DEF WaypointInv, Stops, Targets, Reached
<1> QED
  BY <1>4, <1>5

\* The parser finds the samples of a variable exactly if they are readable.
LEMMA FoundIsRead ==
  ASSUME Typed, result \in Answers(trace), NEW v \in Vars
  PROVE  /\ formula_text(result, 2) = <<>> => ~Readable(v)
         /\ formula_text(result, 2) # <<>> =>
              findFirstRunAsQueue(parse(result, 2), v) = IF Readable(v) THEN {trace[v]} ELSE {}
<1>1. (\E O \in SUBSET {2, 4, 6} : PrintedLines(result, O)) \/ NoExpressions(result)
  BY AnswerShapes
<1>2. CASE \E O \in SUBSET {2, 4, 6} : PrintedLines(result, O)
  <2>1. PICK O \in SUBSET {2, 4, 6} : PrintedLines(result, O)
    BY <1>2
  <2>2. PICK k \in 1 .. 3 : v = Variables(model)[k]
    BY ThreeVariables
  <2>3. formula_text(result, 2) # <<>> /\ BodyLines(formula_body(result, 2), O)
    BY <2>1, BodyOfAnswer
  <2>4. findFirstRunAsQueue(parse(result, 2), Variables(model)[k]) =
           IF 2 * k \in O THEN {} ELSE {trace[Variables(model)[k]]}
    BY <2>3, FindPrinted
  <2>5. Readable(Variables(model)[k]) <=> 2 * k \notin O
    BY <2>1, ReadableWhere
  <2> QED
    BY <2>2, <2>3, <2>4, <2>5
<1>3. CASE NoExpressions(result)
  BY <1>3, NothingReadable, NothingFound
<1> QED
  BY <1>1, <1>2, <1>3

\* The parser gives back what UPPAAL printed if all of it is readable.
LEMMA ParsedAsPrinted ==
  ASSUME Typed, result \in Answers(trace), \A v \in Vars : Readable(v)
  PROVE  parse(result, 2) = [i \in {1, 3, 5} |-> LET v == Variables(model)[(i + 1) \div 2]
                                                 IN  [name |-> v, runs |-> <<trace[v]>>]]
<1>1. (\E O \in SUBSET {2, 4, 6} : PrintedLines(result, O)) \/ NoExpressions(result)
  BY AnswerShapes
<1>2. \A k \in 1 .. 3 : Readable(Variables(model)[k])
  BY ThreeVariables
<1>3. ~NoExpressions(result)
  BY <1>2, NothingReadable
<1>4. PICK O \in SUBSET {2, 4, 6} : PrintedLines(result, O)
  BY <1>1, <1>3
<1>5. \A k \in 1 .. 3 : 2 * k \notin O
  BY <1>2, <1>4, ReadableWhere
<1>6. O = {}
  <2>1. 2 \notin O /\ 4 \notin O /\ 6 \notin O
    <3>1. 1 \in 1 .. 3 /\ 2 \in 1 .. 3 /\ 3 \in 1 .. 3 /\ 2 * 1 = 2 /\ 2 * 2 = 4 /\ 2 * 3 = 6
      OBVIOUS
    <3> QED
      BY <1>5, <3>1
  <2> QED
    BY <2>1
<1>7. BodyLines(formula_body(result, 2), {})
  BY <1>4, <1>6, BodyOfAnswer
<1> QED
  BY <1>7, ParsePrinted

\* How far an answer is from its schedule.
Phases ==
  /\ result = <<>> => queue = <<>> /\ schedule = <<>> /\ outcome = "" /\ loc \notin {"Convert", "Loop"}
  /\ result # <<>> => result \in Answers(trace) /\ loc # "Start"
  /\ queue = <<>> => schedule = <<>> /\ outcome \in {"", "exception"} /\ loc # "Loop"
  /\ queue # <<>> => loc \in {"Convert", "Loop"} /\ outcome # "exception" /\ \A v \in Looked : Readable(v)
  /\ outcome = "exception" => \E v \in Looked : ~Readable(v)
  /\ loc = "Convert" => /\ outcome \in {"", "exception"} /\ schedule = <<>>
                        /\ outcome = "" => queue = [v \in Looked |-> trace[v]]
  /\ outcome \in {"", "emitted", "exception", "undefined"}

\* The variables that convert_result() asks for.
LEMMA LookedAt ==
  ASSUME Typed
  PROVE  Looked \subseteq Vars /\ Looked # {} /\ Dest \in Looked /\ Cur \in Vars
BY VariablesOfModel DEF Typed

\* What is not read again stays readable.
LEMMA SameReading ==
  ASSUME UNCHANGED <<model, trace, result>>
  PROVE  Looked' = Looked /\ Vars' = Vars /\ (\A v : Readable(v)' <=> Readable(v)) /\ Answers(trace)' = Answers(trace)
<1>1. model' = model /\ trace' = trace /\ result' = result
  OBVIOUS
<1>2. Variables(model)' = Variables(model)
  BY <1>1 DEF Variables
<1>3. Dest' = Dest /\ Vars' = Vars
  BY <1>1, <1>2 DEF Dest, Vars
<1>4. Looked' = Looked
  BY <1>1, <1>2, <1>3 DEF Looked
<1>5. ASSUME NEW v PROVE Readable(v)' <=> Readable(v)
  BY <1>1 DEF Readable, Name, Run
<1>6. Answers(trace)' = Answers(trace)
  BY <1>1 DEF Answers, Printed, Variables, Name, Run, Formula, Verdict, Blank, OddRun
<1> QED
  BY <1>3, <1>4, <1>5, <1>6

\* The simulation and its answer.
LEMMA MovePhases ==
  ASSUME Typed, Phases, NEW from, NEW to, NEW t, NEW v, NEW new, Move(from, to, t, v, new),
         to \notin {"Start", "Convert", "Loop"}
  PROVE  Phases'
<1>1. /\ result = <<>> /\ result' = result /\ queue' = queue /\ schedule' = schedule /\ outcome' = outcome
      /\ outcome = "" /\ loc' = to
  BY Zenon DEF Move
<1>2. queue = <<>> /\ schedule = <<>>
  BY <1>1 DEF Phases
<1> QED
  BY <1>1, <1>2 DEF Phases

\* The answer is one of those that UPPAAL prints.
LEMMA AnswerPhases ==
  ASSUME Typed, Phases, Answer
  PROVE  Phases'
<1>1. /\ result = <<>> /\ outcome = "" /\ UNCHANGED <<model, sampling, loc, queue, schedule, outcome>>
      /\ result' \in Answers(trace') /\ loc # "Start"
  BY Zenon DEF Answer, simVars, Delays
<1>2. result' \in Answers(trace)'
  <2>1. model' = model
    BY <1>1
  <2>2. Variables(model)' = Variables(model)
    BY <2>1 DEF Variables
  <2>3. Printed(trace)' = Printed(trace')
    BY <2>2, Zenon DEF Printed, Name, Run
  <2>4. Answers(trace)' = Answers(trace')
    BY <2>3, Zenon DEF Answers, Formula, Verdict, Blank, OddRun
  <2> QED
    BY <1>1, <2>4
<1>3. queue = <<>> /\ schedule = <<>> /\ loc \notin {"Convert", "Loop"}
  BY <1>1 DEF Phases
<1> QED
  BY <1>1, <1>2, <1>3 DEF Phases

\* Parsing gives the queues of the variables, or an exception.
LEMMA ParsePhases ==
  ASSUME Typed, Phases, Parse
  PROVE  /\ Phases' /\ result # <<>> /\ queue = <<>> /\ loc' = "Convert"
         /\ UNCHANGED <<model, sampling, now, value, trace, visited, trips, result>>
<1>1. /\ result # <<>> /\ outcome = "" /\ queue = <<>> /\ loc' = "Convert" /\ schedule' = schedule
      /\ UNCHANGED <<model, sampling, now, value, trace, visited, trips, result>>
  BY Zenon DEF Parse, Scheduling, simVars
<1>2. Looked' = Looked /\ Vars' = Vars /\ (\A v : Readable(v)' <=> Readable(v)) /\ Answers(trace)' = Answers(trace)
  BY <1>1, SameReading
<1>3. result \in Answers(trace) /\ schedule = <<>>
  BY <1>1 DEF Phases
<1>4. Looked \subseteq Vars /\ Looked # {}
  BY LookedAt
<1>5. \A v \in Looked : /\ formula_text(result, 2) = <<>> => ~Readable(v)
                        /\ formula_text(result, 2) # <<>> =>
                             findFirstRunAsQueue(parse(result, 2), v) = IF Readable(v) THEN {trace[v]} ELSE {}
  BY <1>3, <1>4, FoundIsRead
<1> DEFINE found(v) == findFirstRunAsQueue(parse(result, 2), v)
           good == formula_text(result, 2) # <<>> /\ \A v \in Looked : found(v) # {}
<1>6. /\ good => queue' = [v \in Looked |-> CHOOSE q \in found(v) : TRUE] /\ outcome' = ""
      /\ ~good => outcome' = "exception" /\ queue' = queue
  BY Zenon DEF Parse
<1>7. good <=> \A v \in Looked : Readable(v)
  BY <1>4, <1>5
<1>8. good => \A v \in Looked : found(v) = {trace[v]}
  BY <1>5, <1>7
<1> HIDE DEF good, found
<1>9. CASE good
  <2>1. \A v \in Looked : (CHOOSE q \in found(v) : TRUE) = trace[v]
    <3> SUFFICES ASSUME NEW v \in Looked PROVE (CHOOSE q \in found(v) : TRUE) = trace[v]
      OBVIOUS
    <3>1. found(v) = {trace[v]}
      BY <1>8, <1>9
    <3>2. \A x : (CHOOSE q \in {x} : TRUE) = x
      OBVIOUS
    <3> QED
      BY <3>1, <3>2
  <2>2. queue' = [v \in Looked |-> trace[v]] /\ outcome' = ""
    BY <1>6, <1>9, <2>1, Zenon
  <2>3. queue' # <<>>
    <3>1. DOMAIN queue' = Looked
      BY <2>2
    <3>2. DOMAIN <<>> = {}
      OBVIOUS
    <3> QED
      BY <1>4, <3>1, <3>2
  <2>4. queue' = [v \in Looked' |-> trace'[v]]
    BY <1>1, <1>2, <2>2
  <2>5. \A v \in Looked' : Readable(v)'
    BY <1>2, <1>7, <1>9
  <2> QED
    BY <1>1, <1>2, <1>3, <2>2, <2>3, <2>4, <2>5 DEF Phases
<1>10. CASE ~good
  <2>1. outcome' = "exception" /\ queue' = <<>>
    BY <1>1, <1>6, <1>10
  <2>2. \E v \in Looked' : ~Readable(v)'
    BY <1>2, <1>7, <1>10
  <2> QED
    BY <1>1, <1>2, <1>3, <2>1, <2>2 DEF Phases
<1> QED
  BY <1>1, <1>9, <1>10

\* A step of convert_result().
LEMMA ConvertPhases ==
  ASSUME Typed, Phases, queue # <<>>, queue' # <<>>, result # <<>>, loc' = "Loop",
         outcome' \in {"", "emitted", "undefined"},
         UNCHANGED <<model, sampling, now, value, trace, visited, trips, result>>
  PROVE  Phases'
<1>1. Looked' = Looked /\ (\A v : Readable(v)' <=> Readable(v)) /\ Answers(trace)' = Answers(trace)
  BY SameReading
<1> QED
  BY <1>1 DEF Phases

\* Reading an answer keeps what the simulation left.
LEMMA ReadingKeeps ==
  ASSUME Typed, Sampled, result # <<>>, loc # "Start", loc' \in {"Convert", "Loop"},
         UNCHANGED <<model, sampling, now, value, trace, visited, trips, result>>
  PROVE  /\ Typed' /\ Sampled' /\ Vars' = Vars /\ Cur' = Cur /\ Dest' = Dest
         /\ model = "station" /\ StationInv => StationInv'
         /\ model = "waypoint" /\ WaypointInv => WaypointInv'
<1>1. Vars' = Vars /\ Cur' = Cur /\ Dest' = Dest
  BY DEF Vars, Cur, Dest, Variables
<1>2. Typed' /\ Sampled'
  BY <1>1 DEF Typed, Sampled, TwoAtEnd, Timed
<1>3. ASSUME StationInv PROVE StationInv'
  BY <1>1, <1>3 DEF StationInv, StationsTold, is_endstation
<1>4. ASSUME WaypointInv PROVE WaypointInv'
  BY <1>1, <1>4 DEF WaypointInv, Stops, Targets, Reached
<1> QED
  BY <1>1, <1>2, <1>3, <1>4

\* What is left of a sequence behind a position.
LEMMA RestFacts ==
  ASSUME NEW S, NEW tr \in Seq(S), NEW i \in 0 .. Len(tr), NEW q, q = SubSeq(tr, i + 1, Len(tr))
  PROVE  q \in Seq(S) /\ Len(q) = Len(tr) - i /\ DOMAIN q = 1 .. Len(tr) - i /\ \A p \in 1 .. Len(tr) - i : q[p] = tr[i + p]
<1> DEFINE n == Len(tr)
<1>1. n \in Nat /\ i \in Int /\ 0 <= i /\ i <= n
  OBVIOUS
<1>2. /\ 1 <= i + 1 /\ i + 1 <= n + 1 /\ n <= n /\ i + 1 \in Int /\ n \in Int
      /\ n - (i + 1) + 1 = n - i
  BY <1>1
<1>3. q \in Seq(S) /\ Len(q) = n - (i + 1) + 1 /\ \A p \in 1 .. n - (i + 1) + 1 : q[p] = tr[(i + 1) + p - 1]
  BY <1>2, PartFacts
<1>4. \A p \in 1 .. n - i : (i + 1) + p - 1 = i + p
  BY <1>1
<1> HIDE DEF n
<1>5. q \in Seq(S) /\ Len(q) = n - i /\ \A p \in 1 .. n - i : q[p] = tr[i + p]
  BY <1>2, <1>3, <1>4
<1>6. DOMAIN q = 1 .. Len(q)
  BY <1>5
<1> QED
  BY <1>5, <1>6 DEF n

\* The rest of a rest.
LEMMA RestOfRest ==
  ASSUME NEW S, NEW tr \in Seq(S), NEW i \in 0 .. Len(tr), NEW p \in 0 .. Len(tr) - i
  PROVE  LET q == SubSeq(tr, i + 1, Len(tr)) IN SubSeq(q, p + 1, Len(q)) = SubSeq(tr, i + p + 1, Len(tr))
<1> DEFINE q == SubSeq(tr, i + 1, Len(tr))
           a == SubSeq(q, p + 1, Len(q))
           b == SubSeq(tr, i + p + 1, Len(tr))
           n == Len(tr)
<1>1. n \in Nat /\ i \in Int /\ 0 <= i /\ i <= n /\ p \in Int /\ 0 <= p /\ p <= n - i /\ i + p \in 0 .. n
  OBVIOUS
<1>2. q \in Seq(S) /\ Len(q) = n - i /\ \A k \in 1 .. n - i : q[k] = tr[i + k]
  BY RestFacts
<1> HIDE DEF q
<1>3. p \in 0 .. Len(q)
  BY <1>1, <1>2
<1>4. a \in Seq(S) /\ Len(a) = Len(q) - p /\ \A k \in 1 .. Len(q) - p : a[k] = q[p + k]
  <2>1. a = SubSeq(q, p + 1, Len(q))
    OBVIOUS
  <2> HIDE DEF a
  <2>2. ASSUME NEW u \in Seq(S), NEW j \in 0 .. Len(u), NEW c, c = SubSeq(u, j + 1, Len(u))
        PROVE  c \in Seq(S) /\ Len(c) = Len(u) - j /\ \A k \in 1 .. Len(u) - j : c[k] = u[j + k]
    BY <2>2, RestFacts
  <2>3. q \in Seq(S)
    BY <1>2
  <2> HIDE <1>2
  <2> QED
    BY <1>3, <2>1, <2>2, <2>3
<1>5. b \in Seq(S) /\ Len(b) = n - (i + p) /\ \A k \in 1 .. n - (i + p) : b[k] = tr[(i + p) + k]
  BY <1>1, RestFacts
<1> HIDE DEF a, b, n
<1>6. Len(a) = n - (i + p)
  BY <1>1, <1>2, <1>4
<1>7. ASSUME NEW k \in 1 .. n - (i + p) PROVE a[k] = b[k]
  <2>1. k \in 1 .. Len(q) - p /\ p + k \in 1 .. n - i /\ i + (p + k) = (i + p) + k
    BY <1>1, <1>2
  <2> QED
    BY <1>2, <1>4, <1>5, <2>1
<1>8. a = b
  BY <1>4, <1>5, <1>6, <1>7, SeqEqual
<1> QED
  BY <1>8 DEF a, b, q

\* The next sample of another value, and what is behind it.
NextIs(tr, D, r, i, next) ==
  /\ next = <<>> => r[i] = Len(D)
  /\ next # <<>> => \E k \in i + 1 .. Len(tr) : /\ r[k] = r[i] + 1 /\ Head(next) = tr[k]
                                               /\ Tail(next) = SubSeq(tr, k + 1, Len(tr))

\* The queue from the next value on.
LEMMA FromTold ==
  ASSUME NEW tr \in Seq(Sample), NEW D \in Seq(Int), Distinct(D), NEW r, Telling(tr, D, r),
         NEW i \in 1 .. Len(tr), NEW q, q = SubSeq(tr, i + 1, Len(tr)),
         NEW P, P = {p \in DOMAIN q : q[p].value # tr[i].value}
  PROVE  NextIs(tr, D, r, i, From(q, P))
<1> DEFINE n == Len(tr)
           later == {k \in i + 1 .. n : tr[k].value # tr[i].value}
           next == From(q, P)
<1>1. n \in Nat /\ i \in Int /\ 1 <= i /\ i <= n
  OBVIOUS
<1>2. q \in Seq(Sample) /\ Len(q) = n - i /\ DOMAIN q = 1 .. n - i /\ \A p \in 1 .. n - i : q[p] = tr[i + p]
  <2>1. i \in 0 .. Len(tr)
    BY <1>1
  <2> QED
    BY <2>1, RestFacts
<1>3. /\ later = {} => r[i] = Len(D)
      /\ \A k \in later : (\A m \in later : k <= m) => r[k] = r[i] + 1
  <2>1. i \in 1 .. Len(tr) /\ Distinct(D) /\ Telling(tr, D, r) /\ tr \in Seq(Sample) /\ D \in Seq(Int)
    OBVIOUS
  <2> HIDE DEF next
  <2> QED
    BY ONLY <2>1, TellsNext
<1>4. \A k \in later : k - i \in P
  <2> SUFFICES ASSUME NEW k \in later PROVE k - i \in P
    OBVIOUS
  <2>1. k - i \in 1 .. n - i /\ i + (k - i) = k /\ tr[k].value # tr[i].value
    BY <1>1
  <2> QED
    BY <1>2, <2>1
<1>5. \A p \in P : i + p \in later /\ p \in 1 .. n - i
  <2> SUFFICES ASSUME NEW p \in P PROVE i + p \in later /\ p \in 1 .. n - i
    OBVIOUS
  <2>1. p \in 1 .. n - i /\ q[p].value # tr[i].value /\ q[p] = tr[i + p]
    BY <1>2
  <2>2. i + p \in i + 1 .. n
    BY <1>1, <2>1
  <2> QED
    BY <2>1, <2>2
<1>6. CASE P = {}
  <2>1. next = <<>>
    BY <1>6 DEF From
  <2>2. later = {}
    BY <1>4, <1>6
  <2> QED
    BY <1>3, <2>1, <2>2 DEF NextIs
<1>7. CASE P # {}
  <2> DEFINE m == Min(P)
  <2>1. P \in SUBSET Nat
    BY <1>5
  <2>2. m \in P /\ \A p \in P : m <= p
    BY <1>7, <2>1, MinNatural
  <2>3. next = SubSeq(q, m, Len(q))
    BY <1>7, Zenon DEF From
  <2> HIDE DEF m, next, later
  <2>4. m \in 1 .. n - i /\ i + m \in later
    BY <1>5, <2>2
  <2>5. \A k \in later : i + m <= k
    <3> SUFFICES ASSUME NEW k \in later PROVE i + m <= k
      OBVIOUS
    <3>1. k - i \in P /\ k \in Int
      BY <1>4 DEF later
    <3>2. m <= k - i
      BY <2>2, <3>1
    <3> QED
      BY <1>1, <2>4, <3>1, <3>2
  <2>6. r[i + m] = r[i] + 1
    BY <1>3, <2>4, <2>5
  <2>7. next = SubSeq(tr, i + m, n)
    <3>1. i \in 0 .. Len(tr) /\ m - 1 \in 0 .. Len(tr) - i /\ (m - 1) + 1 = m /\ i + (m - 1) + 1 = i + m
      BY <1>1, <2>4 DEF n
    <3>2. SubSeq(q, (m - 1) + 1, Len(q)) = SubSeq(tr, i + (m - 1) + 1, Len(tr))
      BY <3>1, RestOfRest
    <3> QED
      BY <2>3, <3>1, <3>2 DEF n
  <2>8. i + m \in 1 .. n /\ i + m \in i + 1 .. n
    BY <1>1, <2>4
  <2>9. Head(next) = tr[i + m] /\ Tail(next) = SubSeq(tr, i + m + 1, n) /\ next # <<>>
    <3> DEFINE k == i + m
    <3>1. k - 1 \in 0 .. Len(tr) /\ (k - 1) + 1 = k
      BY <2>8 DEF n
    <3>2. next = SubSeq(tr, (k - 1) + 1, Len(tr))
      BY <2>7, <3>1 DEF n
    <3>3. next \in Seq(Sample) /\ Len(next) = Len(tr) - (k - 1) /\ \A p \in 1 .. Len(tr) - (k - 1) : next[p] = tr[(k - 1) + p]
      BY <3>1, <3>2, RestFacts
    <3> HIDE DEF k
    <3>4. Len(next) >= 1 /\ 1 \in 1 .. Len(tr) - (k - 1)
      BY <2>8, <3>3 DEF k, n
    <3>5. Head(next) = tr[k] /\ next # <<>>
      BY <3>1, <3>3, <3>4
    <3>6. Tail(next) = SubSeq(next, 1 + 1, Len(next))
      BY <3>3, <3>4
    <3>7. 1 \in 0 .. Len(tr) - (k - 1)
      BY <3>4
    <3>8. SubSeq(SubSeq(tr, (k - 1) + 1, Len(tr)), 1 + 1, Len(SubSeq(tr, (k - 1) + 1, Len(tr)))) = SubSeq(tr, (k - 1) + 1 + 1, Len(tr))
      BY <3>1, <3>7, RestOfRest
    <3>9. Tail(next) = SubSeq(tr, k + 1, Len(tr))
      BY <3>1, <3>2, <3>6, <3>8
    <3> QED
      BY <3>5, <3>9 DEF k, n
  <2>10. NextIs(tr, D, r, i, next)
    BY <2>6, <2>8, <2>9 DEF NextIs, n
  <2> QED
    BY <2>10 DEF next
<1> QED
  BY <1>6, <1>7

\* The same for the queue and the value of convert_result().
LEMMA NextTold ==
  ASSUME NEW tr \in Seq(Sample), NEW D \in Seq(Int), Distinct(D), NEW r, Telling(tr, D, r),
         NEW i \in 1 .. Len(tr), NEW q, q = SubSeq(tr, i + 1, Len(tr)),
         NEW x, x = tr[i].value, NEW next, next = From(q, {p \in DOMAIN q : q[p].value # x})
  PROVE  NextIs(tr, D, r, i, next)
<1> DEFINE P == {p \in DOMAIN q : q[p].value # x}
<1>1. P = {p \in DOMAIN q : q[p].value # tr[i].value}
  BY Zenon
<1>2. next = From(q, P)
  OBVIOUS
<1> HIDE DEF P
<1> QED
  BY <1>1, <1>2, FromTold

\* A part of a sequence and the element behind it.
LEMMA PartGrows ==
  ASSUME NEW S, NEW D \in Seq(S), NEW f \in Nat, NEW m \in Nat, 1 <= f, f <= m + 1, m + 1 <= Len(D)
  PROVE  Append(SubSeq(D, f, m), D[m + 1]) = SubSeq(D, f, m + 1)
<1> DEFINE c == SubSeq(D, f, m)
           a == Append(c, D[m + 1])
           b == SubSeq(D, f, m + 1)
           h == m - f + 1
<1>1. h \in Nat /\ m \in Int /\ f \in Int
  OBVIOUS
<1>2. c \in Seq(S) /\ Len(c) = h /\ \A k \in 1 .. h : c[k] = D[f + k - 1]
  <2>1. m <= Len(D)
    OBVIOUS
  <2> QED
    BY <1>1, <2>1, PartFacts
<1>3. b \in Seq(S) /\ Len(b) = h + 1 /\ \A k \in 1 .. h + 1 : b[k] = D[f + k - 1]
  <2>1. m + 1 \in Int /\ f <= (m + 1) + 1
    OBVIOUS
  <2>2. /\ SubSeq(D, f, m + 1) \in Seq(S) /\ Len(SubSeq(D, f, m + 1)) = (m + 1) - f + 1
        /\ \A k \in 1 .. (m + 1) - f + 1 : SubSeq(D, f, m + 1)[k] = D[f + k - 1]
    BY <1>1, <2>1, PartFacts
  <2>3. (m + 1) - f + 1 = h + 1
    OBVIOUS
  <2> HIDE DEF h
  <2> QED
    BY <2>2, <2>3
<1>4. D[m + 1] \in S /\ f + (h + 1) - 1 = m + 1
  OBVIOUS
<1> HIDE DEF c, b, h
<1>5. a \in Seq(S) /\ Len(a) = h + 1 /\ a[h + 1] = D[m + 1] /\ \A p \in 1 .. h : a[p] = c[p]
  BY <1>1, <1>2, <1>4
<1> HIDE DEF a
<1>6. ASSUME NEW p \in 1 .. h + 1 PROVE a[p] = b[p]
  <2>1. CASE p = h + 1
    BY <1>3, <1>4, <1>5, <2>1
  <2>2. CASE p # h + 1
    <3>1. p \in 1 .. h
      BY <1>1, <2>2
    <3> QED
      BY <1>2, <1>3, <1>5, <3>1
  <2> QED
    BY <2>1, <2>2
<1>7. a = b
  BY <1>3, <1>5, <1>6, SeqEqual
<1> QED
  BY <1>7 DEF a, b, c

-----------------------------------------------------------------------------
(* The schedule of stations.                                               *)

\* The queue stands behind sample i, and what was told up to it is in the schedule.
StationAt(i, r) ==
  /\ Telling(trace[Dest], StationsTold, r)
  /\ queue = [dest |-> SubSeq(trace[Dest], i + 1, Len(trace[Dest])), last_dest |-> trace[Dest][i].value]
  /\ schedule = SubSeq(StationsTold, 2, r[i])

StationLoop ==
  model = "station" /\ loc = "Loop" =>
    /\ outcome = "" => \E i \in 1 .. Len(trace[Dest]) :
                          \E r \in [1 .. Len(trace[Dest]) -> 1 .. Len(StationsTold)] : StationAt(i, r)
    /\ outcome = "emitted" => schedule = SubSeq(StationsTold, 2, Len(StationsTold))
    /\ outcome # "undefined"

\* What the destinations of the station model tell.
LEMMA StationTrace ==
  ASSUME Typed, model = "station", StationInv
  PROVE  /\ trace[Dest] \in Seq(Sample) /\ Len(trace[Dest]) \in Nat /\ trace[Dest] # <<>>
         /\ StationsTold \in Seq(Int) /\ Distinct(StationsTold)
         /\ Tells(trace[Dest], StationsTold)
<1>1. Dest \in Vars
  BY VariablesOfModel
<1>2. trace[Dest] \in Seq(Sample) /\ trace[Dest] # <<>>
  BY <1>1 DEF Typed, Timed
<1> QED
  BY <1>2, StationsToldFacts DEF StationInv

\* What is the same in a step of convert_result().
LEMMA ConvertKeepsStations ==
  ASSUME UNCHANGED <<model, trace, trips>>
  PROVE  model' = model /\ Dest' = Dest /\ trace'[Dest'] = trace[Dest] /\ StationsTold' = StationsTold
<1>1. Dest' = Dest
  BY DEF Dest, Variables
<1> QED
  BY <1>1 DEF StationsTold

\* Prepare stands the queue behind the first sample.
LEMMA StationPrepares ==
  ASSUME Typed, model = "station", StationInv, Phases, Prepare
  PROVE  /\ StationLoop' /\ queue # <<>> /\ queue' # <<>> /\ loc' = "Loop" /\ outcome' = "" /\ result # <<>>
         /\ UNCHANGED <<model, sampling, now, value, trace, visited, trips, result>>
<1> DEFINE tr == trace[Dest]
           D == StationsTold
<1>1. /\ result # <<>> /\ outcome = "" /\ queue # <<>> /\ loc = "Convert" /\ loc' = "Loop"
      /\ queue' = [dest |-> Tail(queue[Dest]), last_dest |-> Head(queue[Dest]).value]
      /\ schedule' = schedule /\ outcome' = outcome
      /\ UNCHANGED <<model, sampling, now, value, trace, visited, trips, result>>
  BY Zenon DEF Prepare, Scheduling, simVars
<1>2. queue = [v \in Looked |-> trace[v]] /\ schedule = <<>>
  BY <1>1 DEF Phases
<1>3. queue[Dest] = tr
  BY <1>2, LookedAt
<1>4. /\ tr \in Seq(Sample) /\ Len(tr) \in Nat /\ tr # <<>> /\ D \in Seq(Int)
  BY StationTrace
<1>5. PICK r \in [1 .. Len(tr) -> 1 .. Len(D)] : Telling(tr, D, r)
  BY StationTrace DEF Tells
<1>6. model' = model /\ Dest' = Dest /\ trace'[Dest'] = tr /\ StationsTold' = D
  BY <1>1, ConvertKeepsStations
<1> HIDE DEF tr, D
<1>7. 1 \in 1 .. Len(tr) /\ Len(D) \in Nat /\ Len(D) >= 1 /\ r[1] = 1
  BY <1>4, <1>5 DEF Telling
<1>8. Tail(tr) = SubSeq(tr, 1 + 1, Len(tr)) /\ Head(tr) = tr[1]
  BY <1>4
<1>9. schedule' = SubSeq(D, 2, r[1])
  <2>1. SubSeq(D, 2, 1) = <<>>
    BY <1>4
  <2> QED
    BY <1>1, <1>2, <1>7, <2>1
<1>10. queue' = [dest |-> SubSeq(tr, 1 + 1, Len(tr)), last_dest |-> tr[1].value]
  BY <1>1, <1>3, <1>8
<1>11. StationAt(1, r)'
  BY <1>5, <1>6, <1>9, <1>10 DEF StationAt, Telling
<1>12. StationLoop'
  BY <1>1, <1>5, <1>6, <1>7, <1>11 DEF StationLoop
<1>13. queue' # <<>>
  <2>1. DOMAIN queue' = {"dest", "last_dest"} /\ DOMAIN <<>> = {}
    BY <1>10
  <2> QED
    BY <2>1
<1> QED
  BY <1>1, <1>12, <1>13

\* A turn of the loop for stations.
LEMMA StationConverts ==
  ASSUME Typed, model = "station", StationInv, Phases, StationLoop, ConvertStations
  PROVE  /\ StationLoop' /\ queue # <<>> /\ queue' # <<>> /\ loc = "Loop" /\ loc' = "Loop"
         /\ outcome' \in {"", "emitted"} /\ result # <<>>
         /\ UNCHANGED <<model, sampling, now, value, trace, visited, trips, result>>
<1> DEFINE tr == trace[Dest]
           D == StationsTold
<1>1. /\ result # <<>> /\ outcome = "" /\ loc = "Loop" /\ loc' = "Loop"
      /\ UNCHANGED <<model, sampling, now, value, trace, visited, trips, result>>
      /\ (NextDest = <<>> /\ Emit) \/ NextStation
  BY Zenon DEF ConvertStations, Scheduling, simVars
<1>2. PICK i \in 1 .. Len(tr), r \in [1 .. Len(tr) -> 1 .. Len(D)] : StationAt(i, r)
  BY <1>1 DEF StationLoop
<1>3. /\ tr \in Seq(Sample) /\ Len(tr) \in Nat /\ D \in Seq(Int) /\ Distinct(D)
  BY StationTrace
<1>4. model' = model /\ Dest' = Dest /\ trace'[Dest'] = tr /\ StationsTold' = D
  BY <1>1, ConvertKeepsStations
<1>5. /\ Telling(tr, D, r)
      /\ queue = [dest |-> SubSeq(tr, i + 1, Len(tr)), last_dest |-> tr[i].value]
      /\ schedule = SubSeq(D, 2, r[i])
  BY <1>2 DEF StationAt
<1> DEFINE q == SubSeq(tr, i + 1, Len(tr))
<1>6. queue.dest = q /\ queue.last_dest = tr[i].value
  BY <1>5
<1> HIDE DEF tr, D
<1>7. NextIs(tr, D, r, i, NextDest)
  <2>1. q = SubSeq(tr, i + 1, Len(tr)) /\ i \in 1 .. Len(tr)
    BY DEF tr
  <2> HIDE DEF q
  <2>2. queue.last_dest = tr[i].value
    BY <1>6
  <2>3. NextDest = From(q, {p \in DOMAIN q : q[p].value # queue.last_dest})
    BY <1>6, Zenon DEF NextDest
  <2>4. tr \in Seq(Sample) /\ D \in Seq(Int) /\ Distinct(D) /\ Telling(tr, D, r)
    BY <1>3, <1>5
  <2> QED
    BY <2>1, <2>2, <2>3, <2>4, NextTold, Zenon
<1>8. queue # <<>>
  <2>1. DOMAIN queue = {"dest", "last_dest"} /\ DOMAIN <<>> = {}
    BY <1>5
  <2> QED
    BY <2>1
<1>9. CASE NextDest = <<>> /\ Emit
  <2>1. outcome' = "emitted" /\ queue' = queue /\ schedule' = schedule
    BY <1>9 DEF Emit
  <2>2. r[i] = Len(D)
    BY <1>7, <1>9 DEF NextIs
  <2>3. schedule' = SubSeq(StationsTold', 2, Len(StationsTold'))
    BY <1>4, <1>5, <2>1, <2>2
  <2>4. StationLoop'
    BY <2>1, <2>3 DEF StationLoop
  <2> QED
    BY <1>1, <1>8, <2>1, <2>4
<1>10. CASE NextStation
  <2>1. /\ NextDest # <<>> /\ outcome' = outcome
        /\ queue' = [dest |-> Tail(NextDest), last_dest |-> Head(NextDest).value]
        /\ schedule' = Append(schedule, Head(NextDest).value)
    BY <1>10 DEF NextStation
  <2>2. PICK k \in i + 1 .. Len(tr) : /\ r[k] = r[i] + 1 /\ Head(NextDest) = tr[k]
                                      /\ Tail(NextDest) = SubSeq(tr, k + 1, Len(tr))
    BY <1>7, <2>1 DEF NextIs
  <2>3. k \in 1 .. Len(tr)
    BY <1>3
  <2>4. tr[k].value = D[r[k]] /\ r[k] \in 1 .. Len(D) /\ r[i] \in 1 .. Len(D)
    BY <1>5, <2>3 DEF Telling
  <2>5. Append(SubSeq(D, 2, r[i]), D[r[i] + 1]) = SubSeq(D, 2, r[i] + 1)
    <3>1. /\ r[i] \in Nat /\ r[i] >= 1 /\ r[i] + 1 <= Len(D) /\ 2 \in Nat /\ 1 <= 2 /\ 2 <= r[i] + 1
      BY <1>3, <2>2, <2>4
    <3> QED
      BY <1>3, <3>1, PartGrows
  <2>6. schedule' = SubSeq(D, 2, r[k])
    BY <1>5, <2>1, <2>2, <2>4, <2>5
  <2>7. queue' = [dest |-> SubSeq(tr, k + 1, Len(tr)), last_dest |-> tr[k].value]
    BY <2>1, <2>2
  <2>8. StationAt(k, r)'
    BY <1>4, <1>5, <2>6, <2>7 DEF StationAt, Telling
  <2>9. outcome' = ""
    BY <1>1, <2>1
  <2>10. StationLoop'
    BY <1>1, <1>4, <2>3, <2>8, <2>9 DEF StationLoop
  <2>11. queue' # <<>>
    <3>1. DOMAIN queue' = {"dest", "last_dest"} /\ DOMAIN <<>> = {}
      BY <2>7
    <3> QED
      BY <3>1
  <2> QED
    BY <1>1, <1>8, <2>9, <2>10, <2>11
<1> QED
  BY <1>1, <1>9, <1>10

\* What is told but for its first station are the stations that were chosen.
LEMMA ChosenStations ==
  ASSUME Typed, Phases, model = "station" => StationInv, StationLoop
  PROVE  StationsAsChosen
<1> SUFFICES ASSUME model = "station", outcome = "emitted"
             PROVE  LET chosen == Ids(trips)
                    IN schedule = IF chosen = <<1>> THEN <<>>
                                  ELSE [i \in DOMAIN chosen |-> convert_to_waypoint_id[chosen[i]]]
  BY DEF StationsAsChosen
<1> DEFINE D == StationsTold
           chosen == Ids(trips)
           c == [i \in DOMAIN chosen |-> convert_to_waypoint_id[chosen[i]]]
           n == Len(trips)
<1>1. loc = "Loop"
  BY DEF Phases
<1>2. schedule = SubSeq(D, 2, Len(D))
  BY <1>1 DEF StationLoop
<1>3. /\ D \in Seq(Int) /\ trips \in Seq(StationTrip) /\ n \in Nat
      /\ trips # <<>> /\ trips[1].id = 1 => Len(trips) = 1 /\ D = <<convert_to_waypoint_id[1]>>
      /\ ~(trips # <<>> /\ trips[1].id = 1) =>
            /\ Len(D) = Len(trips) + 1
            /\ \A i \in 1 .. Len(trips) : D[i + 1] = convert_to_waypoint_id[trips[i].id]
  BY StationsToldFacts DEF StationInv
<1>4. chosen = [i \in 1 .. n |-> trips[i].id]
  BY <1>3 DEF Ids
<1> HIDE DEF D, chosen, n
<1>5. DOMAIN chosen = 1 .. n /\ \A i \in 1 .. n : chosen[i] = trips[i].id
  BY <1>4
<1>6. chosen = <<1>> <=> trips # <<>> /\ trips[1].id = 1
  <2>1. chosen = <<1>> => trips # <<>> /\ trips[1].id = 1
    <3> HAVE chosen = <<1>>
    <3>1. DOMAIN chosen = 1 .. 1 /\ chosen[1] = 1
      OBVIOUS
    <3>2. n = 1
      <4>1. n \in Nat /\ 1 .. n = 1 .. 1
        BY <1>3, <1>5, <3>1
      <4> QED
        BY <4>1
    <3>3. trips # <<>> /\ 1 \in 1 .. n
      <4>1. Len(trips) = 1
        BY <3>2 DEF n
      <4>2. trips # <<>>
        BY <4>1
      <4> QED
        BY <3>2, <4>2
    <3> QED
      BY <1>5, <3>1, <3>3
  <2>2. ASSUME trips # <<>>, trips[1].id = 1 PROVE chosen = <<1>>
    <3>1. n = 1
      BY <1>3, <2>2 DEF n
    <3>2. \A i \in 1 .. 1 : trips[i].id = 1
      BY <2>2
    <3>3. chosen = [i \in 1 .. 1 |-> 1]
      BY <1>4, <3>1, <3>2, Zenon
    <3> QED
      BY <3>3
  <2> QED
    BY <2>1, <2>2
<1>7. CASE chosen = <<1>>
  <2>1. D = <<convert_to_waypoint_id[1]>> /\ Len(D) = 1
    BY <1>3, <1>6, <1>7
  <2>2. SubSeq(D, 2, 1) = <<>>
    BY <1>3
  <2> QED
    BY <1>2, <1>7, <2>1, <2>2 DEF chosen
<1>8. CASE chosen # <<1>>
  <2>1. Len(D) = n + 1 /\ \A i \in 1 .. n : D[i + 1] = convert_to_waypoint_id[trips[i].id]
    BY <1>3, <1>6, <1>8 DEF n
  <2>2. /\ SubSeq(D, 1 + 1, Len(D)) \in Seq(Int) /\ Len(SubSeq(D, 1 + 1, Len(D))) = Len(D) - 1
        /\ \A p \in 1 .. Len(D) - 1 : SubSeq(D, 1 + 1, Len(D))[p] = D[1 + p]
    <3>1. 1 \in 0 .. Len(D)
      BY <1>3, <2>1
    <3> DEFINE b == SubSeq(D, 1 + 1, Len(D))
    <3>2. b = SubSeq(D, 1 + 1, Len(D)) /\ D \in Seq(Int)
      BY <1>3
    <3> HIDE DEF b
    <3>3. b \in Seq(Int) /\ Len(b) = Len(D) - 1 /\ \A p \in 1 .. Len(D) - 1 : b[p] = D[1 + p]
      <4>1. ASSUME NEW u \in Seq(Int), NEW j \in 0 .. Len(u), NEW w, w = SubSeq(u, j + 1, Len(u))
            PROVE  w \in Seq(Int) /\ Len(w) = Len(u) - j /\ \A k \in 1 .. Len(u) - j : w[k] = u[j + k]
        BY <4>1, RestFacts
      <4> QED
        BY <3>1, <3>2, <4>1
    <3> QED
      BY <3>3 DEF b
  <2>3. schedule \in Seq(Int) /\ Len(schedule) = n /\ \A p \in 1 .. n : schedule[p] = D[p + 1]
    BY <1>2, <1>3, <2>1, <2>2
  <2>4. \A p \in 1 .. n : schedule[p] = convert_to_waypoint_id[chosen[p]]
    BY <1>5, <2>1, <2>3
  <2>5. c = [i \in 1 .. n |-> convert_to_waypoint_id[chosen[i]]]
    BY <1>5
  <2>6. schedule = [i \in 1 .. n |-> schedule[i]]
    BY <2>3
  <2>7. schedule = c
    BY <2>4, <2>5, <2>6, Zenon
  <2> QED
    BY <1>8, <2>7 DEF chosen
<1> QED
  BY <1>7, <1>8

-----------------------------------------------------------------------------
(* What is kept of a longer sequence, and of one with a good beginning.    *)

\* What is kept of a sequence with one element more.
LEMMA KeepAppend ==
  ASSUME NEW E, NEW s \in Seq(E), NEW x \in E, NEW S
  PROVE  Keep(Append(s, x), S) = IF x \in S THEN Append(Keep(s, S), x) ELSE Keep(s, S)
<1> DEFINE a == Append(s, x)
           n == Len(s)
           P == Positions(s, S)
           Q == Positions(a, S)
           c == Cardinality(P)
           d == Cardinality(Q)
<1>1. n \in Nat /\ a \in Seq(E) /\ Len(a) = n + 1 /\ a[n + 1] = x /\ (\A i \in 1 .. n : a[i] = s[i])
      /\ DOMAIN a = 1 .. n + 1 /\ DOMAIN s = 1 .. n
  OBVIOUS
<1> HIDE DEF a
<1>2. IsFiniteSet(P) /\ P \subseteq 1 .. n /\ c \in Nat
  BY PositionsFinite
<1>3. IsFiniteSet(Q) /\ Q \subseteq 1 .. n + 1 /\ d \in Nat
  BY <1>1, PositionsFinite
<1>4. Q = IF x \in S THEN P \cup {n + 1} ELSE P
  <2>1. \A i : i \in P <=> i \in 1 .. n /\ s[i] \in S
    BY <1>1, Zenon DEF Positions
  <2>2. \A i : i \in Q <=> i \in 1 .. n + 1 /\ a[i] \in S
    BY <1>1, Zenon DEF Positions
  <2> HIDE DEF P, Q, n
  <2>3. \A i : i \in 1 .. n + 1 <=> i \in 1 .. n \/ i = n + 1
    BY <1>1
  <2>4. n + 1 \notin 1 .. n
    BY <1>1
  <2>5. CASE x \in S
    <3>1. \A i : i \in Q <=> i \in P \cup {n + 1}
      BY <1>1, <2>1, <2>2, <2>3, <2>4, <2>5
    <3> QED
      BY <2>5, <3>1
  <2>6. CASE x \notin S
    <3>1. \A i : i \in Q <=> i \in P
      BY <1>1, <2>1, <2>2, <2>3, <2>4, <2>6
    <3> QED
      BY <2>6, <3>1
  <2> QED
    BY <2>5, <2>6
<1>5. n + 1 \notin P
  BY <1>1, <1>2
<1>6. d = IF x \in S THEN c + 1 ELSE c
  <2> HIDE DEF P, Q
  <2>1. Cardinality(P \cup {n + 1}) = c + 1
    BY <1>2, <1>5, FS_AddElement
  <2> QED
    BY <1>4, <2>1
<1>7. \A i \in P : Rank(a, S, i) = Rank(s, S, i)
  <2> SUFFICES ASSUME NEW i \in P PROVE Rank(a, S, i) = Rank(s, S, i)
    OBVIOUS
  <2>1. {j \in Q : j <= i} = {j \in P : j <= i}
    <3> HIDE DEF P, Q, n
    <3>1. i \in 1 .. n
      BY <1>2
    <3>2. ~(n + 1 <= i)
      BY <1>1, <3>1
    <3> QED
      BY <1>4, <3>2
  <2> QED
    BY <2>1, Zenon DEF Rank
<1>8. \A k \in 1 .. c : Nth(s, S, k) \in P /\ Nth(a, S, k) = Nth(s, S, k)
  <2> SUFFICES ASSUME NEW k \in 1 .. c PROVE Nth(s, S, k) \in P /\ Nth(a, S, k) = Nth(s, S, k)
    OBVIOUS
  <2>1. Nth(s, S, k) \in P /\ Rank(s, S, Nth(s, S, k)) = k
    BY NthInverse
  <2>2. Rank(a, S, Nth(s, S, k)) = k
    BY <1>7, <2>1
  <2>3. Nth(s, S, k) \in Q
    BY <1>4, <2>1
  <2>4. Nth(a, S, Rank(a, S, Nth(s, S, k))) = Nth(s, S, k)
    BY <1>1, <2>3, NthInverse
  <2> QED
    BY <2>1, <2>2, <2>4
<1>9. Keep(s, S) = [k \in 1 .. c |-> s[Nth(s, S, k)]] /\ Keep(a, S) = [k \in 1 .. d |-> a[Nth(a, S, k)]]
  BY Zenon DEF Keep
<1>10. \A k \in 1 .. c : a[Nth(a, S, k)] = s[Nth(s, S, k)]
  BY <1>1, <1>2, <1>8
<1>11. CASE x \notin S
  <2>1. d = c
    BY <1>6, <1>11
  <2>2. Keep(a, S) = Keep(s, S)
    BY <1>9, <1>10, <2>1, Zenon
  <2> QED
    BY <1>11, <2>2 DEF a
<1>12. CASE x \in S
  <2>1. d = c + 1 /\ n + 1 \in Q
    BY <1>4, <1>6, <1>12
  <2>2. Rank(a, S, n + 1) = d
    <3> HIDE DEF P, Q, n
    <3>1. {j \in Q : j <= n + 1} = Q
      <4> HIDE DEF c, d
      <4>1. \A j \in Q : j <= n + 1
        BY <1>1, <1>3
      <4> QED
        BY <4>1, Zenon
    <3> QED
      BY <3>1, Zenon DEF Rank, Q, d
  <2>3. Nth(a, S, d) = n + 1
    <3>1. Nth(a, S, Rank(a, S, n + 1)) = n + 1
      BY <1>1, <2>1, NthInverse
    <3> QED
      BY <2>2, <3>1
  <2>4. a[Nth(a, S, d)] = x
    BY <1>1, <2>3
  <2>5. Keep(s, S) \in Seq(E) /\ Len(Keep(s, S)) = c
    <3>1. Keep(s, S) \in Seq(E \cap S) /\ Len(Keep(s, S)) = c
      BY KeepFacts
    <3> QED
      BY <3>1
  <2> DEFINE u == Append(Keep(s, S), x)
  <2> HIDE DEF c, d, n, P, Q
  <2>6. u \in Seq(E) /\ Len(u) = c + 1 /\ u[c + 1] = x /\ \A k \in 1 .. c : u[k] = Keep(s, S)[k]
    BY <1>2, <2>5
  <2>7. Keep(a, S) \in Seq(E) /\ Len(Keep(a, S)) = d
    <3>1. Keep(a, S) \in Seq(E \cap S) /\ Len(Keep(a, S)) = Cardinality(Positions(a, S))
      BY <1>1, KeepFacts
    <3> QED
      BY <3>1 DEF d, Q
  <2>8. ASSUME NEW k \in 1 .. c + 1 PROVE Keep(a, S)[k] = u[k]
    <3>1. Keep(a, S)[k] = a[Nth(a, S, k)]
      BY <1>9, <2>1
    <3>2. CASE k = c + 1
      BY <2>1, <2>4, <2>6, <3>1, <3>2
    <3>3. CASE k # c + 1
      <4>1. k \in 1 .. c
        BY <1>2, <3>3
      <4>2. Keep(s, S)[k] = s[Nth(s, S, k)]
        BY <1>9, <4>1
      <4> QED
        BY <1>10, <2>6, <3>1, <4>1, <4>2
    <3> QED
      BY <3>2, <3>3
  <2> HIDE DEF u
  <2>9. Keep(a, S) = u
    BY <2>1, <2>6, <2>7, <2>8, SeqEqual
  <2> QED
    BY <1>12, <2>9 DEF a, u
<1> QED
  BY <1>11, <1>12

\* What is kept of a sequence where only its beginning is in the set.
LEMMA KeepBeginning ==
  ASSUME NEW E, NEW s \in Seq(E), NEW S, NEW m \in 0 .. Len(s), Positions(s, S) = 1 .. m
  PROVE  Keep(s, S) = SubSeq(s, 1, m)
<1>1. m \in Nat /\ m <= Len(s) /\ Cardinality(1 .. m) = m
  BY FS_Interval
<1>2. \A k \in 1 .. m : Rank(s, S, k) = k
  <2> SUFFICES ASSUME NEW k \in 1 .. m PROVE Rank(s, S, k) = k
    OBVIOUS
  <2>1. {j \in 1 .. m : j <= k} = 1 .. k
    BY <1>1
  <2>2. Cardinality(1 .. k) = k
    BY FS_Interval
  <2>3. Rank(s, S, k) = Cardinality({j \in 1 .. m : j <= k})
    BY Zenon DEF Rank
  <2> QED
    BY <2>1, <2>2, <2>3
<1>3. \A k \in 1 .. m : Nth(s, S, k) = k
  <2> SUFFICES ASSUME NEW k \in 1 .. m PROVE Nth(s, S, k) = k
    OBVIOUS
  <2>1. Nth(s, S, Rank(s, S, k)) = k
    BY NthInverse
  <2> QED
    BY <1>2, <2>1
<1>4. Keep(s, S) = [k \in 1 .. m |-> s[Nth(s, S, k)]]
  BY <1>1, Zenon DEF Keep
<1>5. Keep(s, S) \in Seq(E) /\ Len(Keep(s, S)) = m
  <2>1. Keep(s, S) \in Seq(E \cap S) /\ Len(Keep(s, S)) = Cardinality(Positions(s, S))
    BY KeepFacts
  <2> QED
    BY <1>1, <2>1
<1>6. \A k \in 1 .. m : Keep(s, S)[k] = s[k]
  BY <1>3, <1>4
<1>7. /\ SubSeq(s, 1, m) \in Seq(E) /\ Len(SubSeq(s, 1, m)) = m - 1 + 1
      /\ \A k \in 1 .. m - 1 + 1 : SubSeq(s, 1, m)[k] = s[1 + k - 1]
  <2>1. 1 \in Int /\ m \in Int /\ 1 <= 1 /\ 1 <= m + 1 /\ m <= Len(s)
    BY <1>1
  <2> QED
    BY <2>1, PartFacts
<1> DEFINE b == SubSeq(s, 1, m)
<1>8. b \in Seq(E) /\ Len(b) = m /\ \A k \in 1 .. m : b[k] = s[k]
  <2>1. m - 1 + 1 = m /\ \A k \in 1 .. m : 1 + k - 1 = k
    BY <1>1
  <2> QED
    BY <1>7, <2>1
<1> HIDE DEF b
<1>9. Keep(s, S) = b
  BY <1>5, <1>6, <1>8, SeqEqual
<1> QED
  BY <1>9 DEF b

-----------------------------------------------------------------------------
(* The schedule of waypoints.                                              *)

\* What the traces of the waypoint model tell.
LEMMA WaypointTraces ==
  ASSUME Typed, model = "waypoint", WaypointInv, loc # "Start"
  PROVE  /\ trips \in Seq(WaypointTrip) /\ Reached \in Seq(WaypointTrip)
         /\ trace[Dest] \in Seq(Sample) /\ trace[Cur] \in Seq(Sample) /\ trace["Robot.Holding"] \in Seq(Sample)
         /\ trace[Dest] # <<>> /\ trace[Cur] # <<>> /\ trace["Robot.Holding"] # <<>>
         /\ Targets(trips) \in Seq(Int) /\ Stops(Reached) \in Seq(Int)
         /\ Distinct(Targets(trips)) /\ Distinct(Stops(Reached))
         /\ Tells(trace[Dest], Targets(trips)) /\ Tells(trace[Cur], Stops(Reached))
         /\ Len(trace[Dest]) >= 2 /\ trace[Dest][2].value = -1
<1>1. Dest \in Vars /\ Cur \in Vars /\ "Robot.Holding" \in Vars
  BY VariablesOfModel
<1>2. /\ trips \in Seq(WaypointTrip) /\ Distinct(Stops(trips))
      /\ Tells(trace[Dest], Targets(trips)) /\ Tells(trace[Cur], Stops(Reached))
      /\ Len(trace[Dest]) >= 2 /\ trace[Dest][2].value = -1
  BY DEF WaypointInv
<1>3. /\ Reached \in Seq(WaypointTrip) /\ Len(Reached) <= Len(trips)
      /\ \A k \in 1 .. Len(Reached) : Reached[k] = trips[k]
  BY <1>2, ReachedFacts
<1>4. TripsTold(trips) /\ TripsTold(Reached)
  BY <1>2, <1>3, IdsFacts
<1>5. Distinct(Stops(Reached))
  <2> DEFINE n == Len(Reached)
             m == Len(trips)
             A == Stops(Reached)
             B == Stops(trips)
  <2>1. n \in Nat /\ m \in Nat /\ n <= m
    BY <1>2, <1>3
  <2>2. /\ Len(A) = n + 1 /\ A[1] = next_waypoint /\ \A i \in 1 .. n : A[i + 1] = Reached[i].id
        /\ Len(B) = m + 1 /\ B[1] = next_waypoint /\ \A i \in 1 .. m : B[i + 1] = trips[i].id
    BY <1>4 DEF TripsTold
  <2>3. \A i \in 1 .. n : Reached[i] = trips[i]
    BY <1>3
  <2>4. \A k \in 1 .. Len(B) - 1 : B[k] # B[k + 1]
    BY <1>2 DEF Distinct
  <2> HIDE DEF n, m, A, B
  <2>5. \A i \in 1 .. n + 1 : A[i] = B[i]
    <3> SUFFICES ASSUME NEW i \in 1 .. n + 1 PROVE A[i] = B[i]
      OBVIOUS
    <3>1. CASE i = 1
      BY <2>2, <3>1
    <3>2. CASE i # 1
      <4>1. i - 1 \in 1 .. n /\ i - 1 \in 1 .. m /\ (i - 1) + 1 = i
        BY <2>1, <3>2
      <4> QED
        BY <2>2, <2>3, <4>1
    <3> QED
      BY <3>1, <3>2
  <2>6. \A k \in 1 .. Len(A) - 1 : A[k] # A[k + 1]
    BY <2>1, <2>2, <2>4, <2>5
  <2> QED
    BY <2>6 DEF Distinct, A
<1>6. Distinct(Targets(trips))
  BY <1>2, TargetsDistinct
<1>7. /\ trace[Dest] \in Seq(Sample) /\ trace[Cur] \in Seq(Sample) /\ trace["Robot.Holding"] \in Seq(Sample)
      /\ trace[Dest] # <<>> /\ trace[Cur] # <<>> /\ trace["Robot.Holding"] # <<>>
  BY <1>1 DEF Typed, Timed
<1> QED
  BY <1>2, <1>3, <1>4, <1>5, <1>6, <1>7 DEF TripsTold

\* The trips that arrived are the first ones.
LEMMA VisitsReached ==
  ASSUME Typed, model = "waypoint", WaypointInv
  PROVE  Visits = Reached
<1> DEFINE S == [id : WaypointIds, held : 0 .. MaxHolds, arrived : {TRUE}]
           m == Len(Reached)
<1>1. trips \in Seq(WaypointTrip) /\ (\A k \in 1 .. Len(trips) - 1 : trips[k].arrived) /\ Len(trips) \in Nat
  BY DEF WaypointInv
<1>2. /\ Reached \in Seq(WaypointTrip) /\ Len(Reached) <= Len(trips)
      /\ \A k \in 1 .. Len(Reached) : Reached[k] = trips[k]
      /\ trips = <<>> \/ Last(trips).arrived => Reached = trips
      /\ trips # <<>> /\ ~Last(trips).arrived => Len(Reached) = Len(trips) - 1
  BY <1>1, ReachedFacts
<1>3. \A k \in 1 .. Len(trips) : trips[k] \in WaypointTrip
  BY <1>1
<1>4. \A k \in 1 .. Len(trips) : trips[k] \in S <=> trips[k].arrived
  BY <1>3 DEF WaypointTrip
<1>5. m \in 0 .. Len(trips) /\ m \in Nat
  BY <1>1, <1>2
<1>6. \A k \in 1 .. Len(trips) : trips[k].arrived <=> k \in 1 .. m
  <2> SUFFICES ASSUME NEW k \in 1 .. Len(trips) PROVE trips[k].arrived <=> k \in 1 .. m
    OBVIOUS
  <2>1. trips # <<>>
    BY <1>1
  <2>2. CASE Last(trips).arrived
    <3>1. m = Len(trips)
      BY <1>2, <2>2
    <3>2. k # Len(trips) => k \in 1 .. Len(trips) - 1
      BY <1>1
    <3> QED
      BY <1>1, <2>2, <3>1, <3>2 DEF Last
  <2>3. CASE ~Last(trips).arrived
    <3>1. m = Len(trips) - 1
      BY <1>2, <2>1, <2>3
    <3>2. k \in 1 .. m <=> k # Len(trips)
      BY <1>1, <3>1
    <3>3. k # Len(trips) => k \in 1 .. Len(trips) - 1
      BY <1>1
    <3> QED
      BY <1>1, <2>3, <3>2, <3>3 DEF Last
  <2> QED
    BY <2>2, <2>3
<1>7. Positions(trips, S) = 1 .. m
  <2>1. DOMAIN trips = 1 .. Len(trips)
    BY <1>1
  <2>2. \A k : k \in Positions(trips, S) <=> k \in 1 .. Len(trips) /\ trips[k] \in S
    BY <2>1, Zenon DEF Positions
  <2>3. \A k \in 1 .. m : k \in 1 .. Len(trips)
    BY <1>1, <1>5
  <2> HIDE DEF S, m
  <2>4. \A k : k \in Positions(trips, S) <=> k \in 1 .. m
    BY <1>4, <1>6, <2>2, <2>3
  <2> QED
    BY <2>4, Zenon
<1>8. Keep(trips, S) = SubSeq(trips, 1, m)
  <2> HIDE DEF S, m
  <2> QED
    BY <1>1, <1>5, <1>7, KeepBeginning
<1>9. SubSeq(trips, 1, m) = Reached
  <2> DEFINE b == SubSeq(trips, 1, m)
  <2>1. /\ SubSeq(trips, 1, m) \in Seq(WaypointTrip) /\ Len(SubSeq(trips, 1, m)) = m - 1 + 1
        /\ \A k \in 1 .. m - 1 + 1 : SubSeq(trips, 1, m)[k] = trips[1 + k - 1]
    <3>1. 1 \in Int /\ m \in Int /\ 1 <= 1 /\ 1 <= m + 1 /\ m <= Len(trips)
      BY <1>5
    <3> HIDE DEF m
    <3> QED
      BY <1>1, <3>1, PartFacts
  <2>2. m - 1 + 1 = m /\ \A k \in 1 .. m : 1 + k - 1 = k
    BY <1>5
  <2>3. b \in Seq(WaypointTrip) /\ Len(b) = Len(Reached) /\ \A k \in 1 .. Len(Reached) : b[k] = trips[k]
    BY <2>1, <2>2
  <2> HIDE DEF b
  <2>4. b = Reached
    BY <1>2, <2>3, SeqEqual
  <2> QED
    BY <2>4 DEF b
<1> QED
  BY <1>8, <1>9, Zenon DEF Visits

\* The first sample of a value behind a sample.
FindIs(tr, C, s, c, x, q, at) ==
  /\ s[c] < Len(C) /\ x = C[s[c] + 1] =>
       /\ at \in 1 .. Len(q) /\ c + at \in c + 1 .. Len(tr) /\ s[c + at] = s[c] + 1
       /\ tr[c + at].value # tr[c + at - 1].value
       /\ SubSeq(q, at + 1, Len(q)) = SubSeq(tr, c + at + 1, Len(tr))
  /\ s[c] = Len(C) /\ x # C[s[c]] => at = 0

\* Finding a value in a queue is finding the next of what is told, or nothing.
LEMMA FindTold ==
  ASSUME NEW tr \in Seq(Sample), NEW C \in Seq(Int), Distinct(C), NEW s, Telling(tr, C, s),
         NEW c \in 1 .. Len(tr), NEW q, q = SubSeq(tr, c + 1, Len(tr)), NEW x,
         NEW P, P = {p \in DOMAIN q : q[p].value = x}
  PROVE  FindIs(tr, C, s, c, x, q, First(P))
<1> DEFINE n == Len(tr)
           later == {k \in c + 1 .. n : tr[k].value # tr[c].value}
<1>1. n \in Nat /\ c \in Int /\ 1 <= c /\ c <= n /\ c \in 0 .. Len(tr)
  OBVIOUS
<1>2. q \in Seq(Sample) /\ Len(q) = n - c /\ DOMAIN q = 1 .. n - c /\ \A p \in 1 .. n - c : q[p] = tr[c + p]
  BY <1>1, RestFacts
<1>3. /\ later = {} => s[c] = Len(C)
      /\ \A k \in later : (\A m \in later : k <= m) => s[k] = s[c] + 1
      /\ \A k \in c .. n : (\A m \in c + 1 .. k : m \notin later) => s[k] = s[c]
  BY TellsNext
<1>4. /\ \A k \in 1 .. n : tr[k].value = C[s[k]] /\ s[k] \in 1 .. Len(C)
      /\ Len(C) \in Nat
  BY DEF Telling
<1>5. \A p : p \in P <=> p \in 1 .. n - c /\ tr[c + p].value = x
  BY <1>2
<1>6. ASSUME s[c] < Len(C), x = C[s[c] + 1]
      PROVE  /\ First(P) \in 1 .. Len(q) /\ c + First(P) \in c + 1 .. n /\ s[c + First(P)] = s[c] + 1
             /\ tr[c + First(P)].value # tr[c + First(P) - 1].value
             /\ SubSeq(q, First(P) + 1, Len(q)) = SubSeq(tr, c + First(P) + 1, n)
  <2>1. later # {}
    BY <1>1, <1>3, <1>4, <1>6
  <2>2. later \in SUBSET Nat
    BY <1>1
  <2> DEFINE k == Min(later)
  <2>3. k \in later /\ \A m \in later : k <= m
    BY <2>1, <2>2, MinNatural
  <2> HIDE DEF k
  <2>4. k \in c + 1 .. n /\ tr[k].value # tr[c].value /\ s[k] = s[c] + 1 /\ k \in Int
    BY <1>3, <2>3
  <2> DEFINE p == k - c
  <2>5. p \in 1 .. n - c /\ c + p = k
    BY <1>1, <2>4
  <2>6. k \in 1 .. n /\ tr[k].value = x
    BY <1>1, <1>4, <1>6, <2>4
  <2>7. p \in P
    BY <1>5, <2>5, <2>6
  <2>8. ASSUME NEW j \in c .. k - 1 PROVE s[j] = s[c] /\ tr[j].value = C[s[c]] /\ tr[j].value # x
    <3>1. j \in c .. n /\ j \in 1 .. n
      BY <1>1, <2>4
    <3>2. \A m \in c + 1 .. j : m \notin later
      BY <1>1, <2>3, <2>4
    <3>3. s[j] = s[c]
      BY <1>3, <3>1, <3>2
    <3>4. s[c] \in 1 .. Len(C) - 1
      BY <1>1, <1>4, <1>6
    <3>5. C[s[c]] # C[s[c] + 1]
      BY <3>4 DEF Distinct
    <3> QED
      BY <1>4, <1>6, <3>1, <3>3, <3>5
  <2>9. \A m \in P : p <= m
    <3> SUFFICES ASSUME NEW m \in P, ~(p <= m) PROVE FALSE
      OBVIOUS
    <3>1. m \in 1 .. n - c /\ tr[c + m].value = x
      BY <1>5
    <3>2. c + m \in c .. k - 1
      BY <1>1, <2>4, <2>5, <3>1
    <3> QED
      BY <2>8, <3>1, <3>2
  <2>10. First(P) = p
    <3>1. P \in SUBSET Nat /\ p \in Nat
      BY <1>1, <1>5, <2>5
    <3> HIDE DEF p
    <3> QED
      BY <2>7, <2>9, <3>1, FirstIs
  <2>11. tr[k].value # tr[k - 1].value
    <3>1. k - 1 \in c .. k - 1
      BY <1>1, <2>4
    <3> QED
      BY <2>6, <2>8, <3>1
  <2>12. SubSeq(q, p + 1, Len(q)) = SubSeq(tr, c + p + 1, n)
    <3>1. p \in 0 .. Len(tr) - c
      BY <1>1, <2>5
    <3> HIDE DEF p
    <3> QED
      BY <1>1, <3>1, RestOfRest
  <2>13. p \in 1 .. Len(q)
    BY <1>2, <2>5
  <2>14. c + p - 1 = k - 1 /\ p \in Int
    BY <1>1, <2>4
  <2> HIDE DEF p, later, n
  <2>15. /\ p \in 1 .. Len(q) /\ c + p \in c + 1 .. n /\ s[c + p] = s[c] + 1
         /\ tr[c + p].value # tr[c + p - 1].value
         /\ SubSeq(q, p + 1, Len(q)) = SubSeq(tr, c + p + 1, n)
    BY <2>4, <2>5, <2>11, <2>12, <2>13, <2>14
  <2> QED
    BY <2>10, <2>15, Zenon
<1>7. ASSUME s[c] = Len(C), x # C[s[c]] PROVE First(P) = 0
  <2>1. later = {}
    <3> SUFFICES ASSUME later # {} PROVE FALSE
      OBVIOUS
    <3>1. later \in SUBSET Nat
      BY <1>1
    <3> DEFINE k == Min(later)
    <3>2. k \in later /\ \A m \in later : k <= m
      BY <3>1, MinNatural
    <3> HIDE DEF k
    <3>3. s[k] = s[c] + 1 /\ k \in 1 .. n
      BY <1>1, <1>3, <3>2
    <3> QED
      BY <1>4, <1>7, <3>3
  <2>2. P = {}
    <3> SUFFICES ASSUME NEW p \in P PROVE FALSE
      OBVIOUS
    <3>1. p \in 1 .. n - c /\ tr[c + p].value = x
      BY <1>5
    <3>2. c + p \in c .. n /\ c + p \in 1 .. n
      BY <1>1, <3>1
    <3>3. s[c + p] = s[c]
      BY <1>3, <2>1, <3>2
    <3> QED
      BY <1>4, <1>7, <3>1, <3>2, <3>3
  <2> QED
    BY <2>2, Zenon DEF First
<1> HIDE DEF later
<1>8. FindIs(tr, C, s, c, x, q, First(P))
  BY <1>6, <1>7 DEF FindIs
<1> QED
  BY <1>8

Actions == [type : {"Waypoint"}, value : Nat] \cup [type : {"Hold"}, value : Nat \ {0}]
Driving == [type : {"Waypoint"}, value : WaypointIds]
Values(w) == [i \in DOMAIN w |-> w[i].value]

\* One waypoint more in a schedule, and perhaps a hold.
LEMMA ActionsAdded ==
  ASSUME NEW old \in Seq(Actions), NEW w \in WaypointIds, NEW delay \in Int
  PROVE  LET new == old \o <<[type |-> "Waypoint", value |-> w]>> \o hold_action(delay)
         IN /\ new \in Seq(Actions)
            /\ Values(Keep(new, Driving)) = Append(Values(Keep(old, Driving)), w)
<1> DEFINE x == [type |-> "Waypoint", value |-> w]
           a == Append(old, x)
           new == old \o <<x>> \o hold_action(delay)
           h == [type |-> "Hold", value |-> delay]
<1>1. x \in Actions /\ x \in Driving /\ x.value = w
  BY WaypointConstants DEF Actions, Driving
<1>2. h \notin Driving
  <2>1. \A d \in Driving : d.type = "Waypoint"
    BY DEF Driving
  <2>2. h.type = "Hold"
    OBVIOUS
  <2> QED
    BY <2>1, <2>2
<1>3. delay > 0 => h \in Actions
  BY DEF Actions
<1> HIDE DEF x, h
<1>4. old \o <<x>> = a /\ a \in Seq(Actions)
  BY <1>1
<1>5. Keep(a, Driving) = Append(Keep(old, Driving), x)
  BY <1>1, KeepAppend
<1> HIDE DEF a
<1>6. new \in Seq(Actions) /\ Keep(new, Driving) = Keep(a, Driving)
  <2>1. CASE delay > 0
    <3>1. hold_action(delay) = <<h>>
      BY <2>1 DEF hold_action, h
    <3>2. new = Append(a, h) /\ new \in Seq(Actions)
      BY <1>3, <1>4, <2>1, <3>1
    <3>3. Keep(Append(a, h), Driving) = Keep(a, Driving)
      BY <1>2, <1>3, <1>4, <2>1, KeepAppend
    <3> QED
      BY <3>2, <3>3
  <2>2. CASE ~(delay > 0)
    <3>1. hold_action(delay) = <<>>
      BY <2>2 DEF hold_action
    <3>2. new = a
      BY <1>4, <3>1
    <3> QED
      BY <1>4, <3>2
  <2> QED
    BY <2>1, <2>2
<1> DEFINE k == Keep(old, Driving)
<1>7. k \in Seq(Actions)
  <2>1. Keep(old, Driving) \in Seq(Actions \cap Driving)
    BY KeepFacts
  <2> QED
    BY <2>1
<1> HIDE DEF k
<1>8. Values(Append(k, x)) = Append(Values(k), w)
  <2> DEFINE n == Len(k)
             u == Append(k, x)
             v == Values(k)
  <2>1. /\ n \in Nat /\ DOMAIN k = 1 .. n /\ DOMAIN u = 1 .. n + 1 /\ u[n + 1] = x /\ \A i \in 1 .. n : u[i] = k[i]
        /\ \A i \in 1 .. n : k[i].value \in Nat
    <3>1. \A y \in Actions : y.value \in Nat
      BY DEF Actions
    <3> QED
      BY <1>7, <3>1
  <2>2. v = [i \in 1 .. n |-> k[i].value] /\ Values(u) = [i \in 1 .. n + 1 |-> u[i].value]
    BY <2>1, Zenon DEF Values
  <2> HIDE DEF n, u, v
  <2>3. v \in Seq(Nat) /\ Len(v) = n /\ \A i \in 1 .. n : v[i] = k[i].value
    BY <2>1, <2>2
  <2>4. w \in Nat
    BY WaypointConstants
  <2> DEFINE z == Append(v, w)
  <2>5. z \in Seq(Nat) /\ Len(z) = n + 1 /\ z[n + 1] = w /\ \A i \in 1 .. n : z[i] = v[i]
    BY <2>1, <2>3, <2>4
  <2> HIDE DEF z
  <2>6. ASSUME NEW i \in 1 .. n + 1 PROVE u[i].value = z[i]
    <3>1. CASE i = n + 1
      BY <1>1, <2>1, <2>5, <3>1
    <3>2. CASE i # n + 1
      <4>1. i \in 1 .. n
        BY <2>1, <3>2
      <4> QED
        BY <2>1, <2>3, <2>5, <4>1
    <3> QED
      BY <3>1, <3>2
  <2>7. z = [i \in 1 .. n + 1 |-> z[i]]
    BY <2>1, <2>5
  <2>8. Values(u) = z
    BY <2>2, <2>6, <2>7, Zenon
  <2> QED
    BY <2>8 DEF u, v, z
<1>9. Values(Keep(new, Driving)) = Append(Values(Keep(old, Driving)), w)
  BY <1>5, <1>6, <1>8 DEF k
<1> QED
  BY <1>6, <1>9 DEF x

\* The whole of a sequence is a part of it.
LEMMA PartAll ==
  ASSUME NEW S, NEW s \in Seq(S)
  PROVE  SubSeq(s, 1, Len(s)) = s
BY PartFacts, SeqEqual

\* The queues are still sequences of samples.
LEMMA FromFacts ==
  ASSUME NEW q \in Seq(Sample), NEW P, P \subseteq DOMAIN q
  PROVE  From(q, P) \in Seq(Sample) /\ Len(From(q, P)) \in Nat /\ Popped(From(q, P)) \in Seq(Sample)
<1>1. From(q, P) \in Seq(Sample)
  <2>1. CASE P = {}
    <3>1. From(q, P) = <<>>
      BY <2>1 DEF From
    <3> QED
      BY <3>1
  <2>2. CASE P # {}
    <3>1. P \in SUBSET Nat
      OBVIOUS
    <3> DEFINE m == Min(P)
    <3>2. m \in P
      BY <2>2, <3>1, MinNatural
    <3>3. From(q, P) = SubSeq(q, m, Len(q))
      BY <2>2, Zenon DEF From
    <3> HIDE DEF m
    <3>4. m \in Int /\ 1 <= m /\ m <= Len(q) + 1 /\ Len(q) \in Int /\ Len(q) <= Len(q)
      BY <3>2
    <3>5. SubSeq(q, m, Len(q)) \in Seq(Sample)
      BY <3>4, PartFacts
    <3> QED
      BY <3>3, <3>5
  <2> QED
    BY <2>1, <2>2
<1> DEFINE f == From(q, P)
<1> HIDE DEF f
<1>2. f \in Seq(Sample)
  BY <1>1 DEF f
<1>3. Len(f) \in Nat /\ Popped(f) \in Seq(Sample)
  BY <1>2 DEF Popped
<1> QED
  BY <1>2, <1>3 DEF f

\* The queues stand behind sample i of the destinations and sample c of the waypoints, the
\* first one of its value; the waypoints up to it are in the schedule.
WaypointAt(i, r, c, s) ==
  /\ Telling(trace[Dest], Targets(trips), r) /\ Telling(trace[Cur], Stops(Reached), s)
  /\ c = 1 \/ trace[Cur][c].value # trace[Cur][c - 1].value
  /\ r[i] = s[c] + 1
  /\ queue.dest = SubSeq(trace[Dest], i + 1, Len(trace[Dest])) /\ queue.last_dest = trace[Dest][i].value
  /\ queue.cur = SubSeq(trace[Cur], c + 1, Len(trace[Cur])) /\ queue.hold \in Seq(Sample)
  /\ Values(Waypoints) = SubSeq(Ids(Reached), 1, s[c] - 1)

Somewhere ==
  \E i \in 1 .. Len(trace[Dest]), c \in 1 .. Len(trace[Cur]),
     r \in [1 .. Len(trace[Dest]) -> 1 .. Len(Targets(trips))],
     s \in [1 .. Len(trace[Cur]) -> 1 .. Len(Stops(Reached))] : WaypointAt(i, r, c, s)

WaypointLoop ==
  model = "waypoint" /\ loc = "Loop" =>
    /\ schedule \in Seq(Actions)
    /\ queue # <<>>
    /\ outcome = "" => Somewhere
    /\ outcome = "emitted" => /\ Values(Waypoints) = Ids(Reached)
                              /\ Len(Reached) < Len(trips) => sampling = "changes"
    /\ outcome = "undefined" => Len(Reached) < Len(trips)

\* What is the same in a step of convert_result().
LEMMA ConvertKeepsWaypoints ==
  ASSUME UNCHANGED <<model, trace, trips>>
  PROVE  /\ Dest' = Dest /\ Cur' = Cur /\ trace'[Dest'] = trace[Dest] /\ trace'[Cur'] = trace[Cur]
         /\ Reached' = Reached /\ Targets(trips)' = Targets(trips) /\ Stops(Reached)' = Stops(Reached)
         /\ Ids(Reached)' = Ids(Reached)
<1>1. Dest' = Dest /\ Cur' = Cur
  BY DEF Dest, Cur, Variables
<1>2. Reached' = Reached
  BY DEF Reached
<1> QED
  BY <1>1, <1>2 DEF Targets, Stops, Ids

\* Nothing is driven in an empty schedule.
LEMMA NothingDriven ==
  Values(Keep(<<>>, Driving)) = <<>>
<1>1. <<>> \in Seq(Actions) /\ Len(<<>>) = 0
  OBVIOUS
<1>2. Keep(<<>>, Driving) \in Seq(Actions \cap Driving) /\ Len(Keep(<<>>, Driving)) \in 0 .. Len(<<>>)
  BY <1>1, KeepFacts
<1> DEFINE k == Keep(<<>>, Driving)
<1> HIDE DEF k
<1>3. Len(k) = 0 /\ k \in Seq(Actions \cap Driving)
  BY <1>1, <1>2 DEF k
<1>4. DOMAIN k = {}
  BY <1>3
<1>5. Values(k) = [i \in {} |-> k[i].value]
  BY <1>4, Zenon DEF Values
<1>6. Values(k) = <<>>
  BY <1>5
<1> QED
  BY <1>6 DEF k

\* Prepare stands the queues behind the second destination and the first waypoint.
LEMMA WaypointPrepares ==
  ASSUME Typed, model = "waypoint", WaypointInv, Phases, Prepare
  PROVE  /\ WaypointLoop' /\ queue # <<>> /\ queue' # <<>> /\ loc' = "Loop" /\ outcome' = "" /\ result # <<>>
         /\ UNCHANGED <<model, sampling, now, value, trace, visited, trips, result>>
<1> DEFINE td == trace[Dest]
           tc == trace[Cur]
           h == trace["Robot.Holding"]
           D == Targets(trips)
           C == Stops(Reached)
<1>1. /\ result # <<>> /\ outcome = "" /\ queue # <<>> /\ loc = "Convert" /\ loc' = "Loop"
      /\ queue' = [cur |-> Tail(queue[Cur]), dest |-> Tail(Tail(queue[Dest])),
                   last_dest |-> queue[Dest][2].value, hold |-> Tail(queue["Robot.Holding"])]
      /\ schedule' = schedule /\ outcome' = outcome
      /\ UNCHANGED <<model, sampling, now, value, trace, visited, trips, result>>
  BY Zenon DEF Prepare, Scheduling, simVars
<1>2. queue = [v \in Looked |-> trace[v]] /\ schedule = <<>>
  BY <1>1 DEF Phases
<1>3. queue[Dest] = td /\ queue[Cur] = tc /\ queue["Robot.Holding"] = h
  BY <1>2, VariablesOfModel
<1>4. /\ trips \in Seq(WaypointTrip) /\ Reached \in Seq(WaypointTrip)
      /\ td \in Seq(Sample) /\ tc \in Seq(Sample) /\ h \in Seq(Sample) /\ tc # <<>> /\ h # <<>>
      /\ D \in Seq(Int) /\ C \in Seq(Int) /\ Tells(td, D) /\ Tells(tc, C)
      /\ Len(td) >= 2 /\ td[2].value = -1
  BY <1>1, WaypointTraces
<1>5. PICK r \in [1 .. Len(td) -> 1 .. Len(D)] : Telling(td, D, r)
  BY <1>4 DEF Tells
<1>6. PICK s \in [1 .. Len(tc) -> 1 .. Len(C)] : Telling(tc, C, s)
  BY <1>4 DEF Tells
<1>7. D[1] = 0 /\ Ids(Reached) \in Seq(WaypointIds)
  BY <1>4, IdsFacts DEF TripsTold
<1>8. Dest' = Dest /\ Cur' = Cur /\ trace'[Dest'] = td /\ trace'[Cur'] = tc /\ Reached' = Reached
      /\ Targets(trips)' = D /\ Stops(Reached)' = C /\ Ids(Reached)' = Ids(Reached)
  BY <1>1, ConvertKeepsWaypoints
<1> HIDE DEF td, tc, h, D, C
<1>9. s[1] = 1 /\ 1 \in 1 .. Len(tc)
  BY <1>4, <1>6 DEF Telling
<1>10. r[2] = 2 /\ 2 \in 1 .. Len(td)
  <2>1. Len(td) \in Nat /\ 1 \in 1 .. Len(td) - 1 /\ 2 \in 1 .. Len(td)
    BY <1>4
  <2>2. r[1] = 1 /\ r[1 + 1] \in {r[1], r[1] + 1} /\ td[2].value = D[r[2]]
    BY <1>5, <2>1 DEF Telling
  <2>3. r[2] = 1 \/ r[2] = 2
    BY <2>2
  <2>4. r[2] # 1
    <3>1. td[2].value = -1 /\ D[1] = 0 /\ td[2].value = D[r[2]]
      BY <1>4, <1>7, <2>2, Zenon
    <3>2. 0 # -1
      OBVIOUS
    <3> QED
      BY <3>1, <3>2, Zenon
  <2> QED
    BY <2>1, <2>3, <2>4
<1>11. Tail(tc) = SubSeq(tc, 1 + 1, Len(tc))
  BY <1>4
<1>12. Tail(Tail(td)) = SubSeq(td, 2 + 1, Len(td))
  <2>1. Tail(td) = SubSeq(td, 1 + 1, Len(td)) /\ td # <<>>
    BY <1>4
  <2>2. Tail(td) \in Seq(Sample) /\ Len(Tail(td)) = Len(td) - 1 /\ Tail(td) # <<>>
    <3> DEFINE u == Tail(td)
               n == Len(td)
    <3>1. u \in Seq(Sample) /\ Len(u) = n - 1 /\ n \in Nat /\ n >= 2
      BY <1>4
    <3> HIDE DEF u, n
    <3>2. Len(u) >= 1
      BY <3>1
    <3>3. u # <<>>
      BY <3>2
    <3> QED
      BY <3>1, <3>3 DEF u, n
  <2>3. Tail(Tail(td)) = SubSeq(Tail(td), 1 + 1, Len(Tail(td)))
    BY <2>2
  <2>4. 1 \in 0 .. Len(td) /\ 1 \in 0 .. Len(td) - 1
    BY <1>4
  <2>5. SubSeq(SubSeq(td, 1 + 1, Len(td)), 1 + 1, Len(SubSeq(td, 1 + 1, Len(td)))) = SubSeq(td, 1 + 1 + 1, Len(td))
    BY <1>4, <2>4, RestOfRest
  <2> QED
    BY <2>1, <2>3, <2>5
<1>13. /\ queue'.cur = SubSeq(tc, 1 + 1, Len(tc)) /\ queue'.dest = SubSeq(td, 2 + 1, Len(td))
       /\ queue'.last_dest = td[2].value /\ queue'.hold \in Seq(Sample)
  <2>1. Tail(h) \in Seq(Sample)
    BY <1>4
  <2> QED
    BY <1>1, <1>3, <1>11, <1>12, <2>1
<1>14. Values(Waypoints)' = SubSeq(Ids(Reached), 1, s[1] - 1)
  <2>1. Waypoints' = Keep(<<>>, Driving)
    BY <1>1, <1>2, Zenon DEF Waypoints, Driving
  <2>2. Values(Waypoints)' = <<>>
    BY <2>1, NothingDriven, Zenon DEF Values
  <2>3. SubSeq(Ids(Reached), 1, 0) = <<>>
    BY <1>7
  <2> QED
    BY <1>9, <2>2, <2>3
<1>15. WaypointAt(2, r, 1, s)'
  <2>1. r[2] = s[1] + 1
    BY <1>9, <1>10
  <2> QED
    BY <1>5, <1>6, <1>8, <1>13, <1>14, <2>1 DEF WaypointAt, Telling
<1>16. Somewhere'
  BY <1>8, <1>9, <1>10, <1>15 DEF Somewhere
<1>17. queue' # <<>>
  <2> DEFINE a == Tail(queue[Cur])
             b == Tail(Tail(queue[Dest]))
             d == queue[Dest][2].value
             e == Tail(queue["Robot.Holding"])
  <2>1. queue' = [cur |-> a, dest |-> b, last_dest |-> d, hold |-> e]
    BY <1>1, Zenon
  <2> HIDE DEF a, b, d, e
  <2>2. DOMAIN queue' = {"cur", "dest", "last_dest", "hold"} /\ DOMAIN <<>> = {}
    BY <2>1
  <2> QED
    BY <2>2
<1>18. schedule' \in Seq(Actions)
  <2>1. schedule' = <<>> /\ <<>> \in Seq(Actions)
    <3>1. schedule' = <<>>
      BY <1>1, <1>2, Zenon
    <3>2. <<>> \in Seq(Actions)
      OBVIOUS
    <3> QED
      BY <3>1, <3>2
  <2> QED
    BY <2>1, Zenon
<1>19. WaypointLoop'
  BY <1>1, <1>16, <1>17, <1>18 DEF WaypointLoop
<1> QED
  BY <1>1, <1>17, <1>19

\* What the loop of convert_result() meets: the trip that is next, whether it ended or not.
Met(c, s, next, at) ==
  LET j == s[c]
  IN /\ j \in 1 .. Len(trips) /\ next = trips[j].id /\ next \in WaypointIds
     /\ at # 0 => /\ j <= Len(Reached) /\ next = Ids(Reached)[j]
                  /\ at \in 1 .. Len(queue.cur) /\ c + at \in 1 .. Len(trace[Cur]) /\ s[c + at] = j + 1
                  /\ trace[Cur][c + at].value # trace[Cur][c + at - 1].value
                  /\ SubSeq(queue.cur, at + 1, Len(queue.cur)) = SubSeq(trace[Cur], c + at + 1, Len(trace[Cur]))
     /\ at = 0 => Len(Reached) < Len(trips)

\* The next destination is the next trip; it is found among the waypoints if it ended.
LEMMA TripMet ==
  ASSUME Typed, model = "waypoint", WaypointInv, loc # "Start",
         NEW r, NEW c \in 1 .. Len(trace[Cur]), NEW s, NEW i \in 1 .. Len(trace[Dest]), WaypointAt(i, r, c, s),
         NEW k \in 1 .. Len(trace[Dest]), r[k] = r[i] + 1, NEW next, next = trace[Dest][k].value,
         NEW P, P = {p \in DOMAIN queue.cur : queue.cur[p].value = next}
  PROVE  Met(c, s, next, First(P))
<1> DEFINE td == trace[Dest]
           tc == trace[Cur]
           D == Targets(trips)
           C == Stops(Reached)
           j == s[c]
           n == Len(trips)
           m == Len(Reached)
           at == First(P)
<1>1. /\ trips \in Seq(WaypointTrip) /\ Reached \in Seq(WaypointTrip) /\ n \in Nat /\ m \in Nat
      /\ tc \in Seq(Sample) /\ C \in Seq(Int) /\ Distinct(C)
  BY WaypointTraces
<1>2. /\ Telling(td, D, r) /\ Telling(tc, C, s) /\ r[i] = j + 1
      /\ queue.cur = SubSeq(tc, c + 1, Len(tc))
  BY DEF WaypointAt
<1>3. /\ m <= n /\ \A h \in 1 .. m : Reached[h] = trips[h]
  BY <1>1, ReachedFacts
<1>4. TripsTold(trips) /\ TripsTold(Reached)
  BY <1>1, IdsFacts
<1>5. /\ Len(D) = n + 2 /\ (\A h \in 1 .. n : D[h + 2] = trips[h].id /\ trips[h].id \in WaypointIds)
      /\ Len(C) = m + 1 /\ C[1] = next_waypoint /\ (\A h \in 1 .. m : C[h + 1] = Reached[h].id)
      /\ Len(Stops(trips)) = n + 1 /\ Stops(trips)[1] = next_waypoint
      /\ (\A h \in 1 .. n : Stops(trips)[h + 1] = trips[h].id)
      /\ (\A h \in 1 .. m : Ids(Reached)[h] = Reached[h].id)
  BY <1>4 DEF TripsTold
<1>6. \A h \in 1 .. Len(Stops(trips)) - 1 : Stops(trips)[h] # Stops(trips)[h + 1]
  BY DEF WaypointInv, Distinct
<1>7. j \in 1 .. Len(C) /\ r[k] \in 1 .. Len(D) /\ next = D[r[k]]
  <2>1. c \in 1 .. Len(tc)
    OBVIOUS
  <2>2. j \in 1 .. Len(C)
    BY <1>2, <2>1 DEF Telling
  <2>3. k \in 1 .. Len(td) /\ next = td[k].value
    OBVIOUS
  <2> HIDE DEF td, D
  <2>4. r[k] \in 1 .. Len(D) /\ next = D[r[k]]
    BY <1>2, <2>3 DEF Telling
  <2> QED
    BY <2>2, <2>4
<1> HIDE DEF td, D, C, n, m, tc
<1>8. FindIs(tc, C, s, c, next, queue.cur, at)
  <2>1. c \in 1 .. Len(tc)
    BY DEF tc
  <2> DEFINE q == queue.cur
  <2>2. q = SubSeq(tc, c + 1, Len(tc)) /\ P = {p \in DOMAIN q : q[p].value = next}
    BY <1>2
  <2> HIDE DEF q
  <2>3. FindIs(tc, C, s, c, next, q, First(P))
    BY <1>1, <1>2, <2>1, <2>2, FindTold
  <2> QED
    BY <2>3 DEF q
<1> HIDE DEF j, at
<1>9. r[k] = j + 2 /\ j \in 1 .. n /\ next = trips[j].id /\ next \in WaypointIds
  <2>1. r[k] = j + 2
    BY <1>2, <1>5, <1>7
  <2>2. j \in 1 .. n
    BY <1>1, <1>5, <1>7, <2>1
  <2> QED
    BY <1>5, <1>7, <2>1, <2>2
<1>10. CASE j <= m
  <2>1. j \in 1 .. m
    BY <1>1, <1>9, <1>10
  <2>2. next = C[j + 1] /\ next = Ids(Reached)[j]
    BY <1>3, <1>5, <1>9, <2>1
  <2>3. j < Len(C)
    BY <1>1, <1>5, <2>1
  <2>4. /\ at \in 1 .. Len(queue.cur) /\ c + at \in c + 1 .. Len(tc) /\ s[c + at] = s[c] + 1
        /\ tc[c + at].value # tc[c + at - 1].value
        /\ SubSeq(queue.cur, at + 1, Len(queue.cur)) = SubSeq(tc, c + at + 1, Len(tc))
    BY <1>8, <2>2, <2>3 DEF FindIs, j
  <2>5. c + at \in 1 .. Len(tc) /\ at # 0
    BY <1>1, <2>4
  <2> QED
    BY <1>9, <1>10, <2>2, <2>4, <2>5 DEF Met, j, at, tc, m, n
<1>11. CASE ~(j <= m)
  <2>1. j = m + 1 /\ j = Len(C) /\ m < n
    BY <1>1, <1>5, <1>7, <1>9, <1>11
  <2>2. C[j] = Stops(trips)[j]
    <3>1. CASE j = 1
      BY <1>5, <3>1
    <3>2. CASE j # 1
      <4> DEFINE h == j - 1
      <4>1. h \in 1 .. m /\ h \in 1 .. n /\ h + 1 = j
        <5>1. m \in Nat /\ n \in Nat
          BY <1>1
        <5> QED
          BY <2>1, <3>2, <5>1
      <4> HIDE DEF h
      <4>2. C[h + 1] = trips[h].id /\ Stops(trips)[h + 1] = trips[h].id
        BY <1>3, <1>5, <4>1, Zenon
      <4> QED
        BY <4>1, <4>2
    <3> QED
      BY <3>1, <3>2
  <2>3. next # C[j]
    <3>1. j \in 1 .. Len(Stops(trips)) - 1
      BY <1>1, <1>5, <1>9
    <3>2. Stops(trips)[j] # Stops(trips)[j + 1]
      BY <1>6, <3>1
    <3> QED
      BY <1>5, <1>9, <2>2, <3>2
  <2>4. at = 0
    BY <1>8, <2>1, <2>3 DEF FindIs, j
  <2> QED
    BY <1>9, <2>1, <2>4 DEF Met, j, at, m, n
<1> QED
  BY <1>10, <1>11

\* Where the schedule ends: the waypoints of all trips that ended are in it.
LEMMA AllDriven ==
  ASSUME Typed, model = "waypoint", WaypointInv, loc # "Start", Sampled, result # <<>>,
         NEW r, NEW c \in 1 .. Len(trace[Cur]), NEW s, NEW i \in 1 .. Len(trace[Dest]), WaypointAt(i, r, c, s),
         queue.cur = <<>> \/ r[i] = Len(Targets(trips))
  PROVE  Values(Waypoints) = Ids(Reached) /\ (Len(Reached) < Len(trips) => sampling = "changes")
<1> DEFINE tc == trace[Cur]
           D == Targets(trips)
           C == Stops(Reached)
           j == s[c]
           n == Len(trips)
           m == Len(Reached)
<1>1. /\ trips \in Seq(WaypointTrip) /\ Reached \in Seq(WaypointTrip) /\ n \in Nat /\ m \in Nat
      /\ tc \in Seq(Sample) /\ m <= n
  BY WaypointTraces, ReachedFacts
<1>2. /\ Telling(tc, C, s) /\ r[i] = j + 1
      /\ queue.cur = SubSeq(tc, c + 1, Len(tc))
      /\ c = 1 \/ tc[c].value # tc[c - 1].value
      /\ Values(Waypoints) = SubSeq(Ids(Reached), 1, j - 1)
  BY DEF WaypointAt
<1>3. Len(D) = n + 2 /\ Len(C) = m + 1 /\ Ids(Reached) \in Seq(WaypointIds) /\ Len(Ids(Reached)) = m
  BY <1>1, IdsFacts DEF TripsTold
<1>4. c \in 1 .. Len(tc) /\ j \in 1 .. Len(C) /\ s[Len(tc)] = Len(C)
  BY <1>2 DEF Telling
<1>5. sampling # "changes" => TwoAtEnd(tc)
  <2>1. Cur \in Vars
    BY VariablesOfModel
  <2> QED
    BY <2>1 DEF Sampled
<1> HIDE DEF tc, D, C, j, n, m
<1>6. CASE queue.cur = <<>>
  <2>1. c = Len(tc)
    <3>1. c \in 0 .. Len(tc) /\ Len(tc) \in Nat
      BY <1>1, <1>4
    <3> DEFINE q == queue.cur
    <3>2. q = SubSeq(tc, c + 1, Len(tc)) /\ Len(q) = 0
      BY <1>2, <1>6
    <3> HIDE DEF q
    <3>3. Len(q) = Len(tc) - c
      BY <1>1, <3>1, <3>2, RestFacts
    <3> QED
      BY <3>1, <3>2, <3>3
  <2>2. j = m + 1
    BY <1>3, <1>4, <2>1 DEF j
  <2>3. sampling = "changes"
    <3> SUFFICES ASSUME sampling # "changes" PROVE FALSE
      OBVIOUS
    <3>1. Len(tc) >= 2 /\ tc[Len(tc)].value = tc[Len(tc) - 1].value
      BY <1>5 DEF TwoAtEnd
    <3>2. c # 1
      BY <1>4, <2>1, <3>1
    <3> QED
      BY <1>2, <2>1, <3>1, <3>2
  <2>4. SubSeq(Ids(Reached), 1, m) = Ids(Reached)
    BY <1>3, PartAll
  <2>5. j - 1 = m
    BY <1>1, <2>2
  <2> QED
    BY <1>2, <2>3, <2>4, <2>5 DEF m
<1>7. CASE r[i] = Len(D)
  <2>1. j = n + 1 /\ m = n /\ j - 1 = m
    BY <1>1, <1>2, <1>3, <1>4, <1>7
  <2>2. SubSeq(Ids(Reached), 1, m) = Ids(Reached)
    BY <1>3, PartAll
  <2>3. ~(m < n)
    BY <1>1, <2>1
  <2> QED
    BY <1>2, <2>1, <2>2, <2>3 DEF m, n
<1> QED
  BY <1>6, <1>7 DEF D

\* The trip that the loop comes to next, from the next destination.
NextTrip(i, r, next) ==
  \E k \in 1 .. Len(trace[Dest]) : /\ r[k] = r[i] + 1 /\ next = trace[Dest][k].value
                                   /\ Tail(NextDest) = SubSeq(trace[Dest], k + 1, Len(trace[Dest]))

\* Both in the terms of convert_result(): the next destination, and where it is found.
LEMMA NextTripMet ==
  ASSUME Typed, model = "waypoint", WaypointInv, loc # "Start",
         NEW r, NEW c \in 1 .. Len(trace[Cur]), NEW s, NEW i \in 1 .. Len(trace[Dest]), WaypointAt(i, r, c, s),
         NEW next, next = Head(NextDest).value,
         NEW P, P = {p \in DOMAIN queue.cur : queue.cur[p].value = next}
  PROVE  /\ NextDest = <<>> => r[i] = Len(Targets(trips))
         /\ NextDest # <<>> => NextTrip(i, r, next) /\ Met(c, s, next, First(P))
<1> DEFINE td == trace[Dest]
           D == Targets(trips)
           at == First(P)
<1>1. /\ Telling(td, D, r)
      /\ queue.dest = SubSeq(td, i + 1, Len(td)) /\ queue.last_dest = td[i].value
  BY DEF WaypointAt
<1>2. td \in Seq(Sample) /\ D \in Seq(Int) /\ Distinct(D)
  BY WaypointTraces
<1>3. NextIs(td, D, r, i, NextDest)
  <2> DEFINE q == queue.dest
             x == queue.last_dest
  <2>1. NextDest = From(q, {p \in DOMAIN q : q[p].value # x})
    BY Zenon DEF NextDest
  <2>2. q = SubSeq(td, i + 1, Len(td)) /\ x = td[i].value
    BY <1>1
  <2> HIDE DEF q, x, td, D
  <2>3. i \in 1 .. Len(td)
    BY DEF td
  <2> QED
    BY <1>1, <1>2, <2>1, <2>2, <2>3, NextTold
<1>4. NextDest # <<>> =>
        \E k \in 1 .. Len(td) : /\ r[k] = r[i] + 1 /\ next = td[k].value
                                /\ Tail(NextDest) = SubSeq(td, k + 1, Len(td))
  <2> SUFFICES ASSUME NextDest # <<>>
               PROVE  \E k \in 1 .. Len(td) : /\ r[k] = r[i] + 1 /\ next = td[k].value
                                              /\ Tail(NextDest) = SubSeq(td, k + 1, Len(td))
    OBVIOUS
  <2>1. PICK k \in i + 1 .. Len(td) : /\ r[k] = r[i] + 1 /\ Head(NextDest) = td[k]
                                      /\ Tail(NextDest) = SubSeq(td, k + 1, Len(td))
    BY <1>3 DEF NextIs
  <2>2. k \in 1 .. Len(td)
    BY <1>2
  <2>3. next = td[k].value
    BY <2>1
  <2> HIDE DEF td
  <2> QED
    BY <2>1, <2>2, <2>3
<1>5. ASSUME NEW k \in 1 .. Len(td), r[k] = r[i] + 1, next = td[k].value PROVE Met(c, s, next, at)
  <2>1. k \in 1 .. Len(trace[Dest]) /\ next = trace[Dest][k].value /\ i \in 1 .. Len(trace[Dest])
        /\ c \in 1 .. Len(trace[Cur])
    BY <1>5 DEF td
  <2> QED
    BY <1>5, <2>1, TripMet DEF at
<1> QED
  BY <1>3, <1>4, <1>5 DEF NextIs, NextTrip

\* A turn of the loop for waypoints.
LEMMA WaypointConverts ==
  ASSUME Typed, model = "waypoint", WaypointInv, Phases, Sampled, WaypointLoop, ConvertWaypoints
  PROVE  /\ WaypointLoop' /\ queue # <<>> /\ queue' # <<>> /\ loc = "Loop" /\ loc' = "Loop"
         /\ outcome' \in {"", "emitted", "undefined"} /\ result # <<>>
         /\ UNCHANGED <<model, sampling, now, value, trace, visited, trips, result>>
<1> DEFINE td == trace[Dest]
           tc == trace[Cur]
           D == Targets(trips)
           C == Stops(Reached)
           next == Head(NextDest).value
           P == {p \in DOMAIN queue.cur : queue.cur[p].value = next}
           at == First(P)
           hold == hold_after(queue.hold, queue.cur[at].time)
           after == From(hold, {p \in DOMAIN hold : hold[p].value # 1})
           delay == Len(hold) - Len(after)
<1>1. /\ result # <<>> /\ outcome = "" /\ loc = "Loop" /\ loc' = "Loop"
      /\ UNCHANGED <<model, sampling, now, value, trace, visited, trips, result>>
      /\ \/ (queue.cur = <<>> \/ NextDest = <<>>) /\ Emit
         \/ /\ queue.cur # <<>> /\ NextDest # <<>> /\ at = 0
            /\ outcome' = "undefined" /\ UNCHANGED <<queue, schedule>>
         \/ /\ queue.cur # <<>> /\ NextDest # <<>> /\ at # 0
            /\ queue' = [cur |-> SubSeq(queue.cur, at + 1, Len(queue.cur)), dest |-> Tail(NextDest),
                         last_dest |-> next, hold |-> Popped(after)]
            /\ schedule' = schedule \o <<[type |-> "Waypoint", value |-> next]>> \o hold_action(delay)
            /\ UNCHANGED outcome
  BY Zenon DEF ConvertWaypoints, Scheduling, simVars
<1>2. schedule \in Seq(Actions) /\ queue # <<>> /\ Somewhere
  BY <1>1 DEF WaypointLoop
<1>3. PICK i \in 1 .. Len(td), c \in 1 .. Len(tc), r \in [1 .. Len(td) -> 1 .. Len(D)], s \in [1 .. Len(tc) -> 1 .. Len(C)] :
        WaypointAt(i, r, c, s)
  BY <1>2 DEF Somewhere
<1>4. /\ Telling(td, D, r) /\ Telling(tc, C, s) /\ r[i] = s[c] + 1
      /\ queue.dest = SubSeq(td, i + 1, Len(td)) /\ queue.last_dest = td[i].value
      /\ queue.cur = SubSeq(tc, c + 1, Len(tc)) /\ queue.hold \in Seq(Sample)
      /\ Values(Waypoints) = SubSeq(Ids(Reached), 1, s[c] - 1)
  BY <1>3 DEF WaypointAt
<1>5. /\ trips \in Seq(WaypointTrip) /\ Reached \in Seq(WaypointTrip)
      /\ td \in Seq(Sample) /\ tc \in Seq(Sample) /\ D \in Seq(Int) /\ C \in Seq(Int) /\ Distinct(D)
  BY <1>1, WaypointTraces
<1>6. Dest' = Dest /\ Cur' = Cur /\ trace'[Dest'] = td /\ trace'[Cur'] = tc /\ Reached' = Reached
      /\ Targets(trips)' = D /\ Stops(Reached)' = C /\ Ids(Reached)' = Ids(Reached)
  BY <1>1, ConvertKeepsWaypoints
<1>7. /\ NextDest = <<>> => r[i] = Len(D)
      /\ NextDest # <<>> => NextTrip(i, r, next) /\ Met(c, s, next, at)
  <2>1. P = {p \in DOMAIN queue.cur : queue.cur[p].value = next} /\ next = Head(NextDest).value
    OBVIOUS
  <2> HIDE DEF next, P
  <2> QED
    BY <1>1, <1>3, <2>1, NextTripMet
<1>8. CASE (queue.cur = <<>> \/ NextDest = <<>>) /\ Emit
  <2>1. outcome' = "emitted" /\ queue' = queue /\ schedule' = schedule
    BY <1>8 DEF Emit
  <2>2. queue.cur = <<>> \/ r[i] = Len(Targets(trips))
    BY <1>7, <1>8
  <2>3. Values(Waypoints) = Ids(Reached) /\ (Len(Reached) < Len(trips) => sampling = "changes")
    BY <1>1, <1>3, <2>2, AllDriven
  <2>4. Values(Waypoints)' = Values(Waypoints)
    BY <2>1 DEF Waypoints, Values
  <2>5. WaypointLoop'
    BY <1>1, <1>2, <1>6, <2>1, <2>3, <2>4 DEF WaypointLoop
  <2> QED
    BY <1>1, <1>2, <2>1, <2>5
<1> HIDE DEF next, P, at
<1>9. CASE /\ queue.cur # <<>> /\ NextDest # <<>> /\ at = 0
            /\ outcome' = "undefined" /\ UNCHANGED <<queue, schedule>>
  <2>1. Len(Reached) < Len(trips)
    BY <1>7, <1>9 DEF Met
  <2>2. WaypointLoop'
    BY <1>1, <1>2, <1>6, <1>9, <2>1 DEF WaypointLoop
  <2> QED
    BY <1>1, <1>2, <1>9, <2>2
<1>10. CASE /\ queue.cur # <<>> /\ NextDest # <<>> /\ at # 0
            /\ queue' = [cur |-> SubSeq(queue.cur, at + 1, Len(queue.cur)), dest |-> Tail(NextDest),
                         last_dest |-> next, hold |-> Popped(after)]
            /\ schedule' = schedule \o <<[type |-> "Waypoint", value |-> next]>> \o hold_action(delay)
            /\ UNCHANGED outcome
  <2>1. PICK k \in 1 .. Len(td) : /\ r[k] = r[i] + 1 /\ next = td[k].value
                                  /\ Tail(NextDest) = SubSeq(td, k + 1, Len(td))
    BY <1>7, <1>10 DEF NextTrip
  <2>2. Met(c, s, next, at)
    BY <1>7, <1>10
  <2> DEFINE j == s[c]
  <2>3. /\ j \in 1 .. Len(trips) /\ next \in WaypointIds /\ j <= Len(Reached) /\ next = Ids(Reached)[j]
        /\ c + at \in 1 .. Len(tc) /\ s[c + at] = j + 1
        /\ at \in Int /\ tc[c + at].value # tc[c + at - 1].value
        /\ SubSeq(queue.cur, at + 1, Len(queue.cur)) = SubSeq(tc, c + at + 1, Len(tc))
    <3>1. at \in 1 .. Len(queue.cur)
      BY <1>10, <2>2 DEF Met
    <3>2. SubSeq(tc, c + 1, Len(tc)) \in Seq(Sample)
      BY <1>5
    <3>3. Len(queue.cur) \in Nat
      BY <1>4, <3>2
    <3>4. at \in Int
      BY <3>1, <3>3
    <3> QED
      BY <1>10, <2>2, <3>4 DEF Met
  <2> HIDE DEF j
  <2>4. hold \in Seq(Sample) /\ Len(hold) \in Nat
    <3> DEFINE h == queue.hold
               t == queue.cur[at].time
               H == {p \in DOMAIN h : h[p].time > t}
    <3>1. hold = From(h, H)
      BY Zenon DEF hold_after
    <3>2. H \subseteq DOMAIN h /\ h \in Seq(Sample)
      BY <1>4
    <3> HIDE DEF hold, H, h
    <3> QED
      BY <3>1, <3>2, FromFacts
  <2> HIDE DEF hold
  <2>5. after \in Seq(Sample) /\ Len(after) \in Nat /\ Popped(after) \in Seq(Sample)
    <3> DEFINE H == {p \in DOMAIN hold : hold[p].value # 1}
    <3>1. H \subseteq DOMAIN hold
      OBVIOUS
    <3> HIDE DEF H
    <3>2. From(hold, H) \in Seq(Sample) /\ Len(From(hold, H)) \in Nat /\ Popped(From(hold, H)) \in Seq(Sample)
      BY <2>4, <3>1, FromFacts
    <3> QED
      BY <3>2 DEF H
  <2> HIDE DEF after
  <2>6. delay \in Int
    BY <2>4, <2>5
  <2> HIDE DEF delay
  <2>7. schedule' \in Seq(Actions) /\ Values(Waypoints)' = Append(Values(Waypoints), next)
    <3>1. /\ schedule' \in Seq(Actions)
          /\ Values(Keep(schedule', Driving)) = Append(Values(Keep(schedule, Driving)), next)
      BY <1>2, <1>10, <2>3, <2>6, ActionsAdded
    <3>2. Waypoints = Keep(schedule, Driving) /\ Waypoints' = Keep(schedule', Driving)
      BY Zenon DEF Waypoints, Driving
    <3>3. Values(Waypoints)' = Values(Keep(schedule', Driving))
      BY <3>2, Zenon DEF Values
    <3> QED
      BY <3>1, <3>2, <3>3
  <2>8. Values(Waypoints)' = SubSeq(Ids(Reached), 1, s[c + at] - 1)
    <3>1. Ids(Reached) \in Seq(WaypointIds) /\ Len(Ids(Reached)) = Len(Reached)
      BY <1>5, IdsFacts DEF TripsTold
    <3>2. j - 1 \in Nat /\ 1 \in Nat /\ 1 <= 1 /\ 1 <= (j - 1) + 1 /\ (j - 1) + 1 <= Len(Ids(Reached)) /\ (j - 1) + 1 = j
      BY <2>3, <3>1
    <3>3. Append(SubSeq(Ids(Reached), 1, j - 1), Ids(Reached)[(j - 1) + 1]) = SubSeq(Ids(Reached), 1, (j - 1) + 1)
      BY <3>1, <3>2, PartGrows
    <3>4. s[c + at] - 1 = j
      BY <2>3
    <3> QED
      BY <1>4, <2>3, <2>7, <3>2, <3>3, <3>4 DEF j
  <2>9. /\ queue'.dest = SubSeq(td, k + 1, Len(td)) /\ queue'.last_dest = td[k].value
        /\ queue'.cur = SubSeq(tc, c + at + 1, Len(tc)) /\ queue'.hold \in Seq(Sample)
    <3> DEFINE a == SubSeq(queue.cur, at + 1, Len(queue.cur))
               b == Tail(NextDest)
               d == Popped(after)
    <3>1. queue' = [cur |-> a, dest |-> b, last_dest |-> next, hold |-> d]
      BY <1>10, Zenon
    <3>2. a = SubSeq(tc, c + at + 1, Len(tc)) /\ b = SubSeq(td, k + 1, Len(td)) /\ next = td[k].value
          /\ d \in Seq(Sample)
      BY <2>1, <2>3, <2>5
    <3> HIDE DEF a, b, d
    <3>3. queue'.cur = a /\ queue'.dest = b /\ queue'.last_dest = next /\ queue'.hold = d
      BY <3>1
    <3> QED
      BY <3>2, <3>3
  <2>10. queue' # <<>>
    <3> DEFINE a == SubSeq(queue.cur, at + 1, Len(queue.cur))
               b == Tail(NextDest)
               d == Popped(after)
    <3>1. queue' = [cur |-> a, dest |-> b, last_dest |-> next, hold |-> d]
      BY <1>10, Zenon
    <3> HIDE DEF a, b, d
    <3>2. DOMAIN queue' = {"cur", "dest", "last_dest", "hold"} /\ DOMAIN <<>> = {}
      BY <3>1
    <3> QED
      BY <3>2
  <2>11. r[k] = s[c + at] + 1
    <3>1. j \in Int
      BY <2>3
    <3> QED
      BY <1>4, <2>1, <2>3, <3>1 DEF j
  <2>12. PICK e \in 1 .. Len(tc) : e = c + at
    BY <2>3
  <2> HIDE DEF td, tc, D, C
  <2>13. /\ e \in 1 .. Len(tc) /\ tc[e].value # tc[e - 1].value /\ r[k] = s[e] + 1
         /\ Values(Waypoints)' = SubSeq(Ids(Reached), 1, s[e] - 1)
         /\ queue'.cur = SubSeq(tc, e + 1, Len(tc))
    <3>1. e \in 1 .. Len(tc)
      BY <2>3, <2>12, Zenon
    <3>2. tc[e].value # tc[e - 1].value
      BY <2>3, <2>12
    <3>3. r[k] = s[e] + 1
      BY <2>11, <2>12, Zenon
    <3>4. Values(Waypoints)' = SubSeq(Ids(Reached), 1, s[e] - 1)
      BY <2>8, <2>12, Zenon
    <3>5. queue'.cur = SubSeq(tc, e + 1, Len(tc))
      BY <2>9, <2>12, Zenon
    <3> QED
      BY <3>1, <3>2, <3>3, <3>4, <3>5
  <2>14. WaypointAt(k, r, e, s)'
    <3>1. Telling(trace[Dest], Targets(trips), r)' /\ Telling(trace[Cur], Stops(Reached), s)'
      <4>1. Telling(trace'[Dest'], Targets(trips)', r) /\ Telling(trace'[Cur'], Stops(Reached)', s)
        BY <1>4, <1>6, Zenon
      <4> QED
        BY <4>1 DEF Telling
    <3>2. trace'[Cur'][e].value # trace'[Cur'][e - 1].value /\ r[k] = s[e] + 1
      BY <1>6, <2>13, Zenon
    <3>3. /\ queue'.dest = SubSeq(trace'[Dest'], k + 1, Len(trace'[Dest']))
          /\ queue'.last_dest = trace'[Dest'][k].value
          /\ queue'.cur = SubSeq(trace'[Cur'], e + 1, Len(trace'[Cur'])) /\ queue'.hold \in Seq(Sample)
      BY <1>6, <2>9, <2>13, Zenon
    <3>4. Values(Waypoints)' = SubSeq(Ids(Reached)', 1, s[e] - 1)
      BY <1>6, <2>13, Zenon
    <3> QED
      BY <3>1, <3>2, <3>3, <3>4 DEF WaypointAt, Telling
  <2>15. k \in 1 .. Len(td) /\ e \in 1 .. Len(tc) /\ r \in [1 .. Len(td) -> 1 .. Len(D)] /\ s \in [1 .. Len(tc) -> 1 .. Len(C)]
    BY <2>13
  <2>16. Somewhere'
    <3>1. /\ k \in 1 .. Len(trace[Dest])' /\ e \in 1 .. Len(trace[Cur])'
          /\ r \in [1 .. Len(trace[Dest])' -> 1 .. Len(Targets(trips))']
          /\ s \in [1 .. Len(trace[Cur])' -> 1 .. Len(Stops(Reached))']
      BY <1>6, <2>15, Zenon
    <3> QED
      BY <2>14, <3>1 DEF Somewhere
  <2>17. outcome' = ""
    BY <1>1, <1>10
  <2>18. WaypointLoop'
    BY <1>1, <2>7, <2>10, <2>16, <2>17 DEF WaypointLoop
  <2> QED
    BY <1>1, <1>2, <2>10, <2>17, <2>18
<1> QED
  BY <1>1, <1>8, <1>9, <1>10

\* The inductive invariant: what the traces tell of the trips while the robot moves, how far
\* the answer is, and where the queues stand in the loop of convert_result().
Inv ==
  /\ Typed /\ visited \subseteq Stations
  /\ Sampled /\ Phases
  /\ model = "station" => StationInv
  /\ model = "waypoint" => WaypointInv
  /\ StationLoop /\ WaypointLoop

\* A move leaves the simulation without an answer, and is one of its model.
LEMMA MovesAnswerNothing ==
  ASSUME Typed, Phases, StationMove \/ WaypointMove
  PROVE  Phases' /\ result' = <<>> /\ loc' \notin {"Convert", "Loop"} /\ model' = model
<1> USE DEF StationMove, WaypointMove
<1>1. \E from, t, v, new : \E to \in {"ToNext", "Choose", "EnRoute", "Waiting", "Done", "BetweenWaypoints",
                                      "QueueUp", "Holding"} : Move(from, to, t, v, new)
  <2>1. CASE StationMove
    BY <2>1, Zenon DEF StationStart, StationToNext, StationDone, StationArrive, StationVisited, StationChoose
  <2>2. CASE WaypointMove
    BY <2>2, Zenon DEF WaypointStart, WaypointDone, WaypointArrive, WaypointHold, WaypointHeld, WaypointQueue,
                       WaypointGo, WaypointChoose
  <2> QED
    BY <2>1, <2>2
<1>2. PICK from, t, v, new : \E to \in {"ToNext", "Choose", "EnRoute", "Waiting", "Done", "BetweenWaypoints",
                                        "QueueUp", "Holding"} : Move(from, to, t, v, new)
  BY <1>1
<1>3. PICK to \in {"ToNext", "Choose", "EnRoute", "Waiting", "Done", "BetweenWaypoints", "QueueUp", "Holding"} :
        Move(from, to, t, v, new)
  BY <1>2
<1>4. to \notin {"Start", "Convert", "Loop"}
  OBVIOUS
<1>5. Phases'
  BY <1>3, <1>4, MovePhases
<1>6. result' = <<>> /\ loc' = to /\ model' = model
  BY <1>3, Zenon DEF Move, simVars
<1> QED
  BY <1>4, <1>5, <1>6

\* No move is one of the other model.
LEMMA MovesOfModel ==
  /\ StationMove /\ WaypointInv => model # "waypoint"
  /\ WaypointMove /\ StationInv => model # "station" /\ visited' = visited
<1>1. ASSUME StationMove, model = "waypoint", WaypointInv PROVE FALSE
  <2>1. loc \in {"ToNext", "EnRoute"}
    BY <1>1 DEF StationMove, StationStart, StationToNext, StationDone, StationArrive, StationVisited,
                StationChoose, Move
  <2> QED
    BY <1>1, <2>1 DEF WaypointInv
<1>2. ASSUME WaypointMove, model = "station", StationInv PROVE FALSE
  <2>1. loc \in {"BetweenWaypoints", "Holding", "QueueUp"}
    BY <1>2 DEF WaypointMove, WaypointStart, WaypointDone, WaypointArrive, WaypointHold, WaypointHeld,
                WaypointQueue, WaypointGo, WaypointChoose, Move
  <2> QED
    BY <1>2, <2>1 DEF StationInv
<1>3. WaypointMove => visited' = visited
  BY Zenon DEF WaypointMove, WaypointStart, WaypointDone, WaypointArrive, WaypointHold, WaypointHeld,
               WaypointQueue, WaypointGo, WaypointChoose
<1> QED
  BY <1>1, <1>2, <1>3

\* The moves of the robot,
LEMMA MovesKeepInv ==
  ASSUME Inv, StationMove \/ WaypointMove
  PROVE  Inv'
<1>1. model \in {"station", "waypoint"}
  BY DEF Inv, Typed
<1>2. Phases' /\ result' = <<>> /\ loc' \notin {"Convert", "Loop"} /\ model' = model
  BY MovesAnswerNothing DEF Inv
<1>3. Sampled' /\ StationLoop' /\ WaypointLoop'
  BY <1>2 DEF Sampled, StationLoop, WaypointLoop
<1>4. CASE model = "station"
  <2>1. StationMove
    BY <1>4, MovesOfModel DEF Inv
  <2>2. Typed' /\ StationInv'
    BY <1>4, <2>1, StationMoves DEF Inv
  <2>3. visited' \subseteq Stations
    BY <2>2 DEF StationInv
  <2> QED
    BY <1>2, <1>3, <1>4, <2>2, <2>3 DEF Inv
<1>5. CASE model = "waypoint"
  <2>1. WaypointMove
    BY <1>5, MovesOfModel DEF Inv
  <2>2. Typed' /\ WaypointInv'
    BY <1>5, <2>1, WaypointMoves DEF Inv
  <2>3. visited' = visited
    BY <2>1, Zenon DEF WaypointMove, WaypointStart, WaypointDone, WaypointArrive, WaypointHold, WaypointHeld,
               WaypointQueue, WaypointGo, WaypointChoose
  <2> QED
    BY <1>2, <1>3, <1>5, <2>2, <2>3 DEF Inv
<1> QED
  BY <1>1, <1>4, <1>5

\* the answer,
LEMMA AnswerKeepsInv ==
  ASSUME Inv, Answer
  PROVE  Inv'
<1>1. result = <<>> /\ loc' = loc /\ visited' = visited /\ model' = model
  BY DEF Answer, simVars
<1>2. loc \notin {"Convert", "Loop"}
  BY <1>1 DEF Inv, Phases
<1>3. StationLoop' /\ WaypointLoop'
  BY <1>1, <1>2 DEF StationLoop, WaypointLoop
<1>4. Typed' /\ Sampled'
  BY AnswerTraces DEF Inv
<1>5. Phases'
  BY AnswerPhases DEF Inv
<1>6. (model = "station" => StationInv') /\ (model = "waypoint" => WaypointInv')
  BY AnswerInvs DEF Inv
<1> QED
  BY <1>1, <1>3, <1>4, <1>5, <1>6 DEF Inv

\* parsing it,
LEMMA ParseKeepsInv ==
  ASSUME Inv, Parse
  PROVE  Inv'
<1>1. /\ Phases' /\ result # <<>> /\ queue = <<>> /\ loc' = "Convert"
      /\ UNCHANGED <<model, sampling, now, value, trace, visited, trips, result>>
  BY ParsePhases DEF Inv
<1>2. loc # "Start"
  BY <1>1 DEF Inv, Phases
<1>3. StationLoop' /\ WaypointLoop'
  BY <1>1 DEF StationLoop, WaypointLoop
<1>4. /\ Typed' /\ Sampled'
      /\ model = "station" /\ StationInv => StationInv'
      /\ model = "waypoint" /\ WaypointInv => WaypointInv'
  BY <1>1, <1>2, ReadingKeeps DEF Inv
<1> QED
  BY <1>1, <1>3, <1>4 DEF Inv

\* What the steps of convert_result() have in common.
LEMMA ConvertKeepsInv ==
  ASSUME Inv, queue # <<>>, queue' # <<>>, result # <<>>, loc' = "Loop",
         outcome' \in {"", "emitted", "undefined"}, StationLoop', WaypointLoop',
         UNCHANGED <<model, sampling, now, value, trace, visited, trips, result>>
  PROVE  Inv'
<1>1. Phases'
  BY ConvertPhases DEF Inv
<1>2. loc # "Start"
  BY DEF Inv, Phases
<1>3. /\ Typed' /\ Sampled'
      /\ model = "station" /\ StationInv => StationInv'
      /\ model = "waypoint" /\ WaypointInv => WaypointInv'
  BY <1>2, ReadingKeeps DEF Inv
<1> QED
  BY <1>1, <1>3 DEF Inv

\* preparing the queues
LEMMA PrepareKeepsInv ==
  ASSUME Inv, Prepare
  PROVE  Inv'
<1>1. model \in {"station", "waypoint"}
  BY DEF Inv, Typed
<1>2. CASE model = "station"
  <2>1. /\ StationLoop' /\ queue # <<>> /\ queue' # <<>> /\ loc' = "Loop" /\ outcome' = "" /\ result # <<>>
        /\ UNCHANGED <<model, sampling, now, value, trace, visited, trips, result>>
    BY <1>2, StationPrepares DEF Inv
  <2>2. WaypointLoop'
    BY <1>2, <2>1 DEF WaypointLoop
  <2> QED
    BY <2>1, <2>2, ConvertKeepsInv
<1>3. CASE model = "waypoint"
  <2>1. /\ WaypointLoop' /\ queue # <<>> /\ queue' # <<>> /\ loc' = "Loop" /\ outcome' = "" /\ result # <<>>
        /\ UNCHANGED <<model, sampling, now, value, trace, visited, trips, result>>
    BY <1>3, WaypointPrepares DEF Inv
  <2>2. StationLoop'
    BY <1>3, <2>1 DEF StationLoop
  <2> QED
    BY <2>1, <2>2, ConvertKeepsInv
<1> QED
  BY <1>1, <1>2, <1>3

\* and the loops keep the invariant.
LEMMA LoopsKeepInv ==
  ASSUME Inv, ConvertWaypoints \/ ConvertStations
  PROVE  Inv'
<1>1. CASE ConvertStations
  <2>1. model = "station"
    BY <1>1 DEF ConvertStations
  <2>2. /\ StationLoop' /\ queue # <<>> /\ queue' # <<>> /\ loc' = "Loop" /\ outcome' \in {"", "emitted"}
        /\ result # <<>>
        /\ UNCHANGED <<model, sampling, now, value, trace, visited, trips, result>>
    BY <1>1, <2>1, StationConverts DEF Inv
  <2>3. WaypointLoop'
    BY <2>1, <2>2 DEF WaypointLoop
  <2> QED
    BY <2>2, <2>3, ConvertKeepsInv
<1>2. CASE ConvertWaypoints
  <2>1. model = "waypoint"
    BY <1>2, Zenon DEF ConvertWaypoints
  <2>2. /\ WaypointLoop' /\ queue # <<>> /\ queue' # <<>> /\ loc' = "Loop"
        /\ outcome' \in {"", "emitted", "undefined"} /\ result # <<>>
        /\ UNCHANGED <<model, sampling, now, value, trace, visited, trips, result>>
    BY <1>2, <2>1, WaypointConverts DEF Inv
  <2>3. StationLoop'
    BY <2>1, <2>2 DEF StationLoop
  <2> QED
    BY <2>2, <2>3, ConvertKeepsInv
<1> QED
  BY <1>1, <1>2

\* The first samples.
LEMMA InitTyped ==
  ASSUME Init
  PROVE  /\ Typed
         /\ model = "station" => trace[Dest] = <<[time |-> 0, value |-> convert_to_waypoint_id[1]]>>
                                 /\ [time |-> 0, value |-> convert_to_waypoint_id[1]] \in Sample
         /\ model = "waypoint" => /\ trace[Cur] = <<[time |-> 0, value |-> next_waypoint]>>
                                  /\ [time |-> 0, value |-> next_waypoint] \in Sample
                                  /\ trace[Dest] = <<[time |-> 0, value |-> 0]>>
<1>1. /\ model \in {"waypoint", "station"} /\ sampling \in {"changes", "end", "delays"} /\ now = 0
      /\ value = InitialValues(model) /\ trace = [v \in DOMAIN value |-> <<[time |-> 0, value |-> value[v]]>>]
  BY Zenon DEF Init
<1>2. Bound \in Nat /\ next_waypoint \in Nat /\ 1 \in Stations /\ next_station \in Stations
      /\ convert_to_waypoint_id \in [Stations -> Nat]
  BY SchedulesAssumption, StationConstants, WaypointConstants
<1>3. convert_to_waypoint_id[1] \in Nat /\ convert_to_waypoint_id[next_station] \in Nat
  BY <1>2
<1>4. value = [v \in Vars |->
                 CASE v = "Robot.cur_waypoint"     -> next_waypoint
                   [] v = "Robot.converted_cur()"  -> convert_to_waypoint_id[next_station]
                   [] v = "Robot.converted_dest()" -> convert_to_waypoint_id[1]
                   [] OTHER                        -> 0]
  BY <1>1, Zenon DEF InitialValues, Vars
<1>5. ASSUME NEW v \in Vars PROVE value[v] \in Int
  BY <1>2, <1>3, <1>4
<1>6. value \in [Vars -> Int] /\ DOMAIN value = Vars
  BY <1>4, <1>5
<1>7. ASSUME NEW v \in Vars
      PROVE  /\ trace[v] = <<[time |-> 0, value |-> value[v]]>> /\ trace[v] \in Seq(Sample)
             /\ [time |-> 0, value |-> value[v]] \in Sample
             /\ Timed(trace[v], 0) /\ Last(trace[v]).value = value[v]
  <2> DEFINE x == value[v]
             s == [time |-> 0, value |-> x]
  <2>1. x \in Int /\ trace[v] = <<s>>
    BY <1>1, <1>5, <1>6, <1>7
  <2> HIDE DEF x
  <2>2. s \in Sample /\ s.time = 0 /\ s.value = x
    BY <1>2, <2>1 DEF Sample
  <2> HIDE DEF s
  <2>3. <<s>> \in Seq(Sample) /\ Len(<<s>>) = 1 /\ <<s>>[1] = s /\ <<s>> # <<>>
    BY <2>2
  <2>4. Last(<<s>>) = s
    BY <2>3 DEF Last
  <2>5. Timed(<<s>>, 0)
    BY <2>2, <2>3, <2>4 DEF Timed
  <2> QED
    BY <2>1, <2>2, <2>3, <2>4, <2>5 DEF s, x
<1>8. trace \in [Vars -> Seq(Sample)]
  <2>1. trace = [v \in Vars |-> <<[time |-> 0, value |-> value[v]]>>]
    BY <1>1, <1>6
  <2>2. \A v \in Vars : trace[v] \in Seq(Sample)
    BY <1>7
  <2>3. DOMAIN trace = Vars /\ trace = [v \in Vars |-> trace[v]]
    BY <2>1
  <2> QED
    BY <2>2, <2>3
<1>9. Typed
  BY <1>1, <1>2, <1>6, <1>7, <1>8 DEF Typed
<1>10. CASE model = "station"
  <2>1. Dest = "Robot.converted_dest()" /\ Dest \in Vars
    BY <1>10, VariablesOfModel
  <2>2. value[Dest] = convert_to_waypoint_id[1]
    BY <1>4, <2>1
  <2> QED
    BY <1>7, <1>9, <1>10, <2>1, <2>2
<1>11. CASE model = "waypoint"
  <2>1. Cur = "Robot.cur_waypoint" /\ Dest = "Robot.dest_waypoint" /\ Cur \in Vars /\ Dest \in Vars
    BY <1>11, VariablesOfModel
  <2>2. value[Cur] = next_waypoint /\ value[Dest] = 0
    BY <1>4, <2>1
  <2> QED
    BY <1>7, <1>9, <1>11, <2>1, <2>2
<1> QED
  BY <1>1, <1>9, <1>10, <1>11

\* The invariant holds at the start.
LEMMA InitInv ==
  ASSUME Init
  PROVE  Inv
<1>1. /\ model \in {"waypoint", "station"} /\ loc = "Start" /\ now = 0 /\ visited \subseteq Stations
      /\ trips = <<>> /\ result = <<>> /\ queue = <<>> /\ schedule = <<>> /\ outcome = ""
  BY DEF Init
<1>2. Typed
  BY InitTyped
<1>3. Sampled /\ Phases /\ StationLoop /\ WaypointLoop
  BY <1>1 DEF Sampled, Phases, StationLoop, WaypointLoop
<1>4. ASSUME model = "station" PROVE StationInv
  <2> DEFINE x == convert_to_waypoint_id[1]
             s == [time |-> 0, value |-> x]
  <2>1. trace[Dest] = <<s>> /\ s \in Sample
    BY <1>4, InitTyped
  <2>2. s.value = x
    OBVIOUS
  <2>3. StationsTold = <<x>>
    <3>1. StationsTold = <<x>> \o [i \in DOMAIN trips |-> convert_to_waypoint_id[trips[i].id]]
      BY <1>1 DEF StationsTold
    <3>2. DOMAIN trips = {}
      <4>1. DOMAIN <<>> = {}
        OBVIOUS
      <4> QED
        BY <1>1, <4>1, Zenon
    <3>3. [i \in DOMAIN trips |-> convert_to_waypoint_id[trips[i].id]] = <<>>
      BY <3>2
    <3>4. <<x>> \o <<>> = <<x>>
      OBVIOUS
    <3> QED
      BY <3>1, <3>3, <3>4, Zenon
  <2>4. Tells(trace[Dest], StationsTold)
    <3>1. Tells(<<s>>, <<s.value>>)
      BY <2>1, TellsFirst, Zenon
    <3> QED
      BY <2>1, <2>2, <2>3, <3>1, Zenon
  <2>5. trips \in Seq(StationTrip) /\ Len(trips) = 0
    <3>1. <<>> \in Seq(StationTrip) /\ Len(<<>>) = 0
      OBVIOUS
    <3> QED
      BY <1>1, <3>1, Zenon
  <2>6. loc = "Start" /\ trips = <<>> /\ now = 0 /\ visited \subseteq Stations
    BY <1>1
  <2>7. 1 .. Len(trips) = {} /\ 1 .. Len(trips) - 1 = {}
    BY <2>5
  <2> HIDE DEF s, x
  <2> QED
    BY <2>6, <2>7, <2>4, <2>5 DEF StationInv
<1>5. ASSUME model = "waypoint" PROVE WaypointInv
  <2> DEFINE x == next_waypoint
             s == [time |-> 0, value |-> x]
  <2>1. trace[Cur] = <<s>> /\ s \in Sample /\ trace[Dest] = <<[time |-> 0, value |-> 0]>>
    BY <1>5, InitTyped
  <2>2. s.value = x
    OBVIOUS
  <2>3. Reached = <<>>
    BY <1>1 DEF Reached
  <2>4. trips \in Seq(WaypointTrip) /\ Len(trips) = 0
    <3>1. <<>> \in Seq(WaypointTrip) /\ Len(<<>>) = 0
      OBVIOUS
    <3> QED
      BY <1>1, <3>1, Zenon
  <2>5. Stops(trips) \in Seq(Int) /\ Len(Stops(trips)) = 1 /\ Stops(trips)[1] = x
    <3>1. TripsTold(trips)
      BY <2>4, IdsFacts, Zenon
    <3> QED
      BY <2>4, <3>1 DEF TripsTold
  <2>6. Stops(Reached) = <<x>>
    <3>1. Stops(Reached) = Stops(trips)
      BY <1>1, <2>3
    <3> QED
      BY <2>5, <3>1
  <2>7. Tells(trace[Cur], Stops(Reached))
    <3>1. Tells(<<s>>, <<s.value>>)
      BY <2>1, TellsFirst, Zenon
    <3> QED
      BY <2>1, <2>2, <2>6, <3>1, Zenon
  <2>8. Distinct(Stops(trips))
    BY <2>5 DEF Distinct
  <2>9. loc = "Start" /\ trips = <<>> /\ now = 0 /\ visited \subseteq Stations
    BY <1>1
  <2>10. 1 .. Len(trips) = {} /\ 1 .. Len(trips) - 1 = {}
    BY <2>4
  <2> HIDE DEF s, x
  <2> QED
    BY <2>9, <2>10, <2>1, <2>4, <2>7, <2>8 DEF WaypointInv
<1> QED
  BY <1>1, <1>2, <1>3, <1>4, <1>5 DEF Inv

\* It holds where nothing changes.
LEMMA StutterKeepsInv ==
  ASSUME Inv, UNCHANGED vars
  PROVE  Inv'
<1>1. UNCHANGED <<model, sampling, loc, now, value, trace, visited, trips, result, queue, schedule, outcome>>
  BY DEF vars
<1>2. /\ Vars' = Vars /\ Cur' = Cur /\ Dest' = Dest /\ Looked' = Looked /\ Waypoints' = Waypoints
      /\ (\A v : Readable(v)' <=> Readable(v)) /\ Answers(trace)' = Answers(trace)
  BY <1>1, SameReading DEF Cur, Dest, Variables, Waypoints
<1>3. Reached' = Reached /\ StationsTold' = StationsTold
  BY <1>1 DEF Reached, StationsTold
<1>4. Typed' /\ Sampled'
  BY <1>1, <1>2 DEF Inv, Typed, Sampled, TwoAtEnd, Timed
<1>5. Phases'
  BY <1>1, <1>2 DEF Inv, Phases
<1>6. ASSUME StationInv PROVE StationInv'
  BY <1>1, <1>2, <1>3, <1>6 DEF StationInv, is_endstation
<1>7. ASSUME WaypointInv PROVE WaypointInv'
  BY <1>1, <1>2, <1>3, <1>7 DEF WaypointInv, Stops, Targets
<1>8. StationLoop'
  BY <1>1, <1>2, <1>3 DEF Inv, StationLoop, StationAt, Telling
<1>9. WaypointLoop'
  <2>1. /\ trace'[Dest'] = trace[Dest] /\ trace'[Cur'] = trace[Cur]
        /\ Targets(trips)' = Targets(trips) /\ Stops(Reached)' = Stops(Reached) /\ Ids(Reached)' = Ids(Reached)
    BY <1>1, ConvertKeepsWaypoints
  <2>2. Values(Waypoints)' = Values(Waypoints)
    BY <1>2 DEF Values
  <2>3. ASSUME Somewhere PROVE Somewhere'
    <3>1. PICK i \in 1 .. Len(trace[Dest]), c \in 1 .. Len(trace[Cur]),
              r \in [1 .. Len(trace[Dest]) -> 1 .. Len(Targets(trips))],
              s \in [1 .. Len(trace[Cur]) -> 1 .. Len(Stops(Reached))] : WaypointAt(i, r, c, s)
      BY <2>3 DEF Somewhere
    <3>2. queue' = queue
      BY <1>1
    <3>3. WaypointAt(i, r, c, s)'
      BY <2>1, <2>2, <3>1, <3>2 DEF WaypointAt, Telling
    <3> QED
      BY <2>1, <3>3 DEF Somewhere
  <2> QED
    BY <1>1, <1>3, <2>2, <2>1, <2>3 DEF Inv, WaypointLoop
<1> QED
  BY <1>1, <1>4, <1>5, <1>6, <1>7, <1>8, <1>9 DEF Inv

\* Every step keeps the invariant.
LEMMA InvKept ==
  ASSUME Inv, [Next]_vars
  PROVE  Inv'
<1>1. \/ StationMove \/ WaypointMove
      \/ Answer \/ Parse \/ Prepare \/ ConvertWaypoints \/ ConvertStations \/ UNCHANGED vars
  BY Zenon DEF Next, StationMove, WaypointMove
<1> QED
  BY <1>1, MovesKeepInv, AnswerKeepsInv, ParseKeepsInv, PrepareKeepsInv, LoopsKeepInv, StutterKeepsInv

\* It always holds.
LEMMA InvAlways == Spec => []Inv
<1>1. Init => Inv
  BY InitInv
<1>2. Inv /\ [Next]_vars => Inv'
  BY InvKept
<1> QED
  BY <1>1, <1>2, PTL DEF Spec

\* Where an answer with an outcome is.
LEMMA Outcomes ==
  ASSUME Inv
  PROVE  /\ outcome \in {"emitted", "undefined"} => result # <<>> /\ queue # <<>> /\ loc = "Loop"
         /\ schedule = <<>> \/ loc = "Loop"
<1> QED
  BY DEF Inv, Phases

\* The types follow from the invariant,
LEMMA TypesRead ==
  ASSUME Inv
  PROVE  TypeOK
<1>1. Bound \in Nat
  BY SchedulesAssumption
<1>2. now \in 0 .. Bound /\ DOMAIN trace = Vars /\ outcome \in {"", "emitted", "exception", "undefined"}
  BY DEF Inv, Typed, Phases
<1>3. ASSUME NEW v \in DOMAIN trace, NEW i \in DOMAIN trace[v]
      PROVE  trace[v][i].time \in 0 .. Bound /\ (i > 1 => trace[v][i - 1].time <= trace[v][i].time)
  <2> DEFINE tr == trace[v]
  <2>1. tr \in Seq(Sample) /\ Timed(tr, now)
    BY <1>2 DEF Inv, Typed
  <2> HIDE DEF tr
  <2>2. i \in 1 .. Len(tr)
    BY <2>1 DEF tr
  <2>3. tr[i] \in Sample
    BY <2>1, <2>2
  <2>4. i > 1 => i \in 2 .. Len(tr)
    BY <2>1, <2>2
  <2> QED
    BY <2>1, <2>3, <2>4 DEF tr, Timed, Sample
<1>4. ASSUME model = "waypoint", NEW i \in DOMAIN schedule
      PROVE  schedule[i] \in [type : {"Waypoint"}, value : Nat] \cup [type : {"Hold"}, value : Nat \ {0}]
  <2>1. CASE schedule = <<>>
    <3>1. DOMAIN <<>> = {}
      OBVIOUS
    <3> QED
      BY <1>4, <2>1, <3>1, Zenon
  <2>2. CASE loc = "Loop"
    <3>1. schedule \in Seq(Actions)
      BY <1>4, <2>2 DEF Inv, WaypointLoop
    <3>2. schedule[i] \in Actions
      BY <1>4, <3>1
    <3> QED
      BY <3>2 DEF Actions
  <2> QED
    BY <2>1, <2>2, Outcomes
<1> QED
  BY <1>2, <1>3, <1>4 DEF TypeOK, Inv

\* and what the parser reads,
LEMMA PrintIsParsed ==
  ASSUME Inv
  PROVE  ParsesWhatWasPrinted
<1> SUFFICES ASSUME result # <<>> PROVE ParsesWhatWasPrinted
  BY DEF ParsesWhatWasPrinted
<1>1. Typed /\ result \in Answers(trace) /\ DOMAIN trace = Vars
  BY DEF Inv, Typed, Phases
<1>2. ASSUME \A v \in DOMAIN trace : Readable(v)
      PROVE  parse(result, 2) = [i \in {1, 3, 5} |-> LET v == Variables(model)[(i + 1) \div 2]
                                                      IN  [name |-> v, runs |-> <<trace[v]>>]]
  BY <1>1, <1>2, ParsedAsPrinted, Zenon
<1>3. outcome \in {"emitted", "undefined"} => \A v \in Looked : Readable(v)
  BY Outcomes DEF Inv, Phases
<1>4. outcome = "exception" => \E v \in Looked : ~Readable(v)
  BY DEF Inv, Phases
<1> QED
  BY <1>2, <1>3, <1>4, Zenon DEF ParsesWhatWasPrinted

\* and the route.
LEMMA RouteIsSound ==
  ASSUME Inv
  PROVE  RouteSound
<1>1. ASSUME model = "waypoint", outcome \in {"emitted", "undefined"}
      PROVE  /\ Visits = Reached
             /\ outcome = "emitted" => /\ [i \in DOMAIN Waypoints |-> Waypoints[i].value] = Ids(Visits)
                                       /\ Len(Visits) < Len(trips) => sampling = "changes"
             /\ outcome = "undefined" => Len(Visits) < Len(trips)
  <2>1. loc = "Loop"
    BY <1>1, Outcomes
  <2>2. Visits = Reached
    BY <1>1, VisitsReached DEF Inv
  <2>3. /\ outcome = "emitted" => /\ Values(Waypoints) = Ids(Reached)
                                  /\ Len(Reached) < Len(trips) => sampling = "changes"
        /\ outcome = "undefined" => Len(Reached) < Len(trips)
    BY <1>1, <2>1 DEF Inv, WaypointLoop
  <2>4. Values(Waypoints) = [i \in DOMAIN Waypoints |-> Waypoints[i].value]
    BY Zenon DEF Values
  <2> QED
    BY <2>2, <2>3, <2>4
<1>2. outcome = "undefined" => model = "waypoint"
  <2>1. model \in {"station", "waypoint"}
    BY DEF Inv, Typed
  <2> QED
    BY <2>1, Outcomes DEF Inv, StationLoop
<1>3. ScheduleIsTheRoute
  BY <1>1 DEF ScheduleIsTheRoute
<1>4. UndefinedOnlyWhenCut
  BY <1>1, <1>2 DEF UndefinedOnlyWhenCut
<1> QED
  BY <1>3, <1>4 DEF RouteSound

\* The simulation keeps its types whatever UPPAAL repeats, and the parser
\* gives back what was printed; a schedule is made from the samples of the variables that
\* convert_result() asks for, and an exception means that one of them is not readable.
THEOREM AnswersAreRead == Spec => []AnswerRead
<1>1. Inv => AnswerRead
  BY TypesRead, PrintIsParsed DEF AnswerRead
<1> QED
  BY <1>1, InvAlways, PTL

\* A waypoint schedule lists the waypoints the simulated robot reached, in their order, and
\* the queue runs empty under the loop only for a robot that was cut off on a road.
THEOREM RoutesAreSound == Spec => []RouteSound
<1>1. Inv => RouteSound
  BY RouteIsSound
<1> QED
  BY <1>1, InvAlways, PTL

\* A station schedule lists the stations the simulated robot chose, but for the robot that
\* is left with nothing but end station 1.
THEOREM StationsAreChosen == Spec => []StationsAsChosen
<1>1. Inv => StationsAsChosen
  BY ChosenStations DEF Inv
<1> QED
  BY <1>1, InvAlways, PTL

=============================================================================
