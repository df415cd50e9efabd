------------------------- MODULE WorldConfigProofs -------------------------
(***************************************************************************)
(* Proofs about the way from a world file to what UPPAAL is told: the      *)
(* station numbering and the truncated distances of ConfigWrapper, the     *)
(* parser, and Floyd-Warshall, for worlds of every size.                   *)
(*                                                                         *)
(* Floyd-Warshall: routes without repetition are walks with the way to     *)
(* each of their places.  Walks can be cut (WalkPart), split at a waypoint *)
(* (RouteSplit) and joined (RouteJoin, which takes the first place the two *)
(* have in common).  The invariant of the loops (Paths) says of each pair  *)
(* that its distance is that of a walk that starts along next (Witnessed), *)
(* and that no walk over the waypoints of its round undercuts it (Bounded).*)
(*                                                                         *)
(* The configuration: its lists are those of the map in every stage        *)
(* (ConfigInv), in an ascending order without repetition (InOrderFacts),   *)
(* from which the numbering of stations, their rows in the matrix, and the *)
(* plans of other robots follow.                                           *)
(*                                                                         *)
(* The parser: at each position of a complete file the map holds the       *)
(* waypoints before it, and the waypoint that is being read the fields     *)
(* before it (ReadInv).                                                    *)
(***************************************************************************)
EXTENDS WorldConfig, FiniteSetTheorems, SequenceTheorems, TLAPS

\* A set of natural numbers that is not empty has a least element.
LEMMA LeastNatural ==
  ASSUME NEW T \in SUBSET Nat, T # {}
  PROVE  \E n \in T : \A m \in T : n <= m
<1>1. PICK n \in T : \A m \in T : ~(<<m, n>> \in OpToRel(<, Nat))
  BY NatLessThanWellFounded, WFMin
<1>2. \A m \in T : (m < n) => <<m, n>> \in OpToRel(<, Nat)
  BY DEF OpToRel
<1>3. \A m \in T : ~(m < n)
  BY <1>1, <1>2, Zenon
<1> QED
  BY <1>3

\* Min() of such a set is that element.
LEMMA MinNatural ==
  ASSUME NEW T \in SUBSET Nat, T # {}
  PROVE  Min(T) \in T /\ \A m \in T : Min(T) <= m
BY LeastNatural DEF Min

\* The elements of a finite set of integers, numbered by how many are not greater.
LEMMA RanksOfSet ==
  ASSUME NEW P \in SUBSET Int, IsFiniteSet(P)
  PROVE  /\ Cardinality(P) \in Nat
         /\ \A i \in P : Cardinality({j \in P : j <= i}) \in 1 .. Cardinality(P)
         /\ \A i, j \in P : i < j => Cardinality({h \in P : h <= i}) < Cardinality({h \in P : h <= j})
         /\ \A k \in 1 .. Cardinality(P) : \E i \in P : Cardinality({j \in P : j <= i}) = k
<1> DEFINE n == Cardinality(P)
           Upto(i) == {j \in P : j <= i}
<1>1. n \in Nat
  BY FS_CardinalityType
<1>2. \A i \in P : IsFiniteSet(Upto(i)) /\ Cardinality(Upto(i)) \in Nat /\ Cardinality(Upto(i)) <= n
  <2> SUFFICES ASSUME NEW i \in P
               PROVE  /\ IsFiniteSet(Upto(i)) /\ Cardinality(Upto(i)) \in Nat
                      /\ Cardinality(Upto(i)) <= n
    OBVIOUS
  <2>1. Upto(i) \in SUBSET P
    OBVIOUS
  <2>2. IsFiniteSet(Upto(i)) /\ Cardinality(Upto(i)) <= Cardinality(P)
    BY <2>1, FS_Subset
  <2> QED
    BY <2>2, FS_CardinalityType
<1>3. \A i \in P : Cardinality(Upto(i)) \in 1 .. n
  <2> SUFFICES ASSUME NEW i \in P PROVE Cardinality(Upto(i)) \in 1 .. n
    OBVIOUS
  <2>1. i \in Upto(i)
    OBVIOUS
  <2>2. Cardinality(Upto(i)) # 0
    BY <1>2, <2>1, FS_EmptySet
  <2>3. Cardinality(Upto(i)) \in Nat /\ Cardinality(Upto(i)) <= n
    BY <1>2, Zenon
  <2> QED
    BY <1>1, <2>2, <2>3
<1>4. ASSUME NEW i \in P, NEW j \in P, i < j PROVE Cardinality(Upto(i)) < Cardinality(Upto(j))
  <2>1. i \in Int /\ j \in Int /\ \A h \in P : h \in Int
    OBVIOUS
  <2>2. j \in Upto(j) /\ j \notin Upto(i)
    BY <1>4, <2>1
  <2>3. ASSUME NEW h \in Upto(i) PROVE h \in Upto(j)
    BY <1>4, <2>1
  <2>4. Upto(i) \in SUBSET Upto(j) /\ j \in Upto(j) /\ j \notin Upto(i)
    BY <2>2, <2>3, Zenon
  <2>5. Cardinality(Upto(i)) <= Cardinality(Upto(j)) /\ Cardinality(Upto(i)) # Cardinality(Upto(j))
    BY <1>2, <2>4, FS_Subset
  <2>6. Cardinality(Upto(i)) \in Nat /\ Cardinality(Upto(j)) \in Nat
    BY <1>2, Zenon
  <2> QED
    BY <2>5, <2>6
<1>5. \A i, j \in P : Cardinality(Upto(i)) = Cardinality(Upto(j)) => i = j
  <2> SUFFICES ASSUME NEW i \in P, NEW j \in P, i < j
               PROVE  Cardinality(Upto(i)) # Cardinality(Upto(j))
    OBVIOUS
  <2>1. Cardinality(Upto(i)) \in Nat /\ Cardinality(Upto(j)) \in Nat
    BY <1>2, Zenon
  <2> QED
    BY <1>4, <2>1
<1>6. \A k \in 1 .. n : \E i \in P : Cardinality(Upto(i)) = k
  <2> DEFINE f == [i \in P |-> Cardinality(Upto(i))]
  <2>1. f \in Injection(P, 1 .. n)
    BY <1>3, <1>5, Zenon DEF Injection, IsInjective
  <2>2. IsFiniteSet(1 .. n) /\ Cardinality(1 .. n) = n
    BY <1>1, FS_Interval
  <2>3. f \in Surjection(P, 1 .. n)
    BY <2>1, <2>2, FS_Injection
  <2> QED
    BY <2>3 DEF Surjection
<1> QED
  BY <1>1, <1>3, <1>4, <1>6

(* What load_webots_to_config() writes: sequences of ids, without          *)
(* repetition and disjoint, because each waypoint has one type.            *)
Numbered(sc) ==
  /\ Has(sc, {"stations", "end_stations"})
  /\ sc.stations \in Seq(Int)
  /\ sc.end_stations \in Seq(Int)
  /\ \A p, q \in DOMAIN sc.stations : sc.stations[p] = sc.stations[q] => p = q
  /\ \A p, q \in DOMAIN sc.end_stations : sc.end_stations[p] = sc.end_stations[q] => p = q
  /\ \A p \in DOMAIN sc.stations, q \in DOMAIN sc.end_stations :
       sc.stations[p] # sc.end_stations[q]

(* Concatenation, as vector::insert at the end does it.                    *)
LEMMA Concat ==
  ASSUME NEW E \in Seq(Int), NEW S \in Seq(Int)
  PROVE  /\ E \o S \in Seq(Int)
         /\ Len(E) \in Nat /\ Len(S) \in Nat
         /\ DOMAIN E = 1 .. Len(E) /\ DOMAIN S = 1 .. Len(S)
         /\ Len(E \o S) = Len(E) + Len(S)
         /\ \A s \in 1 .. (Len(E) + Len(S)) :
              (E \o S)[s] = IF s <= Len(E) THEN E[s] ELSE S[s - Len(E)]
  OBVIOUS

(* The combined vector has one place for each station, end stations first. *)
LEMMA CombinedStations ==
  ASSUME NEW sc, Numbered(sc)
  PROVE  /\ combined_stations(sc) \in Seq(Int)
         /\ Len(combined_stations(sc)) = number_of_stations(sc)
         /\ number_of_stations(sc) \in Nat
         /\ number_of_end_stations(sc) \in 0 .. number_of_stations(sc)
         /\ \A s \in 1 .. number_of_stations(sc) :
              combined_stations(sc)[s] =
                IF s <= number_of_end_stations(sc) THEN sc.end_stations[s]
                ELSE sc.stations[s - number_of_end_stations(sc)]
<1> DEFINE E == sc.end_stations   S == sc.stations
<1>1. E \in Seq(Int) /\ S \in Seq(Int)
  BY DEF Numbered
<1>2. number_of_end_stations(sc) = Len(E) /\ number_of_stations(sc) = Len(S) + Len(E)
  BY DEF Numbered, number_of_stations, number_of_end_stations, Has
<1>3. /\ E \o S \in Seq(Int)
      /\ Len(E \o S) = Len(E) + Len(S)
      /\ \A s \in 1 .. (Len(E) + Len(S)) :
           (E \o S)[s] = IF s <= Len(E) THEN E[s] ELSE S[s - Len(E)]
  BY <1>1, Concat
<1>4. combined_stations(sc) = E \o S
  BY DEF combined_stations
<1>5. Len(E) \in Nat /\ Len(S) \in Nat
  BY <1>1, Concat
<1> HIDE DEF E, S
<1>6. /\ number_of_stations(sc) \in Nat
      /\ number_of_end_stations(sc) \in 0 .. number_of_stations(sc)
      /\ number_of_stations(sc) = Len(E) + Len(S)
  BY <1>2, <1>5
<1> QED BY <1>2, <1>3, <1>4, <1>6 DEF E, S

(* The domains of the two vectors, in terms of the numbers UPPAAL sees.    *)
LEMMA Sizes ==
  ASSUME NEW sc, Numbered(sc)
  PROVE  /\ number_of_end_stations(sc) \in Nat /\ number_of_stations(sc) \in Nat
         /\ DOMAIN sc.end_stations = 1 .. number_of_end_stations(sc)
         /\ DOMAIN sc.stations = 1 .. (number_of_stations(sc) - number_of_end_stations(sc))
<1> DEFINE e == number_of_end_stations(sc)   n == number_of_stations(sc)
           E == Len(sc.end_stations)         S == Len(sc.stations)
<1>1. e = E /\ n = S + E
  BY DEF Numbered, number_of_stations, number_of_end_stations, Has
<1>2. DOMAIN sc.end_stations = 1 .. E /\ E \in Nat /\ DOMAIN sc.stations = 1 .. S /\ S \in Nat
  BY Concat DEF Numbered
<1> HIDE DEF e, n, E, S
<1>3. e \in Nat /\ n \in Nat /\ n - e = S
  BY <1>1, <1>2
<1> QED BY <1>1, <1>2, <1>3 DEF e, n

(* No waypoint has two station numbers.                                    *)
LEMMA CombinedInjective ==
  ASSUME NEW sc, Numbered(sc),
         NEW s \in 1 .. number_of_stations(sc), NEW t \in 1 .. number_of_stations(sc),
         combined_stations(sc)[s] = combined_stations(sc)[t]
  PROVE  s = t
<1> DEFINE e == number_of_end_stations(sc)   n == number_of_stations(sc)
<1>1. /\ DOMAIN sc.end_stations = 1 .. e
      /\ DOMAIN sc.stations = 1 .. (n - e)
      /\ e \in Nat /\ n \in Nat
  BY Sizes
<1>2. \A r \in 1 .. n : combined_stations(sc)[r] =
                          IF r <= e THEN sc.end_stations[r] ELSE sc.stations[r - e]
  BY CombinedStations
<1>3. CASE s <= e /\ t <= e
  <2>1. s \in DOMAIN sc.end_stations /\ t \in DOMAIN sc.end_stations
    BY <1>1, <1>3
  <2>2. sc.end_stations[s] = sc.end_stations[t]
    BY <1>1, <1>2, <1>3
  <2> QED BY <2>1, <2>2 DEF Numbered
<1>4. CASE s > e /\ t > e
  <2>1. s - e \in DOMAIN sc.stations /\ t - e \in DOMAIN sc.stations
    BY <1>1, <1>4
  <2>2. sc.stations[s - e] = sc.stations[t - e]
    BY <1>1, <1>2, <1>4
  <2>3. s - e = t - e
    BY <2>1, <2>2 DEF Numbered
  <2> QED BY <2>3, <1>1
<1>5. CASE s <= e /\ t > e
  <2>1. t - e \in DOMAIN sc.stations /\ s \in DOMAIN sc.end_stations
    BY <1>1, <1>5
  <2> QED BY <2>1, <1>1, <1>2, <1>5 DEF Numbered
<1>6. CASE s > e /\ t <= e
  <2>1. s - e \in DOMAIN sc.stations /\ t \in DOMAIN sc.end_stations
    BY <1>1, <1>6
  <2> QED BY <2>1, <1>1, <1>2, <1>6 DEF Numbered
<1> QED BY <1>1, <1>3, <1>4, <1>5, <1>6

(* Converting a station number to a waypoint and back gives the number,    *)
(* and the numbers up to number_of_end_stations() are the end stations:    *)
(* convert_to_waypoint_id() and next_station() of config_wrapper.cpp, and  *)
(* is_endstation() of the UPPAAL model, agree for every configuration.     *)
THEOREM NumberRoundTrip ==
  ASSUME NEW sc, Numbered(sc), NEW s \in 1 .. number_of_stations(sc)
  PROVE  /\ next_station(sc, [next_station |-> convert_to_waypoint_id(sc, s)]) = s
         /\ s <= number_of_end_stations(sc) <=>
              \E p \in DOMAIN sc.end_stations : sc.end_stations[p] = convert_to_waypoint_id(sc, s)
<1> DEFINE cs == combined_stations(sc)   n == number_of_stations(sc)   e == number_of_end_stations(sc)
<1>1. /\ cs \in Seq(Int) /\ Len(cs) = n /\ n \in Nat /\ e \in 0 .. n
      /\ \A r \in 1 .. n : cs[r] = IF r <= e THEN sc.end_stations[r] ELSE sc.stations[r - e]
  BY CombinedStations
<1>2. DOMAIN cs = 1 .. n
  BY <1>1
<1>3. convert_to_waypoint_id(sc, s) = cs[s]
  BY <1>2 DEF convert_to_waypoint_id, Numbered
<1>4. PositionIn(cs, cs[s]) = s
  <2>1. s \in DOMAIN cs /\ cs[s] = cs[s] /\ \A q \in 1 .. (s - 1) : cs[q] # cs[s]
    BY <1>1, <1>2, CombinedInjective
  <2>2. \A p \in DOMAIN cs : cs[p] = cs[s] => p = s
    BY <1>2, CombinedInjective
  <2> QED BY <2>1, <2>2 DEF PositionIn
<1>5. next_station(sc, [next_station |-> cs[s]]) = s
  BY <1>4 DEF next_station, Has, Numbered
<1>6. DOMAIN sc.end_stations = 1 .. e /\ DOMAIN sc.stations = 1 .. (n - e)
  BY Sizes
<1>7. ASSUME s <= e
      PROVE  \E p \in DOMAIN sc.end_stations : sc.end_stations[p] = cs[s]
  BY <1>1, <1>6, <1>7
<1>8. ASSUME s > e, NEW p \in DOMAIN sc.end_stations
      PROVE  sc.end_stations[p] # cs[s]
  <2>1. s - e \in DOMAIN sc.stations /\ cs[s] = sc.stations[s - e]
    BY <1>1, <1>6, <1>8
  <2> QED BY <2>1, <1>8 DEF Numbered
<1> QED BY <1>1, <1>3, <1>5, <1>7, <1>8

(* Truncation, the conversion of Json::Value::asInt().                     *)
LEMMA WholePart ==
  ASSUME NEW d \in Nat
  PROVE  /\ AsInt(d) \in Nat
         /\ AsInt(d) * Unit <= d
         /\ d < (AsInt(d) + 1) * Unit
  BY UnitAssumption DEF AsInt

\* Two truncated distances never exceed the truncated sum.
LEMMA TruncationAdds ==
  ASSUME NEW a \in Nat, NEW b \in Nat
  PROVE  AsInt(a) + AsInt(b) <= AsInt(a + b)
<1> DEFINE x == AsInt(a)   y == AsInt(b)   z == AsInt(a + b)
<1>1. /\ x \in Nat /\ y \in Nat /\ z \in Nat
      /\ x * Unit <= a /\ y * Unit <= b /\ a + b < (z + 1) * Unit
  BY WholePart
<1> HIDE DEF x, y, z
<1>2. (x + y) * Unit < (z + 1) * Unit
  BY <1>1, UnitAssumption
<1>3. x + y < z + 1
  BY <1>1, <1>2, UnitAssumption
<1> QED BY <1>1, <1>3 DEF x, y, z

-----------------------------------------------------------------------------
(* Induction from a to n, on a set.                                          *)
LEMMA Induction ==
  ASSUME NEW a \in Nat, NEW n \in Nat, NEW S, a \in S,
         \A k \in a + 1 .. n : k - 1 \in S => k \in S
  PROVE  \A k \in a .. n : k \in S
<1> DEFINE T == {k \in Nat : k \in a .. n /\ k \notin S}
<1> SUFFICES ASSUME T # {} PROVE FALSE
  OBVIOUS
<1>1. PICK k \in T : \A j \in T : k <= j
  <2>1. T \subseteq Nat
    OBVIOUS
  <2> QED
    BY <2>1, LeastNatural
<1>2. k \in a .. n /\ k \notin S /\ k # a
  OBVIOUS
<1>3. k \in a + 1 .. n /\ k - 1 \in Nat /\ k - 1 \in a .. n /\ ~ (k <= k - 1)
  BY <1>2
<1>4. k - 1 \notin T
  BY <1>1, <1>3
<1>5. k - 1 \in S
  BY <1>3, <1>4
<1> HIDE DEF T
<1> QED
  BY <1>2, <1>3, <1>5

-----------------------------------------------------------------------------
(* Ways along a route: e has the hop to each of n places, s the way to it.    *)

Hops(e, n, s) ==
  /\ s \in [1 .. n -> Nat] /\ s[1] = 0
  /\ \A p \in 2 .. n : s[p] = s[p - 1] + e[p]

\* Every way has lengths to each of its places.
LEMMA HopsExist ==
  ASSUME NEW n \in Nat \ {0}, NEW e \in [1 .. n -> Nat]
  PROVE  \E s : Hops(e, n, s)
<1> DEFINE S == {k \in 1 .. n : \E s : Hops(e, k, s)}
<1>1. 1 \in S
  <2>1. Hops(e, 1, [p \in 1 .. 1 |-> 0])
    BY DEF Hops
  <2>2. 1 \in 1 .. n
    OBVIOUS
  <2> QED
    BY <2>1, <2>2, Zenon
<1>2. ASSUME NEW k \in 1 + 1 .. n, k - 1 \in S PROVE k \in S
  <2>1. k \in 1 .. n /\ k \in Nat /\ k # 1 /\ k \in 1 .. k /\ k - 1 \in 1 .. k - 1
    OBVIOUS
  <2>2. PICK s : Hops(e, k - 1, s)
    BY <1>2, Zenon
  <2>3. s \in [1 .. k - 1 -> Nat] /\ s[1] = 0 /\ \A p \in 2 .. k - 1 : s[p] = s[p - 1] + e[p]
    BY <2>2, Zenon DEF Hops
  <2>4. PICK x \in Nat : x = s[k - 1] + e[k]
    BY <2>1, <2>3
  <2>5. PICK t \in [1 .. k -> Nat] : t = [p \in 1 .. k |-> IF p = k THEN x ELSE s[p]]
    <3>1. \A p \in 1 .. k : p = k \/ p \in 1 .. k - 1
      BY <2>1
    <3>2. [p \in 1 .. k |-> IF p = k THEN x ELSE s[p]] \in [1 .. k -> Nat]
      BY <2>3, <3>1
    <3> QED
      BY <3>2, Zenon
  <2>6. /\ t[k] = x /\ t[1] = 0
        /\ \A p \in 1 .. k - 1 : t[p] = s[p]
    BY <2>1, <2>3, <2>5
  <2>7. ASSUME NEW p \in 2 .. k PROVE t[p] = t[p - 1] + e[p]
    <3>1. CASE p = k
      BY <2>1, <2>4, <2>6, <3>1
    <3>2. CASE p # k
      <4>1. p \in 1 .. k - 1 /\ p - 1 \in 1 .. k - 1 /\ p \in 2 .. k - 1
        BY <2>1, <3>2
      <4> QED
        BY <2>3, <2>6, <4>1
    <3> QED
      BY <3>1, <3>2
  <2>8. Hops(e, k, t)
    BY <2>6, <2>7 DEF Hops
  <2> QED
    BY <2>1, <2>8, Zenon
<1>3. \A k \in 1 .. n : k \in S
  <2> HIDE DEF S
  <2> QED
    BY <1>1, <1>2, Induction
<1>4. n \in 1 .. n
  OBVIOUS
<1> QED
  BY <1>3, <1>4, Zenon

\* The way never gets shorter.
LEMMA HopsAscend ==
  ASSUME NEW n \in Nat \ {0}, NEW e \in [1 .. n -> Nat], NEW s, Hops(e, n, s),
         NEW p \in 1 .. n, NEW q \in p .. n
  PROVE  s[p] \in Nat /\ s[q] \in Nat /\ s[p] <= s[q]
<1> DEFINE S == {k \in p .. n : s[p] <= s[k]}
<1>1. \A k \in 1 .. n : s[k] \in Nat
  BY DEF Hops
<1>2. p \in S
  <2>1. p \in p .. n /\ s[p] <= s[p]
    BY <1>1
  <2> QED
    BY <2>1
<1>3. ASSUME NEW k \in p + 1 .. n, k - 1 \in S PROVE k \in S
  <2>1. k \in p .. n /\ k \in 1 .. n /\ k - 1 \in 1 .. n /\ k \in 2 .. n
    OBVIOUS
  <2>2. s[p] <= s[k - 1]
    BY <1>3
  <2>3. s[k] = s[k - 1] + e[k] /\ e[k] \in Nat /\ s[k - 1] \in Nat /\ s[p] \in Nat
    BY <1>1, <2>1 DEF Hops
  <2>4. s[p] <= s[k]
    BY <2>2, <2>3
  <2> QED
    BY <2>1, <2>4
<1>4. \A k \in p .. n : k \in S
  <2> HIDE DEF S
  <2>1. p \in Nat /\ n \in Nat
    OBVIOUS
  <2> QED
    BY <1>2, <1>3, <2>1, Induction
<1>5. q \in 1 .. n
  OBVIOUS
<1> QED
  BY <1>1, <1>4, <1>5, Zenon

\* A way that is computed hop by hop is the only one.
LEMMA HopsUnique ==
  ASSUME NEW n \in Nat \ {0}, NEW e, NEW s, Hops(e, n, s), NEW t,
         t[1] = 0, \A p \in 2 .. n : t[p] = t[p - 1] + e[p]
  PROVE  t[n] = s[n]
<1> DEFINE S == {k \in 1 .. n : t[k] = s[k]}
<1>1. 1 \in S
  <2>1. 1 \in 1 .. n /\ t[1] = s[1]
    BY DEF Hops
  <2> QED
    BY <2>1, Zenon
<1>2. ASSUME NEW k \in 1 + 1 .. n, k - 1 \in S PROVE k \in S
  <2>1. k \in 1 .. n /\ k \in 2 .. n
    OBVIOUS
  <2>2. t[k - 1] = s[k - 1]
    BY <1>2, Zenon
  <2>3. t[k] = t[k - 1] + e[k] /\ s[k] = s[k - 1] + e[k]
    BY <2>1, Zenon DEF Hops
  <2> QED
    BY <2>1, <2>2, <2>3, Zenon
<1>3. \A k \in 1 .. n : k \in S
  <2> HIDE DEF S
  <2> QED
    BY <1>1, <1>2, Induction
<1>4. n \in 1 .. n
  OBVIOUS
<1> QED
  BY <1>3, <1>4, Zenon

\* A part of the way.
Shifted(f, e, l, c) == \A p \in 2 .. l : f[p] = e[p + c - 1]

HasLength(f, l, x) == \E t : Hops(f, l, t) /\ t[l] = x

Part(n, e, s, c, d, l, f) ==
  /\ n \in Nat \ {0} /\ e \in [1 .. n -> Nat] /\ Hops(e, n, s)
  /\ c \in 1 .. n /\ d \in c .. n /\ l \in Nat /\ l = d - c + 1
  /\ Shifted(f, e, l, c)

\* The way along a part is what the whole way gains between its ends.
LEMMA HopsPart ==
  ASSUME NEW n, NEW e, NEW s, NEW c, NEW d, NEW l, NEW f, Part(n, e, s, c, d, l, f)
  PROVE  HasLength(f, l, s[d] - s[c])
<1>1. /\ n \in Nat \ {0} /\ e \in [1 .. n -> Nat] /\ Hops(e, n, s)
      /\ c \in 1 .. n /\ d \in c .. n /\ l \in Nat /\ l = d - c + 1
      /\ Shifted(f, e, l, c)
  BY Zenon DEF Part
<1>2. \A p \in 1 .. l : p + c - 1 \in c .. n /\ p + c - 1 \in 1 .. n
  BY <1>1
<1>3. PICK x \in Nat : x = s[c]
  BY <1>1 DEF Hops
<1>4. ASSUME NEW p \in 1 .. l PROVE s[p + c - 1] - x \in Nat
  <2>1. s[c] \in Nat /\ s[p + c - 1] \in Nat /\ s[c] <= s[p + c - 1]
    BY <1>1, <1>2, HopsAscend
  <2> QED
    BY <1>1, <1>3, <2>1
<1>5. PICK t \in [1 .. l -> Nat] : t = [p \in 1 .. l |-> s[p + c - 1] - x]
  <2>1. [p \in 1 .. l |-> s[p + c - 1] - x] \in [1 .. l -> Nat]
    BY <1>1, <1>4
  <2> QED
    BY <1>1, <2>1, Zenon
<1>6. \A p \in 1 .. l : t[p] = s[p + c - 1] - x
  BY <1>1, <1>5, Zenon
<1>7. t[1] = 0
  <2>1. 1 \in 1 .. l /\ 1 + c - 1 = c
    BY <1>1
  <2>2. t[1] = s[c] - x
    BY <1>1, <1>6, <2>1
  <2> QED
    BY <1>1, <1>3, <2>2
<1>8. ASSUME NEW p \in 2 .. l PROVE t[p] = t[p - 1] + f[p]
  <2>1. /\ p \in 1 .. l /\ p - 1 \in 1 .. l /\ (p - 1) + c - 1 = (p + c - 1) - 1
        /\ p + c - 1 \in 2 .. n /\ (p + c - 1) - 1 \in 1 .. n /\ p + c - 1 \in 1 .. n
    BY <1>1
  <2>2. PICK u \in Nat : u = s[(p + c - 1) - 1]
    BY <1>1, <2>1 DEF Hops
  <2>3. PICK w \in Nat : w = e[p + c - 1]
    BY <1>1, <2>1
  <2>4. s[p + c - 1] = u + w
    BY <1>1, <2>1, <2>2, <2>3, Zenon DEF Hops
  <2>5. t[p] = (u + w) - x /\ t[p - 1] = u - x
    BY <1>1, <1>6, <2>1, <2>2, <2>4, Zenon
  <2>6. (u + w) - x = (u - x) + w
    BY <1>1
  <2>7. f[p] = w
    BY <1>1, <2>3, Zenon DEF Shifted
  <2> QED
    BY <1>1, <2>5, <2>6, <2>7, Zenon
<1>9. t[l] = s[d] - s[c]
  <2>1. l \in 1 .. l /\ l + c - 1 = d
    BY <1>1
  <2> QED
    BY <1>1, <1>3, <1>6, <2>1, Zenon
<1> QED
  BY <1>5, <1>7, <1>8, <1>9, Zenon DEF Hops, HasLength

\* The way to place p, and on from place q of another.
Joint(n, e, s, p, o, f, t, q, l, g) ==
  /\ n \in Nat \ {0} /\ e \in [1 .. n -> Nat] /\ Hops(e, n, s) /\ p \in 1 .. n
  /\ o \in Nat \ {0} /\ f \in [1 .. o -> Nat] /\ Hops(f, o, t) /\ q \in 1 .. o
  /\ l \in Nat /\ l = p + o - q
  /\ Shifted(g, e, p, 1)
  /\ \A i \in p + 1 .. l : g[i] = f[i - p + q]

\* The way along two parts is the sum of theirs.
LEMMA HopsJoin ==
  ASSUME NEW n, NEW e, NEW s, NEW p, NEW o, NEW f, NEW t, NEW q, NEW l, NEW g,
         Joint(n, e, s, p, o, f, t, q, l, g)
  PROVE  HasLength(g, l, s[p] + (t[o] - t[q]))
<1>1. /\ n \in Nat \ {0} /\ e \in [1 .. n -> Nat] /\ Hops(e, n, s) /\ p \in 1 .. n
      /\ o \in Nat \ {0} /\ f \in [1 .. o -> Nat] /\ Hops(f, o, t) /\ q \in 1 .. o
      /\ l \in Nat /\ l = p + o - q
  BY Zenon DEF Joint
<1>2. \A i \in 2 .. p : g[i] = e[i]
  <2>1. \A i \in 2 .. p : i + 1 - 1 = i
    BY <1>1
  <2> QED
    BY <2>1, Zenon DEF Joint, Shifted
<1>3. \A i \in p + 1 .. l : g[i] = f[i - p + q]
  BY Zenon DEF Joint
<1>4. PICK x \in Nat : x = s[p]
  BY <1>1 DEF Hops
<1>5. PICK y \in Nat : y = t[q]
  BY <1>1 DEF Hops
<1>6. ASSUME NEW i \in p .. l PROVE x + (t[i - p + q] - y) \in Nat
  <2>1. i - p + q \in q .. o
    BY <1>1
  <2>2. t[q] \in Nat /\ t[i - p + q] \in Nat /\ t[q] <= t[i - p + q]
    BY <1>1, <2>1, HopsAscend
  <2>3. PICK v \in Nat : v = t[i - p + q]
    BY <1>1, <2>2
  <2>4. y <= v
    BY <1>1, <1>5, <2>2, <2>3
  <2>5. x + (v - y) \in Nat
    BY <1>1, <2>4
  <2> QED
    BY <1>1, <2>3, <2>5, Zenon
<1>7. PICK u \in [1 .. l -> Nat] :
        u = [i \in 1 .. l |-> IF i <= p THEN s[i] ELSE x + (t[i - p + q] - y)]
  <2>1. \A i \in 1 .. l : (i <= p => i \in 1 .. n) /\ (~ (i <= p) => i \in p .. l)
    BY <1>1
  <2>2. \A i \in 1 .. n : s[i] \in Nat
    BY <1>1 DEF Hops
  <2>3. [i \in 1 .. l |-> IF i <= p THEN s[i] ELSE x + (t[i - p + q] - y)] \in [1 .. l -> Nat]
    BY <1>1, <1>6, <2>1, <2>2
  <2> QED
    BY <1>1, <2>3, Zenon
<1>8. \A i \in 1 .. p : u[i] = s[i]
  BY <1>1, <1>7
<1>9. \A i \in p .. l : u[i] = x + (t[i - p + q] - y)
  <2>1. ASSUME NEW i \in p .. l PROVE u[i] = x + (t[i - p + q] - y)
    <3>1. CASE i = p
      <4>1. p - p + q = q /\ p \in 1 .. p
        BY <1>1
      <4>2. u[p] = x /\ t[p - p + q] = y
        BY <1>1, <1>4, <1>5, <1>8, <4>1
      <4>3. x + (y - y) = x
        BY <1>1
      <4> QED
        BY <1>1, <3>1, <4>2, <4>3, Zenon
    <3>2. CASE i # p
      <4>1. i \in 1 .. l /\ ~ (i <= p)
        BY <1>1, <3>2
      <4> QED
        BY <1>1, <1>7, <4>1, Zenon
    <3> QED
      BY <1>1, <3>1, <3>2
  <2> QED
    BY <1>1, <2>1
<1>10. u[1] = 0
  <2>1. 1 \in 1 .. p
    BY <1>1
  <2> QED
    BY <1>1, <1>8, <2>1 DEF Hops
<1>11. ASSUME NEW i \in 2 .. l PROVE u[i] = u[i - 1] + g[i]
  <2>1. CASE i <= p
    <3>1. i \in 2 .. n
      BY <1>1, <2>1
    <3>2. i \in 1 .. p /\ i - 1 \in 1 .. p /\ i \in 2 .. p
      BY <1>1, <2>1
    <3>3. s[i] = s[i - 1] + e[i] /\ g[i] = e[i]
      BY <1>1, <1>2, <3>1, <3>2, Zenon DEF Hops
    <3> QED
      BY <1>8, <3>2, <3>3, Zenon
  <2>2. CASE ~ (i <= p)
    <3>1. /\ i \in p .. l /\ i - 1 \in p .. l /\ i \in p + 1 .. l
          /\ i - p + q \in 2 .. o /\ (i - 1) - p + q = (i - p + q) - 1
          /\ (i - p + q) - 1 \in 1 .. o /\ i - p + q \in 1 .. o
      BY <1>1, <2>2
    <3>2. PICK v \in Nat : v = t[(i - p + q) - 1]
      BY <1>1, <3>1 DEF Hops
    <3>3. PICK w \in Nat : w = f[i - p + q]
      BY <1>1, <3>1
    <3>4. t[i - p + q] = v + w /\ g[i] = w
      BY <1>1, <1>3, <3>1, <3>2, <3>3, Zenon DEF Hops
    <3>5. u[i] = x + ((v + w) - y) /\ u[i - 1] = x + (v - y)
      BY <1>1, <1>9, <3>1, <3>2, <3>4, Zenon
    <3>6. x + ((v + w) - y) = (x + (v - y)) + w
      BY <1>1
    <3> QED
      BY <1>1, <3>4, <3>5, <3>6, Zenon
  <2> QED
    BY <1>1, <2>1, <2>2
<1>12. u[l] = s[p] + (t[o] - t[q])
  <2>1. l \in p .. l /\ l - p + q = o
    BY <1>1
  <2> QED
    BY <1>1, <1>4, <1>5, <1>9, <2>1, Zenon
<1> QED
  BY <1>7, <1>10, <1>11, <1>12, Zenon DEF Hops, HasLength

-----------------------------------------------------------------------------
(* Routes without repetition, from a to b over the edges E, with all but its *)
(* ends in via; s has the way along it, by the distances m.                  *)

HopsOf(m, n, r) == [p \in 1 .. n |-> IF p = 1 THEN 0 ELSE m[r[p - 1]][r[p]]]

Simple(V, E, via, a, b, n, r) ==
  /\ n \in Nat \ {0} /\ r \in [1 .. n -> V] /\ r[1] = a /\ r[n] = b
  /\ \A p \in 2 .. n - 1 : r[p] \in via
  /\ \A p \in 1 .. n - 1 : <<r[p], r[p + 1]>> \in E
  /\ \A p, q \in 1 .. n : r[p] = r[q] => p = q

Walk(V, E, m, via, a, b, n, r, s) ==
  Simple(V, E, via, a, b, n, r) /\ Hops(HopsOf(m, n, r), n, s)

\* The hops of a route are as long as the distances say.
LEMMA HopsOfRoute ==
  ASSUME NEW V, NEW m \in [V -> [V -> Nat]], NEW n \in Nat \ {0}, NEW r \in [1 .. n -> V]
  PROVE  HopsOf(m, n, r) \in [1 .. n -> Nat]
<1>1. ASSUME NEW p \in 2 .. n PROVE m[r[p - 1]][r[p]] \in Nat
  <2>1. r[p - 1] \in V /\ r[p] \in V
    OBVIOUS
  <2> QED
    BY <2>1
<1>2. \A p \in 1 .. n : p # 1 => p \in 2 .. n
  OBVIOUS
<1> QED
  BY <1>1, <1>2 DEF HopsOf

\* A route of length len.
HasRoute(V, E, m, via, a, b, len) ==
  \E n, r, s : Walk(V, E, m, via, a, b, n, r, s) /\ s[n] = len

\* A part of a route.
LEMMA WalkPart ==
  ASSUME NEW V, NEW E, NEW m \in [V -> [V -> Nat]], NEW via, NEW a, NEW b, NEW n, NEW r, NEW s,
         Walk(V, E, m, via, a, b, n, r, s), NEW c \in 1 .. n, NEW d \in c .. n, NEW wia,
         \A p \in c + 1 .. d - 1 : r[p] \in wia
  PROVE  HasRoute(V, E, m, wia, r[c], r[d], s[d] - s[c])
<1>1. /\ n \in Nat \ {0} /\ r \in [1 .. n -> V]
      /\ \A p \in 1 .. n - 1 : <<r[p], r[p + 1]>> \in E
      /\ \A p, q \in 1 .. n : r[p] = r[q] => p = q
      /\ Hops(HopsOf(m, n, r), n, s)
  BY Zenon DEF Walk, Simple
<1>2. PICK l \in Nat \ {0} : l = d - c + 1
  BY <1>1
<1>3. \A p \in 1 .. l : p + c - 1 \in 1 .. n
  BY <1>1, <1>2
<1>4. PICK x \in [1 .. l -> V] : x = [p \in 1 .. l |-> r[p + c - 1]]
  BY <1>1, <1>3
<1>5. \A p \in 1 .. l : x[p] = r[p + c - 1]
  BY <1>4, Zenon
<1>6. x[1] = r[c] /\ x[l] = r[d]
  <2>1. 1 \in 1 .. l /\ l \in 1 .. l /\ 1 + c - 1 = c /\ l + c - 1 = d
    BY <1>1, <1>2
  <2> QED
    BY <1>5, <2>1, Zenon
<1>7. ASSUME NEW p \in 2 .. l - 1 PROVE x[p] \in wia
  <2>1. p \in 1 .. l /\ p + c - 1 \in c + 1 .. d - 1
    BY <1>1, <1>2
  <2> QED
    BY <1>5, <2>1, Zenon
<1>8. ASSUME NEW p \in 1 .. l - 1 PROVE <<x[p], x[p + 1]>> \in E
  <2>1. /\ p \in 1 .. l /\ p + 1 \in 1 .. l /\ p + c - 1 \in 1 .. n - 1
        /\ (p + 1) + c - 1 = (p + c - 1) + 1
    BY <1>1, <1>2
  <2> QED
    BY <1>1, <1>5, <2>1, Zenon
<1>9. ASSUME NEW p \in 1 .. l, NEW q \in 1 .. l, x[p] = x[q] PROVE p = q
  <2>1. p + c - 1 = q + c - 1
    BY <1>1, <1>3, <1>5, <1>9, Zenon
  <2> QED
    BY <2>1
<1>10. HopsOf(m, n, r) \in [1 .. n -> Nat]
  BY <1>1, HopsOfRoute
<1>11. ASSUME NEW p \in 2 .. l PROVE HopsOf(m, l, x)[p] = HopsOf(m, n, r)[p + c - 1]
  <2>1. /\ p \in 1 .. l /\ p - 1 \in 1 .. l /\ p + c - 1 \in 2 .. n
        /\ (p - 1) + c - 1 = (p + c - 1) - 1
    BY <1>1, <1>2
  <2>2. p # 1 /\ p + c - 1 # 1 /\ p + c - 1 \in 1 .. n
    BY <2>1
  <2>3. HopsOf(m, n, r)[p + c - 1] = m[r[(p + c - 1) - 1]][r[p + c - 1]]
    BY <2>2, Zenon DEF HopsOf
  <2>4. HopsOf(m, l, x)[p] = m[x[p - 1]][x[p]]
    BY <2>1, <2>2, Zenon DEF HopsOf
  <2> QED
    BY <1>5, <2>1, <2>3, <2>4, Zenon
<1>12. PICK t : Hops(HopsOf(m, l, x), l, t) /\ t[l] = s[d] - s[c]
  <2>1. l \in Nat /\ l = d - c + 1
    BY <1>2
  <2>2. PICK e : e = HopsOf(m, n, r)
    OBVIOUS
  <2>3. PICK f : f = HopsOf(m, l, x)
    OBVIOUS
  <2>4. /\ n \in Nat \ {0} /\ e \in [1 .. n -> Nat] /\ Hops(e, n, s)
        /\ Shifted(f, e, l, c)
    BY <1>1, <1>10, <1>11, <2>2, <2>3, Zenon DEF Shifted
  <2>5. \E t : Hops(f, l, t) /\ t[l] = s[d] - s[c]
    <3>1. Part(n, e, s, c, d, l, f)
      BY <2>1, <2>4, Zenon DEF Part
    <3>2. HasLength(f, l, s[d] - s[c])
      BY <3>1, HopsPart, Zenon
    <3> QED
      BY <3>2, Zenon DEF HasLength
  <2> QED
    BY <2>3, <2>5, Zenon
<1>13. Walk(V, E, m, wia, r[c], r[d], l, x, t)
  BY <1>6, <1>7, <1>8, <1>9, <1>12, Zenon DEF Walk, Simple
<1> QED
  BY <1>12, <1>13, Zenon DEF HasRoute

\* One whose second place is snd, of length len at most.
LeadsTo(V, E, m, via, a, b, snd, len) ==
  \E n, r, s : /\ Walk(V, E, m, via, a, b, n, r, s) /\ s[n] <= len
               /\ n >= 2 /\ r[2] = snd

WalkFacts(V, E, n, r) ==
  /\ n \in Nat \ {0} /\ r \in [1 .. n -> V]
  /\ \A p \in 1 .. n - 1 : <<r[p], r[p + 1]>> \in E
  /\ \A p, q \in 1 .. n : r[p] = r[q] => p = q

\* Two routes that share place p of the first and place q of the second, and no earlier
\* place of the first, are one route when the rest of the second replaces that of the first.
Crossing(n, r, p, o, z, q, l, x) ==
  /\ p \in 1 .. n /\ q \in 1 .. o /\ r[p] = z[q]
  /\ \A i \in 1 .. p - 1, j \in 1 .. o : r[i] # z[j]
  /\ l = p + o - q
  /\ x = [i \in 1 .. l |-> IF i <= p THEN r[i] ELSE z[i - p + q]]

\* The places of the joined route: those of the first up to the crossing, then those of the second.
LEMMA CrossingPlaces ==
  ASSUME NEW V, NEW E, NEW n, NEW r, WalkFacts(V, E, n, r), NEW o, NEW z, WalkFacts(V, E, o, z),
         NEW p, NEW q, NEW l, NEW x, Crossing(n, r, p, o, z, q, l, x)
  PROVE  /\ l \in Nat \ {0} /\ p \in 1 .. l
         /\ \A i \in 1 .. p : x[i] = r[i]
         /\ \A i \in p .. l : x[i] = z[i - p + q]
         /\ x \in [1 .. l -> V]
<1>1. n \in Nat \ {0} /\ o \in Nat \ {0} /\ p \in 1 .. n /\ q \in 1 .. o /\ l = p + o - q
  BY Zenon DEF WalkFacts, Crossing
<1>2. l \in Nat \ {0} /\ p \in 1 .. l
  BY <1>1
<1>3. x = [i \in 1 .. l |-> IF i <= p THEN r[i] ELSE z[i - p + q]]
  BY Zenon DEF Crossing
<1>4. ASSUME NEW i \in 1 .. p PROVE x[i] = r[i]
  <2>1. i \in 1 .. l /\ i <= p
    BY <1>1, <1>2
  <2> QED
    BY <1>3, <2>1, Zenon
<1>5. ASSUME NEW i \in p .. l PROVE x[i] = z[i - p + q]
  <2>1. CASE i = p
    <3>1. i - p + q = q /\ p \in 1 .. p
      BY <1>1, <2>1
    <3>2. x[p] = r[p]
      BY <1>4, <3>1
    <3>3. r[p] = z[q]
      BY Zenon DEF Crossing
    <3> QED
      BY <2>1, <3>1, <3>2, <3>3, Zenon
  <2>2. CASE i # p
    <3>1. i \in 1 .. l /\ ~ (i <= p)
      BY <1>1, <2>2
    <3> QED
      BY <1>3, <3>1, Zenon
  <2> QED
    BY <2>1, <2>2, Zenon
<1>6. ASSUME NEW i \in 1 .. l PROVE x[i] \in V
  <2>1. r \in [1 .. n -> V] /\ z \in [1 .. o -> V]
    BY Zenon DEF WalkFacts
  <2>2. CASE i <= p
    <3>1. i \in 1 .. p /\ i \in 1 .. n
      BY <1>1, <2>2
    <3>2. r[i] \in V
      BY <2>1, <3>1
    <3> QED
      BY <1>4, <3>1, <3>2, Zenon
  <2>3. CASE ~ (i <= p)
    <3>1. i \in p .. l /\ i - p + q \in 1 .. o
      BY <1>1, <2>3
    <3>2. z[i - p + q] \in V
      BY <2>1, <3>1
    <3> QED
      BY <1>5, <3>1, <3>2, Zenon
  <2> QED
    BY <2>2, <2>3, Zenon
<1>7. x \in [1 .. l -> V]
  BY <1>3, <1>6, Zenon
<1> QED
  BY <1>2, <1>4, <1>5, <1>7, Zenon

\* The joined route is over edges and repeats nothing.
LEMMA CrossingWalk ==
  ASSUME NEW V, NEW E, NEW n, NEW r, WalkFacts(V, E, n, r), NEW o, NEW z, WalkFacts(V, E, o, z),
         NEW p, NEW q, NEW l, NEW x, Crossing(n, r, p, o, z, q, l, x)
  PROVE  WalkFacts(V, E, l, x)
<1>1. /\ n \in Nat \ {0} /\ o \in Nat \ {0} /\ p \in 1 .. n /\ q \in 1 .. o /\ l = p + o - q
      /\ \A i \in 1 .. p - 1, j \in 1 .. o : r[i] # z[j]
  BY Zenon DEF WalkFacts, Crossing
<1>2. /\ l \in Nat \ {0} /\ p \in 1 .. l
      /\ \A i \in 1 .. p : x[i] = r[i]
      /\ \A i \in p .. l : x[i] = z[i - p + q]
      /\ x \in [1 .. l -> V]
  BY CrossingPlaces, Zenon
<1>3. /\ \A i \in 1 .. n - 1 : <<r[i], r[i + 1]>> \in E
      /\ \A i, j \in 1 .. n : r[i] = r[j] => i = j
      /\ \A i \in 1 .. o - 1 : <<z[i], z[i + 1]>> \in E
      /\ \A i, j \in 1 .. o : z[i] = z[j] => i = j
  BY Zenon DEF WalkFacts
<1>4. ASSUME NEW i \in 1 .. l - 1 PROVE <<x[i], x[i + 1]>> \in E
  <2>1. CASE i < p
    <3>1. i \in 1 .. p /\ i + 1 \in 1 .. p /\ i \in 1 .. n - 1
      BY <1>1, <2>1
    <3> QED
      BY <1>2, <1>3, <3>1, Zenon
  <2>2. CASE ~ (i < p)
    <3>1. /\ i \in p .. l /\ i + 1 \in p .. l /\ i - p + q \in 1 .. o - 1
          /\ (i + 1) - p + q = (i - p + q) + 1
      BY <1>1, <2>2
    <3> QED
      BY <1>2, <1>3, <3>1, Zenon
  <2> QED
    BY <2>1, <2>2, Zenon
<1>5. ASSUME NEW i \in 1 .. l, NEW j \in 1 .. l, x[i] = x[j] PROVE i = j
  <2>1. ASSUME NEW g \in 1 .. l, NEW h \in 1 .. l, g < p, ~ (h < p) PROVE x[g] # x[h]
    <3>1. g \in 1 .. p - 1 /\ g \in 1 .. p /\ h \in p .. l /\ h - p + q \in 1 .. o
      BY <1>1, <2>1
    <3> QED
      BY <1>1, <1>2, <3>1, Zenon
  <2>2. CASE i < p /\ j < p
    <3>1. i \in 1 .. p /\ j \in 1 .. p /\ i \in 1 .. n /\ j \in 1 .. n
      BY <1>1, <2>2
    <3> QED
      BY <1>2, <1>3, <1>5, <3>1, Zenon
  <2>3. CASE ~ (i < p) /\ ~ (j < p)
    <3>1. i \in p .. l /\ j \in p .. l /\ i - p + q \in 1 .. o /\ j - p + q \in 1 .. o
      BY <1>1, <2>3
    <3>2. i - p + q = j - p + q
      BY <1>2, <1>3, <1>5, <3>1, Zenon
    <3> QED
      BY <1>1, <3>2
  <2> QED
    BY <1>5, <2>1, <2>2, <2>3, Zenon
<1> QED
  BY <1>2, <1>4, <1>5, Zenon DEF WalkFacts

\* Its way is that of the first up to the crossing and that of the second from there.
LEMMA CrossingLength ==
  ASSUME NEW V, NEW E, NEW m \in [V -> [V -> Nat]],
         NEW n, NEW r, WalkFacts(V, E, n, r), NEW o, NEW z, WalkFacts(V, E, o, z),
         NEW s, Hops(HopsOf(m, n, r), n, s), NEW t, Hops(HopsOf(m, o, z), o, t),
         NEW p, NEW q, NEW l, NEW x, Crossing(n, r, p, o, z, q, l, x)
  PROVE  HasLength(HopsOf(m, l, x), l, s[p] + (t[o] - t[q]))
<1>1. /\ n \in Nat \ {0} /\ o \in Nat \ {0} /\ p \in 1 .. n /\ q \in 1 .. o /\ l = p + o - q
      /\ r \in [1 .. n -> V] /\ z \in [1 .. o -> V]
  BY Zenon DEF WalkFacts, Crossing
<1>2. /\ l \in Nat \ {0} /\ p \in 1 .. l
      /\ \A i \in 1 .. p : x[i] = r[i]
      /\ \A i \in p .. l : x[i] = z[i - p + q]
      /\ x \in [1 .. l -> V]
  BY CrossingPlaces, Zenon
<1>3. HopsOf(m, n, r) \in [1 .. n -> Nat] /\ HopsOf(m, o, z) \in [1 .. o -> Nat]
  BY <1>1, HopsOfRoute
<1>4. Shifted(HopsOf(m, l, x), HopsOf(m, n, r), p, 1)
  <2>1. ASSUME NEW i \in 2 .. p PROVE HopsOf(m, l, x)[i] = HopsOf(m, n, r)[i + 1 - 1]
    <3>1. /\ i \in 1 .. p /\ i - 1 \in 1 .. p /\ i \in 1 .. n /\ i \in 1 .. l /\ i # 1 /\ i + 1 - 1 = i
      BY <1>1, <1>2
    <3>2. HopsOf(m, l, x)[i] = m[x[i - 1]][x[i]] /\ HopsOf(m, n, r)[i] = m[r[i - 1]][r[i]]
      BY <3>1, Zenon DEF HopsOf
    <3> QED
      BY <1>2, <3>1, <3>2, Zenon
  <2> QED
    BY <2>1, Zenon DEF Shifted
<1>5. ASSUME NEW i \in p + 1 .. l PROVE HopsOf(m, l, x)[i] = HopsOf(m, o, z)[i - p + q]
  <2>1. /\ i \in p .. l /\ i - 1 \in p .. l /\ i \in 1 .. l /\ i # 1
        /\ i - p + q \in 1 .. o /\ i - p + q # 1 /\ (i - 1) - p + q = (i - p + q) - 1
    <3>1. n \in Nat /\ o \in Nat /\ p \in 1 .. n /\ q \in 1 .. o /\ l = p + o - q
      BY <1>1
    <3> QED
      BY <3>1
  <2>2. HopsOf(m, l, x)[i] = m[x[i - 1]][x[i]]
    BY <2>1, Zenon DEF HopsOf
  <2>3. HopsOf(m, o, z)[i - p + q] = m[z[(i - p + q) - 1]][z[i - p + q]]
    BY <2>1, Zenon DEF HopsOf
  <2> QED
    BY <1>2, <2>1, <2>2, <2>3, Zenon
<1>6. l \in Nat
  BY <1>2
<1>7. Joint(n, HopsOf(m, n, r), s, p, o, HopsOf(m, o, z), t, q, l, HopsOf(m, l, x))
  BY <1>1, <1>3, <1>4, <1>5, <1>6, Zenon DEF Joint
<1> QED
  BY <1>7, HopsJoin, Zenon

\* What every walk is: its ends, its places, and a way that never gets shorter.
LEMMA WalkLengths ==
  ASSUME NEW V, NEW E, NEW m \in [V -> [V -> Nat]], NEW via, NEW a, NEW b, NEW n, NEW r, NEW s,
         Walk(V, E, m, via, a, b, n, r, s)
  PROVE  /\ n \in Nat \ {0} /\ WalkFacts(V, E, n, r) /\ r[1] = a /\ r[n] = b
         /\ \A p \in 2 .. n - 1 : r[p] \in via
         /\ Hops(HopsOf(m, n, r), n, s) /\ s[1] = 0
         /\ \A p \in 1 .. n : s[p] \in Nat /\ s[p] <= s[n]
<1>1. /\ n \in Nat \ {0} /\ WalkFacts(V, E, n, r) /\ r[1] = a /\ r[n] = b
      /\ \A p \in 2 .. n - 1 : r[p] \in via
      /\ Hops(HopsOf(m, n, r), n, s)
  BY Zenon DEF Walk, Simple, WalkFacts
<1>2. HopsOf(m, n, r) \in [1 .. n -> Nat]
  <2>1. r \in [1 .. n -> V]
    BY <1>1, Zenon DEF WalkFacts
  <2> QED
    BY <1>1, <2>1, HopsOfRoute
<1>3. ASSUME NEW p \in 1 .. n PROVE s[p] \in Nat /\ s[p] <= s[n]
  <2>1. n \in p .. n
    BY <1>1
  <2> QED
    BY <1>1, <1>2, <2>1, HopsAscend
<1>4. s[1] = 0
  BY <1>1, Zenon DEF Hops
<1> QED
  BY <1>1, <1>3, <1>4, Zenon

Splits(V, E, m, via, k, a, b, len) ==
  \/ HasRoute(V, E, m, via, a, b, len)
  \/ \E f, g \in Nat : /\ HasRoute(V, E, m, via, a, k, f)
                       /\ HasRoute(V, E, m, via, k, b, g)
                       /\ f + g = len

\* A route that may pass k avoids it, or comes in two parts that do.
LEMMA RouteSplit ==
  ASSUME NEW V, NEW E, NEW m \in [V -> [V -> Nat]], NEW via, NEW k, NEW a, NEW b, NEW len,
         HasRoute(V, E, m, via \cup {k}, a, b, len)
  PROVE  Splits(V, E, m, via, k, a, b, len)
<1>1. PICK n, r, s : Walk(V, E, m, via \cup {k}, a, b, n, r, s) /\ s[n] = len
  BY Zenon DEF HasRoute
<1>2. /\ n \in Nat \ {0} /\ WalkFacts(V, E, n, r) /\ r[1] = a /\ r[n] = b
      /\ \A p \in 2 .. n - 1 : r[p] \in via \cup {k}
      /\ Hops(HopsOf(m, n, r), n, s) /\ s[1] = 0
      /\ \A p \in 1 .. n : s[p] \in Nat /\ s[p] <= s[n]
  BY <1>1, WalkLengths, Zenon
<1>3. CASE \A p \in 2 .. n - 1 : r[p] # k
  <2>1. \A p \in 2 .. n - 1 : r[p] \in via
    BY <1>2, <1>3, Zenon
  <2>2. Walk(V, E, m, via, a, b, n, r, s)
    BY <1>1, <2>1, Zenon DEF Walk, Simple
  <2> QED
    BY <1>1, <2>2, Zenon DEF HasRoute, Splits
<1>4. CASE ~ \A p \in 2 .. n - 1 : r[p] # k
  <2>1. PICK p \in 2 .. n - 1 : r[p] = k
    BY <1>4, Zenon
  <2>2. /\ 1 \in 1 .. n /\ p \in 1 .. n /\ n \in 1 .. n /\ p \in 1 .. n /\ n \in p .. n
    BY <1>2
  <2>3. \A i, j \in 1 .. n : r[i] = r[j] => i = j
    BY <1>2, Zenon DEF WalkFacts
  <2>4. ASSUME NEW i \in 1 + 1 .. p - 1 PROVE r[i] \in via
    <3>1. i \in 2 .. n - 1 /\ i \in 1 .. n /\ i # p
      BY <1>2
    <3> QED
      BY <1>2, <2>1, <2>2, <2>3, <3>1, Zenon
  <2>5. ASSUME NEW i \in p + 1 .. n - 1 PROVE r[i] \in via
    <3>1. i \in 2 .. n - 1 /\ i \in 1 .. n /\ i # p
      BY <1>2
    <3> QED
      BY <1>2, <2>1, <2>2, <2>3, <3>1, Zenon
  <2>6. HasRoute(V, E, m, via, r[1], r[p], s[p] - s[1])
    BY <1>1, <2>2, <2>4, WalkPart, Zenon
  <2>7. HasRoute(V, E, m, via, r[p], r[n], s[n] - s[p])
    BY <1>1, <2>2, <2>5, WalkPart, Zenon
  <2>8. PICK f \in Nat : f = s[p] - s[1]
    BY <1>2, <2>2
  <2>9. PICK g \in Nat : g = s[n] - s[p]
    BY <1>2, <2>2
  <2>10. f + g = len
    BY <1>1, <1>2, <2>2, <2>8, <2>9
  <2> QED
    BY <1>2, <2>1, <2>6, <2>7, <2>8, <2>9, <2>10, Zenon DEF Splits
<1> QED
  BY <1>3, <1>4, Zenon

\* Two routes that meet in c are a route once they are cut where the first meets the
\* second.  Unless the second passes through the start of the first, it starts alike.
Joins(V, E, m, via, a, b, len, o, z, snd) ==
  \E l, x, u : /\ Walk(V, E, m, via, a, b, l, x, u) /\ u[l] <= len
               /\ (\A j \in 1 .. o : z[j] # a) => l >= 2 /\ x[2] = snd

\* Two routes over via that meet in a waypoint of via can be joined.
LEMMA RouteJoin ==
  ASSUME NEW V, NEW E, NEW m \in [V -> [V -> Nat]], NEW via, NEW a, NEW b, NEW c \in via,
         NEW n, NEW r, NEW s, Walk(V, E, m, via, a, c, n, r, s),
         NEW o, NEW z, NEW t, Walk(V, E, m, via, c, b, o, z, t)
  PROVE  Joins(V, E, m, via, a, b, s[n] + t[o], o, z, r[2])
<1>1. /\ n \in Nat \ {0} /\ WalkFacts(V, E, n, r) /\ r[1] = a /\ r[n] = c
      /\ \A p \in 2 .. n - 1 : r[p] \in via
      /\ Hops(HopsOf(m, n, r), n, s) /\ s[1] = 0
      /\ \A p \in 1 .. n : s[p] \in Nat /\ s[p] <= s[n]
  BY WalkLengths, Zenon
<1>2. /\ o \in Nat \ {0} /\ WalkFacts(V, E, o, z) /\ z[1] = c /\ z[o] = b
      /\ \A p \in 2 .. o - 1 : z[p] \in via
      /\ Hops(HopsOf(m, o, z), o, t) /\ t[1] = 0
      /\ \A p \in 1 .. o : t[p] \in Nat /\ t[p] <= t[o]
  BY WalkLengths, Zenon
<1> DEFINE T == {p \in 1 .. n : \E q \in 1 .. o : r[p] = z[q]}
<1>3. PICK p \in T : \A i \in T : p <= i
  <2>1. n \in 1 .. n /\ 1 \in 1 .. o /\ 1 .. n \subseteq Nat
    BY <1>1, <1>2
  <2>2. T \subseteq Nat /\ n \in T
    BY <1>1, <1>2, <2>1, Zenon
  <2> QED
    BY <2>2, LeastNatural
<1>4. p \in 1 .. n
  OBVIOUS
<1>5. PICK q \in 1 .. o : r[p] = z[q]
  OBVIOUS
<1>6. ASSUME NEW i \in 1 .. p - 1, NEW j \in 1 .. o PROVE r[i] # z[j]
  <2>1. i \in 1 .. n /\ ~ (p <= i)
    BY <1>1, <1>4
  <2>2. i \notin T
    BY <1>3, <2>1, Zenon
  <2> QED
    BY <2>1, <2>2, Zenon
<1> HIDE DEF T
<1>7. PICK l : l = p + o - q
  OBVIOUS
<1>8. PICK x : x = [i \in 1 .. l |-> IF i <= p THEN r[i] ELSE z[i - p + q]]
  OBVIOUS
<1>9. Crossing(n, r, p, o, z, q, l, x)
  BY <1>4, <1>5, <1>6, <1>7, <1>8, Zenon DEF Crossing
<1>10. /\ l \in Nat \ {0} /\ p \in 1 .. l
       /\ \A i \in 1 .. p : x[i] = r[i]
       /\ \A i \in p .. l : x[i] = z[i - p + q]
       /\ x \in [1 .. l -> V]
  BY <1>1, <1>2, <1>9, CrossingPlaces, Zenon
<1>11. WalkFacts(V, E, l, x)
  BY <1>1, <1>2, <1>9, CrossingWalk, Zenon
<1>12. HasLength(HopsOf(m, l, x), l, s[p] + (t[o] - t[q]))
  BY <1>1, <1>2, <1>9, CrossingLength, Zenon
<1>13. PICK u : Hops(HopsOf(m, l, x), l, u) /\ u[l] = s[p] + (t[o] - t[q])
  BY <1>12, Zenon DEF HasLength
<1>14. u[l] <= s[n] + t[o]
  <2>1. s[p] \in Nat /\ s[p] <= s[n] /\ s[n] \in Nat
    <3>1. n \in 1 .. n
      BY <1>1
    <3> QED
      BY <1>1, <1>4, <3>1, Zenon
  <2>2. t[q] \in Nat /\ t[q] <= t[o] /\ t[o] \in Nat
    <3>1. o \in 1 .. o
      BY <1>2
    <3> QED
      BY <1>2, <1>5, <3>1, Zenon
  <2> QED
    BY <1>13, <2>1, <2>2
<1>15. x[1] = a /\ x[l] = b
  <2>1. 1 \in 1 .. p /\ l \in p .. l /\ l - p + q = o
    BY <1>1, <1>2, <1>4, <1>5, <1>7, <1>10
  <2> QED
    BY <1>1, <1>2, <1>10, <2>1, Zenon
<1>16. ASSUME NEW i \in 2 .. l - 1 PROVE x[i] \in via
  <2>1. n \in Nat /\ o \in Nat /\ p \in 1 .. n /\ q \in 1 .. o /\ l = p + o - q
    BY <1>1, <1>2, <1>4, <1>7
  <2>2. CASE i < p
    <3>1. i \in 1 .. p /\ i \in 2 .. n - 1
      BY <2>1, <2>2
    <3> QED
      BY <1>1, <1>10, <3>1, Zenon
  <2>3. CASE ~ (i < p)
    <3>1. i \in p .. l /\ (i - p + q = 1 \/ i - p + q \in 2 .. o - 1)
      BY <2>1, <2>3
    <3> QED
      BY <1>2, <1>10, <3>1, Zenon
  <2> QED
    BY <2>2, <2>3, Zenon
<1>17. Walk(V, E, m, via, a, b, l, x, u)
  BY <1>10, <1>11, <1>13, <1>15, <1>16, Zenon DEF Walk, Simple, WalkFacts
<1>18. ASSUME \A j \in 1 .. o : z[j] # a PROVE l >= 2 /\ x[2] = r[2]
  <2>1. p # 1
    BY <1>1, <1>5, <1>18, Zenon
  <2>2. 2 \in 1 .. p /\ l >= 2
    BY <1>1, <1>4, <1>10, <2>1
  <2> QED
    BY <1>10, <2>2, Zenon
<1> QED
  BY <1>14, <1>17, <1>18, Zenon DEF Joins

Edges == {e \in Ids \X Ids : are_connected(e[1], e[2])}

GraphOK == Ids \subseteq 0 .. MaxId /\ EdgeLengths \in [Ids -> [Ids -> Nat]]

WorldRoute(via, a, b, len) == HasRoute(Ids, Edges, EdgeLengths, via, a, b, len)

\* LengthBy() is the end of the way along the route.
LEMMA LengthOfWay ==
  ASSUME NEW m, NEW n \in Nat \ {0}, NEW r, Len(r) = n, NEW s, Hops(HopsOf(m, n, r), n, s)
  PROVE  LengthBy(m, r) = s[n]
<1> DEFINE IsWay(w) == w = [p \in 1 .. Len(r) |-> IF p = 1 THEN 0 ELSE w[p - 1] + m[r[p - 1]][r[p]]]
<1>1. /\ s \in [1 .. n -> Nat] /\ s[1] = 0
      /\ \A p \in 2 .. n : s[p] = s[p - 1] + HopsOf(m, n, r)[p]
  BY Zenon DEF Hops
<1>2. \A p \in 1 .. n : p # 1 => p \in 2 .. n
  OBVIOUS
<1>3. \A p \in 2 .. n : p # 1 /\ p \in 1 .. n
  OBVIOUS
<1>4. \A p \in 1 .. n : s[p] = IF p = 1 THEN 0 ELSE s[p - 1] + m[r[p - 1]][r[p]]
  BY <1>1, <1>2, Zenon DEF HopsOf
<1>5. s = [p \in 1 .. n |-> IF p = 1 THEN 0 ELSE s[p - 1] + m[r[p - 1]][r[p]]]
  BY <1>1, <1>4, Zenon
<1>6. IsWay(s)
  BY <1>5, Zenon
<1>7. Along(m, r) = CHOOSE w : IsWay(w)
  BY Zenon DEF Along
<1>8. IsWay(Along(m, r))
  <2> HIDE DEF IsWay
  <2> QED
    BY <1>6, <1>7, Zenon
<1>9. \E w : w = Along(m, r)
  OBVIOUS
<1>10. PICK w : w = Along(m, r)
  BY <1>9
<1>11. \A p \in 1 .. n : w[p] = IF p = 1 THEN 0 ELSE w[p - 1] + m[r[p - 1]][r[p]]
  BY <1>8, <1>10, Zenon
<1>12. w[1] = 0
  <2>1. 1 \in 1 .. n
    OBVIOUS
  <2> QED
    BY <1>11, <2>1, Zenon
<1>13. \A p \in 2 .. n : w[p] = w[p - 1] + HopsOf(m, n, r)[p]
  BY <1>3, <1>11, Zenon DEF HopsOf
<1>14. w[n] = s[n]
  BY <1>12, <1>13, HopsUnique
<1> QED
  BY <1>10, <1>14, Zenon DEF LengthBy

\* A route without repetition has no more places than there are ids.
LEMMA RouteBound ==
  ASSUME MaxId \in Nat, NEW n \in Nat \ {0}, NEW r \in [1 .. n -> 0 .. MaxId],
         \A p, q \in 1 .. n : r[p] = r[q] => p = q
  PROVE  n \in 1 .. (MaxId + 1) /\ Len(r) = n
<1>1. Len(r) = n
  OBVIOUS
<1>2. IsFiniteSet(1 .. n) /\ Cardinality(1 .. n) = n
  BY FS_Interval
<1>3. IsFiniteSet(0 .. MaxId) /\ Cardinality(0 .. MaxId) = MaxId + 1
  BY FS_Interval
<1>4. ~ (Cardinality(0 .. MaxId) < Cardinality(1 .. n))
  <2> SUFFICES ASSUME Cardinality(0 .. MaxId) < Cardinality(1 .. n) PROVE FALSE
    OBVIOUS
  <2>1. \E p, q \in 1 .. n : p # q /\ r[p] = r[q]
    BY <1>2, <1>3, FS_PigeonHole
  <2> QED
    BY <2>1
<1> QED
  BY <1>1, <1>2, <1>3, <1>4

\* What RoutesVia() lists are walks of that length.
LEMMA RouteIsWalk ==
  ASSUME WorldAssumption, GraphOK, NEW via, NEW a \in Ids, NEW b \in Ids, via \subseteq Ids,
         NEW r \in RoutesVia(via, a, b)
  PROVE  WorldRoute(via, a, b, LengthBy(EdgeLengths, r))
<1>1. PICK n \in 1 .. (MaxId + 1) :
        r \in [1 .. n -> 0 .. MaxId] /\ \A p, q \in 1 .. n : r[p] = r[q] => p = q
  BY Zenon DEF RoutesVia, Routes
<1>2. n \in Nat \ {0} /\ MaxId \in Nat /\ n \in 1 .. n
  BY <1>1 DEF WorldAssumption
<1>3. Len(r) = n
  BY <1>1, <1>2, RouteBound
<1>4. /\ r[1] = a /\ r[n] = b
      /\ \A p \in 2 .. n - 1 : r[p] \in via
      /\ \A p \in 1 .. n - 1 : are_connected(r[p], r[p + 1])
  BY <1>3, Zenon DEF RoutesVia
<1>5. ASSUME NEW p \in 1 .. n PROVE r[p] \in Ids
  <2>1. p = 1 \/ p = n \/ p \in 2 .. n - 1
    BY <1>2
  <2> QED
    BY <1>4, <2>1, Zenon
<1>6. r \in [1 .. n -> Ids]
  BY <1>1, <1>5
<1>7. ASSUME NEW p \in 1 .. n - 1 PROVE <<r[p], r[p + 1]>> \in Edges
  <2>1. p \in 1 .. n /\ p + 1 \in 1 .. n
    BY <1>2
  <2>2. r[p] \in Ids /\ r[p + 1] \in Ids /\ are_connected(r[p], r[p + 1])
    BY <1>4, <1>5, <2>1, Zenon
  <2> QED
    BY <2>2 DEF Edges
<1>8. HopsOf(EdgeLengths, n, r) \in [1 .. n -> Nat]
  BY <1>2, <1>6, HopsOfRoute DEF GraphOK
<1>9. PICK s : Hops(HopsOf(EdgeLengths, n, r), n, s)
  BY <1>2, <1>8, HopsExist
<1>10. LengthBy(EdgeLengths, r) = s[n]
  BY <1>2, <1>3, <1>9, LengthOfWay
<1>11. Walk(Ids, Edges, EdgeLengths, via, a, b, n, r, s)
  BY <1>1, <1>2, <1>4, <1>6, <1>7, <1>9, Zenon DEF Walk, Simple
<1> QED
  BY <1>10, <1>11, Zenon DEF WorldRoute, HasRoute

RouteLengths(via, a, b) == {LengthBy(EdgeLengths, r) : r \in RoutesVia(via, a, b)}

\* And every walk is listed.
LEMMA WalkIsRoute ==
  ASSUME WorldAssumption, GraphOK, NEW via, NEW a \in Ids, NEW b \in Ids, via \subseteq Ids,
         NEW len, WorldRoute(via, a, b, len)
  PROVE  len \in Nat /\ len \in RouteLengths(via, a, b)
<1>1. PICK n, r, s : Walk(Ids, Edges, EdgeLengths, via, a, b, n, r, s) /\ s[n] = len
  BY Zenon DEF WorldRoute, HasRoute
<1>2. /\ n \in Nat \ {0} /\ r \in [1 .. n -> Ids] /\ r[1] = a /\ r[n] = b
      /\ \A p \in 2 .. n - 1 : r[p] \in via
      /\ \A p \in 1 .. n - 1 : <<r[p], r[p + 1]>> \in Edges
      /\ \A p, q \in 1 .. n : r[p] = r[q] => p = q
      /\ Hops(HopsOf(EdgeLengths, n, r), n, s)
  BY <1>1, Zenon DEF Walk, Simple
<1>3. r \in [1 .. n -> 0 .. MaxId]
  BY <1>2 DEF GraphOK
<1>4. n \in 1 .. (MaxId + 1) /\ Len(r) = n
  BY <1>2, <1>3, RouteBound DEF WorldAssumption
<1>5. LengthBy(EdgeLengths, r) = s[n]
  BY <1>2, <1>4, LengthOfWay
<1>6. ASSUME NEW p \in 1 .. n - 1 PROVE are_connected(r[p], r[p + 1])
  BY <1>2 DEF Edges
<1>7. r \in Routes
  <2> DEFINE Of(m) == {q \in [1 .. m -> 0 .. MaxId] : \A i, j \in 1 .. m : q[i] = q[j] => i = j}
  <2>1. r \in Of(n)
    BY <1>2, <1>3, Zenon
  <2>2. Routes = UNION {Of(m) : m \in 1 .. (MaxId + 1)}
    BY Zenon DEF Routes
  <2> HIDE DEF Of
  <2> QED
    BY <1>4, <2>1, <2>2
<1>8. r \in RoutesVia(via, a, b)
  BY <1>2, <1>4, <1>6, <1>7, Zenon DEF RoutesVia
<1>9. s[n] \in Nat
  BY <1>2 DEF Hops
<1> QED
  BY <1>1, <1>5, <1>8, <1>9, Zenon DEF RouteLengths

\* ShortestVia() is the length of a route, or DBL_MAX, and no route is shorter.
LEMMA ShortestFacts ==
  ASSUME WorldAssumption, GraphOK, NEW via, NEW a \in Ids, NEW b \in Ids, via \subseteq Ids
  PROVE  /\ ShortestVia(via, a, b) \in Nat /\ ShortestVia(via, a, b) <= DBL_MAX
         /\ ShortestVia(via, a, b) # DBL_MAX => WorldRoute(via, a, b, ShortestVia(via, a, b))
         /\ \A len : WorldRoute(via, a, b, len) => ShortestVia(via, a, b) <= len
<1> DEFINE L == RouteLengths(via, a, b)
<1>1. ASSUME NEW len \in L PROVE WorldRoute(via, a, b, len) /\ len \in Nat
  <2>1. PICK r \in RoutesVia(via, a, b) : len = LengthBy(EdgeLengths, r)
    BY <1>1, Zenon DEF RouteLengths
  <2>2. WorldRoute(via, a, b, len)
    BY <2>1, RouteIsWalk, Zenon
  <2>3. len \in Nat
    BY <2>2, WalkIsRoute, Zenon
  <2> QED
    BY <2>2, <2>3
<1>2. ASSUME NEW len, WorldRoute(via, a, b, len) PROVE len \in L
  BY <1>2, WalkIsRoute, Zenon
<1>3. ShortestVia(via, a, b) = Min({DBL_MAX} \cup L)
  BY Zenon DEF ShortestVia, RouteLengths
<1> HIDE DEF L
<1>4. {DBL_MAX} \cup L \in SUBSET Nat /\ {DBL_MAX} \cup L # {}
  BY <1>1 DEF WorldAssumption
<1>5. Min({DBL_MAX} \cup L) \in {DBL_MAX} \cup L /\ \A x \in {DBL_MAX} \cup L : Min({DBL_MAX} \cup L) <= x
  BY <1>4, MinNatural
<1>6. ShortestVia(via, a, b) \in {DBL_MAX} \cup L /\ \A x \in {DBL_MAX} \cup L : ShortestVia(via, a, b) <= x
  BY <1>3, <1>5, Zenon
<1> HIDE DEF ShortestVia
<1> QED
  BY <1>1, <1>2, <1>4, <1>6

\* What the values of two of the fields can be.
GoodField(f, v) ==
  /\ f = "type" => v \in {"via", "station", "endpoint"}
  /\ f = "translation" => v \in Places
  /\ f = "id" => v \in Int /\ v <= MaxId

GoodNode(node) ==
  /\ DOMAIN node \subseteq Fields \cup {"type"}
  /\ \A f \in DOMAIN node : GoodField(f, node[f])

GoodAst ==
  /\ IsFiniteSet(Ids)
  /\ \A id \in Ids : /\ GoodNode(ast[id]) /\ DOMAIN ast[id] = Fields \cup {"type"}
                     /\ ast[id].id = id

ParserInv ==
  /\ file \in WorldFiles
  /\ pos \in 1 .. (Len(file) + 1) /\ robots \in 0 .. (pos - 1)
  /\ parse \in {"top", "waypoint", "parsed", "malformed", "invalid_argument"}
  /\ GoodNode(waypoint)
  /\ parse = "waypoint" => "type" \in DOMAIN waypoint
  /\ GoodAst

\* A world file is a finite sequence.
LEMMA FileFacts ==
  ASSUME WorldAssumption, file \in WorldFiles
  PROVE  Len(file) \in Nat /\ DOMAIN file = 1 .. Len(file)
BY DEF WorldAssumption

\* The parser starts with an empty map.
LEMMA ParserInitially == ASSUME WorldAssumption, Init PROVE ParserInv
<1>1. Len(file) \in Nat /\ file \in WorldFiles
  BY FileFacts DEF Init, ParserInit
<1>2. GoodNode(waypoint)
  BY DEF Init, ParserInit, NoWaypoint, GoodNode
<1>3. GoodAst
  <2>1. Ids = {}
    BY DEF Init, ParserInit, Ids
  <2> QED
    BY <2>1, FS_EmptySet DEF GoodAst
<1> QED
  BY <1>1, <1>2, <1>3 DEF ParserInv, Init, ParserInit

\* The value of a field that can be read is a good one.
LEMMA ReadValue ==
  ASSUME WorldAssumption, ParserInv, AtWord(Fields), Readable(file[pos])
  PROVE  file[pos].word \in Fields /\ GoodField(file[pos].word, Value(file[pos]))
<1>1. pos \in DOMAIN file /\ file[pos].word \in Fields /\ file \in WorldFiles
  BY FileFacts DEF ParserInv, AtWord
<1>2. ASSUME file[pos].word = "translation" PROVE Value(file[pos]) \in Places
  <2> DEFINE At(f) == {f[p].value : p \in {q \in DOMAIN f : f[q].word = "translation" /\ Readable(f[q])}}
  <2>1. file[pos].value \in At(file)
    BY <1>1, <1>2
  <2>2. Places = UNION {At(f) : f \in WorldFiles}
    BY Zenon DEF Places
  <2>3. Value(file[pos]) = file[pos].value
    BY <1>2 DEF Value
  <2> HIDE DEF At
  <2> QED
    BY <1>1, <2>1, <2>2, <2>3
<1>3. ASSUME file[pos].word = "id" PROVE Value(file[pos]) \in Int /\ Value(file[pos]) <= MaxId
  <2>1. Value(file[pos]) = file[pos].value[1]
    BY <1>3 DEF Value
  <2>2. file[pos].value[1] \in Int /\ file[pos].value[1] <= MaxId
    BY <1>1, <1>3, Zenon DEF WorldAssumption
  <2> QED
    BY <2>1, <2>2, Zenon
<1>4. file[pos].word # "type"
  BY <1>1 DEF Fields
<1> QED
  BY <1>1, <1>2, <1>3, <1>4, Zenon DEF GoodField

\* So is a node with one field more.
LEMMA NodeWithField ==
  ASSUME NEW node, GoodNode(node), NEW f \in Fields, NEW v, GoodField(f, v),
         NEW read, read = Assign(node, f, v)
  PROVE  /\ GoodNode(read) /\ DOMAIN read = {f} \cup DOMAIN node
<1>1. DOMAIN read = {f} \cup DOMAIN node
  BY Zenon DEF Assign
<1>2. \A g \in DOMAIN read : read[g] = IF g = f THEN v ELSE node[g]
  BY Zenon DEF Assign
<1>3. \A g \in DOMAIN read : GoodField(g, read[g])
  BY <1>1, <1>2, Zenon DEF GoodNode
<1> QED
  BY <1>1, <1>3 DEF GoodNode

\* And the map with one more such node.
LEMMA AstWithNode ==
  ASSUME GoodAst, NEW node, GoodNode(node), DOMAIN node = Fields \cup {"type"},
         ast' = Insert(ast, node.id, node)
  PROVE  GoodAst'
<1>1. DOMAIN ast' = Ids \cup {node.id}
  BY Zenon DEF Insert, Ids
<1>2. \A id \in DOMAIN ast' : ast'[id] = IF id \in Ids THEN ast[id] ELSE node
  BY Zenon DEF Insert, Ids
<1>3. IsFiniteSet(Ids \cup {node.id})
  BY FS_AddElement DEF GoodAst
<1>4. ASSUME NEW id \in Ids'
      PROVE  GoodNode(ast'[id]) /\ DOMAIN ast'[id] = Fields \cup {"type"} /\ ast'[id].id = id
  <2>1. id \in DOMAIN ast'
    BY DEF Ids
  <2>2. CASE id \in Ids
    BY <1>2, <2>1, <2>2, Zenon DEF GoodAst
  <2>3. CASE id \notin Ids
    <3>1. ast'[id] = node /\ id = node.id
      BY <1>1, <1>2, <2>1, <2>3, Zenon
    <3> QED
      BY <3>1, Zenon
  <2> QED
    BY <2>2, <2>3, Zenon
<1> QED
  BY <1>1, <1>3, <1>4 DEF GoodAst, Ids, GoodNode, GoodField

\* A map that is not touched stays good.
LEMMA GoodAstStays == ASSUME GoodAst, UNCHANGED ast PROVE GoodAst'
BY DEF GoodAst, Ids, GoodNode, GoodField

\* Each action of parse_stream() and parse_waypoint() keeps the parser's invariant.
LEMMA ParserStep == ASSUME WorldAssumption, ParserInv, ParserNext PROVE ParserInv'
<1>1. Len(file) \in Nat /\ DOMAIN file = 1 .. Len(file)
  BY FileFacts DEF ParserInv
<1>2. CASE BeginWaypoint
  <2>1. GoodNode([type |-> waypointType(file[pos].word)])
    <3>1. waypointType(file[pos].word) \in {"via", "station", "endpoint"}
      BY <1>2 DEF BeginWaypoint, AtWord, NodeWords, waypointType
    <3> QED
      BY <3>1 DEF GoodNode, GoodField
  <2>2. GoodNode(waypoint)' /\ ("type" \in DOMAIN waypoint)'
    BY <1>2, <2>1 DEF BeginWaypoint, GoodNode, GoodField
  <2>3. GoodAst'
    BY <1>2, GoodAstStays DEF BeginWaypoint, ParserInv
  <2> QED
    BY <1>1, <1>2, <2>2, <2>3 DEF BeginWaypoint, ParserInv, AtWord
<1>3. CASE CountRobot
  <2>1. GoodAst'
    BY <1>3, GoodAstStays DEF CountRobot, ParserInv
  <2>2. GoodNode(waypoint)'
    BY <1>3 DEF CountRobot, ParserInv, GoodNode, GoodField
  <2> QED
    BY <1>1, <1>3, <2>1, <2>2 DEF CountRobot, ParserInv, AtWord
<1>4. CASE SkipWord
  <2>1. GoodAst'
    BY <1>4, GoodAstStays DEF SkipWord, ParserInv
  <2>2. GoodNode(waypoint)'
    BY <1>4 DEF SkipWord, ParserInv, GoodNode, GoodField
  <2> QED
    BY <1>1, <1>4, <2>1, <2>2 DEF SkipWord, ParserInv
<1>5. CASE ReadField
  <2> DEFINE w == file[pos].word   v == Value(file[pos])
  <2>1. w \in Fields /\ GoodField(w, v)
    BY <1>5, ReadValue DEF ReadField
  <2>2. PICK read : read = Assign(waypoint, w, v)
    OBVIOUS
  <2> HIDE DEF w, v
  <2>3. GoodNode(read) /\ DOMAIN read = {w} \cup DOMAIN waypoint
    BY <2>1, <2>2, NodeWithField, Zenon DEF ParserInv
  <2>4. "type" \in DOMAIN waypoint
    BY <1>5 DEF ReadField, ParserInv
  <2>5. pos' = pos + 1 /\ file' = file /\ robots' = robots /\ pos <= Len(file)
    BY <1>5 DEF ReadField, AtWord
  <2>6. CASE Fields \subseteq DOMAIN read
    <3>1. ast' = Insert(ast, read.id, read) /\ waypoint' = NoWaypoint /\ parse' = "top"
      BY <1>5, <2>2, <2>6, Zenon DEF ReadField, w, v
    <3>2. DOMAIN read = Fields \cup {"type"}
      BY <2>3, <2>4, <2>6 DEF GoodNode
    <3>3. GoodAst'
      BY <2>3, <3>1, <3>2, AstWithNode, Zenon DEF ParserInv
    <3>4. GoodNode(waypoint)'
      BY <3>1 DEF GoodNode, NoWaypoint
    <3> QED
      BY <1>1, <2>5, <3>1, <3>3, <3>4 DEF ParserInv
  <2>7. CASE ~ (Fields \subseteq DOMAIN read)
    <3>1. waypoint' = read /\ UNCHANGED <<ast, parse>>
      BY <1>5, <2>2, <2>7, Zenon DEF ReadField, w, v
    <3>2. GoodAst'
      BY <3>1, GoodAstStays DEF ParserInv
    <3>3. GoodNode(waypoint)' /\ ("type" \in DOMAIN waypoint)'
      BY <2>3, <2>4, <3>1 DEF GoodNode, GoodField
    <3> QED
      BY <1>1, <2>5, <3>1, <3>2, <3>3 DEF ParserInv
  <2> QED
    BY <2>6, <2>7
<1>6. CASE ReadGarbage
  <2>1. GoodAst'
    BY <1>6, GoodAstStays DEF ReadGarbage, ParserInv
  <2>2. GoodNode(waypoint)'
    BY <1>6 DEF ReadGarbage, ParserInv, GoodNode, GoodField
  <2> QED
    BY <1>1, <1>6, <2>1, <2>2 DEF ReadGarbage, ParserInv, AtWord
<1>7. CASE EndOfStream
  <2>1. GoodAst'
    BY <1>7, GoodAstStays DEF EndOfStream, ParserInv
  <2>2. GoodNode(waypoint)'
    BY <1>7 DEF EndOfStream, ParserInv, GoodNode, GoodField
  <2> QED
    BY <1>1, <1>7, <2>1, <2>2 DEF EndOfStream, ParserInv
<1> QED
  BY <1>2, <1>3, <1>4, <1>5, <1>6, <1>7 DEF ParserNext

\* So does everything that leaves the parser alone.
LEMMA ParserStays ==
  ASSUME ParserInv, UNCHANGED <<file, pos, waypoint, ast, robots, parse>> PROVE ParserInv'
<1>1. GoodAst'
  BY GoodAstStays DEF ParserInv
<1>2. GoodNode(waypoint)'
  BY DEF ParserInv, GoodNode, GoodField
<1> QED
  BY <1>1, <1>2 DEF ParserInv

Loop == {"relax", "stations", "done"}

StageInv ==
  /\ stage \in {"parse", "matrix", "edges", "relax", "stations", "done", "failed"}
  /\ stage # "parse" => parse = "parsed"
  /\ stage \in {"parse", "matrix", "edges"} => at = <<0, 0, 0>>
  /\ stage \in {"matrix", "edges"} \cup Loop => Ids # {}
  /\ stage \in {"edges"} \cup Loop => Ids = Rows
  /\ stage \in Loop => /\ dist \in [Ids -> [Ids -> 0 .. DBL_MAX]]
                       /\ next \in [Ids -> [Ids -> Ids \cup {-1}]]
  /\ stage = "relax" => at \in Ids \X Ids \X Ids
  /\ stage \in {"stations", "done"} => at = <<Cardinality(Ids), 0, 0>>

\* Waypoints are finitely many; their ids are bounded and their positions are positions of a file.
LEMMA IdsFacts ==
  ASSUME ParserInv
  PROVE  /\ IsFiniteSet(Ids) /\ Cardinality(Ids) \in Nat
         /\ \A id \in Ids : id \in Int /\ id <= MaxId /\ ast[id].translation \in Places
<1>1. GoodAst
  BY Zenon DEF ParserInv
<1>2. IsFiniteSet(Ids) /\ Cardinality(Ids) \in Nat
  BY <1>1, FS_CardinalityType DEF GoodAst
<1>3. ASSUME NEW id \in Ids PROVE id \in Int /\ id <= MaxId /\ ast[id].translation \in Places
  <2>1. /\ ast[id].id = id
        /\ DOMAIN ast[id] = Fields \cup {"type"}
        /\ \A f \in DOMAIN ast[id] : GoodField(f, ast[id][f])
    BY <1>1, Zenon DEF GoodAst, GoodNode
  <2>2. "id" \in DOMAIN ast[id] /\ "translation" \in DOMAIN ast[id]
    BY <2>1 DEF Fields
  <2>3. GoodField("id", ast[id].id) /\ GoodField("translation", ast[id].translation)
    BY <2>1, <2>2, Zenon
  <2> QED
    BY <2>1, <2>3, Zenon DEF GoodField
<1> QED
  BY <1>2, <1>3, Zenon

\* The ids are the rows of the matrices, from 0 on.
LEMMA RowsFacts ==
  ASSUME WorldAssumption, ParserInv, StageInv, stage \in {"edges"} \cup Loop
  PROVE  /\ Cardinality(Ids) \in Nat \ {0} /\ Ids = 0 .. (Cardinality(Ids) - 1)
         /\ Ids \subseteq Nat /\ Ids \subseteq 0 .. MaxId
<1>1. Cardinality(Ids) \in Nat /\ \A id \in Ids : id \in Int /\ id <= MaxId
  BY IdsFacts
<1>2. Ids = 0 .. (Cardinality(Ids) - 1) /\ Ids # {}
  BY DEF StageInv, Rows, Loop
<1>3. PICK n \in Nat : n = Cardinality(Ids)
  BY <1>1
<1>4. Ids = 0 .. (n - 1)
  BY <1>2, <1>3, Zenon
<1>5. n # 0 /\ Ids \subseteq Nat
  BY <1>2, <1>4
<1>6. MaxId \in Nat
  BY DEF WorldAssumption
<1>7. Ids \subseteq 0 .. MaxId
  BY <1>1, <1>5, <1>6
<1> QED
  BY <1>2, <1>3, <1>5, <1>7

\* Edges have lengths, below DBL_MAX.
LEMMA LengthFacts ==
  ASSUME WorldAssumption, ParserInv
  PROVE  /\ EdgeLengths \in [Ids -> [Ids -> Nat]]
         /\ \A a, b \in Ids : /\ EdgeLengths[a][b] = euclidean_distance(ast[a], ast[b])
                              /\ EdgeLengths[a][b] \in Nat /\ EdgeLengths[a][b] < DBL_MAX
<1>1. ASSUME NEW a \in Ids, NEW b \in Ids
      PROVE  euclidean_distance(ast[a], ast[b]) \in Nat /\ euclidean_distance(ast[a], ast[b]) < DBL_MAX
  <2>1. ast[a].translation \in Places /\ ast[b].translation \in Places
    BY IdsFacts
  <2>2. Distance[ast[a].translation][ast[b].translation] \in 0 .. (DBL_MAX - 1) /\ DBL_MAX \in Nat
    BY <2>1, Zenon DEF WorldAssumption
  <2>3. \E d : d = euclidean_distance(ast[a], ast[b])
    OBVIOUS
  <2>4. PICK d : d = euclidean_distance(ast[a], ast[b])
    BY <2>3
  <2>5. d \in 0 .. (DBL_MAX - 1) /\ DBL_MAX \in Nat
    BY <2>2, <2>4, Zenon DEF euclidean_distance
  <2>6. d \in Nat /\ d < DBL_MAX
    BY <2>5
  <2> QED
    BY <2>4, <2>6, Zenon
<1>2. \A a, b \in Ids : EdgeLengths[a][b] = euclidean_distance(ast[a], ast[b])
  BY Zenon DEF EdgeLengths
<1>3. EdgeLengths \in [Ids -> [Ids -> Nat]]
  BY <1>1 DEF EdgeLengths
<1> QED
  BY <1>1, <1>2, <1>3, Zenon

\* What the facts about routes need of the waypoints and their distances.
LEMMA GraphFacts ==
  ASSUME WorldAssumption, ParserInv, StageInv, stage \in {"edges"} \cup Loop
  PROVE  GraphOK
BY RowsFacts, LengthFacts DEF GraphOK

-----------------------------------------------------------------------------
(* The loop counters.                                                        *)

Earlier(c, a, b) == a < c[2] \/ (a = c[2] /\ b < c[3])
Round(c, a, b) == IF Earlier(c, a, b) THEN c[1] ELSE c[1] - 1

Turn(n, c, x, y, z) ==
  /\ Following(c) = <<x, y, z>>
  /\ x \in {c[1], c[1] + 1} /\ y \in 0 .. (n - 1) /\ z \in 0 .. (n - 1)
  /\ x = n => y = 0 /\ z = 0
  /\ \A a, b \in 0 .. (n - 1) :
       Round(<<x, y, z>>, a, b) = (IF a = c[2] /\ b = c[3] THEN c[1] ELSE Round(c, a, b))

\* Each turn adds its pair to those of the round, and after the last pair comes the next
\* round or the end.
LEMMA FollowingFacts ==
  ASSUME NEW n \in Nat \ {0}, n = Cardinality(Ids),
         NEW k \in 0 .. (n - 1), NEW i \in 0 .. (n - 1), NEW j \in 0 .. (n - 1),
         NEW c, c = <<k, i, j>>
  PROVE  \E x, y, z : Turn(n, c, x, y, z)
<1>1. c[1] = k /\ c[2] = i /\ c[3] = j
  OBVIOUS
<1>2. CASE j + 1 < n
  <2>1. Following(c) = <<k, i, j + 1>>
    BY <1>1, <1>2 DEF Following
  <2>2. j + 1 \in 0 .. (n - 1) /\ k # n
    BY <1>2
  <2>3. \A a, b \in 0 .. (n - 1) :
          Round(<<k, i, j + 1>>, a, b) = (IF a = c[2] /\ b = c[3] THEN c[1] ELSE Round(c, a, b))
    BY <1>1 DEF Round, Earlier
  <2>4. k \in {c[1], c[1] + 1} /\ i \in 0 .. (n - 1)
    BY <1>1
  <2>5. Turn(n, c, k, i, j + 1)
    BY <2>1, <2>2, <2>3, <2>4, Zenon DEF Turn
  <2> QED
    BY <2>5, Zenon
<1>3. CASE j + 1 = n /\ i + 1 < n
  <2>1. Following(c) = <<k, i + 1, 0>>
    BY <1>1, <1>3 DEF Following
  <2>2. i + 1 \in 0 .. (n - 1) /\ 0 \in 0 .. (n - 1) /\ k # n /\ k \in {c[1], c[1] + 1}
    BY <1>1, <1>3
  <2>3. \A a, b \in 0 .. (n - 1) :
          Round(<<k, i + 1, 0>>, a, b) = (IF a = c[2] /\ b = c[3] THEN c[1] ELSE Round(c, a, b))
    BY <1>1, <1>3 DEF Round, Earlier
  <2>4. Turn(n, c, k, i + 1, 0)
    BY <2>1, <2>2, <2>3, Zenon DEF Turn
  <2> QED
    BY <2>4, Zenon
<1>4. CASE j + 1 = n /\ i + 1 = n
  <2>1. Following(c) = <<k + 1, 0, 0>>
    BY <1>1, <1>4 DEF Following
  <2>2. 0 \in 0 .. (n - 1) /\ k + 1 \in {c[1], c[1] + 1}
    BY <1>1
  <2>3. \A a, b \in 0 .. (n - 1) :
          Round(<<k + 1, 0, 0>>, a, b) = (IF a = c[2] /\ b = c[3] THEN c[1] ELSE Round(c, a, b))
    BY <1>1, <1>4 DEF Round, Earlier
  <2>4. Turn(n, c, k + 1, 0, 0)
    BY <2>1, <2>2, <2>3, Zenon DEF Turn
  <2> QED
    BY <2>4, Zenon
<1>5. j + 1 < n \/ (j + 1 = n /\ i + 1 < n) \/ (j + 1 = n /\ i + 1 = n)
  OBVIOUS
<1> QED
  BY <1>2, <1>3, <1>4, <1>5, Zenon

\* A route over some waypoints is one over more.
LEMMA RouteWidens ==
  ASSUME NEW V, NEW E, NEW m, NEW via, NEW wia, via \subseteq wia, NEW a, NEW b
  PROVE  /\ \A len : HasRoute(V, E, m, via, a, b, len) => HasRoute(V, E, m, wia, a, b, len)
         /\ \A snd, len : LeadsTo(V, E, m, via, a, b, snd, len) => LeadsTo(V, E, m, wia, a, b, snd, len)
<1>1. ASSUME NEW n, NEW r, NEW s, Walk(V, E, m, via, a, b, n, r, s) PROVE Walk(V, E, m, wia, a, b, n, r, s)
  <2>1. \A v \in via : v \in wia
    OBVIOUS
  <2> QED
    BY <1>1, <2>1, Zenon DEF Walk, Simple
<1>2. ASSUME NEW len, HasRoute(V, E, m, via, a, b, len) PROVE HasRoute(V, E, m, wia, a, b, len)
  BY <1>1, <1>2, Zenon DEF HasRoute
<1>3. ASSUME NEW snd, NEW len, LeadsTo(V, E, m, via, a, b, snd, len) PROVE LeadsTo(V, E, m, wia, a, b, snd, len)
  BY <1>1, <1>3, Zenon DEF LeadsTo
<1> QED
  BY <1>2, <1>3, Zenon

\* Staying where one is.
LEMMA RouteOfOne ==
  ASSUME NEW V, NEW E, NEW m, NEW via, NEW a \in V
  PROVE  HasRoute(V, E, m, via, a, a, 0)
<1>1. PICK r \in [1 .. 1 -> V] : r = [p \in 1 .. 1 |-> a]
  OBVIOUS
<1>2. PICK s \in [1 .. 1 -> Nat] : s = [p \in 1 .. 1 |-> 0]
  OBVIOUS
<1>3. r[1] = a /\ s[1] = 0 /\ 1 \in Nat \ {0} /\ 2 .. 1 = {} /\ 2 .. 1 - 1 = {} /\ 1 .. 1 - 1 = {}
  BY <1>1, <1>2
<1>4. \A p, q \in 1 .. 1 : p = q
  OBVIOUS
<1>5. Simple(V, E, via, a, a, 1, r)
  BY <1>1, <1>3, <1>4 DEF Simple
<1>6. Hops(HopsOf(m, 1, r), 1, s)
  BY <1>2, <1>3 DEF Hops
<1> QED
  BY <1>3, <1>5, <1>6, Zenon DEF HasRoute, Walk

\* An edge is a route.
LEMMA RouteOfEdge ==
  ASSUME NEW V, NEW E, NEW m \in [V -> [V -> Nat]], NEW via, NEW a \in V, NEW b \in V,
         a # b, <<a, b>> \in E
  PROVE  LeadsTo(V, E, m, via, a, b, b, m[a][b])
<1>1. PICK d \in Nat : d = m[a][b]
  OBVIOUS
<1>2. PICK r \in [1 .. 2 -> V] : r = [p \in 1 .. 2 |-> IF p = 1 THEN a ELSE b]
  OBVIOUS
<1>3. PICK s \in [1 .. 2 -> Nat] : s = [p \in 1 .. 2 |-> IF p = 1 THEN 0 ELSE d]
  OBVIOUS
<1>4. r[1] = a /\ r[2] = b /\ s[1] = 0 /\ s[2] = d /\ 2 \in Nat \ {0}
  BY <1>2, <1>3
<1>5. 2 .. 2 - 1 = {} /\ (\A p \in 1 .. 2 - 1 : p = 1 /\ p + 1 = 2) /\ (\A p \in 1 .. 2 : p = 1 \/ p = 2)
      /\ (\A p \in 2 .. 2 : p = 2) /\ 2 - 1 = 1 /\ 2 \in 1 .. 2 /\ 1 # 2
  OBVIOUS
<1>6. Simple(V, E, via, a, b, 2, r)
  <2>1. \A p \in 2 .. 2 - 1 : r[p] \in via
    BY <1>5
  <2>2. \A p \in 1 .. 2 - 1 : <<r[p], r[p + 1]>> \in E
    BY <1>4, <1>5, Zenon
  <2>3. \A p, q \in 1 .. 2 : r[p] = r[q] => p = q
    BY <1>4, <1>5, Zenon
  <2> QED
    BY <1>2, <1>4, <2>1, <2>2, <2>3, Zenon DEF Simple
<1>7. HopsOf(m, 2, r)[2] = m[r[1]][r[2]]
  BY <1>5, Zenon DEF HopsOf
<1>8. s[2] = s[1] + HopsOf(m, 2, r)[2]
  <2>1. HopsOf(m, 2, r)[2] = d
    BY <1>1, <1>4, <1>7, Zenon
  <2>2. 0 + d = d
    OBVIOUS
  <2> QED
    BY <1>4, <2>1, <2>2, Zenon
<1>9. \A p \in 2 .. 2 : s[p] = s[p - 1] + HopsOf(m, 2, r)[p]
  BY <1>5, <1>8, Zenon
<1>10. Hops(HopsOf(m, 2, r), 2, s)
  BY <1>3, <1>4, <1>9, Zenon DEF Hops
<1>11. d <= d /\ 2 >= 2
  OBVIOUS
<1> QED
  BY <1>1, <1>4, <1>6, <1>10, <1>11, Zenon DEF Walk, LeadsTo

\* A route that starts with a given hop is a route.
LEMMA LeadsToRoute ==
  ASSUME NEW V, NEW E, NEW m \in [V -> [V -> Nat]], NEW via, NEW a, NEW b, NEW snd, NEW x,
         LeadsTo(V, E, m, via, a, b, snd, x)
  PROVE  \E len \in Nat : HasRoute(V, E, m, via, a, b, len) /\ len <= x
<1>1. PICK n, r, s : Walk(V, E, m, via, a, b, n, r, s) /\ s[n] <= x
  BY Zenon DEF LeadsTo
<1>2. n \in Nat \ {0} /\ \A p \in 1 .. n : s[p] \in Nat
  BY <1>1, WalkLengths, Zenon
<1>3. n \in 1 .. n
  BY <1>2
<1> QED
  BY <1>1, <1>2, <1>3, Zenon DEF HasRoute

-----------------------------------------------------------------------------
(* What the matrices hold in each turn.                                      *)

Upto(V, k) == V \cap (0 .. k)

\* A distance is that of a route over the waypoints up to k, whose second place is in next.
Witnessed(V, E, m, d, nx, k, a, b) ==
  a # b /\ d[a][b] < DBL_MAX => LeadsTo(V, E, m, Upto(V, k), a, b, nx[a][b], d[a][b])

\* No route over the waypoints up to k is shorter than a distance.
Bounded(V, E, m, d, k, a, b) ==
  \A len : HasRoute(V, E, m, Upto(V, k), a, b, len) => d[a][b] <= len

Paths(V, E, m, d, nx, c) ==
  \A a, b \in V : /\ Witnessed(V, E, m, d, nx, c[1], a, b)
                  /\ Bounded(V, E, m, d, Round(c, a, b), a, b)
                  /\ nx[a][b] = -1 <=> d[a][b] = DBL_MAX

\* The initialisation: no waypoints yet but the ends of an edge.
Edged(V, E, m, d, nx) ==
  \A a, b \in V :
    /\ m[a][b] < DBL_MAX
    /\ d[a][b] = (IF a = b THEN 0 ELSE IF <<a, b>> \in E THEN m[a][b] ELSE DBL_MAX)
    /\ nx[a][b] = (IF a = b \/ <<a, b>> \in E THEN b ELSE -1)

EdgedAt(V, E, m, d, nx, via, a, b) ==
  /\ a # b /\ d[a][b] < DBL_MAX => LeadsTo(V, E, m, via, a, b, nx[a][b], d[a][b])
  /\ via = {} => \A len : HasRoute(V, E, m, via, a, b, len) => d[a][b] <= len
  /\ DBL_MAX > 0 => (nx[a][b] = -1 <=> d[a][b] = DBL_MAX)

\* The initialisation of one pair: its edge, or none.
LEMMA EdgedPair ==
  ASSUME NEW V, V \subseteq Nat, NEW E, NEW m \in [V -> [V -> Nat]], NEW d, NEW nx, NEW via, DBL_MAX \in Nat,
         Edged(V, E, m, d, nx), NEW a \in V, NEW b \in V
  PROVE  EdgedAt(V, E, m, d, nx, via, a, b)
<1>1. /\ d[a][b] = (IF a = b THEN 0 ELSE IF <<a, b>> \in E THEN m[a][b] ELSE DBL_MAX)
      /\ nx[a][b] = (IF a = b \/ <<a, b>> \in E THEN b ELSE -1)
      /\ m[a][b] < DBL_MAX
  BY Zenon DEF Edged
<1>2. PICK x \in Nat : x = m[a][b]
  OBVIOUS
<1>3. x < DBL_MAX /\ b \in Nat
  BY <1>1, <1>2
<1>4. ASSUME a # b, d[a][b] < DBL_MAX PROVE LeadsTo(V, E, m, via, a, b, nx[a][b], d[a][b])
  <2>1. ~ (DBL_MAX < DBL_MAX)
    OBVIOUS
  <2>2. <<a, b>> \in E
    BY <1>1, <1>4, <2>1, Zenon
  <2>3. d[a][b] = m[a][b] /\ nx[a][b] = b
    BY <1>1, <1>4, <2>2, Zenon
  <2>4. LeadsTo(V, E, m, via, a, b, b, m[a][b])
    BY <1>4, <2>2, RouteOfEdge, Zenon
  <2> QED
    BY <2>3, <2>4, Zenon
<1>5. ASSUME via = {}, NEW len, HasRoute(V, E, m, via, a, b, len) PROVE d[a][b] <= len
  <2>1. PICK o, r, s : Walk(V, E, m, via, a, b, o, r, s) /\ s[o] = len
    BY <1>5, Zenon DEF HasRoute
  <2>2. /\ o \in Nat \ {0} /\ WalkFacts(V, E, o, r) /\ r[1] = a /\ r[o] = b
        /\ \A p \in 2 .. o - 1 : r[p] \in via
        /\ Hops(HopsOf(m, o, r), o, s) /\ s[1] = 0
        /\ \A p \in 1 .. o : s[p] \in Nat /\ s[p] <= s[o]
    BY <2>1, WalkLengths, Zenon
  <2>3. ~ (2 \in 2 .. o - 1)
    BY <1>5, <2>2
  <2>4. o = 1 \/ o = 2
    BY <2>2, <2>3
  <2>5. CASE o = 1
    <3>1. a = b /\ len = 0
      BY <2>1, <2>2, <2>5, Zenon
    <3>2. d[a][b] = 0
      BY <1>1, <3>1, Zenon
    <3> QED
      BY <3>1, <3>2
  <2>6. CASE o = 2
    <3>1. 1 \in 1 .. 2 /\ 2 \in 1 .. 2 /\ 1 \in 1 .. 2 - 1 /\ 1 + 1 = 2 /\ 1 # 2 /\ 2 \in 2 .. 2 /\ 2 - 1 = 1
      OBVIOUS
    <3>2. r[1] # r[2] /\ <<r[1], r[2]>> \in E
      BY <2>2, <2>6, <3>1, Zenon DEF WalkFacts
    <3>3. s[2] = s[1] + HopsOf(m, 2, r)[2]
      BY <2>2, <2>6, <3>1, Zenon DEF Hops
    <3>4. HopsOf(m, 2, r)[2] = m[r[1]][r[2]]
      BY <3>1, Zenon DEF HopsOf
    <3>5. len = 0 + x /\ d[a][b] = x
      BY <1>1, <1>2, <2>1, <2>2, <2>6, <3>2, <3>3, <3>4, Zenon
    <3> QED
      BY <3>5
  <2> QED
    BY <2>4, <2>5, <2>6, Zenon
<1>6. ASSUME DBL_MAX > 0 PROVE nx[a][b] = -1 <=> d[a][b] = DBL_MAX
  <2>1. b # -1 /\ 0 # DBL_MAX /\ x # DBL_MAX
    BY <1>3, <1>6
  <2> QED
    BY <1>1, <1>2, <2>1, Zenon
<1> QED
  BY <1>4, <1>5, <1>6, Zenon DEF EdgedAt

\* The loops start with routes that pass no other waypoint.
LEMMA PathsInitially ==
  ASSUME NEW n \in Nat \ {0}, NEW V, V = 0 .. (n - 1), NEW E, NEW m \in [V -> [V -> Nat]],
         NEW d, NEW nx, DBL_MAX \in Nat, Edged(V, E, m, d, nx)
  PROVE  Paths(V, E, m, d, nx, <<0, 0, 0>>)
<1>1. V \subseteq Nat /\ 0 \in V
  OBVIOUS
<1>2. DBL_MAX > 0
  <2>1. m[0][0] < DBL_MAX
    BY <1>1, Zenon DEF Edged
  <2>2. m[0][0] \in Nat
    BY <1>1
  <2> QED
    BY <2>1, <2>2
<1>3. PICK none : none = Upto(V, -1)
  OBVIOUS
<1>4. PICK zero : zero = Upto(V, 0)
  OBVIOUS
<1>5. none = {}
  BY <1>3 DEF Upto
<1>6. ASSUME NEW a \in V, NEW b \in V
      PROVE  /\ Witnessed(V, E, m, d, nx, 0, a, b)
             /\ Bounded(V, E, m, d, -1, a, b)
             /\ nx[a][b] = -1 <=> d[a][b] = DBL_MAX
  <2>1. ASSUME NEW via
        PROVE  EdgedAt(V, E, m, d, nx, via, a, b)
    BY <1>1, EdgedPair, Zenon
  <2>2. a # b /\ d[a][b] < DBL_MAX => LeadsTo(V, E, m, zero, a, b, nx[a][b], d[a][b])
    BY <2>1, Zenon DEF EdgedAt
  <2>3. \A len : HasRoute(V, E, m, none, a, b, len) => d[a][b] <= len
    BY <1>5, <2>1, Zenon DEF EdgedAt
  <2>4. nx[a][b] = -1 <=> d[a][b] = DBL_MAX
    BY <1>2, <2>1, Zenon DEF EdgedAt
  <2>5. Witnessed(V, E, m, d, nx, 0, a, b)
    BY <1>4, <2>2, Zenon DEF Witnessed
  <2>6. Bounded(V, E, m, d, -1, a, b)
    BY <1>3, <2>3, Zenon DEF Bounded
  <2> QED
    BY <2>4, <2>5, <2>6, Zenon
<1>7. \A x, y \in V : Round(<<0, 0, 0>>, x, y) = -1
  <2>1. ASSUME NEW x \in V, NEW y \in V PROVE Round(<<0, 0, 0>>, x, y) = -1
    <3>1. ~ Earlier(<<0, 0, 0>>, x, y)
      BY <1>1 DEF Earlier
    <3> QED
      BY <3>1 DEF Round
  <2> QED
    BY <2>1, Zenon
<1>8. <<0, 0, 0>>[1] = 0
  OBVIOUS
<1> QED
  BY <1>6, <1>7, <1>8, Zenon DEF Paths

\* More waypoints are allowed in a later round,
LEMMA UptoGrows ==
  ASSUME NEW V, NEW k \in Int, NEW l \in Int, k <= l
  PROVE  Upto(V, k) \subseteq Upto(V, l)
BY DEF Upto

\* one more in each.
LEMMA UptoNext ==
  ASSUME NEW V, V \subseteq Nat, NEW k \in V
  PROVE  Upto(V, k) = Upto(V, k - 1) \cup {k} /\ k \in Upto(V, k)
BY DEF Upto

\* What no route of a round undercuts, none of an earlier round does.
LEMMA BoundedBefore ==
  ASSUME NEW V, NEW E, NEW m, NEW d, NEW k \in Int, NEW l \in Int, k <= l, NEW a, NEW b,
         Bounded(V, E, m, d, l, a, b)
  PROVE  Bounded(V, E, m, d, k, a, b)
<1>1. PICK via : via = Upto(V, k)
  OBVIOUS
<1>2. PICK wia : wia = Upto(V, l)
  OBVIOUS
<1>3. via \subseteq wia
  BY <1>1, <1>2, UptoGrows
<1>4. \A len : HasRoute(V, E, m, via, a, b, len) => HasRoute(V, E, m, wia, a, b, len)
  BY <1>3, RouteWidens, Zenon
<1> QED
  BY <1>1, <1>2, <1>4, Zenon DEF Bounded

\* A route of one round is one of a later round.
LEMMA WitnessedAfter ==
  ASSUME NEW V, NEW E, NEW m, NEW d, NEW nx, NEW k \in Int, NEW l \in Int, k <= l, NEW a, NEW b,
         Witnessed(V, E, m, d, nx, k, a, b)
  PROVE  Witnessed(V, E, m, d, nx, l, a, b)
<1>1. PICK via : via = Upto(V, k)
  OBVIOUS
<1>2. PICK wia : wia = Upto(V, l)
  OBVIOUS
<1>3. via \subseteq wia
  BY <1>1, <1>2, UptoGrows
<1>4. \A snd, len : LeadsTo(V, E, m, via, a, b, snd, len) => LeadsTo(V, E, m, wia, a, b, snd, len)
  BY <1>3, RouteWidens, Zenon
<1> QED
  BY <1>1, <1>2, <1>4, Zenon DEF Witnessed

\* No route is longer than this.
NoShorter(V, E, m, via, a, b, x) == \A len : HasRoute(V, E, m, via, a, b, len) => x <= len

\* Lengths of routes are natural numbers.
LEMMA RouteLength ==
  ASSUME NEW V, NEW E, NEW m \in [V -> [V -> Nat]], NEW via, NEW a, NEW b, NEW len,
         HasRoute(V, E, m, via, a, b, len)
  PROVE  len \in Nat
<1>1. PICK n, r, s : Walk(V, E, m, via, a, b, n, r, s) /\ s[n] = len
  BY Zenon DEF HasRoute
<1>2. /\ n \in Nat \ {0} /\ WalkFacts(V, E, n, r) /\ r[1] = a /\ r[n] = b
      /\ \A p \in 2 .. n - 1 : r[p] \in via
      /\ Hops(HopsOf(m, n, r), n, s) /\ s[1] = 0
      /\ \A p \in 1 .. n : s[p] \in Nat /\ s[p] <= s[n]
  BY <1>1, WalkLengths, Zenon
<1>3. n \in 1 .. n
  BY <1>2
<1> QED
  BY <1>1, <1>2, <1>3, Zenon

\* What no route that passes k can undercut.
LEMMA ShorterThrough ==
  ASSUME NEW V, NEW E, NEW m \in [V -> [V -> Nat]], NEW via, NEW a, NEW b, NEW k,
         DBL_MAX \in Nat,
         NEW x \in 0 .. DBL_MAX, NoShorter(V, E, m, via, a, b, x),
         NEW y \in 0 .. DBL_MAX, NoShorter(V, E, m, via, a, k, y),
         NEW z \in 0 .. DBL_MAX, NoShorter(V, E, m, via, k, b, z),
         NEW w \in 0 .. DBL_MAX, w <= x, w <= Plus(y, z)
  PROVE  NoShorter(V, E, m, via \cup {k}, a, b, w)
<1> SUFFICES ASSUME NEW len, HasRoute(V, E, m, via \cup {k}, a, b, len) PROVE w <= len
  BY Zenon DEF NoShorter
<1>1. len \in Nat
  BY RouteLength, Zenon
<1>2. CASE HasRoute(V, E, m, via, a, b, len)
  <2>1. x <= len
    BY <1>2, Zenon DEF NoShorter
  <2> QED
    BY <1>1, <2>1
<1>3. CASE \E f, g \in Nat : /\ HasRoute(V, E, m, via, a, k, f)
                             /\ HasRoute(V, E, m, via, k, b, g)
                             /\ f + g = len
  <2>1. PICK f \in Nat, g \in Nat : /\ HasRoute(V, E, m, via, a, k, f)
                                    /\ HasRoute(V, E, m, via, k, b, g)
                                    /\ f + g = len
    BY <1>3, Zenon
  <2>2. y <= f /\ z <= g
    BY <2>1, Zenon DEF NoShorter
  <2> QED
    BY <2>1, <2>2 DEF Plus
<1>4. \/ HasRoute(V, E, m, via, a, b, len)
      \/ \E f, g \in Nat : /\ HasRoute(V, E, m, via, a, k, f)
                           /\ HasRoute(V, E, m, via, k, b, g)
                           /\ f + g = len
  <2>1. Splits(V, E, m, via, k, a, b, len)
    BY RouteSplit, Zenon
  <2> QED
    BY <2>1, Zenon DEF Splits
<1> QED
  BY <1>2, <1>3, <1>4, Zenon

With(via, k, wia) == wia = via \cup {k}

\* Two routes that meet at k are one, if there was none that short without k.
LEMMA LeadsThrough ==
  ASSUME NEW V, NEW E, NEW m \in [V -> [V -> Nat]], NEW via, NEW wia, NEW k, With(via, k, wia),
         NEW a, NEW b, a # k,
         NEW snd, NEW y \in Nat, LeadsTo(V, E, m, wia, a, k, snd, y),
         NEW oth, NEW z \in Nat, LeadsTo(V, E, m, wia, k, b, oth, z),
         NEW x \in Nat, NoShorter(V, E, m, via, a, b, x), y + z < x
  PROVE  LeadsTo(V, E, m, wia, a, b, snd, y + z)
<1>1. PICK n, r, s : Walk(V, E, m, wia, a, k, n, r, s) /\ s[n] <= y /\ n >= 2 /\ r[2] = snd
  BY Zenon DEF LeadsTo
<1>2. PICK o, h, t : Walk(V, E, m, wia, k, b, o, h, t) /\ t[o] <= z /\ o >= 2
  BY Zenon DEF LeadsTo
<1>3. /\ o \in Nat \ {0} /\ WalkFacts(V, E, o, h) /\ h[1] = k /\ h[o] = b
      /\ \A p \in 2 .. o - 1 : h[p] \in wia
      /\ Hops(HopsOf(m, o, h), o, t) /\ t[1] = 0
      /\ \A p \in 1 .. o : t[p] \in Nat /\ t[p] <= t[o]
  BY <1>2, WalkLengths, Zenon
<1>4. /\ n \in Nat \ {0} /\ WalkFacts(V, E, n, r) /\ r[1] = a /\ r[n] = k
      /\ \A p \in 2 .. n - 1 : r[p] \in wia
      /\ Hops(HopsOf(m, n, r), n, s) /\ s[1] = 0
      /\ \A p \in 1 .. n : s[p] \in Nat /\ s[p] <= s[n]
  BY <1>1, WalkLengths, Zenon
<1>5. n \in 1 .. n /\ o \in 1 .. o
  BY <1>4, <1>3
<1>6. s[n] \in Nat /\ t[o] \in Nat
  BY <1>4, <1>3, <1>5, Zenon
<1>7. ASSUME NEW q \in 1 .. o, h[q] = a PROVE FALSE
  <2>1. q # 1
    BY <1>3, <1>7, Zenon
  <2>2. ASSUME NEW p \in q + 1 .. o - 1 PROVE h[p] \in via
    <3>1. p \in 2 .. o - 1 /\ p # 1 /\ p \in 1 .. o /\ 1 \in 1 .. o
      BY <1>3
    <3>2. h[p] # k /\ h[p] \in wia
      BY <1>3, <3>1, Zenon DEF WalkFacts
    <3> QED
      BY <3>2 DEF With
  <2>3. o \in q .. o
    BY <1>3
  <2>4. HasRoute(V, E, m, via, h[q], h[o], t[o] - t[q])
    BY <1>2, <2>2, <2>3, WalkPart, Zenon
  <2>5. x <= t[o] - t[q]
    BY <1>3, <1>7, <2>4, Zenon DEF NoShorter
  <2>6. t[q] \in Nat
    BY <1>3, Zenon
  <2> QED
    BY <1>2, <1>6, <2>5, <2>6
<1>8. k \in wia
  BY DEF With
<1>9. PICK l, v, u : /\ Walk(V, E, m, wia, a, b, l, v, u) /\ u[l] <= s[n] + t[o]
                     /\ (\A j \in 1 .. o : h[j] # a) => l >= 2 /\ v[2] = r[2]
  <2>1. Joins(V, E, m, wia, a, b, s[n] + t[o], o, h, r[2])
    BY <1>1, <1>2, <1>8, RouteJoin, Zenon
  <2> QED
    BY <2>1, Zenon DEF Joins
<1>10. l >= 2 /\ v[2] = snd
  BY <1>1, <1>7, <1>9, Zenon
<1>11. u[l] \in Nat
  <2>1. /\ l \in Nat \ {0} /\ WalkFacts(V, E, l, v) /\ v[1] = a /\ v[l] = b
        /\ \A p \in 2 .. l - 1 : v[p] \in wia
        /\ Hops(HopsOf(m, l, v), l, u) /\ u[1] = 0
        /\ \A p \in 1 .. l : u[p] \in Nat /\ u[p] <= u[l]
    BY <1>9, WalkLengths, Zenon
  <2>2. l \in 1 .. l
    BY <2>1
  <2> QED
    BY <2>1, <2>2, Zenon
<1>12. u[l] <= y + z
  BY <1>1, <1>2, <1>6, <1>9, <1>11
<1> QED
  BY <1>9, <1>10, <1>12, Zenon DEF LeadsTo

Table(V, m, d) ==
  V \subseteq Nat /\ m \in [V -> [V -> Nat]] /\ DBL_MAX \in Nat /\ d \in [V -> [V -> 0 .. DBL_MAX]]

\* The pairs of this round are bounded as the others are.
LEMMA RoundBounded ==
  ASSUME NEW V, NEW E, NEW m, NEW d, NEW nx, NEW c, Table(V, m, d), Paths(V, E, m, d, nx, c), c[1] \in V,
         NEW a \in V, NEW b \in V
  PROVE  Bounded(V, E, m, d, c[1] - 1, a, b)
<1>1. PICK k \in Nat : k = c[1]
  BY DEF Table
<1>2. PICK l \in Int : l = Round(c, a, b) /\ k - 1 <= l
  <2>1. Round(c, a, b) = c[1] \/ Round(c, a, b) = c[1] - 1
    BY Zenon DEF Round
  <2> QED
    BY <1>1, <2>1
<1>3. Bounded(V, E, m, d, l, a, b)
  BY <1>2, Zenon DEF Paths
<1>4. k - 1 \in Int
  OBVIOUS
<1>5. Bounded(V, E, m, d, k - 1, a, b)
  BY <1>2, <1>3, <1>4, BoundedBefore, Zenon
<1> QED
  BY <1>1, <1>5, Zenon

\* The distance of a waypoint to itself stays 0.
LEMMA Diagonal ==
  ASSUME NEW V, NEW E, NEW m, NEW d, Table(V, m, d), NEW k, NEW a \in V, Bounded(V, E, m, d, k, a, a)
  PROVE  d[a][a] = 0
<1>1. PICK via : via = Upto(V, k)
  OBVIOUS
<1>2. HasRoute(V, E, m, via, a, a, 0)
  BY RouteOfOne, Zenon
<1>3. d[a][a] <= 0
  BY <1>1, <1>2, Zenon DEF Bounded
<1>4. d[a][a] \in 0 .. DBL_MAX /\ DBL_MAX \in Nat
  BY DEF Table
<1> QED
  BY <1>3, <1>4

\* The shorter of the old distance and the way over k is bounded by the routes up to k.
LEMMA RelaxBounded ==
  ASSUME NEW V, NEW E, NEW m, NEW d, NEW nx, NEW c, Table(V, m, d), Paths(V, E, m, d, nx, c),
         NEW k \in V, k = c[1], NEW i \in V, NEW j \in V,
         NEW w \in 0 .. DBL_MAX, w <= d[i][j], w <= Plus(d[i][k], d[k][j])
  PROVE  NoShorter(V, E, m, Upto(V, k), i, j, w)
<1>1. PICK via : via = Upto(V, k - 1)
  OBVIOUS
<1>2. Upto(V, k) = via \cup {k}
  BY <1>1, UptoNext DEF Table
<1>3. ASSUME NEW a \in V, NEW b \in V
      PROVE  NoShorter(V, E, m, via, a, b, d[a][b]) /\ d[a][b] \in 0 .. DBL_MAX
  <2>1. Bounded(V, E, m, d, c[1] - 1, a, b)
    BY RoundBounded, Zenon
  <2>2. NoShorter(V, E, m, via, a, b, d[a][b])
    BY <1>1, <2>1, Zenon DEF Bounded, NoShorter
  <2> QED
    BY <2>2 DEF Table
<1>4. PICK x \in 0 .. DBL_MAX : x = d[i][j]
  BY <1>3, Zenon
<1>5. PICK y \in 0 .. DBL_MAX : y = d[i][k]
  BY <1>3, Zenon
<1>6. PICK z \in 0 .. DBL_MAX : z = d[k][j]
  BY <1>3, Zenon
<1>7. /\ NoShorter(V, E, m, via, i, j, x) /\ NoShorter(V, E, m, via, i, k, y)
      /\ NoShorter(V, E, m, via, k, j, z) /\ w <= x /\ w <= Plus(y, z)
  BY <1>3, <1>4, <1>5, <1>6, Zenon
<1>8. m \in [V -> [V -> Nat]] /\ DBL_MAX \in Nat
  BY DEF Table
<1>9. NoShorter(V, E, m, via \cup {k}, i, j, w)
  BY <1>7, <1>8, ShorterThrough, Zenon
<1> QED
  BY <1>2, <1>9, Zenon

\* A way over k that is shorter than the old distance is a route.
Improved(V, E, m, d, nx, k, i, j) ==
  /\ nx[i][k] # -1 /\ Plus(d[i][k], d[k][j]) < DBL_MAX
  /\ LeadsTo(V, E, m, Upto(V, k), i, j, nx[i][k], Plus(d[i][k], d[k][j]))

\* The way over k, if it is shorter, is that of a route without repetition.
LEMMA RelaxWitnessed ==
  ASSUME NEW V, NEW E, NEW m, NEW d, NEW nx, NEW c, Table(V, m, d), Paths(V, E, m, d, nx, c),
         NEW k \in V, k = c[1], NEW i \in V, NEW j \in V,
         Plus(d[i][k], d[k][j]) < d[i][j]
  PROVE  Improved(V, E, m, d, nx, k, i, j)
<1>1. PICK via : via = Upto(V, k - 1)
  OBVIOUS
<1>2. PICK wia : wia = Upto(V, k)
  OBVIOUS
<1>3. With(via, k, wia)
  BY <1>1, <1>2, UptoNext DEF Table, With
<1>4. m \in [V -> [V -> Nat]] /\ DBL_MAX \in Nat
  BY DEF Table
<1>5. \A a, b \in V : d[a][b] \in 0 .. DBL_MAX
  BY DEF Table
<1>6. PICK x \in 0 .. DBL_MAX : x = d[i][j]
  BY <1>5, Zenon
<1>7. PICK y \in 0 .. DBL_MAX : y = d[i][k]
  BY <1>5, Zenon
<1>8. PICK z \in 0 .. DBL_MAX : z = d[k][j]
  BY <1>5, Zenon
<1>9. Plus(y, z) < x
  BY <1>6, <1>7, <1>8, Zenon
<1>10. y < DBL_MAX /\ z < DBL_MAX /\ Plus(y, z) = y + z /\ x \in Nat /\ y \in Nat /\ z \in Nat
       /\ y + z < x /\ y + z < DBL_MAX
  BY <1>4, <1>9 DEF Plus
<1>11. d[k][k] = 0
  <2>1. PICK l : l = c[1] - 1
    OBVIOUS
  <2>2. Bounded(V, E, m, d, l, k, k)
    BY <2>1, RoundBounded, Zenon
  <2> QED
    BY <2>2, Diagonal
<1>12. i # k
  <2> SUFFICES ASSUME i = k PROVE FALSE
    OBVIOUS
  <2>1. y = 0 /\ z = x
    BY <1>6, <1>7, <1>8, <1>11, Zenon
  <2> QED
    BY <1>10, <2>1
<1>13. k # j
  <2> SUFFICES ASSUME k = j PROVE FALSE
    OBVIOUS
  <2>1. z = 0 /\ y = x
    BY <1>6, <1>7, <1>8, <1>11, Zenon
  <2> QED
    BY <1>10, <2>1
<1>14. LeadsTo(V, E, m, wia, i, k, nx[i][k], y)
  <2>1. Witnessed(V, E, m, d, nx, c[1], i, k)
    BY Zenon DEF Paths
  <2> QED
    BY <1>2, <1>7, <1>10, <1>12, <2>1, Zenon DEF Witnessed
<1>15. LeadsTo(V, E, m, wia, k, j, nx[k][j], z)
  <2>1. Witnessed(V, E, m, d, nx, c[1], k, j)
    BY Zenon DEF Paths
  <2> QED
    BY <1>2, <1>8, <1>10, <1>13, <2>1, Zenon DEF Witnessed
<1>16. NoShorter(V, E, m, via, i, j, x)
  <2>1. Bounded(V, E, m, d, c[1] - 1, i, j)
    BY RoundBounded, Zenon
  <2> QED
    BY <1>1, <1>6, <2>1, Zenon DEF Bounded, NoShorter
<1>17. LeadsTo(V, E, m, wia, i, j, nx[i][k], y + z)
  BY <1>3, <1>4, <1>10, <1>12, <1>14, <1>15, <1>16, LeadsThrough, Zenon
<1>18. nx[i][k] # -1
  <2>1. nx[i][k] = -1 <=> d[i][k] = DBL_MAX
    BY Zenon DEF Paths
  <2>2. y # DBL_MAX
    BY <1>10
  <2> QED
    BY <1>7, <2>1, <2>2, Zenon
<1> QED
  BY <1>2, <1>7, <1>8, <1>10, <1>17, <1>18, Zenon DEF Improved

\* What one turn of the innermost loop does.
Relaxed(V, d, nx, k, i, j, e, ny) ==
  \A a, b \in V :
    IF a = i /\ b = j /\ Plus(d[i][k], d[k][j]) < d[i][j]
    THEN e[a][b] = Plus(d[i][k], d[k][j]) /\ ny[a][b] = nx[i][k]
    ELSE e[a][b] = d[a][b] /\ ny[a][b] = nx[a][b]

\* A pair that does not change.
SamePair(d, nx, e, ny, a, b) == e[a][b] = d[a][b] /\ ny[a][b] = nx[a][b]

PairOK(V, E, m, d, nx, k, l, a, b) ==
  /\ Witnessed(V, E, m, d, nx, k, a, b)
  /\ Bounded(V, E, m, d, l, a, b)
  /\ nx[a][b] = -1 <=> d[a][b] = DBL_MAX

\* A pair that does not change stays right.
LEMMA SamePairOK ==
  ASSUME NEW V, NEW E, NEW m, NEW d, NEW nx, NEW e, NEW ny, NEW k, NEW l, NEW a, NEW b,
         PairOK(V, E, m, d, nx, k, l, a, b), SamePair(d, nx, e, ny, a, b)
  PROVE  PairOK(V, E, m, e, ny, k, l, a, b)
<1>1. Witnessed(V, E, m, e, ny, k, a, b)
  BY Zenon DEF Witnessed, PairOK, SamePair
<1>2. Bounded(V, E, m, e, l, a, b)
  BY Zenon DEF Bounded, PairOK, SamePair
<1> QED
  BY <1>1, <1>2, Zenon DEF PairOK, SamePair

\* The pair of the turn, whether it changes or not.
LEMMA RelaxedPair ==
  ASSUME NEW V, NEW E, NEW m, NEW d, NEW nx, NEW c, Table(V, m, d), Paths(V, E, m, d, nx, c),
         NEW k \in V, k = c[1], NEW i \in V, NEW j \in V,
         NEW e, NEW ny, Relaxed(V, d, nx, k, i, j, e, ny)
  PROVE  PairOK(V, E, m, e, ny, k, k, i, j)
<1>1. DBL_MAX \in Nat /\ \A a, b \in V : d[a][b] \in 0 .. DBL_MAX
  BY DEF Table
<1>2. PICK x \in 0 .. DBL_MAX : x = d[i][j]
  BY <1>1, Zenon
<1>3. PICK y \in 0 .. DBL_MAX : y = d[i][k]
  BY <1>1, Zenon
<1>4. PICK z \in 0 .. DBL_MAX : z = d[k][j]
  BY <1>1, Zenon
<1>5. CASE Plus(d[i][k], d[k][j]) < d[i][j]
  <2>1. e[i][j] = Plus(d[i][k], d[k][j]) /\ ny[i][j] = nx[i][k]
    BY <1>5, Zenon DEF Relaxed
  <2>2. Improved(V, E, m, d, nx, k, i, j)
    BY <1>5, RelaxWitnessed, Zenon
  <2>3. PICK w : w = Plus(d[i][k], d[k][j])
    OBVIOUS
  <2>4. w = Plus(y, z) /\ Plus(y, z) < x
    BY <1>2, <1>3, <1>4, <1>5, <2>3, Zenon
  <2>5. w \in 0 .. DBL_MAX /\ w <= x /\ w <= Plus(y, z) /\ w # DBL_MAX
    BY <1>1, <2>4 DEF Plus
  <2>6. w <= d[i][j] /\ w <= Plus(d[i][k], d[k][j])
    BY <1>2, <1>3, <1>4, <2>5, Zenon
  <2>7. NoShorter(V, E, m, Upto(V, k), i, j, w)
    BY <2>5, <2>6, RelaxBounded, Zenon
  <2>8. Bounded(V, E, m, e, k, i, j)
    BY <2>1, <2>3, <2>7, Zenon DEF Bounded, NoShorter
  <2>9. Witnessed(V, E, m, e, ny, k, i, j)
    BY <2>1, <2>2, Zenon DEF Witnessed, Improved
  <2> QED
    BY <2>1, <2>2, <2>3, <2>5, <2>8, <2>9, Zenon DEF PairOK, Improved
<1>6. CASE ~ (Plus(d[i][k], d[k][j]) < d[i][j])
  <2>1. e[i][j] = d[i][j] /\ ny[i][j] = nx[i][j]
    BY <1>6, Zenon DEF Relaxed
  <2>2. ~ (Plus(y, z) < x)
    BY <1>2, <1>3, <1>4, <1>6, Zenon
  <2>3. x <= x /\ x <= Plus(y, z)
    BY <1>1, <2>2 DEF Plus
  <2>4. x <= d[i][j] /\ x <= Plus(d[i][k], d[k][j])
    BY <1>2, <1>3, <1>4, <2>3, Zenon
  <2>5. NoShorter(V, E, m, Upto(V, k), i, j, x)
    BY <2>4, RelaxBounded, Zenon
  <2>6. Bounded(V, E, m, e, k, i, j)
    BY <1>2, <2>1, <2>5, Zenon DEF Bounded, NoShorter
  <2>7. Witnessed(V, E, m, d, nx, k, i, j) /\ (nx[i][j] = -1 <=> d[i][j] = DBL_MAX)
    BY Zenon DEF Paths
  <2>8. Witnessed(V, E, m, e, ny, k, i, j)
    BY <2>1, <2>7, Zenon DEF Witnessed
  <2> QED
    BY <2>1, <2>6, <2>7, <2>8, Zenon DEF PairOK
<1> QED
  BY <1>5, <1>6, Zenon

\* One turn keeps what the matrices hold.
LEMMA RelaxPaths ==
  ASSUME NEW n \in Nat \ {0}, NEW V, V = 0 .. (n - 1), NEW E, NEW m, NEW d, NEW nx, NEW c,
         Table(V, m, d), Paths(V, E, m, d, nx, c),
         NEW k \in V, NEW i \in V, NEW j \in V, c = <<k, i, j>>,
         NEW e, NEW ny, Relaxed(V, d, nx, k, i, j, e, ny),
         NEW x, NEW y, NEW z, Turn(n, c, x, y, z)
  PROVE  Paths(V, E, m, e, ny, <<x, y, z>>)
<1>1. c[1] = k /\ c[2] = i /\ c[3] = j
  OBVIOUS
<1>2. x \in {k, k + 1}
  BY <1>1 DEF Turn
<1>3. \A a, b \in V : Round(<<x, y, z>>, a, b) = (IF a = i /\ b = j THEN k ELSE Round(c, a, b))
  BY <1>1, Zenon DEF Turn
<1>4. ASSUME NEW a \in V, NEW b \in V
      PROVE  \E l : PairOK(V, E, m, e, ny, k, l, a, b) /\ l = Round(<<x, y, z>>, a, b)
  <2>1. CASE a = i /\ b = j
    <3>1. PairOK(V, E, m, e, ny, k, k, i, j)
      BY <1>1, RelaxedPair, Zenon
    <3>2. Round(<<x, y, z>>, a, b) = k
      BY <1>3, <2>1, Zenon
    <3> QED
      BY <2>1, <3>1, <3>2, Zenon
  <2>2. CASE ~ (a = i /\ b = j)
    <3>1. PICK l : l = Round(c, a, b)
      OBVIOUS
    <3>2. PairOK(V, E, m, d, nx, k, l, a, b)
      BY <1>1, <3>1, Zenon DEF Paths, PairOK
    <3>3. SamePair(d, nx, e, ny, a, b)
      BY <2>2, Zenon DEF Relaxed, SamePair
    <3>4. PairOK(V, E, m, e, ny, k, l, a, b)
      BY <3>2, <3>3, SamePairOK, Zenon
    <3>5. Round(<<x, y, z>>, a, b) = l
      BY <1>3, <2>2, <3>1, Zenon
    <3> QED
      BY <3>4, <3>5, Zenon
  <2> QED
    BY <2>1, <2>2, Zenon
<1>5. k \in Int /\ x \in Int /\ k <= x
  BY <1>2
<1>6. ASSUME NEW a \in V, NEW b \in V
      PROVE  /\ Witnessed(V, E, m, e, ny, x, a, b)
             /\ Bounded(V, E, m, e, Round(<<x, y, z>>, a, b), a, b)
             /\ ny[a][b] = -1 <=> e[a][b] = DBL_MAX
  <2>1. PICK l : PairOK(V, E, m, e, ny, k, l, a, b) /\ l = Round(<<x, y, z>>, a, b)
    BY <1>4, Zenon
  <2>2. Witnessed(V, E, m, e, ny, k, a, b)
    BY <2>1, Zenon DEF PairOK
  <2>3. Witnessed(V, E, m, e, ny, x, a, b)
    BY <1>5, <2>2, WitnessedAfter, Zenon
  <2> QED
    BY <2>1, <2>3, Zenon DEF PairOK
<1>7. <<x, y, z>>[1] = x
  OBVIOUS
<1> QED
  BY <1>6, <1>7, Zenon DEF Paths

PathsInv == stage \in Loop => Paths(Ids, Edges, EdgeLengths, dist, next, at)

\* Ids, edges and lengths depend on the map alone.
LEMMA SameAst ==
  ASSUME UNCHANGED ast
  PROVE  Ids' = Ids /\ Rows' = Rows /\ Edges' = Edges /\ EdgeLengths' = EdgeLengths
BY DEF Ids, Rows, Edges, EdgeLengths, are_connected, euclidean_distance

\* The initialisation of the matrices.
LEMMA EdgesSet ==
  ASSUME WorldAssumption, ParserInv, StageInv, SetEdges, stage' = "relax"
  PROVE  /\ Edged(Ids, Edges, EdgeLengths, dist', next')
         /\ dist' \in [Ids -> [Ids -> 0 .. DBL_MAX]]
         /\ next' \in [Ids -> [Ids -> Ids \cup {-1}]]
<1>1. /\ dist' = [a \in Ids |-> [b \in Ids |->
                     CASE a = b -> 0
                       [] a # b /\ are_connected(a, b) -> euclidean_distance(ast[a], ast[b])
                       [] OTHER -> DBL_MAX]]
      /\ next' = [a \in Ids |-> [b \in Ids |-> IF a = b \/ are_connected(a, b) THEN b ELSE -1]]
  BY Zenon DEF SetEdges
<1>2. \A a, b \in Ids : /\ EdgeLengths[a][b] = euclidean_distance(ast[a], ast[b])
                        /\ EdgeLengths[a][b] \in Nat /\ EdgeLengths[a][b] < DBL_MAX
  BY LengthFacts
<1>3. \A a, b \in Ids : are_connected(a, b) <=> <<a, b>> \in Edges
  BY DEF Edges
<1>4. ASSUME NEW a \in Ids, NEW b \in Ids
      PROVE  /\ dist'[a][b] = (IF a = b THEN 0 ELSE IF <<a, b>> \in Edges THEN EdgeLengths[a][b] ELSE DBL_MAX)
             /\ next'[a][b] = (IF a = b \/ <<a, b>> \in Edges THEN b ELSE -1)
  BY <1>1, <1>2, <1>3, Zenon
<1>5. Edged(Ids, Edges, EdgeLengths, dist', next')
  BY <1>2, <1>4, Zenon DEF Edged
<1>6. DBL_MAX \in Nat
  BY DEF WorldAssumption
<1>7. ASSUME NEW a \in Ids, NEW b \in Ids PROVE dist'[a][b] \in 0 .. DBL_MAX /\ next'[a][b] \in Ids \cup {-1}
  <2>1. PICK x \in Nat : x = EdgeLengths[a][b] /\ x < DBL_MAX
    BY <1>2
  <2>2. x \in 0 .. DBL_MAX /\ 0 \in 0 .. DBL_MAX /\ DBL_MAX \in 0 .. DBL_MAX
    BY <1>6, <2>1
  <2>3. dist'[a][b] \in 0 .. DBL_MAX
    BY <1>4, <2>1, <2>2, Zenon
  <2> QED
    BY <1>4, <2>3
<1> DEFINE D(a, b) == CASE a = b -> 0
                        [] a # b /\ are_connected(a, b) -> euclidean_distance(ast[a], ast[b])
                        [] OTHER -> DBL_MAX
           N(a, b) == IF a = b \/ are_connected(a, b) THEN b ELSE -1
<1>8. dist' = [a \in Ids |-> [b \in Ids |-> D(a, b)]] /\ next' = [a \in Ids |-> [b \in Ids |-> N(a, b)]]
  BY <1>1, Zenon
<1> HIDE DEF D, N
<1>9. \A a, b \in Ids : D(a, b) \in 0 .. DBL_MAX /\ N(a, b) \in Ids \cup {-1}
  BY <1>7, <1>8
<1>10. dist' \in [Ids -> [Ids -> 0 .. DBL_MAX]] /\ next' \in [Ids -> [Ids -> Ids \cup {-1}]]
  BY <1>8, <1>9
<1> QED
  BY <1>5, <1>10, Zenon

\* A turn of the loops: their counters, and what it does to the matrices.
LEMMA OneTurn ==
  ASSUME WorldAssumption, ParserInv, StageInv, Relax
  PROVE  /\ \E k, i, j \in Ids : \E x, y, z :
              /\ at = <<k, i, j>> /\ Turn(Cardinality(Ids), at, x, y, z) /\ at' = <<x, y, z>>
              /\ Relaxed(Ids, dist, next, k, i, j, dist', next')
         /\ dist' \in [Ids -> [Ids -> 0 .. DBL_MAX]]
         /\ next' \in [Ids -> [Ids -> Ids \cup {-1}]]
<1>1. stage = "relax" /\ stage \in Loop /\ stage \in {"edges"} \cup Loop
  BY DEF Relax, Loop
<1>2. PICK n \in Nat \ {0} : n = Cardinality(Ids) /\ Ids = 0 .. (n - 1)
  BY <1>1, RowsFacts
<1>3. dist \in [Ids -> [Ids -> 0 .. DBL_MAX]] /\ next \in [Ids -> [Ids -> Ids \cup {-1}]]
  BY <1>1, Zenon DEF StageInv
<1>4. at \in Ids \X Ids \X Ids
  BY <1>1, Zenon DEF StageInv
<1>5. PICK k \in Ids, i \in Ids, j \in Ids : at = <<k, i, j>>
  BY <1>4
<1>6. at[1] = k /\ at[2] = i /\ at[3] = j
  BY <1>5
<1>7. k \in 0 .. (n - 1) /\ i \in 0 .. (n - 1) /\ j \in 0 .. (n - 1)
  BY <1>2, Zenon
<1>8. PICK x, y, z : Turn(n, at, x, y, z)
  BY <1>2, <1>5, <1>7, FollowingFacts
<1>9. at' = <<x, y, z>>
  BY <1>8, Zenon DEF Relax, Turn
<1>10. PICK w : w = Plus(dist[i][k], dist[k][j])
  OBVIOUS
<1>11. \/ /\ w < dist[i][j]
          /\ dist' = [dist EXCEPT ![i][j] = w] /\ next' = [next EXCEPT ![i][j] = next[i][k]]
       \/ ~ (w < dist[i][j]) /\ dist' = dist /\ next' = next
  <2>1. DBL_MAX \in Nat
    BY DEF WorldAssumption
  <2>2. PICK u \in 0 .. DBL_MAX : u = dist[i][j]
    BY <1>3
  <2>3. PICK f \in 0 .. DBL_MAX, g \in 0 .. DBL_MAX : f = dist[i][k] /\ g = dist[k][j]
    BY <1>3
  <2>4. w = Plus(f, g)
    BY <1>10, <2>3, Zenon
  <2>5. w \in Nat
    BY <2>1, <2>4 DEF Plus
  <2>6. \/ u > w /\ dist' = [dist EXCEPT ![i][j] = w] /\ next' = [next EXCEPT ![i][j] = next[i][k]]
        \/ u <= w /\ dist' = dist /\ next' = next
    BY <1>6, <1>10, <2>2, Zenon DEF Relax
  <2>7. (u > w => w < u) /\ (u <= w => ~ (w < u))
    BY <2>5
  <2> QED
    BY <2>2, <2>6, <2>7, Zenon
<1>12. Relaxed(Ids, dist, next, k, i, j, dist', next')
  <2>1. \A a, b \in Ids :
          IF a = i /\ b = j /\ w < dist[i][j]
          THEN dist'[a][b] = w /\ next'[a][b] = next[i][k]
          ELSE dist'[a][b] = dist[a][b] /\ next'[a][b] = next[a][b]
    <3>1. CASE ~ (w < dist[i][j])
      BY <1>11, <3>1, Zenon
    <3>2. CASE w < dist[i][j]
      <4>1. dist' = [dist EXCEPT ![i][j] = w] /\ next' = [next EXCEPT ![i][j] = next[i][k]]
        BY <1>11, <3>2, Zenon
      <4>2. PICK o : o = next[i][k]
        OBVIOUS
      <4>3. \A a, b \in Ids : /\ dist'[a][b] = IF a = i /\ b = j THEN w ELSE dist[a][b]
                              /\ next'[a][b] = IF a = i /\ b = j THEN o ELSE next[a][b]
        BY <1>3, <4>1, <4>2
      <4> QED
        BY <3>2, <4>2, <4>3, Zenon
    <3> QED
      BY <3>1, <3>2
  <2> QED
    BY <1>10, <2>1, Zenon DEF Relaxed
<1>13. dist' \in [Ids -> [Ids -> 0 .. DBL_MAX]] /\ next' \in [Ids -> [Ids -> Ids \cup {-1}]]
  <2>1. CASE dist' = dist /\ next' = next
    BY <1>3, <2>1, Zenon
  <2>2. CASE /\ w < dist[i][j]
             /\ dist' = [dist EXCEPT ![i][j] = w] /\ next' = [next EXCEPT ![i][j] = next[i][k]]
    <3>1. DBL_MAX \in Nat
      BY DEF WorldAssumption
    <3>2. PICK f \in 0 .. DBL_MAX, g \in 0 .. DBL_MAX : f = dist[i][k] /\ g = dist[k][j]
      BY <1>3
    <3>3. w = Plus(f, g)
      BY <1>10, <3>2, Zenon
    <3>4. w \in 0 .. DBL_MAX
      <4>1. PICK u \in 0 .. DBL_MAX : u = dist[i][j]
        BY <1>3
      <4>2. w < u
        BY <2>2, <4>1, Zenon
      <4> QED
        BY <3>1, <3>3, <4>2 DEF Plus
    <3>5. next[i][k] \in Ids \cup {-1}
      BY <1>3
    <3> QED
      BY <1>3, <2>2, <3>4, <3>5
  <2> QED
    BY <1>11, <2>1, <2>2
<1> QED
  BY <1>2, <1>5, <1>8, <1>9, <1>12, <1>13, Zenon

IInv == ParserInv /\ StageInv /\ PathsInv

\* The invariant holds when the program starts.
LEMMA Initially == ASSUME WorldAssumption, Init PROVE IInv
<1>1. ParserInv
  BY ParserInitially
<1>2. StageInv
  BY DEF Init, StageInv, Loop
<1>3. PathsInv
  BY DEF Init, PathsInv, Loop
<1> QED
  BY <1>1, <1>2, <1>3, Zenon DEF IInv

\* Every step keeps the part of the parser.
LEMMA ParserInvStep == ASSUME WorldAssumption, ParserInv, [Next]_vars PROVE ParserInv'
<1>1. ParserNext \/ UNCHANGED <<file, pos, waypoint, ast, robots, parse>>
  BY Zenon DEF Next, Parse, Classify, AddWaypointMatrix, SetEdges, Relax, AddStationMatrix, Ended, vars
<1> QED
  BY <1>1, ParserStep, ParserStays

\* The steps outside the loops.
LEMMA StageStep ==
  ASSUME WorldAssumption, StageInv, ParserInv,
         Parse \/ Classify \/ AddWaypointMatrix \/ AddStationMatrix \/ Ended \/ UNCHANGED vars
  PROVE  StageInv'
<1>1. CASE Parse
  BY <1>1 DEF Parse, StageInv, Loop
<1>2. ASSUME UNCHANGED ast PROVE Ids' = Ids /\ Rows' = Rows
  BY <1>2, SameAst
<1>3. CASE Classify
  BY <1>2, <1>3 DEF Classify, StageInv, Loop
<1>4. CASE AddWaypointMatrix
  BY <1>2, <1>4 DEF AddWaypointMatrix, StageInv, Loop
<1>5. CASE AddStationMatrix
  BY <1>2, <1>5 DEF AddStationMatrix, StageInv, Loop
<1>6. CASE Ended \/ UNCHANGED vars
  BY <1>2, <1>6 DEF Ended, vars, StageInv, Loop
<1> QED
  BY <1>1, <1>3, <1>4, <1>5, <1>6

\* The initialisation of the loops, or the exception for an unknown neighbour.
LEMMA SetEdgesStep ==
  ASSUME WorldAssumption, ParserInv, StageInv, SetEdges
  PROVE  StageInv' /\ PathsInv'
<1>1. stage = "edges" /\ stage \in {"edges"} \cup Loop /\ stage' \in {"relax", "failed"}
  BY DEF SetEdges, Loop
<1>2. /\ Ids' = Ids /\ Rows' = Rows /\ Edges' = Edges /\ EdgeLengths' = EdgeLengths
      /\ parse' = parse /\ at' = at
  BY SameAst DEF SetEdges
<1>3. Ids # {} /\ Ids = Rows /\ at = <<0, 0, 0>> /\ parse = "parsed"
  BY <1>1 DEF StageInv
<1>4. CASE stage' = "failed"
  BY <1>1, <1>2, <1>3, <1>4 DEF StageInv, PathsInv, Loop
<1>5. CASE stage' = "relax"
  <2>1. /\ Edged(Ids, Edges, EdgeLengths, dist', next')
        /\ dist' \in [Ids -> [Ids -> 0 .. DBL_MAX]]
        /\ next' \in [Ids -> [Ids -> Ids \cup {-1}]]
    BY <1>5, EdgesSet, Zenon
  <2>2. PICK n \in Nat \ {0} : Ids = 0 .. (n - 1)
    BY <1>1, RowsFacts
  <2>3. EdgeLengths \in [Ids -> [Ids -> Nat]] /\ DBL_MAX \in Nat
    BY LengthFacts DEF WorldAssumption
  <2>4. Paths(Ids, Edges, EdgeLengths, dist', next', <<0, 0, 0>>)
    BY <2>1, <2>2, <2>3, PathsInitially
  <2>5. PathsInv'
    BY <1>2, <1>3, <2>4, Zenon DEF PathsInv
  <2>6. at' \in Ids \X Ids \X Ids
    BY <1>2, <1>3, <2>2
  <2>7. StageInv'
    BY <1>2, <1>3, <1>5, <2>1, <2>6 DEF StageInv, Loop
  <2> QED
    BY <2>5, <2>7
<1> QED
  BY <1>1, <1>4, <1>5

\* A turn of the loops, the last one too.
LEMMA RelaxStep ==
  ASSUME WorldAssumption, ParserInv, StageInv, PathsInv, Relax
  PROVE  StageInv' /\ PathsInv'
<1>1. stage = "relax" /\ stage \in Loop /\ stage \in {"edges"} \cup Loop
  BY DEF Relax, Loop
<1>2. /\ Ids' = Ids /\ Rows' = Rows /\ Edges' = Edges /\ EdgeLengths' = EdgeLengths /\ parse' = parse
  BY SameAst DEF Relax
<1>3. Ids # {} /\ Ids = Rows /\ parse = "parsed" /\ dist \in [Ids -> [Ids -> 0 .. DBL_MAX]]
  BY <1>1 DEF StageInv
<1>4. PICK n \in Nat \ {0} : n = Cardinality(Ids) /\ Ids = 0 .. (n - 1) /\ Ids \subseteq Nat
  BY <1>1, RowsFacts
<1>5. /\ \E k, i, j \in Ids : \E x, y, z :
           /\ at = <<k, i, j>> /\ Turn(Cardinality(Ids), at, x, y, z) /\ at' = <<x, y, z>>
           /\ Relaxed(Ids, dist, next, k, i, j, dist', next')
      /\ dist' \in [Ids -> [Ids -> 0 .. DBL_MAX]]
      /\ next' \in [Ids -> [Ids -> Ids \cup {-1}]]
  BY OneTurn, Zenon
<1>6. PICK k \in Ids, i \in Ids, j \in Ids : \E x, y, z :
        /\ at = <<k, i, j>> /\ Turn(Cardinality(Ids), at, x, y, z) /\ at' = <<x, y, z>>
        /\ Relaxed(Ids, dist, next, k, i, j, dist', next')
  BY <1>5, Zenon
<1>7. PICK x, y, z :
        /\ at = <<k, i, j>> /\ Turn(Cardinality(Ids), at, x, y, z) /\ at' = <<x, y, z>>
        /\ Relaxed(Ids, dist, next, k, i, j, dist', next')
  BY <1>6, Zenon
<1>8. Turn(n, at, x, y, z)
  BY <1>4, <1>7, Zenon
<1>9. Table(Ids, EdgeLengths, dist)
  <2>1. EdgeLengths \in [Ids -> [Ids -> Nat]] /\ DBL_MAX \in Nat
    BY LengthFacts DEF WorldAssumption
  <2> QED
    BY <1>3, <1>4, <2>1, Zenon DEF Table
<1>10. Paths(Ids, Edges, EdgeLengths, dist', next', <<x, y, z>>)
  <2>1. Paths(Ids, Edges, EdgeLengths, dist, next, at)
    BY <1>1, Zenon DEF PathsInv
  <2> QED
    BY <1>4, <1>7, <1>8, <1>9, <2>1, RelaxPaths
<1>11. PathsInv'
  BY <1>2, <1>7, <1>10, Zenon DEF PathsInv
<1>12. /\ x \in {k, k + 1} /\ y \in 0 .. (n - 1) /\ z \in 0 .. (n - 1)
       /\ x = n => y = 0 /\ z = 0
  <2>1. at[1] = k
    BY <1>7
  <2> QED
    BY <1>8, <2>1, Zenon DEF Turn
<1>13. stage' = IF n \in {x, y, z} THEN "stations" ELSE "relax"
  <2>1. at'[1] = x /\ at'[2] = y /\ at'[3] = z
    BY <1>7
  <2> QED
    BY <1>4, <2>1, Zenon DEF Relax
<1>14. CASE x = n
  <2>1. stage' = "stations" /\ at' = <<Cardinality(Ids), 0, 0>>
    BY <1>4, <1>7, <1>12, <1>13, <1>14
  <2> QED
    BY <1>2, <1>3, <1>5, <1>11, <2>1 DEF StageInv, Loop
<1>15. CASE x # n
  <2>1. k \in 0 .. (n - 1) /\ n \in Nat
    BY <1>4, Zenon
  <2>2. n \notin {x, y, z} /\ x \in 0 .. (n - 1)
    BY <1>12, <1>15, <2>1
  <2>3. n \notin {x, y, z} /\ x \in Ids /\ y \in Ids /\ z \in Ids
    BY <1>4, <1>12, <2>2, Zenon
  <2>4. stage' = "relax" /\ at' \in Ids \X Ids \X Ids
    BY <1>7, <1>13, <2>3
  <2> QED
    BY <1>2, <1>3, <1>5, <1>11, <2>4 DEF StageInv, Loop
<1> QED
  BY <1>14, <1>15

\* Every step of load_webots_to_config() keeps the invariant.
LEMMA Step == ASSUME WorldAssumption, IInv, [Next]_vars PROVE IInv'
<1>1. ParserInv /\ StageInv /\ PathsInv
  BY Zenon DEF IInv
<1>2. ParserInv'
  BY <1>1, ParserInvStep, Zenon
<1>3. CASE SetEdges
  BY <1>1, <1>2, <1>3, SetEdgesStep, Zenon DEF IInv
<1>4. CASE Relax
  BY <1>1, <1>2, <1>4, RelaxStep, Zenon DEF IInv
<1>5. CASE Parse \/ Classify \/ AddWaypointMatrix \/ AddStationMatrix \/ Ended \/ UNCHANGED vars
  <2>1. StageInv'
    BY <1>1, <1>5, StageStep, Zenon
  <2>2. PathsInv'
    <3>1. CASE AddStationMatrix \/ Ended \/ UNCHANGED vars
      <4>1. UNCHANGED <<ast, dist, next, at>> /\ (stage' \in Loop => stage \in Loop)
        BY <3>1 DEF AddStationMatrix, Ended, vars, Loop
      <4> QED
        BY <1>1, <4>1, SameAst, Zenon DEF PathsInv
    <3>2. CASE Parse \/ Classify \/ AddWaypointMatrix
      <4>1. stage' \notin Loop
        BY <3>2 DEF Parse, Classify, AddWaypointMatrix, Loop
      <4> QED
        BY <4>1, Zenon DEF PathsInv
    <3> QED
      BY <1>5, <3>1, <3>2, Zenon
  <2> QED
    BY <1>2, <2>1, <2>2, Zenon DEF IInv
<1> QED
  BY <1>3, <1>4, <1>5, Zenon DEF Next

\* In every turn the distances lie between the shortest routes of two rounds.
LEMMA ShortestHold == ASSUME WorldAssumption, IInv PROVE ShortestPaths
<1> SUFFICES ASSUME stage \in Loop, NEW a \in Ids, NEW b \in Ids
             PROVE  LET behind == a < at[2] \/ (a = at[2] /\ b < at[3])
                        through(k) == Ids \cap (0 .. k)
                    IN  /\ dist[a][b] >= ShortestVia(through(at[1]), a, b)
                        /\ dist[a][b] <= ShortestVia(through(IF behind THEN at[1] ELSE at[1] - 1), a, b)
  BY Zenon DEF ShortestPaths, Loop
<1>1. ParserInv /\ StageInv /\ PathsInv /\ stage \in {"edges"} \cup Loop
  BY DEF IInv
<1>2. GraphOK
  BY <1>1, GraphFacts
<1>3. EdgeLengths \in [Ids -> [Ids -> Nat]] /\ DBL_MAX \in Nat
  BY <1>2 DEF GraphOK, WorldAssumption
<1>4. Paths(Ids, Edges, EdgeLengths, dist, next, at)
  BY <1>1, Zenon DEF PathsInv
<1>5. dist[a][b] \in 0 .. DBL_MAX
  BY <1>1 DEF StageInv
<1>6. PICK x \in 0 .. DBL_MAX : x = dist[a][b]
  BY <1>5
<1>7. PICK via : via = Ids \cap (0 .. at[1])
  OBVIOUS
<1>8. PICK wia : wia = Ids \cap (0 .. Round(at, a, b))
  OBVIOUS
<1>9. via \subseteq Ids /\ wia \subseteq Ids
  BY <1>7, <1>8
<1>10. /\ ShortestVia(via, a, b) \in Nat /\ ShortestVia(via, a, b) <= DBL_MAX
       /\ ShortestVia(via, a, b) # DBL_MAX => WorldRoute(via, a, b, ShortestVia(via, a, b))
       /\ \A len : WorldRoute(via, a, b, len) => ShortestVia(via, a, b) <= len
  BY <1>2, <1>9, ShortestFacts
<1>11. /\ ShortestVia(wia, a, b) \in Nat /\ ShortestVia(wia, a, b) <= DBL_MAX
       /\ ShortestVia(wia, a, b) # DBL_MAX => WorldRoute(wia, a, b, ShortestVia(wia, a, b))
       /\ \A len : WorldRoute(wia, a, b, len) => ShortestVia(wia, a, b) <= len
  BY <1>2, <1>9, ShortestFacts
<1>12. PICK y \in Nat : y = ShortestVia(via, a, b)
  BY <1>10, Zenon
<1>13. PICK z \in Nat : z = ShortestVia(wia, a, b)
  BY <1>11, Zenon
<1>14. y <= x
  <2>1. CASE x = DBL_MAX
    <3>1. y <= DBL_MAX
      BY <1>10, <1>12, Zenon
    <3> QED
      BY <2>1, <3>1
  <2>2. CASE x # DBL_MAX /\ a # b
    <3>1. x < DBL_MAX
      BY <1>3, <2>2
    <3>2. Witnessed(Ids, Edges, EdgeLengths, dist, next, at[1], a, b)
      BY <1>4, Zenon DEF Paths
    <3>3. LeadsTo(Ids, Edges, EdgeLengths, via, a, b, next[a][b], x)
      BY <1>6, <1>7, <2>2, <3>1, <3>2, Zenon DEF Witnessed, Upto
    <3>4. PICK len \in Nat : HasRoute(Ids, Edges, EdgeLengths, via, a, b, len) /\ len <= x
      BY <1>3, <3>3, LeadsToRoute
    <3>5. y <= len
      BY <1>10, <1>12, <3>4, Zenon DEF WorldRoute
    <3> QED
      BY <3>4, <3>5
  <2>3. CASE a = b
    <3>1. HasRoute(Ids, Edges, EdgeLengths, via, a, a, 0)
      BY RouteOfOne, Zenon
    <3>2. y <= 0
      BY <1>10, <1>12, <2>3, <3>1, Zenon DEF WorldRoute
    <3> QED
      BY <1>3, <3>2
  <2> QED
    BY <2>1, <2>2, <2>3
<1>15. x <= z
  <2>1. CASE z = DBL_MAX
    BY <1>3, <2>1
  <2>2. CASE z # DBL_MAX
    <3>1. HasRoute(Ids, Edges, EdgeLengths, wia, a, b, z)
      BY <1>11, <1>13, <2>2, Zenon DEF WorldRoute
    <3>2. Bounded(Ids, Edges, EdgeLengths, dist, Round(at, a, b), a, b)
      BY <1>4, Zenon DEF Paths
    <3> QED
      BY <1>6, <1>8, <3>1, <3>2, Zenon DEF Bounded, Upto
  <2> QED
    BY <2>1, <2>2
<1>16. wia = Ids \cap (0 .. (IF a < at[2] \/ (a = at[2] /\ b < at[3]) THEN at[1] ELSE at[1] - 1))
  BY <1>8, Zenon DEF Round, Earlier
<1>17. x >= y
  BY <1>14, <1>3
<1> QED
  BY <1>6, <1>7, <1>12, <1>13, <1>15, <1>16, <1>17, Zenon

\* What the matrices hold after the last turn.
Final(V, E, m, d, nx) ==
  \A a, b \in V :
    /\ a # b /\ d[a][b] < DBL_MAX => LeadsTo(V, E, m, V, a, b, nx[a][b], d[a][b])
    /\ NoShorter(V, E, m, V, a, b, d[a][b])
    /\ nx[a][b] = -1 <=> d[a][b] = DBL_MAX

\* After the last turn no waypoint is forbidden any more.
LEMMA AfterLastTurn ==
  ASSUME NEW n \in Nat \ {0}, NEW V, V = 0 .. (n - 1), NEW E, NEW m, NEW d, NEW nx,
         Paths(V, E, m, d, nx, <<n, 0, 0>>)
  PROVE  Final(V, E, m, d, nx)
<1>1. Upto(V, n) = V /\ Upto(V, n - 1) = V
  BY DEF Upto
<1>2. <<n, 0, 0>>[1] = n
  OBVIOUS
<1>3. ASSUME NEW a \in V, NEW b \in V PROVE Round(<<n, 0, 0>>, a, b) = n - 1
  <2>1. ~ Earlier(<<n, 0, 0>>, a, b)
    BY DEF Earlier
  <2> QED
    BY <1>2, <2>1, Zenon DEF Round
<1>4. ASSUME NEW a \in V, NEW b \in V
      PROVE  /\ Witnessed(V, E, m, d, nx, n, a, b) /\ Bounded(V, E, m, d, n - 1, a, b)
             /\ nx[a][b] = -1 <=> d[a][b] = DBL_MAX
  BY <1>2, <1>3, Zenon DEF Paths
<1>5. ASSUME NEW a \in V, NEW b \in V
      PROVE  /\ a # b /\ d[a][b] < DBL_MAX => LeadsTo(V, E, m, V, a, b, nx[a][b], d[a][b])
             /\ NoShorter(V, E, m, V, a, b, d[a][b])
  <2>1. PICK up : up = Upto(V, n)
    OBVIOUS
  <2>2. PICK before : before = Upto(V, n - 1)
    OBVIOUS
  <2>3. a # b /\ d[a][b] < DBL_MAX => LeadsTo(V, E, m, up, a, b, nx[a][b], d[a][b])
    BY <1>4, <2>1, Zenon DEF Witnessed
  <2>4. NoShorter(V, E, m, before, a, b, d[a][b])
    BY <1>4, <2>2, Zenon DEF Bounded, NoShorter
  <2>5. up = V /\ before = V
    BY <1>1, <2>1, <2>2, Zenon
  <2> QED
    BY <2>3, <2>4, <2>5
<1> QED
  BY <1>4, <1>5, Zenon DEF Final

\* The distance over a neighbour is no shorter.
LEMMA Triangle ==
  ASSUME NEW V, NEW E, NEW m, NEW d, NEW nx, Table(V, m, d), Final(V, E, m, d, nx),
         NEW a \in V, NEW b \in V, NEW c \in V, a # c, <<a, c>> \in E, d[c][b] < DBL_MAX
  PROVE  d[a][b] <= m[a][c] + d[c][b]
<1>1. m \in [V -> [V -> Nat]] /\ DBL_MAX \in Nat /\ \A i, j \in V : d[i][j] \in 0 .. DBL_MAX
  BY DEF Table
<1>2. PICK x \in 0 .. DBL_MAX : x = d[a][b]
  BY <1>1, Zenon
<1>3. PICK y \in Nat : y = m[a][c]
  BY <1>1
<1>4. PICK z \in Nat : z = d[c][b]
  <2>1. PICK u \in 0 .. DBL_MAX : u = d[c][b]
    BY <1>1, Zenon
  <2>2. u \in Nat
    BY <1>1
  <2> QED
    BY <2>1, <2>2, Zenon
<1>5. LeadsTo(V, E, m, V, a, c, c, y)
  BY <1>1, <1>3, RouteOfEdge
<1>6. \A len : HasRoute(V, E, m, V, a, b, len) => x <= len
  BY <1>2, Zenon DEF Final, NoShorter
<1>7. CASE c = b
  <2>1. PICK len \in Nat : HasRoute(V, E, m, V, a, b, len) /\ len <= y
    BY <1>1, <1>5, <1>7, LeadsToRoute
  <2>2. x <= len
    BY <1>6, <2>1, Zenon
  <2>3. x <= y + z
    BY <1>4, <2>1, <2>2
  <2> QED
    BY <1>2, <1>3, <1>4, <2>3, Zenon
<1>8. CASE c # b
  <2>1. LeadsTo(V, E, m, V, c, b, nx[c][b], z)
    BY <1>4, <1>8, Zenon DEF Final
  <2>2. PICK n, r, s : Walk(V, E, m, V, a, c, n, r, s) /\ s[n] <= y
    BY <1>5, Zenon DEF LeadsTo
  <2>3. PICK o, h, t : Walk(V, E, m, V, c, b, o, h, t) /\ t[o] <= z
    BY <2>1, Zenon DEF LeadsTo
  <2>4. Joins(V, E, m, V, a, b, s[n] + t[o], o, h, r[2])
    BY <1>1, <2>2, <2>3, RouteJoin, Zenon
  <2>5. PICK l, v, u : Walk(V, E, m, V, a, b, l, v, u) /\ u[l] <= s[n] + t[o]
    BY <2>4, Zenon DEF Joins
  <2>6. s[n] \in Nat
    <3>1. HasRoute(V, E, m, V, a, c, s[n])
      BY <2>2, Zenon DEF HasRoute
    <3> QED
      BY <1>1, <3>1, RouteLength
  <2>7. t[o] \in Nat
    <3>1. HasRoute(V, E, m, V, c, b, t[o])
      BY <2>3, Zenon DEF HasRoute
    <3> QED
      BY <1>1, <3>1, RouteLength
  <2>8. HasRoute(V, E, m, V, a, b, u[l])
    BY <2>5, Zenon DEF HasRoute
  <2>9. u[l] \in Nat
    BY <1>1, <2>8, RouteLength
  <2>10. x <= u[l]
    BY <1>6, <2>8, Zenon
  <2>11. x <= y + z
    BY <2>2, <2>3, <2>5, <2>6, <2>7, <2>9, <2>10
  <2> QED
    BY <1>2, <1>3, <1>4, <2>11, Zenon
<1> QED
  BY <1>7, <1>8

\* One hop along next.
LEMMA NextHop ==
  ASSUME NEW V, NEW E, NEW m, NEW d, NEW nx, Table(V, m, d), Final(V, E, m, d, nx),
         NEW a \in V, NEW b \in V, a # b, nx[a][b] # -1
  PROVE  /\ nx[a][b] \in V /\ <<a, nx[a][b]>> \in E
         /\ d[a][b] = m[a][nx[a][b]] + d[nx[a][b]][b]
<1>1. m \in [V -> [V -> Nat]] /\ DBL_MAX \in Nat
  BY DEF Table
<1>2. \A i, j \in V : d[i][j] \in 0 .. DBL_MAX
  BY DEF Table
<1>3. PICK x \in 0 .. DBL_MAX : x = d[a][b]
  BY <1>2, Zenon
<1>4. x # DBL_MAX
  BY <1>3, Zenon DEF Final
<1>5. x < DBL_MAX /\ x \in Nat
  <2>1. DBL_MAX \in Nat /\ x \in 0 .. DBL_MAX /\ x # DBL_MAX
    BY <1>1, <1>4, Zenon
  <2> QED
    BY <2>1
<1>6. LeadsTo(V, E, m, V, a, b, nx[a][b], x)
  BY <1>3, <1>5, Zenon DEF Final
<1>7. PICK n, r, s : Walk(V, E, m, V, a, b, n, r, s) /\ s[n] <= x /\ n >= 2 /\ r[2] = nx[a][b]
  BY <1>6, Zenon DEF LeadsTo
<1>8. /\ n \in Nat \ {0} /\ WalkFacts(V, E, n, r) /\ r[1] = a /\ r[n] = b
      /\ \A p \in 2 .. n - 1 : r[p] \in V
      /\ Hops(HopsOf(m, n, r), n, s) /\ s[1] = 0
      /\ \A p \in 1 .. n : s[p] \in Nat /\ s[p] <= s[n]
  BY <1>1, <1>7, WalkLengths, Zenon
<1>9. /\ 1 \in 1 .. n - 1 /\ 1 + 1 = 2 /\ 1 \in 1 .. n /\ 2 \in 1 .. n /\ n \in 1 .. n /\ n \in 2 .. n
      /\ 2 \in 2 .. n /\ 2 - 1 = 1 /\ 2 # 1
  BY <1>7, <1>8
<1>10. PICK c \in V : c = r[2]
  <2>1. r \in [1 .. n -> V]
    BY <1>8, Zenon DEF WalkFacts
  <2> QED
    BY <1>9, <2>1
<1>11. <<a, c>> \in E /\ a # c
  <2>1. <<r[1], r[2]>> \in E /\ r[1] # r[2]
    BY <1>8, <1>9, Zenon DEF WalkFacts
  <2> QED
    BY <1>8, <1>10, <2>1, Zenon
<1>12. PICK y \in Nat : y = m[a][c]
  BY <1>1
<1>13. s[2] = 0 + y
  <2>1. s[2] = s[1] + HopsOf(m, n, r)[2]
    BY <1>8, <1>9, Zenon DEF Hops
  <2>2. HopsOf(m, n, r)[2] = m[r[1]][r[2]]
    BY <1>9, Zenon DEF HopsOf
  <2> QED
    BY <1>8, <1>10, <1>12, <2>1, <2>2, Zenon
<1>14. HasRoute(V, E, m, V, r[2], r[n], s[n] - s[2])
  <2>1. ASSUME NEW p \in 2 + 1 .. n - 1 PROVE r[p] \in V
    <3>1. p \in 2 .. n - 1
      BY <1>8
    <3> QED
      BY <1>8, <3>1, Zenon
  <2> QED
    BY <1>1, <1>7, <1>9, <2>1, WalkPart
<1>15. PICK z \in 0 .. DBL_MAX : z = d[c][b]
  BY <1>2, Zenon
<1>16. z <= s[n] - s[2]
  BY <1>8, <1>10, <1>14, <1>15, Zenon DEF Final, NoShorter
<1>17. s[n] \in Nat
  BY <1>8, <1>9, Zenon
<1>18. z < DBL_MAX /\ y + z <= x
  <2>1. PICK l \in Nat : l = s[n]
    BY <1>17
  <2>2. PICK f : f = s[2]
    OBVIOUS
  <2>3. l <= x /\ f = 0 + y /\ z <= l - f
    BY <1>7, <1>13, <1>16, <2>1, <2>2, Zenon
  <2>4. z \in Nat /\ y \in Nat /\ x \in Nat /\ x < DBL_MAX
    BY <1>1, <1>5
  <2> QED
    BY <1>1, <2>3, <2>4
<1>19. d[c][b] < DBL_MAX
  BY <1>15, <1>18, Zenon
<1>20. d[a][b] <= m[a][c] + d[c][b]
  BY <1>11, <1>19, Triangle
<1>21. x <= y + z
  BY <1>3, <1>12, <1>15, <1>20, Zenon
<1>22. x = y + z
  BY <1>1, <1>5, <1>18, <1>21
<1> QED
  BY <1>3, <1>7, <1>10, <1>11, <1>12, <1>15, <1>22, Zenon

\* Whoever follows next walks a shortest route.
LEMMA NextHolds == ASSUME WorldAssumption, IInv PROVE NextLeads
<1> SUFFICES ASSUME stage \in {"stations", "done"}, NEW a \in Ids, NEW b \in Ids
             PROVE  /\ next[a][b] = -1 <=> dist[a][b] = DBL_MAX
                    /\ a # b /\ next[a][b] # -1 =>
                         /\ are_connected(a, next[a][b])
                         /\ dist[a][b] = euclidean_distance(ast[a], ast[next[a][b]]) + dist[next[a][b]][b]
  BY Zenon DEF NextLeads
<1>1. ParserInv /\ StageInv /\ PathsInv /\ stage \in {"edges"} \cup Loop /\ stage \in Loop
  BY DEF IInv, Loop
<1>2. PICK n \in Nat \ {0} : n = Cardinality(Ids) /\ Ids = 0 .. (n - 1) /\ Ids \subseteq Nat
  BY <1>1, RowsFacts
<1>3. at = <<n, 0, 0>>
  BY <1>1, <1>2 DEF StageInv
<1>4. Paths(Ids, Edges, EdgeLengths, dist, next, <<n, 0, 0>>)
  BY <1>1, <1>3, Zenon DEF PathsInv
<1>5. Final(Ids, Edges, EdgeLengths, dist, next)
  BY <1>2, <1>4, AfterLastTurn
<1>6. Table(Ids, EdgeLengths, dist)
  <2>1. EdgeLengths \in [Ids -> [Ids -> Nat]] /\ DBL_MAX \in Nat
    BY <1>1, LengthFacts DEF WorldAssumption
  <2>2. dist \in [Ids -> [Ids -> 0 .. DBL_MAX]]
    BY <1>1, Zenon DEF StageInv
  <2> QED
    BY <1>2, <2>1, <2>2, Zenon DEF Table
<1>7. next[a][b] = -1 <=> dist[a][b] = DBL_MAX
  BY <1>5, Zenon DEF Final
<1>8. ASSUME a # b, next[a][b] # -1
      PROVE  /\ are_connected(a, next[a][b])
             /\ dist[a][b] = euclidean_distance(ast[a], ast[next[a][b]]) + dist[next[a][b]][b]
  <2>1. /\ next[a][b] \in Ids /\ <<a, next[a][b]>> \in Edges
        /\ dist[a][b] = EdgeLengths[a][next[a][b]] + dist[next[a][b]][b]
    BY <1>5, <1>6, <1>8, NextHop
  <2>2. PICK c \in Ids : c = next[a][b]
    BY <2>1, Zenon
  <2>3. are_connected(a, c)
    BY <2>1, <2>2 DEF Edges
  <2>4. EdgeLengths[a][c] = euclidean_distance(ast[a], ast[c])
    BY <1>1, LengthFacts
  <2> QED
    BY <2>1, <2>2, <2>3, <2>4, Zenon
<1> QED
  BY <1>7, <1>8, Zenon

(* all_pairs_shortest_path() is right about both of its results, in every   *)
(* turn of its loops and for every world: the distances are those of       *)
(* shortest routes, and next leads along one.                              *)
THEOREM FloydWarshallHolds == Spec => []FloydWarshall
<1>1. Init => IInv
  BY WorldAssumption, Initially
<1>2. IInv /\ [Next]_vars => IInv'
  BY WorldAssumption, Step
<1>3. IInv => FloydWarshall
  BY WorldAssumption, ShortestHold, NextHolds DEF FloydWarshall
<1> QED
  BY <1>1, <1>2, <1>3, PTL DEF Spec

(* What parse_stream() builds is a map of complete waypoints by their id,   *)
(* and the matrices have a row and a column for each of them.              *)
THEOREM TypesKept == Spec => []TypeOK
<1>1. Init => IInv
  BY WorldAssumption, Initially
<1>2. IInv /\ [Next]_vars => IInv'
  BY WorldAssumption, Step
<1>3. IInv => TypeOK
  <2> SUFFICES ASSUME IInv PROVE TypeOK
    OBVIOUS
  <2>1. ParserInv /\ StageInv
    BY Zenon DEF IInv
  <2>2. Len(file) \in Nat
    BY <2>1, FileFacts, WorldAssumption DEF ParserInv
  <2>3. pos \in 1 .. (Len(file) + 1) /\ robots \in 0 .. Len(file)
    BY <2>1, <2>2 DEF ParserInv
  <2>4. /\ \A id \in Ids : DOMAIN ast[id] = Fields \cup {"type"} /\ ast[id].id = id
        /\ DOMAIN waypoint \subseteq Fields \cup {"type"}
    BY <2>1, Zenon DEF ParserInv, GoodAst, GoodNode
  <2>5. ASSUME stage \in {"relax", "stations", "done"}
        PROVE  /\ dist \in [Ids -> [Ids -> 0 .. DBL_MAX]]
               /\ next \in [Ids -> [Ids -> Ids \cup {-1}]]
               /\ at \in (0 .. Cardinality(Ids)) \X Ids \X Ids
    <3>1. PICK n \in Nat \ {0} : n = Cardinality(Ids) /\ Ids = 0 .. (n - 1)
      BY <2>1, <2>5, RowsFacts, WorldAssumption DEF Loop
    <3>2. at \in Ids \X Ids \X Ids \/ at = <<n, 0, 0>>
      BY <2>1, <2>5, <3>1 DEF StageInv, Loop
    <3>3. Ids \subseteq 0 .. n /\ n \in 0 .. n /\ 0 \in Ids
      <4>1. 0 .. (n - 1) \subseteq 0 .. n /\ n \in 0 .. n /\ 0 \in 0 .. (n - 1)
        OBVIOUS
      <4> QED
        BY <3>1, <4>1, Zenon
    <3>4. at \in (0 .. n) \X Ids \X Ids
      <4>1. CASE at = <<n, 0, 0>>
        BY <3>3, <4>1
      <4>2. CASE at \in Ids \X Ids \X Ids
        <5>1. PICK k \in Ids, i \in Ids, j \in Ids : at = <<k, i, j>>
          BY <4>2
        <5>2. k \in 0 .. n
          BY <3>3, Zenon
        <5> QED
          BY <5>1, <5>2
      <4> QED
        BY <3>2, <4>1, <4>2
    <3> QED
      BY <2>1, <2>5, <3>1, <3>4, Zenon DEF StageInv, Loop
  <2>6. /\ parse \in {"top", "waypoint", "parsed", "malformed", "invalid_argument"}
        /\ stage \in {"parse", "matrix", "edges", "relax", "stations", "done", "failed"}
    BY <2>1, Zenon DEF ParserInv, StageInv
  <2> QED
    BY <2>3, <2>4, <2>5, <2>6, Zenon DEF TypeOK
<1> QED
  BY <1>1, <1>2, <1>3, PTL DEF Spec

\* What InOrder() lists: every element of a finite set of integers once, ascending.
LEMMA InOrderFacts ==
  ASSUME NEW P \in SUBSET Int, IsFiniteSet(P)
  PROVE  /\ InOrder(P) \in Seq(P) /\ InOrder(P) \in Seq(Int)
         /\ Cardinality(P) \in Nat /\ Len(InOrder(P)) = Cardinality(P)
         /\ DOMAIN InOrder(P) = 1 .. Cardinality(P)
         /\ \A p \in DOMAIN InOrder(P) : InOrder(P)[p] \in P
         /\ \A e \in P : \E p \in DOMAIN InOrder(P) : InOrder(P)[p] = e
         /\ \A p, q \in DOMAIN InOrder(P) : InOrder(P)[p] = InOrder(P)[q] => p = q
         /\ \A p, q \in DOMAIN InOrder(P) : p < q => InOrder(P)[p] < InOrder(P)[q]
         /\ \A p \in DOMAIN InOrder(P) : Cardinality({f \in P : f <= InOrder(P)[p]}) = p
<1> DEFINE n == Cardinality(P)
           R(e) == Cardinality({f \in P : f <= e})
<1>1. /\ n \in Nat
      /\ \A e \in P : R(e) \in 1 .. n
      /\ \A e, f \in P : e < f => R(e) < R(f)
      /\ \A k \in 1 .. n : \E e \in P : R(e) = k
  BY RanksOfSet, Zenon
<1>2. PICK s : s = InOrder(P)
  OBVIOUS
<1>3. s = [p \in 1 .. n |-> CHOOSE e \in P : R(e) = p]
  BY <1>2, Zenon DEF InOrder
<1> HIDE DEF R
<1>4. DOMAIN s = 1 .. n /\ \A p \in 1 .. n : s[p] = CHOOSE e \in P : R(e) = p
  BY <1>3, Zenon
<1>5. \A p \in 1 .. n : s[p] \in P /\ R(s[p]) = p
  BY <1>1, <1>4, Zenon
<1> HIDE DEF n
<1>6. s \in Seq(P) /\ s \in Seq(Int) /\ Len(s) = n
  <2>1. s = [p \in 1 .. n |-> s[p]]
    BY <1>3, <1>4
  <2> QED
    BY <1>1, <1>5, <2>1
<1>7. ASSUME NEW p \in 1 .. n, NEW q \in 1 .. n, s[p] = s[q] PROVE p = q
  BY <1>5, <1>7, Zenon
<1>8. ASSUME NEW p \in 1 .. n, NEW q \in 1 .. n, p < q PROVE s[p] < s[q]
  <2>1. PICK x, y : x = s[p] /\ y = s[q]
    OBVIOUS
  <2>2. x \in P /\ y \in P /\ R(x) = p /\ R(y) = q
    BY <1>5, <2>1, Zenon
  <2>3. x \in Int /\ y \in Int
    BY <2>2
  <2>4. x # y
    BY <1>8, <2>2
  <2>5. CASE y < x
    <3>1. R(y) < R(x)
      BY <1>1, <2>2, <2>5
    <3> QED
      BY <1>8, <2>2, <3>1
  <2>6. CASE x < y
    BY <2>1, <2>6
  <2> QED
    BY <2>3, <2>4, <2>5, <2>6
<1>9. ASSUME NEW e \in P PROVE \E p \in 1 .. n : s[p] = e
  <2>1. PICK p : p = R(e)
    OBVIOUS
  <2>2. p \in 1 .. n
    BY <1>1, <2>1, Zenon
  <2>3. s[p] \in P /\ R(s[p]) = R(e)
    BY <1>5, <2>1, <2>2, Zenon
  <2>4. \A x, y \in P : R(x) = R(y) => x = y
    <3> SUFFICES ASSUME NEW x \in P, NEW y \in P, x < y PROVE R(x) # R(y)
      OBVIOUS
    <3>1. R(x) < R(y) /\ R(x) \in 1 .. n /\ R(y) \in 1 .. n
      BY <1>1, Zenon
    <3> QED
      BY <3>1
  <2> QED
    BY <2>2, <2>3, <2>4, Zenon
<1> QED
  BY <1>1, <1>2, <1>4, <1>5, <1>6, <1>7, <1>8, <1>9, Zenon DEF n, R

\* The ids of a type.
IdsOf(t) == {id \in Ids : ast[id].type = t}

\* OfType() lists them.
LEMMA OfTypeFacts ==
  ASSUME ParserInv, NEW t
  PROVE  /\ IdsOf(t) \in SUBSET Int /\ IsFiniteSet(IdsOf(t))
         /\ OfType(t) = InOrder(IdsOf(t))
<1>1. IsFiniteSet(Ids) /\ \A id \in Ids : id \in Int
  BY IdsFacts, Zenon
<1>2. IdsOf(t) \in SUBSET Ids
  BY DEF IdsOf
<1>3. IsFiniteSet(IdsOf(t))
  BY <1>1, <1>2, FS_Subset
<1>4. IdsOf(t) \in SUBSET Int
  BY <1>1, <1>2
<1> QED
  BY <1>3, <1>4, Zenon DEF OfType, IdsOf

\* The keys that the functions of config_wrapper.cpp ask for.
Classified(c) ==
  /\ {"stations", "end_stations", "vias"} \subseteq DOMAIN c
  /\ c.stations = OfType("station")
  /\ c.end_stations = OfType("endpoint")
  /\ c.vias = OfType("via")

EdgeArray ==
  ToArray(InOrder(Ids), [a \in Ids |-> [b \in Ids |->
    IF are_connected(a, b) THEN euclidean_distance(ast[a], ast[b]) ELSE -Unit]])

WithKey(c, key, value) == key \in DOMAIN c /\ c[key] = value

ConfigInv ==
  /\ stage \in {"matrix", "edges"} \cup Loop => Classified(config)
  /\ stage \in {"edges"} \cup Loop => WithKey(config, "waypoint_distance_matrix", EdgeArray)
  /\ stage = "done" => WithKey(config, "station_distance_matrix", ToArray(OfType("station"), dist))

\* Setting a key of a JSON object leaves the others alone.
LEMMA AssignKeeps ==
  ASSUME NEW map, NEW key, NEW value
  PROVE  /\ WithKey(Assign(map, key, value), key, value)
         /\ \A k, v : WithKey(map, k, v) /\ k # key => WithKey(Assign(map, key, value), k, v)
BY Zenon DEF Assign, WithKey

\* The lists of a configuration, as keys with their values.
LEMMA ClassifiedAs ==
  ASSUME NEW c
  PROVE  Classified(c) <=> /\ WithKey(c, "stations", OfType("station"))
                           /\ WithKey(c, "end_stations", OfType("endpoint"))
                           /\ WithKey(c, "vias", OfType("via"))
BY Zenon DEF Classified, WithKey

\* What the configuration is compared with depends on the map alone.
LEMMA SameLists ==
  ASSUME UNCHANGED ast
  PROVE  (\A t : OfType(t)' = OfType(t)) /\ EdgeArray' = EdgeArray
<1>1. Ids' = Ids
  BY SameAst
<1>2. \A t : OfType(t)' = OfType(t)
  BY <1>1 DEF OfType, InOrder
<1>3. EdgeArray' = EdgeArray
  BY <1>1 DEF EdgeArray, ToArray, InOrder, are_connected, euclidean_distance
<1> QED
  BY <1>2, <1>3

\* Every step keeps what has been written to the configuration.
LEMMA ConfigStep ==
  ASSUME StageInv, ConfigInv, [Next]_vars
  PROVE  ConfigInv'
<1>1. CASE Parse
  BY <1>1 DEF Parse, ConfigInv, Loop
<1>2. ASSUME UNCHANGED ast
      PROVE  /\ OfType("station")' = OfType("station") /\ OfType("endpoint")' = OfType("endpoint")
             /\ OfType("via")' = OfType("via") /\ EdgeArray' = EdgeArray
  BY <1>2, SameLists
<1>3. CASE Classify
  <2>1. CASE stage' = "failed"
    BY <2>1 DEF ConfigInv, Loop
  <2>2. CASE stage' # "failed"
    <3>1. stage' = "matrix" /\ UNCHANGED ast
      BY <1>3, <2>2 DEF Classify
    <3>2. Classified(config)'
      <4>1. /\ {"stations", "end_stations", "vias"} \subseteq DOMAIN config'
            /\ config'.stations = OfType("station") /\ config'.end_stations = OfType("endpoint")
            /\ config'.vias = OfType("via")
        BY <1>3, <2>2 DEF Classify
      <4> QED
        BY <1>2, <3>1, <4>1, Zenon DEF Classified
    <3> QED
      BY <3>1, <3>2 DEF ConfigInv, Loop
  <2> QED
    BY <2>1, <2>2
<1>4. CASE AddWaypointMatrix
  <2>1. CASE stage' = "failed"
    BY <2>1 DEF ConfigInv, Loop
  <2>2. CASE stage' # "failed"
    <3>1. stage = "matrix" /\ stage' = "edges" /\ UNCHANGED ast
      BY <1>4, <2>2 DEF AddWaypointMatrix
    <3>2. config' = Assign(config, "waypoint_distance_matrix", EdgeArray)
      BY <1>4, <2>2 DEF AddWaypointMatrix, EdgeArray
    <3>3. Classified(config)
      BY <3>1 DEF ConfigInv
    <3>4. Classified(config') /\ WithKey(config', "waypoint_distance_matrix", EdgeArray)
      BY <3>2, <3>3, AssignKeeps, ClassifiedAs
    <3>5. Classified(config)' /\ WithKey(config, "waypoint_distance_matrix", EdgeArray)'
      BY <1>2, <3>1, <3>4, Zenon DEF Classified, WithKey
    <3> QED
      BY <3>1, <3>5 DEF ConfigInv, Loop
  <2> QED
    BY <2>1, <2>2
<1>5. CASE SetEdges \/ Relax
  <2>1. UNCHANGED <<ast, config>> /\ stage \in {"edges"} \cup Loop /\ stage' # "done"
    BY <1>5 DEF SetEdges, Relax, Loop
  <2>2. Classified(config) /\ WithKey(config, "waypoint_distance_matrix", EdgeArray)
    BY <2>1 DEF ConfigInv
  <2>3. Classified(config)' /\ WithKey(config, "waypoint_distance_matrix", EdgeArray)'
    BY <1>2, <2>1, <2>2, Zenon DEF Classified, WithKey
  <2> QED
    BY <2>1, <2>3, Zenon DEF ConfigInv
<1>6. CASE AddStationMatrix
  <2>1. stage \in Loop /\ stage' = "done" /\ UNCHANGED <<ast, dist>>
    BY <1>6 DEF AddStationMatrix, Loop
  <2>2. config' = Assign(Assign(config, "waypoints", ast),
                         "station_distance_matrix", ToArray(OfType("station"), dist))
    BY <1>6 DEF AddStationMatrix
  <2>3. Classified(config) /\ WithKey(config, "waypoint_distance_matrix", EdgeArray)
    BY <2>1 DEF ConfigInv
  <2>4. /\ Classified(Assign(config, "waypoints", ast))
        /\ WithKey(Assign(config, "waypoints", ast), "waypoint_distance_matrix", EdgeArray)
    BY <2>3, AssignKeeps, ClassifiedAs
  <2>5. /\ Classified(config') /\ WithKey(config', "waypoint_distance_matrix", EdgeArray)
        /\ WithKey(config', "station_distance_matrix", ToArray(OfType("station"), dist))
    BY <2>2, <2>4, AssignKeeps, ClassifiedAs
  <2>6. ToArray(OfType("station"), dist)' = ToArray(OfType("station"), dist)
    BY <1>2, <2>1 DEF ToArray
  <2>7. /\ Classified(config)' /\ WithKey(config, "waypoint_distance_matrix", EdgeArray)'
        /\ WithKey(config, "station_distance_matrix", ToArray(OfType("station"), dist))'
    BY <1>2, <2>1, <2>5, <2>6, Zenon DEF Classified, WithKey
  <2> QED
    BY <2>7, Zenon DEF ConfigInv
<1>7. CASE Ended \/ UNCHANGED vars
  <2>1. UNCHANGED <<ast, config, dist, stage>>
    BY <1>7 DEF Ended, vars
  <2>2. ToArray(OfType("station"), dist)' = ToArray(OfType("station"), dist)
    BY <1>2, <2>1 DEF ToArray
  <2>3. Classified(config)' = Classified(config)
    BY <1>2, <2>1 DEF Classified
  <2>4. EdgeArray' = EdgeArray
    BY <1>2, <2>1
  <2> QED
    BY <2>1, <2>2, <2>3, <2>4, Zenon DEF ConfigInv, WithKey
<1> QED
  BY <1>1, <1>3, <1>4, <1>5, <1>6, <1>7, Zenon DEF Next

\* The two lists of stations are numbered, whatever the world.
LEMMA ConfigNumbered == ASSUME ParserInv, Classified(config) PROVE Numbered(config)
<1>1. /\ config.stations = InOrder(IdsOf("station")) /\ config.end_stations = InOrder(IdsOf("endpoint"))
      /\ {"stations", "end_stations"} \subseteq DOMAIN config
  BY OfTypeFacts DEF Classified
<1>2. /\ IdsOf("station") \in SUBSET Int /\ IsFiniteSet(IdsOf("station"))
      /\ IdsOf("endpoint") \in SUBSET Int /\ IsFiniteSet(IdsOf("endpoint"))
  BY OfTypeFacts, Zenon
<1>3. PICK s, e : s = InOrder(IdsOf("station")) /\ e = InOrder(IdsOf("endpoint"))
  OBVIOUS
<1>4. /\ s \in Seq(Int) /\ \A p, q \in DOMAIN s : s[p] = s[q] => p = q
      /\ \A p \in DOMAIN s : s[p] \in IdsOf("station")
  BY <1>2, <1>3, InOrderFacts, Zenon
<1>5. /\ e \in Seq(Int) /\ \A p, q \in DOMAIN e : e[p] = e[q] => p = q
      /\ \A p \in DOMAIN e : e[p] \in IdsOf("endpoint")
  BY <1>2, <1>3, InOrderFacts, Zenon
<1>6. ASSUME NEW p \in DOMAIN s, NEW q \in DOMAIN e PROVE s[p] # e[q]
  <2>1. s[p] \in IdsOf("station") /\ e[q] \in IdsOf("endpoint")
    BY <1>4, <1>5, Zenon
  <2>2. ast[s[p]].type = "station" /\ ast[e[q]].type = "endpoint"
    BY <2>1 DEF IdsOf
  <2> QED
    BY <2>2
<1> QED
  BY <1>1, <1>3, <1>4, <1>5, <1>6, Zenon DEF Numbered, Has

\* Which waypoints the station numbers stand for.
LEMMA StationWaypoints ==
  ASSUME ParserInv, Classified(config)
  PROVE  /\ number_of_stations(config) \in Nat
         /\ number_of_end_stations(config) \in 0 .. number_of_stations(config)
         /\ DOMAIN combined_stations(config) = Stations
         /\ \A s \in Stations : WaypointOf(s) = combined_stations(config)[s]
         /\ \A s \in Stations : s <= number_of_end_stations(config) => WaypointOf(s) \in IdsOf("endpoint")
         /\ \A s \in Stations : s > number_of_end_stations(config) => WaypointOf(s) \in IdsOf("station")
         /\ \A id \in IdsOf("endpoint") \cup IdsOf("station") : \E s \in Stations : WaypointOf(s) = id
<1> DEFINE n == number_of_stations(config)   e == number_of_end_stations(config)
           cs == combined_stations(config)
           S == config.stations   E == config.end_stations
<1>1. Numbered(config)
  BY ConfigNumbered
<1>2. /\ cs \in Seq(Int) /\ Len(cs) = n /\ n \in Nat /\ e \in 0 .. n
      /\ \A s \in 1 .. n : cs[s] = IF s <= e THEN E[s] ELSE S[s - e]
  BY <1>1, CombinedStations
<1>3. DOMAIN E = 1 .. e /\ DOMAIN S = 1 .. (n - e)
  BY <1>1, Sizes
<1>4. S = InOrder(IdsOf("station")) /\ E = InOrder(IdsOf("endpoint"))
  BY OfTypeFacts DEF Classified
<1>5. /\ IdsOf("station") \in SUBSET Int /\ IsFiniteSet(IdsOf("station"))
      /\ IdsOf("endpoint") \in SUBSET Int /\ IsFiniteSet(IdsOf("endpoint"))
  BY OfTypeFacts, Zenon
<1>6. DOMAIN cs = 1 .. n
  BY <1>2
<1>7. \A s \in 1 .. n : WaypointOf(s) = cs[s]
  BY <1>1, <1>6 DEF WaypointOf, convert_to_waypoint_id, Numbered
<1> HIDE DEF n, e, cs, S, E
<1>8. /\ \A p \in DOMAIN S : S[p] \in IdsOf("station")
      /\ \A id \in IdsOf("station") : \E p \in DOMAIN S : S[p] = id
  BY <1>4, <1>5, InOrderFacts, Zenon
<1>9. /\ \A p \in DOMAIN E : E[p] \in IdsOf("endpoint")
      /\ \A id \in IdsOf("endpoint") : \E p \in DOMAIN E : E[p] = id
  BY <1>4, <1>5, InOrderFacts, Zenon
<1>10. ASSUME NEW s \in 1 .. n, s <= e PROVE WaypointOf(s) \in IdsOf("endpoint")
  <2>1. s \in DOMAIN E
    BY <1>2, <1>3, <1>10
  <2> QED
    BY <1>2, <1>7, <1>9, <1>10, <2>1, Zenon
<1>11. ASSUME NEW s \in 1 .. n, s > e PROVE WaypointOf(s) \in IdsOf("station")
  <2>1. s - e \in DOMAIN S /\ cs[s] = S[s - e]
    BY <1>2, <1>3, <1>11
  <2> QED
    BY <1>7, <1>8, <2>1, Zenon
<1>12. ASSUME NEW id \in IdsOf("endpoint") PROVE \E s \in 1 .. n : WaypointOf(s) = id
  <2>1. PICK p \in DOMAIN E : E[p] = id
    BY <1>9, <1>12, Zenon
  <2>2. p \in 1 .. n /\ p <= e
    BY <1>2, <1>3
  <2> QED
    BY <1>2, <1>7, <2>1, <2>2, Zenon
<1>13. ASSUME NEW id \in IdsOf("station") PROVE \E s \in 1 .. n : WaypointOf(s) = id
  <2>1. PICK p \in DOMAIN S : S[p] = id
    BY <1>8, <1>13, Zenon
  <2>2. p + e \in 1 .. n /\ ~(p + e <= e) /\ (p + e) - e = p
    BY <1>2, <1>3
  <2>3. cs[p + e] = S[p]
    BY <1>2, <2>2
  <2> QED
    BY <1>7, <2>1, <2>2, <2>3, Zenon
<1>14. Stations = 1 .. n
  BY DEF Stations, n
<1>15. \A id \in IdsOf("endpoint") \cup IdsOf("station") : \E s \in Stations : WaypointOf(s) = id
  BY <1>12, <1>13, <1>14
<1> QED
  BY <1>2, <1>6, <1>7, <1>10, <1>11, <1>14, <1>15 DEF n, e, cs

\* Every waypoint is of one of the three types.
LEMMA ThreeTypes ==
  ASSUME ParserInv
  PROVE  /\ Ids = IdsOf("station") \cup IdsOf("endpoint") \cup IdsOf("via")
         /\ {id \in Ids : ast[id].type # "via"} = IdsOf("station") \cup IdsOf("endpoint")
         /\ Cardinality(Ids) = Cardinality(IdsOf("station")) + Cardinality(IdsOf("endpoint"))
                                 + Cardinality(IdsOf("via"))
<1>1. ASSUME NEW id \in Ids PROVE ast[id].type \in {"via", "station", "endpoint"}
  <2>1. GoodNode(ast[id]) /\ "type" \in DOMAIN ast[id]
    BY DEF ParserInv, GoodAst
  <2> QED
    BY <2>1, Zenon DEF GoodNode, GoodField
<1>2. Ids = (IdsOf("station") \cup IdsOf("endpoint")) \cup IdsOf("via")
  BY <1>1 DEF IdsOf
<1>3. {id \in Ids : ast[id].type # "via"} = IdsOf("station") \cup IdsOf("endpoint")
  BY <1>1 DEF IdsOf
<1>4. /\ IdsOf("station") \cap IdsOf("endpoint") = {}
      /\ (IdsOf("station") \cup IdsOf("endpoint")) \cap IdsOf("via") = {}
  BY DEF IdsOf
<1>5. /\ IsFiniteSet(IdsOf("station")) /\ IsFiniteSet(IdsOf("endpoint")) /\ IsFiniteSet(IdsOf("via"))
  BY OfTypeFacts, Zenon
<1> DEFINE A == IdsOf("station")   B == IdsOf("endpoint")   C == IdsOf("via")
<1> HIDE DEF A, B, C
<1>6. /\ IsFiniteSet(A \cup B) /\ Cardinality(A \cup B) = Cardinality(A) + Cardinality(B)
      /\ Cardinality((A \cup B) \cup C) = Cardinality(A \cup B) + Cardinality(C)
  <2>1. IsFiniteSet(A) /\ IsFiniteSet(B) /\ IsFiniteSet(C) /\ A \cap B = {} /\ (A \cup B) \cap C = {}
    BY <1>4, <1>5 DEF A, B, C
  <2>2. /\ IsFiniteSet(A \cup B)
        /\ Cardinality(A \cup B) = Cardinality(A) + Cardinality(B) - Cardinality(A \cap B)
    BY <2>1, FS_Union, Zenon
  <2>3. Cardinality((A \cup B) \cup C) =
          Cardinality(A \cup B) + Cardinality(C) - Cardinality((A \cup B) \cap C)
    BY <2>1, <2>2, FS_Union, Zenon
  <2>4. Cardinality({}) = 0
    BY FS_EmptySet
  <2>5. Cardinality(A) \in Nat /\ Cardinality(B) \in Nat /\ Cardinality(C) \in Nat /\ Cardinality(A \cup B) \in Nat
    BY <2>1, <2>2, FS_CardinalityType
  <2>6. Cardinality(A \cap B) = 0 /\ Cardinality((A \cup B) \cap C) = 0
    BY <2>1, <2>4, Zenon
  <2> QED
    BY <2>2, <2>3, <2>5, <2>6
<1>7. Cardinality(Ids) = Cardinality(A) + Cardinality(B) + Cardinality(C)
  BY <1>2, <1>6 DEF A, B, C
<1> QED
  BY <1>2, <1>3, <1>7 DEF A, B, C

\* Orders of up to two stations.
LEMMA PlanFacts ==
  ASSUME NEW T, NEW order \in Plan2(T)
  PROVE  \A p \in DOMAIN order : order[p] \in T
<1>1. CASE order = <<>>
  BY <1>1
<1>2. CASE order \in {<<e>> : e \in T}
  BY <1>2
<1>3. CASE order \in T \X T
  <2>1. PICK a \in T, b \in T : order = <<a, b>>
    BY <1>3
  <2> QED
    BY <2>1
<1> QED
  BY <1>1, <1>2, <1>3 DEF Plan2

\* What is left to visit, by the flags of station_visited().
LEMMA OrderVisits ==
  ASSUME ParserInv, Classified(config), NEW order, \A p \in DOMAIN order : order[p] \in IdsOf("station")
  PROVE  {WaypointOf(s) : s \in Stations \ station_visited(config, [stations_to_visit |-> order])}
           = {id \in Ids : ast[id].type = "endpoint" \/ \E p \in DOMAIN order : order[p] = id}
<1> DEFINE O == {order[v] : v \in DOMAIN order}
           E == {config.end_stations[e] : e \in DOMAIN config.end_stations}
           V == station_visited(config, [stations_to_visit |-> order])
<1>1. /\ \A s \in Stations : WaypointOf(s) = combined_stations(config)[s]
      /\ \A s \in Stations : s <= number_of_end_stations(config) => WaypointOf(s) \in IdsOf("endpoint")
      /\ \A s \in Stations : s > number_of_end_stations(config) => WaypointOf(s) \in IdsOf("station")
      /\ \A id \in IdsOf("endpoint") \cup IdsOf("station") : \E s \in Stations : WaypointOf(s) = id
  BY StationWaypoints, Zenon
<1>2. E = IdsOf("endpoint")
  <2>1. config.end_stations = InOrder(IdsOf("endpoint"))
    BY OfTypeFacts DEF Classified
  <2>2. IdsOf("endpoint") \in SUBSET Int /\ IsFiniteSet(IdsOf("endpoint"))
    BY OfTypeFacts, Zenon
  <2>3. PICK e : e = InOrder(IdsOf("endpoint"))
    OBVIOUS
  <2>4. /\ \A p \in DOMAIN e : e[p] \in IdsOf("endpoint")
        /\ \A id \in IdsOf("endpoint") : \E p \in DOMAIN e : e[p] = id
    BY <2>2, <2>3, InOrderFacts, Zenon
  <2>5. {e[p] : p \in DOMAIN e} = IdsOf("endpoint")
    BY <2>4
  <2> QED
    BY <2>1, <2>3, <2>5, Zenon
<1>3. V = {s \in Stations : combined_stations(config)[s] \notin E /\ combined_stations(config)[s] \notin O}
  BY Zenon DEF station_visited, Stations
<1> HIDE DEF V, E
<1>4. Stations \ V = {s \in Stations : WaypointOf(s) \in IdsOf("endpoint") \/ WaypointOf(s) \in O}
  BY <1>1, <1>2, <1>3
<1>5. O \subseteq IdsOf("station")
  OBVIOUS
<1>6. {id \in Ids : ast[id].type = "endpoint" \/ \E p \in DOMAIN order : order[p] = id}
        = IdsOf("endpoint") \cup O
  <2>1. \A id : (\E p \in DOMAIN order : order[p] = id) <=> id \in O
    OBVIOUS
  <2> HIDE DEF O
  <2> QED
    BY <1>5, <2>1 DEF IdsOf
<1> HIDE DEF O
<1>7. {WaypointOf(s) : s \in Stations \ V} = IdsOf("endpoint") \cup O
  <2>1. ASSUME NEW id \in IdsOf("endpoint") \cup O PROVE id \in {WaypointOf(s) : s \in Stations \ V}
    <3>1. PICK s \in Stations : WaypointOf(s) = id
      BY <1>1, <1>5
    <3>2. s \in Stations \ V
      BY <1>4, <3>1
    <3> QED
      BY <3>1, <3>2
  <2>2. ASSUME NEW s \in Stations \ V PROVE WaypointOf(s) \in IdsOf("endpoint") \cup O
    BY <1>4
  <2> QED
    BY <2>1, <2>2, Zenon
<1> QED
  BY <1>6, <1>7 DEF V

\* The numbering of the stations is one, in every configuration that is written.
LEMMA NumbersHold == ASSUME ParserInv, Classified(config) PROVE StationNumbers
<1> DEFINE n == number_of_stations(config)   e == number_of_end_stations(config)
<1>1. /\ n \in Nat /\ e \in 0 .. n
      /\ \A s \in Stations : s <= e => WaypointOf(s) \in IdsOf("endpoint")
      /\ \A s \in Stations : s > e => WaypointOf(s) \in IdsOf("station")
      /\ \A id \in IdsOf("endpoint") \cup IdsOf("station") : \E s \in Stations : WaypointOf(s) = id
  BY StationWaypoints, Zenon
<1>2. Stations = 1 .. n
  BY DEF Stations
<1> HIDE DEF n, e
<1>3. \A s \in Stations : s \in Int /\ e \in Int
  BY <1>1, <1>2
<1>4. {WaypointOf(s) : s \in Stations} = {id \in Ids : ast[id].type # "via"}
  <2>1. {WaypointOf(s) : s \in Stations} = IdsOf("station") \cup IdsOf("endpoint")
    <3>1. ASSUME NEW s \in Stations PROVE WaypointOf(s) \in IdsOf("station") \cup IdsOf("endpoint")
      <4>1. s <= e \/ s > e
        BY <1>3
      <4> QED
        BY <1>1, <4>1
    <3> QED
      BY <1>1, <3>1
  <2> QED
    BY <2>1, ThreeTypes, Zenon
<1>5. ASSUME NEW s \in Stations
      PROVE  /\ s <= e <=> ast[WaypointOf(s)].type = "endpoint"
             /\ next_station(config, [next_station |-> WaypointOf(s)]) = s
  <2>1. s <= e \/ s > e
    BY <1>3
  <2>2. s <= e <=> ~(s > e)
    BY <1>3
  <2>3. s <= e => ast[WaypointOf(s)].type = "endpoint"
    BY <1>1 DEF IdsOf
  <2>4. s > e => ast[WaypointOf(s)].type = "station"
    BY <1>1 DEF IdsOf
  <2>5. next_station(config, [next_station |-> convert_to_waypoint_id(config, s)]) = s
    BY <1>2, ConfigNumbered, NumberRoundTrip DEF n
  <2> QED
    BY <2>1, <2>2, <2>3, <2>4, <2>5 DEF WaypointOf
<1>6. number_of_waypoints(config) = Cardinality(Ids)
  <2>1. /\ config.stations = InOrder(IdsOf("station")) /\ config.end_stations = InOrder(IdsOf("endpoint"))
        /\ config.vias = InOrder(IdsOf("via"))
        /\ {"stations", "end_stations", "vias"} \subseteq DOMAIN config
    BY OfTypeFacts DEF Classified
  <2>2. \A t : IdsOf(t) \in SUBSET Int /\ IsFiniteSet(IdsOf(t))
    BY OfTypeFacts, Zenon
  <2>3. \A t : Len(InOrder(IdsOf(t))) = Cardinality(IdsOf(t))
    BY <2>2, InOrderFacts, Zenon
  <2>4. number_of_waypoints(config) = Cardinality(IdsOf("station")) + Cardinality(IdsOf("endpoint"))
                                        + Cardinality(IdsOf("via"))
    BY <2>1, <2>3, Zenon DEF number_of_waypoints, Has
  <2> QED
    BY <2>4, ThreeTypes, Zenon
<1>7. ASSUME NEW order \in Plan2({id \in Ids : ast[id].type = "station"})
      PROVE  {WaypointOf(s) : s \in Stations \ station_visited(config, [stations_to_visit |-> order])}
               = {id \in Ids : ast[id].type = "endpoint" \/ \E p \in DOMAIN order : order[p] = id}
  <2>1. \A p \in DOMAIN order : order[p] \in IdsOf("station")
    BY PlanFacts, Zenon DEF IdsOf
  <2> QED
    BY <2>1, OrderVisits, Zenon
<1> QED
  BY <1>4, <1>5, <1>6, <1>7, Zenon DEF StationNumbers, e

\* At the end the distances are those of the shortest routes.
LEMMA FinalDistances ==
  ASSUME WorldAssumption, IInv, stage = "done", NEW a \in Ids, NEW b \in Ids
  PROVE  dist[a][b] = ShortestVia(Ids, a, b) /\ dist[a][b] \in 0 .. DBL_MAX /\ DBL_MAX \in Nat
<1>1. ParserInv /\ StageInv /\ stage \in {"edges"} \cup Loop /\ stage \in Loop
  BY DEF IInv, Loop
<1>2. PICK n \in Nat \ {0} : n = Cardinality(Ids) /\ Ids = 0 .. (n - 1)
  BY <1>1, RowsFacts
<1>3. at = <<n, 0, 0>>
  BY <1>1, <1>2 DEF StageInv
<1>4. dist[a][b] \in 0 .. DBL_MAX /\ DBL_MAX \in Nat
  BY <1>1 DEF StageInv, WorldAssumption
<1>5. Ids \cap (0 .. n) = Ids /\ Ids \cap (0 .. n - 1) = Ids
  <2>1. \A x \in 0 .. n - 1 : x \in 0 .. n
    OBVIOUS
  <2> QED
    BY <1>2, <2>1, Zenon
<1>6. /\ dist[a][b] >= ShortestVia(Ids \cap (0 .. at[1]), a, b)
      /\ dist[a][b] <= ShortestVia(Ids \cap (0 .. (IF a < at[2] \/ (a = at[2] /\ b < at[3])
                                                   THEN at[1] ELSE at[1] - 1)), a, b)
  BY ShortestHold, Zenon DEF ShortestPaths
<1>7. at[1] = n /\ ~ (a < at[2] \/ (a = at[2] /\ b < at[3]))
  <2>1. a \in 0 .. n - 1 /\ b \in 0 .. n - 1
    BY <1>2, Zenon
  <2>2. a \in Nat /\ b \in Nat
    BY <2>1
  <2>3. at[1] = n /\ at[2] = 0 /\ at[3] = 0
    BY <1>3
  <2>4. ~ (a < 0) /\ ~ (b < 0)
    BY <2>2
  <2> QED
    BY <2>3, <2>4, Zenon
<1>8. dist[a][b] >= ShortestVia(Ids, a, b) /\ dist[a][b] <= ShortestVia(Ids, a, b)
  BY <1>5, <1>6, <1>7, Zenon
<1>9. GraphOK
  BY <1>1, GraphFacts
<1>10. ShortestVia(Ids, a, b) \in Nat
  BY <1>9, ShortestFacts
<1>11. PICK x \in Nat : x = ShortestVia(Ids, a, b)
  BY <1>10, Zenon
<1>12. PICK y \in Nat : y = dist[a][b]
  BY <1>4
<1>13. y >= x /\ y <= x
  BY <1>8, <1>11, <1>12, Zenon
<1>14. x = y
  BY <1>13
<1> QED
  BY <1>4, <1>11, <1>12, <1>14, Zenon

\* An entry of the station matrix that two station numbers lead to.
EntryAt(sc, matrix, from, to) ==
  /\ Has(sc, {"station_distance_matrix", "stations", "end_stations"})
  /\ matrix = sc.station_distance_matrix
  /\ station_id_to_dist_index_conversion(sc)[from] + 1 = from
  /\ station_id_to_dist_index_conversion(sc)[to] + 1 = to
  /\ from \in DOMAIN matrix /\ to \in DOMAIN matrix[from]

AnswerIs(sc, from, to, x) == get_station_dist(sc, from, to) = x

\* The entry that get_station_dist() looks up.
LEMMA StationEntry ==
  ASSUME NEW sc, NEW matrix, NEW from, NEW to, EntryAt(sc, matrix, from, to)
  PROVE  /\ Throws(matrix) => AnswerIs(sc, from, to, INT_MAX)
         /\ ~ Throws(matrix) => AnswerIs(sc, from, to, AsInt(matrix[from][to]))
<1>1. CASE Throws(matrix)
  BY <1>1, Zenon DEF get_station_dist, EntryAt, AnswerIs
<1>2. CASE ~ Throws(matrix)
  BY <1>2, Zenon DEF get_station_dist, EntryAt, AnswerIs
<1> QED
  BY <1>1, <1>2, Zenon

\* Among ascending ids, the rank of each is its place.
LEMMA RanksAscending ==
  ASSUME NEW n \in Nat, NEW s \in [1 .. n -> Int],
         \A p, q \in 1 .. n : p < q => s[p] < s[q], NEW p \in 1 .. n
  PROVE  Cardinality({t \in 1 .. n : s[t] < s[p]}) = p - 1
<1>1. \A t \in 1 .. n : s[t] < s[p] <=> t < p
  <2> SUFFICES ASSUME NEW t \in 1 .. n PROVE s[t] < s[p] <=> t < p
    OBVIOUS
  <2>1. s[t] \in Int /\ s[p] \in Int /\ t \in Int /\ p \in Int
    OBVIOUS
  <2>2. CASE t < p
    BY <2>2
  <2>3. CASE t = p
    BY <2>1, <2>3
  <2>4. CASE p < t
    <3>1. s[p] < s[t]
      BY <2>4
    <3> QED
      BY <2>1, <2>4, <3>1
  <2> QED
    BY <2>1, <2>2, <2>3, <2>4
<1>2. {t \in 1 .. n : s[t] < s[p]} = {t \in 1 .. n : t < p}
  BY <1>1, Zenon
<1>3. {t \in 1 .. n : t < p} = 1 .. (p - 1)
  OBVIOUS
<1>4. Cardinality(1 .. (p - 1)) = p - 1
  <2>1. p - 1 \in Nat /\ 1 \in Int
    OBVIOUS
  <2> QED
    BY <2>1, FS_Interval
<1> QED
  BY <1>2, <1>3, <1>4, Zenon

\* Without end stations, a station number is a row of the matrix.
LEMMA StationRows ==
  ASSUME ParserInv, Classified(config), config.end_stations = <<>>
  PROVE  /\ combined_stations(config) = OfType("station")
         /\ OfType("station") \in [Stations -> Int]
         /\ \A s \in Stations : s \in Nat /\ station_id_to_dist_index_conversion(config)[s] + 1 = s
         /\ \A s \in Stations : OfType("station")[s] = WaypointOf(s) /\ WaypointOf(s) \in Ids
<1>1. IdsOf("station") \in SUBSET Int /\ IsFiniteSet(IdsOf("station"))
  BY OfTypeFacts, Zenon
<1>2. PICK s : s = InOrder(IdsOf("station"))
  OBVIOUS
<1>3. /\ s \in Seq(Int) /\ Len(s) \in Nat /\ DOMAIN s = 1 .. Len(s)
      /\ \A p, q \in DOMAIN s : p < q => s[p] < s[q]
      /\ \A p \in DOMAIN s : s[p] \in IdsOf("station")
  BY <1>1, <1>2, InOrderFacts
<1>4. OfType("station") = s
  BY <1>2, OfTypeFacts, Zenon
<1>5. combined_stations(config) = s
  <2>1. combined_stations(config) = <<>> \o s
    BY <1>4, Zenon DEF combined_stations, Classified
  <2>2. <<>> \o s = s
    BY <1>3
  <2> QED
    BY <2>1, <2>2, Zenon
<1>6. DOMAIN s = Stations
  BY <1>5, StationWaypoints, Zenon
<1>7. \A t \in Stations : WaypointOf(t) = s[t]
  BY <1>5, StationWaypoints, Zenon
<1>8. \A p \in DOMAIN s : s[p] \in Ids
  BY <1>3 DEF IdsOf
<1>9. ASSUME NEW t \in DOMAIN s PROVE t \in Nat /\ station_id_to_dist_index_conversion(config)[t] + 1 = t
  <2>1. s \in [1 .. Len(s) -> Int] /\ t \in 1 .. Len(s) /\ t \in Nat
    BY <1>3
  <2>2. Cardinality({p \in DOMAIN s : s[p] < s[t]}) = t - 1
    BY <1>3, <2>1, RanksAscending
  <2>3. station_id_to_dist_index_conversion(config)[t] = Cardinality({p \in DOMAIN s : s[p] < s[t]})
    BY <1>5, Zenon DEF station_id_to_dist_index_conversion
  <2>4. station_id_to_dist_index_conversion(config)[t] = t - 1
    BY <2>2, <2>3, Zenon
  <2> QED
    BY <2>1, <2>4
<1>10. s \in [Stations -> Int]
  <2>1. s \in [DOMAIN s -> Int]
    BY <1>3
  <2> QED
    BY <1>6, <2>1, Zenon
<1> QED
  BY <1>4, <1>5, <1>6, <1>7, <1>8, <1>9, <1>10, Zenon

\* What UPPAAL is told in a world without end stations.
LEMMA ToldDistance ==
  ASSUME WorldAssumption, IInv, ConfigInv, stage = "done", config.end_stations = <<>>,
         NEW s \in Stations, NEW t \in Stations
  PROVE  get_station_dist(config, s, t) = IF AllWithinInt THEN AsInt(Reach(s, t)) ELSE INT_MAX
<1>1. ParserInv /\ StageInv /\ Classified(config)
  BY DEF IInv, ConfigInv, Loop
<1>2. PICK list : list = OfType("station")
  OBVIOUS
<1>3. PICK matrix : matrix = config.station_distance_matrix
  OBVIOUS
<1>4. matrix = ToArray(list, dist) /\ "station_distance_matrix" \in DOMAIN config
  BY <1>2, <1>3, Zenon DEF ConfigInv, WithKey
<1>5. /\ DOMAIN list = Stations
      /\ \A x \in Stations : list[x] = WaypointOf(x) /\ WaypointOf(x) \in Ids
      /\ \A x \in Stations : x \in Nat /\ station_id_to_dist_index_conversion(config)[x] + 1 = x
  <2>1. list \in [Stations -> Int]
    BY <1>1, <1>2, StationRows, Zenon
  <2>2. DOMAIN list = Stations
    BY <2>1
  <2> QED
    BY <1>1, <1>2, <2>2, StationRows, Zenon
<1>6. /\ DOMAIN matrix = Stations
      /\ \A x \in Stations : DOMAIN matrix[x] = Stations
      /\ \A x, y \in Stations : matrix[x][y] = dist[list[x]][list[y]]
  BY <1>4, <1>5, Zenon DEF ToArray
<1>7. \A x, y \in Stations : matrix[x][y] = Reach(x, y)
  <2> SUFFICES ASSUME NEW x \in Stations, NEW y \in Stations PROVE matrix[x][y] = Reach(x, y)
    OBVIOUS
  <2>1. list[x] = WaypointOf(x) /\ WaypointOf(x) \in Ids
    BY <1>5, Zenon
  <2>2. list[y] = WaypointOf(y) /\ WaypointOf(y) \in Ids
    BY <1>5, Zenon
  <2>3. matrix[x][y] = dist[list[x]][list[y]]
    BY <1>6, Zenon
  <2>4. matrix[x][y] = dist[WaypointOf(x)][WaypointOf(y)] /\ WaypointOf(x) \in Ids /\ WaypointOf(y) \in Ids
    BY <2>1, <2>2, <2>3, Zenon
  <2>5. dist[WaypointOf(x)][WaypointOf(y)] = ShortestVia(Ids, WaypointOf(x), WaypointOf(y))
    BY <2>4, FinalDistances, Zenon
  <2> QED
    BY <2>4, <2>5, Zenon DEF Reach
<1>8. Throws(matrix) <=> ~ AllWithinInt
  <2>1. Throws(matrix) <=> \E x, y \in Stations : ~ IsInt(matrix[x][y])
    BY <1>6, Zenon DEF Throws
  <2> QED
    BY <1>7, <2>1, Zenon DEF AllWithinInt
<1>9. Has(config, {"station_distance_matrix", "stations", "end_stations"})
  BY <1>1, <1>4 DEF Has, Classified
<1>10. /\ Throws(matrix) => AnswerIs(config, s, t, INT_MAX)
       /\ ~ Throws(matrix) => AnswerIs(config, s, t, AsInt(matrix[s][t]))
  <2>1. /\ station_id_to_dist_index_conversion(config)[s] + 1 = s /\ s \in DOMAIN matrix
        /\ station_id_to_dist_index_conversion(config)[t] + 1 = t /\ t \in DOMAIN matrix[s]
    BY <1>5, <1>6, Zenon
  <2>2. EntryAt(config, matrix, s, t)
    BY <1>3, <1>9, <2>1, Zenon DEF EntryAt
  <2> QED
    BY <2>2, StationEntry, Zenon
<1>11. matrix[s][t] = Reach(s, t)
  BY <1>7, Zenon
<1> QED
  BY <1>8, <1>10, <1>11, Zenon DEF AnswerIs

\* The way along a route, in truncated distances, is no longer than the truncated way.
LEMMA TruncatedWay ==
  ASSUME NEW n \in Nat \ {0}, NEW e \in [1 .. n -> Nat], NEW f \in [1 .. n -> Nat],
         \A p \in 2 .. n : f[p] = AsInt(e[p]),
         NEW s, Hops(e, n, s), NEW t, Hops(f, n, t)
  PROVE  s[n] \in Nat /\ t[n] \in Nat /\ t[n] <= AsInt(s[n])
<1> DEFINE S == {p \in 1 .. n : t[p] <= AsInt(s[p])}
<1>1. /\ s \in [1 .. n -> Nat] /\ s[1] = 0 /\ \A p \in 2 .. n : s[p] = s[p - 1] + e[p]
      /\ t \in [1 .. n -> Nat] /\ t[1] = 0 /\ \A p \in 2 .. n : t[p] = t[p - 1] + f[p]
  BY DEF Hops
<1>2. 1 \in S
  <2>1. AsInt(s[1]) \in Nat
    BY <1>1, WholePart
  <2>2. t[1] <= AsInt(s[1])
    BY <1>1, <2>1
  <2>3. 1 \in 1 .. n
    OBVIOUS
  <2> QED
    BY <2>2, <2>3, Zenon
<1>3. ASSUME NEW p \in 1 + 1 .. n, p - 1 \in S PROVE p \in S
  <2>1. p \in 2 .. n /\ p \in 1 .. n /\ p - 1 \in 1 .. n
    BY <1>3
  <2>2. PICK x \in Nat, y \in Nat, d \in Nat : x = s[p - 1] /\ y = t[p - 1] /\ d = e[p]
    BY <1>1, <2>1
  <2>3. AsInt(x) \in Nat /\ AsInt(d) \in Nat /\ AsInt(x + d) \in Nat /\ AsInt(x) + AsInt(d) <= AsInt(x + d)
    <3>1. x + d \in Nat
      OBVIOUS
    <3>2. AsInt(x) + AsInt(d) <= AsInt(x + d)
      BY TruncationAdds, Zenon
    <3> QED
      BY <3>1, <3>2, WholePart, Zenon
  <2>4. y <= AsInt(x)
    BY <1>3, <2>2, Zenon
  <2>5. PICK z \in Nat : z = AsInt(d)
    BY <2>3
  <2>6. s[p] = x + d /\ t[p] = y + z
    BY <1>1, <2>1, <2>2, <2>5, Zenon
  <2>7. PICK v \in Nat, w \in Nat : v = AsInt(x) /\ w = AsInt(x + d)
    BY <2>3
  <2>8. v + z <= w /\ y <= v
    BY <2>3, <2>4, <2>5, <2>7, Zenon
  <2>9. y + z <= w
    BY <2>8
  <2>10. t[p] <= AsInt(s[p])
    BY <2>6, <2>7, <2>9, Zenon
  <2> QED
    BY <2>1, <2>10, Zenon
<1>4. \A p \in 1 .. n : p \in S
  <2> HIDE DEF S
  <2> QED
    BY <1>2, <1>3, Induction
<1>5. n \in 1 .. n
  OBVIOUS
<1> QED
  BY <1>1, <1>4, <1>5

\* Among consecutive ids from 0, each is at its own place.
Consecutive(P, n) == P = 0 .. (n - 1)

\* The order of these numbers is the numbers.
LEMMA ConsecutiveOrder ==
  ASSUME NEW n \in Nat, NEW P, Consecutive(P, n)
  PROVE  DOMAIN InOrder(P) = 1 .. n /\ \A i \in P : i + 1 \in 1 .. n /\ InOrder(P)[i + 1] = i
<1>1. P \in SUBSET Int /\ IsFiniteSet(P) /\ Cardinality(P) = n
  <2>1. IsFiniteSet(0 .. (n - 1)) /\ Cardinality(0 .. (n - 1)) = n
    <3>1. 0 \in Int /\ n - 1 \in Int /\ (n - 1) - 0 + 1 = n /\ (0 > n - 1 => n = 0)
      OBVIOUS
    <3> QED
      BY <3>1, FS_Interval
  <2> QED
    BY <2>1 DEF Consecutive
<1>2. PICK o : o = InOrder(P)
  OBVIOUS
<1>3. /\ DOMAIN o = 1 .. n /\ \A p \in 1 .. n : o[p] \in P
      /\ \A p \in 1 .. n : Cardinality({f \in P : f <= o[p]}) = p
  <2>1. /\ DOMAIN InOrder(P) = 1 .. Cardinality(P)
        /\ \A p \in DOMAIN InOrder(P) : InOrder(P)[p] \in P
        /\ \A p \in DOMAIN InOrder(P) : Cardinality({f \in P : f <= InOrder(P)[p]}) = p
    BY <1>1, InOrderFacts
  <2>2. /\ DOMAIN o = 1 .. Cardinality(P) /\ \A p \in DOMAIN o : o[p] \in P
        /\ \A p \in DOMAIN o : Cardinality({f \in P : f <= o[p]}) = p
    BY <1>2, <2>1, Zenon
  <2>3. DOMAIN o = 1 .. n
    BY <1>1, <2>2, Zenon
  <2> QED
    BY <2>2, <2>3, Zenon
<1>4. ASSUME NEW i \in P PROVE i + 1 \in 1 .. n /\ o[i + 1] = i
  <2>1. i + 1 \in 1 .. n
    BY DEF Consecutive
  <2>2. PICK x \in P : x = o[i + 1]
    BY <1>3, <2>1
  <2>3. {f \in P : f <= x} = 0 .. x /\ x \in Nat /\ i \in Nat
    BY DEF Consecutive
  <2>4. Cardinality(0 .. x) = x + 1
    BY <2>3, FS_Interval
  <2>5. Cardinality({f \in P : f <= x}) = i + 1
    BY <1>3, <2>1, <2>2, Zenon
  <2>6. x + 1 = i + 1
    BY <2>3, <2>4, <2>5, Zenon
  <2>7. x = i
    BY <2>3, <2>6
  <2> QED
    BY <2>1, <2>2, <2>7, Zenon
<1> QED
  BY <1>2, <1>3, <1>4, Zenon

\* The mark for no edge is an int.
LEMMA NoEdgeIsInt == ASSUME UnitAssumption, IntAssumption PROVE IsInt(-Unit)
<1>1. INT_MAX * Unit \in Nat
  <2>1. \A x, y \in Nat : x * y \in Nat
    OBVIOUS
  <2> QED
    BY <2>1 DEF UnitAssumption, IntAssumption
<1>2. PICK most \in Nat : most = INT_MAX * Unit
  BY <1>1
<1>3. -Unit <= most
  BY DEF UnitAssumption
<1> QED
  BY <1>2, <1>3, Zenon DEF IsInt

\* An entry of the waypoint matrix, when no edge is too long for an int.
LEMMA ToldEdge ==
  ASSUME WorldAssumption, IInv, ConfigInv, stage = "done", EdgesWithinInt,
         NEW x \in Ids, NEW y \in Ids, are_connected(x, y)
  PROVE  EdgeLengths[x][y] \in Nat /\ get_waypoint_dist(config, x, y) = AsInt(EdgeLengths[x][y])
<1>1. ParserInv /\ StageInv /\ stage \in {"edges"} \cup Loop
  BY DEF IInv, Loop
<1>2. PICK n \in Nat \ {0} : n = Cardinality(Ids) /\ Ids = 0 .. (n - 1)
  BY <1>1, RowsFacts
<1>3. PICK list : list = InOrder(Ids)
  OBVIOUS
<1>4. DOMAIN list = 1 .. n /\ \A i \in Ids : i + 1 \in DOMAIN list /\ list[i + 1] = i
  <2>1. n \in Nat /\ Consecutive(Ids, n)
    BY <1>2 DEF Consecutive
  <2> QED
    BY <1>3, <2>1, ConsecutiveOrder, Zenon
<1>5. PICK m : m = [a \in Ids |-> [b \in Ids |->
                     IF are_connected(a, b) THEN euclidean_distance(ast[a], ast[b]) ELSE -Unit]]
  OBVIOUS
<1>6. m[x][y] = euclidean_distance(ast[x], ast[y])
  BY <1>5, Zenon
<1>7. PICK matrix : matrix = config.waypoint_distance_matrix
  OBVIOUS
<1>8. WithKey(config, "waypoint_distance_matrix", EdgeArray)
  BY <1>1, Zenon DEF ConfigInv
<1>9. matrix = ToArray(list, m) /\ "waypoint_distance_matrix" \in DOMAIN config
  BY <1>3, <1>5, <1>7, <1>8, Zenon DEF EdgeArray, WithKey
<1>10. /\ DOMAIN matrix = DOMAIN list /\ \A r \in DOMAIN list : DOMAIN matrix[r] = DOMAIN list
       /\ \A r, c \in DOMAIN list : matrix[r][c] = m[list[r]][list[c]]
  BY <1>9, Zenon DEF ToArray
<1>11. /\ x + 1 \in DOMAIN matrix /\ y + 1 \in DOMAIN matrix[x + 1]
       /\ matrix[x + 1][y + 1] = m[x][y]
  <2>1. x + 1 \in DOMAIN list /\ y + 1 \in DOMAIN list /\ list[x + 1] = x /\ list[y + 1] = y
    BY <1>4, Zenon
  <2>2. matrix[x + 1][y + 1] = m[list[x + 1]][list[y + 1]]
    BY <1>10, <2>1, Zenon
  <2>3. x + 1 \in DOMAIN matrix /\ y + 1 \in DOMAIN matrix[x + 1]
    BY <1>10, <2>1, Zenon
  <2> QED
    BY <2>1, <2>2, <2>3, Zenon
<1>14. ~ Throws(matrix)
  <2> SUFFICES ASSUME NEW r \in DOMAIN list, NEW c \in DOMAIN list PROVE IsInt(m[list[r]][list[c]])
    <3>1. ASSUME Throws(matrix) PROVE \E r \in DOMAIN list : \E c \in DOMAIN list : ~ IsInt(matrix[r][c])
      BY <1>10, <3>1, Zenon DEF Throws
    <3> QED
      BY <1>10, <3>1, Zenon
  <2>1. ASSUME NEW p \in DOMAIN list PROVE list[p] \in Ids
    <3>1. \A i \in 1 .. n : i - 1 \in 0 .. (n - 1) /\ (i - 1) + 1 = i
      OBVIOUS
    <3>2. p - 1 \in Ids /\ (p - 1) + 1 = p
      BY <1>2, <1>4, <2>1, <3>1, Zenon
    <3> QED
      BY <1>4, <3>2, Zenon
  <2>2. PICK a \in Ids, b \in Ids : a = list[r] /\ b = list[c]
    BY <2>1
  <2>3. m[a][b] = IF are_connected(a, b) THEN euclidean_distance(ast[a], ast[b]) ELSE -Unit
    BY <1>5, Zenon
  <2>4. CASE are_connected(a, b)
    <3>1. EdgeLengths[a][b] = euclidean_distance(ast[a], ast[b])
      BY <1>1, LengthFacts
    <3>2. IsInt(EdgeLengths[a][b])
      BY <2>4, Zenon DEF EdgesWithinInt
    <3> QED
      BY <2>2, <2>3, <2>4, <3>1, <3>2, Zenon
  <2>5. CASE ~ are_connected(a, b)
    BY <2>2, <2>3, <2>5, UnitAssumption, IntAssumption, NoEdgeIsInt, Zenon
  <2> QED
    BY <2>4, <2>5
<1>12. get_waypoint_dist(config, x, y) = AsInt(matrix[x + 1][y + 1])
  <2>1. Has(config, {"waypoint_distance_matrix"})
    BY <1>9 DEF Has
  <2> QED
    BY <1>7, <1>11, <1>14, <2>1, Zenon DEF get_waypoint_dist
<1>13. EdgeLengths[x][y] = euclidean_distance(ast[x], ast[y]) /\ EdgeLengths[x][y] \in Nat
  BY <1>1, LengthFacts
<1> QED
  BY <1>6, <1>11, <1>12, <1>13, Zenon

\* Reach is the distance of two waypoints of the graph.
LEMMA ReachFacts ==
  ASSUME WorldAssumption, IInv, ConfigInv, stage = "done", NEW s \in Stations, NEW t \in Stations
  PROVE  WaypointOf(s) \in Ids /\ WaypointOf(t) \in Ids /\ Reach(s, t) \in Nat
<1>1. ParserInv /\ StageInv /\ Classified(config) /\ stage \in {"edges"} \cup Loop
  BY DEF IInv, ConfigInv, Loop
<1>2. ASSUME NEW x \in Stations PROVE WaypointOf(x) \in Ids
  <2> DEFINE e == number_of_end_stations(config)   n == number_of_stations(config)
  <2>1. e \in 0 .. n /\ n \in Nat
    BY <1>1, StationWaypoints, Zenon
  <2> HIDE DEF e, n
  <2>2. x <= e \/ x > e
    <3>1. x \in 1 .. n
      BY <1>2 DEF Stations, n
    <3> QED
      BY <2>1, <3>1
  <2>3. WaypointOf(x) \in IdsOf("endpoint") \/ WaypointOf(x) \in IdsOf("station")
    BY <1>1, <1>2, <2>2, StationWaypoints, Zenon DEF e
  <2> QED
    BY <2>3 DEF IdsOf
<1>3. WaypointOf(s) \in Ids /\ WaypointOf(t) \in Ids
  BY <1>2
<1>4. GraphOK
  BY <1>1, GraphFacts
<1>5. ShortestVia(Ids, WaypointOf(s), WaypointOf(t)) \in Nat
  <2>1. PICK a \in Ids, b \in Ids : a = WaypointOf(s) /\ b = WaypointOf(t)
    BY <1>3
  <2>2. Ids \subseteq Ids
    OBVIOUS
  <2>3. ShortestVia(Ids, a, b) \in Nat
    BY <1>4, <2>2, ShortestFacts, Zenon
  <2> QED
    BY <2>1, <2>3, Zenon
<1> QED
  BY <1>3, <1>5, Zenon DEF Reach

\* The distances UPPAAL is told are the shortest ones, truncated, or all INT_MAX.
LEMMA StationDistancesHold == ASSUME WorldAssumption, IInv, ConfigInv PROVE StationDistances
<1> SUFFICES ASSUME stage = "done", config.end_stations = <<>>, NEW s \in Stations, NEW t \in Stations
             PROVE  IF AllWithinInt THEN IsWholePart(get_station_dist(config, s, t), Reach(s, t))
                                    ELSE get_station_dist(config, s, t) = INT_MAX
  BY Zenon DEF StationDistances
<1>2. get_station_dist(config, s, t) = IF AllWithinInt THEN AsInt(Reach(s, t)) ELSE INT_MAX
  BY ToldDistance, Zenon
<1>3. IsWholePart(AsInt(Reach(s, t)), Reach(s, t))
  <2>1. PICK d \in Nat : d = Reach(s, t)
    BY ReachFacts, Zenon
  <2>2. IsWholePart(AsInt(d), d)
    BY WholePart, Zenon DEF IsWholePart
  <2> QED
    BY <2>1, <2>2, Zenon
<1> QED
  BY <1>2, <1>3, Zenon

ToldLengths == [x \in Ids |-> [y \in Ids |-> get_waypoint_dist(config, x, y)]]

\* A route of the graph is one of the edges UPPAAL is told of, and no longer.
LEMMA ToldRoute ==
  ASSUME WorldAssumption, IInv, ConfigInv, stage = "done", EdgesWithinInt,
         NEW a \in Ids, NEW b \in Ids, NEW r \in RoutesVia(Ids, a, b)
  PROVE  /\ \A p \in 1 .. (Len(r) - 1) : get_waypoint_dist(config, r[p], r[p + 1]) # -1
         /\ LengthBy(EdgeLengths, r) \in Nat /\ LengthBy(ToldLengths, r) \in Nat
         /\ LengthBy(ToldLengths, r) <= AsInt(LengthBy(EdgeLengths, r))
<1>1. ParserInv /\ StageInv /\ stage \in {"edges"} \cup Loop
  BY DEF IInv, Loop
<1>2. GraphOK
  BY <1>1, GraphFacts
<1>3. PICK n \in 1 .. (MaxId + 1) :
        r \in [1 .. n -> 0 .. MaxId] /\ \A p, q \in 1 .. n : r[p] = r[q] => p = q
  BY Zenon DEF RoutesVia, Routes
<1>4. n \in Nat \ {0} /\ MaxId \in Nat
  BY <1>3 DEF WorldAssumption
<1>5. Len(r) = n
  BY <1>3, <1>4, RouteBound
<1>6. /\ r[1] = a /\ r[n] = b
      /\ \A p \in 2 .. n - 1 : r[p] \in Ids
      /\ \A p \in 1 .. n - 1 : are_connected(r[p], r[p + 1])
  BY <1>5, Zenon DEF RoutesVia
<1>7. ASSUME NEW p \in 1 .. n PROVE r[p] \in Ids
  <2>1. p = 1 \/ p = n \/ p \in 2 .. n - 1
    BY <1>4
  <2> QED
    BY <1>6, <2>1, Zenon
<1>8. r \in [1 .. n -> Ids]
  BY <1>3, <1>7
<1>9. ASSUME NEW p \in 1 .. n - 1
      PROVE  /\ r[p] \in Ids /\ r[p + 1] \in Ids /\ EdgeLengths[r[p]][r[p + 1]] \in Nat
             /\ get_waypoint_dist(config, r[p], r[p + 1]) = AsInt(EdgeLengths[r[p]][r[p + 1]])
  <2>1. p \in 1 .. n /\ p + 1 \in 1 .. n
    BY <1>4
  <2>2. PICK x \in Ids, y \in Ids : x = r[p] /\ y = r[p + 1]
    BY <1>7, <2>1
  <2>3. are_connected(x, y)
    BY <1>6, <2>2, Zenon
  <2>4. EdgeLengths[x][y] \in Nat /\ get_waypoint_dist(config, x, y) = AsInt(EdgeLengths[x][y])
    BY <2>3, ToldEdge, Zenon
  <2> QED
    BY <2>2, <2>4, Zenon
<1>10. \A p \in 1 .. (Len(r) - 1) : get_waypoint_dist(config, r[p], r[p + 1]) # -1
  <2> SUFFICES ASSUME NEW p \in 1 .. n - 1 PROVE get_waypoint_dist(config, r[p], r[p + 1]) # -1
    BY <1>5, Zenon
  <2>1. PICK d \in Nat : d = EdgeLengths[r[p]][r[p + 1]]
    BY <1>9, Zenon
  <2>2. AsInt(d) \in Nat
    BY WholePart, Zenon
  <2>3. AsInt(d) # -1
    BY <2>2
  <2> QED
    BY <1>9, <2>1, <2>3, Zenon
<1> DEFINE e == HopsOf(EdgeLengths, n, r)   f == HopsOf(ToldLengths, n, r)
<1>11. e \in [1 .. n -> Nat]
  BY <1>2, <1>4, <1>8, HopsOfRoute DEF GraphOK
<1>12. ASSUME NEW p \in 2 .. n PROVE f[p] = AsInt(e[p]) /\ f[p] \in Nat
  <2>1. p \in 1 .. n /\ p # 1 /\ p - 1 \in 1 .. n - 1 /\ (p - 1) + 1 = p
    BY <1>4
  <2>2. PICK q \in 1 .. n - 1 : q = p - 1
    BY <2>1
  <2>3. q + 1 = p
    BY <2>1, <2>2, Zenon
  <2>4. e[p] = EdgeLengths[r[q]][r[p]] /\ f[p] = ToldLengths[r[q]][r[p]]
    BY <2>1, <2>2, Zenon DEF HopsOf
  <2>5. /\ r[q] \in Ids /\ r[p] \in Ids /\ EdgeLengths[r[q]][r[p]] \in Nat
        /\ get_waypoint_dist(config, r[q], r[p]) = AsInt(EdgeLengths[r[q]][r[p]])
    BY <1>9, <2>3, Zenon
  <2>6. ToldLengths[r[q]][r[p]] = get_waypoint_dist(config, r[q], r[p])
    BY <2>5, Zenon DEF ToldLengths
  <2>7. AsInt(e[p]) \in Nat
    BY <2>4, <2>5, WholePart, Zenon
  <2> QED
    BY <2>4, <2>5, <2>6, <2>7, Zenon
<1>13. f \in [1 .. n -> Nat]
  <2>1. f = [p \in 1 .. n |-> IF p = 1 THEN 0 ELSE ToldLengths[r[p - 1]][r[p]]]
    BY Zenon DEF HopsOf
  <2>2. f[1] = 0 /\ DOMAIN f = 1 .. n
    <3>1. 1 \in 1 .. n
      BY <1>4
    <3> QED
      BY <2>1, <3>1, Zenon
  <2>3. \A p \in 1 .. n : p = 1 \/ p \in 2 .. n
    BY <1>4
  <2>4. \A p \in 1 .. n : f[p] \in Nat
    BY <1>12, <2>2, <2>3
  <2>5. f = [p \in 1 .. n |-> f[p]]
    BY <2>1, <2>2, Zenon
  <2> HIDE DEF f
  <2> QED
    BY <2>4, <2>5
<1> HIDE DEF e, f
<1>14. PICK s : Hops(e, n, s)
  BY <1>4, <1>11, HopsExist
<1>15. PICK t : Hops(f, n, t)
  BY <1>4, <1>13, HopsExist
<1>16. LengthBy(EdgeLengths, r) = s[n]
  BY <1>4, <1>5, <1>14, LengthOfWay, Zenon DEF e
<1>17. LengthBy(ToldLengths, r) = t[n]
  BY <1>4, <1>5, <1>15, LengthOfWay, Zenon DEF f
<1>18. s[n] \in Nat /\ t[n] \in Nat /\ t[n] <= AsInt(s[n])
  <2>1. \A p \in 2 .. n : f[p] = AsInt(e[p])
    BY <1>12
  <2> QED
    BY <1>4, <1>11, <1>13, <1>14, <1>15, <2>1, TruncatedWay, Zenon
<1> QED
  BY <1>10, <1>16, <1>17, <1>18, Zenon

\* The waypoint model never needs longer than the station model promises.
LEMMA LevelsHold == ASSUME WorldAssumption, IntAssumption, IInv, ConfigInv PROVE LevelsAgree
<1> SUFFICES ASSUME stage = "done", config.end_stations = <<>>, EdgesWithinInt,
                    NEW s \in Stations, NEW t \in Stations,
                    get_station_dist(config, s, t) < INT_MAX
             PROVE  \E r \in Routes :
                      /\ r[1] = WaypointOf(s) /\ r[Len(r)] = WaypointOf(t)
                      /\ \A p \in 1 .. (Len(r) - 1) : get_waypoint_dist(config, r[p], r[p + 1]) # -1
                      /\ LengthBy(ToldLengths, r) <= get_station_dist(config, s, t)
  BY Zenon DEF LevelsAgree, ToldLengths
<1>1. AllWithinInt
  <2> SUFFICES ASSUME ~ AllWithinInt PROVE FALSE
    OBVIOUS
  <2>1. get_station_dist(config, s, t) = INT_MAX
    BY ToldDistance, Zenon
  <2> QED
    BY <2>1 DEF IntAssumption
<1>2. get_station_dist(config, s, t) = AsInt(Reach(s, t))
  BY <1>1, ToldDistance, Zenon
<1>3. PICK a \in Ids, b \in Ids : a = WaypointOf(s) /\ b = WaypointOf(t)
  BY ReachFacts, Zenon
<1>4. Reach(s, t) = ShortestVia(Ids, a, b) /\ Reach(s, t) # DBL_MAX
  <2>1. Reach(s, t) = ShortestVia(Ids, a, b)
    BY <1>3, Zenon DEF Reach
  <2>2. PICK d \in Nat : d = Reach(s, t)
    BY ReachFacts, Zenon
  <2>3. PICK most : most = INT_MAX * Unit
    OBVIOUS
  <2>4. d <= most
    BY <1>1, <2>2, <2>3, Zenon DEF AllWithinInt, IsInt
  <2>5. most < DBL_MAX /\ DBL_MAX \in Nat /\ most \in Nat
    <3>1. \A x, y \in Nat : x * y \in Nat
      OBVIOUS
    <3> QED
      BY <2>3, <3>1, UnitAssumption DEF IntAssumption
  <2>6. d # DBL_MAX
    BY <2>4, <2>5
  <2> QED
    BY <2>1, <2>2, <2>6, Zenon
<1>5. GraphOK
  <2>1. ParserInv /\ StageInv /\ stage \in {"edges"} \cup Loop
    BY DEF IInv, Loop
  <2> QED
    BY <2>1, GraphFacts
<1>6. PICK r \in RoutesVia(Ids, a, b) : LengthBy(EdgeLengths, r) = Reach(s, t)
  <2>1. Ids \subseteq Ids
    OBVIOUS
  <2>2. ShortestVia(Ids, a, b) # DBL_MAX => WorldRoute(Ids, a, b, ShortestVia(Ids, a, b))
    BY <1>5, <2>1, ShortestFacts, Zenon
  <2>3. ShortestVia(Ids, a, b) # DBL_MAX
    BY <1>4, Zenon
  <2>4. PICK len : len = ShortestVia(Ids, a, b)
    OBVIOUS
  <2>5. WorldRoute(Ids, a, b, len)
    BY <2>2, <2>3, <2>4, Zenon
  <2>6. len \in RouteLengths(Ids, a, b)
    BY <1>5, <2>1, <2>5, WalkIsRoute, Zenon
  <2>7. \E r \in RoutesVia(Ids, a, b) : LengthBy(EdgeLengths, r) = len
    BY <2>6, Zenon DEF RouteLengths
  <2> QED
    BY <1>4, <2>4, <2>7, Zenon
<1>7. /\ \A p \in 1 .. (Len(r) - 1) : get_waypoint_dist(config, r[p], r[p + 1]) # -1
      /\ LengthBy(ToldLengths, r) <= AsInt(LengthBy(EdgeLengths, r))
  BY ToldRoute, Zenon
<1>8. r \in Routes /\ r[1] = WaypointOf(s) /\ r[Len(r)] = WaypointOf(t)
  BY <1>3, Zenon DEF RoutesVia
<1>9. LengthBy(ToldLengths, r) <= get_station_dist(config, s, t)
  BY <1>2, <1>6, <1>7, Zenon
<1> QED
  BY <1>7, <1>8, <1>9, Zenon

\* Where a waypoint is in the combined vector: at its number, or nowhere.
LEMMA PositionFacts ==
  ASSUME ParserInv, Classified(config), NEW id \in Ids
  PROVE  /\ ast[id].type # "via" => /\ PositionIn(combined_stations(config), id) # 0
                                    /\ WaypointOf(PositionIn(combined_stations(config), id)) = id
         /\ ast[id].type = "via" => PositionIn(combined_stations(config), id) = 0
<1> DEFINE cs == combined_stations(config)
<1>1. DOMAIN cs = Stations /\ \A s \in Stations : WaypointOf(s) = cs[s]
  BY StationWaypoints, Zenon
<1>2. StationNumbers
  <2> QED
    BY NumbersHold
<1>3. Stations \subseteq Nat \ {0}
  <2>1. number_of_stations(config) \in Nat
    BY StationWaypoints, Zenon
  <2> QED
    BY <2>1 DEF Stations
<1>4. ASSUME ast[id].type # "via"
      PROVE  PositionIn(cs, id) # 0 /\ WaypointOf(PositionIn(cs, id)) = id
  <2>1. id \in IdsOf("endpoint") \cup IdsOf("station")
    BY <1>4, ThreeTypes DEF IdsOf
  <2>2. PICK s \in Stations : WaypointOf(s) = id
    BY <2>1, StationWaypoints, Zenon
  <2>3. next_station(config, [next_station |-> convert_to_waypoint_id(config, s)]) = s
    BY <2>2, ConfigNumbered, NumberRoundTrip DEF Stations
  <2>4. convert_to_waypoint_id(config, s) = id
    BY <2>2, Zenon DEF WaypointOf
  <2>5. next_station(config, [next_station |-> id]) = PositionIn(cs, id)
    BY DEF next_station, Has, Classified
  <2>6. PositionIn(cs, id) = s
    BY <2>3, <2>4, <2>5, Zenon
  <2>7. s # 0
    BY <1>3
  <2> QED
    BY <2>2, <2>6, <2>7, Zenon
<1>5. ASSUME ast[id].type = "via" PROVE PositionIn(cs, id) = 0
  <2>1. ASSUME NEW s \in Stations PROVE cs[s] # id
    <3>1. /\ number_of_stations(config) \in Nat
          /\ number_of_end_stations(config) \in 0 .. number_of_stations(config)
      BY StationWaypoints, Zenon
    <3>2. s <= number_of_end_stations(config) \/ s > number_of_end_stations(config)
      BY <3>1 DEF Stations
    <3>3. WaypointOf(s) \in IdsOf("endpoint") \/ WaypointOf(s) \in IdsOf("station")
      BY <2>1, <3>2, StationWaypoints, Zenon
    <3>4. WaypointOf(s) # id
      BY <1>5, <3>3 DEF IdsOf
    <3> QED
      BY <1>1, <3>4, Zenon
  <2> QED
    BY <1>1, <2>1, Zenon DEF PositionIn
<1> QED
  BY <1>4, <1>5

\* What is no waypoint is nowhere.
LEMMA NoPosition ==
  ASSUME ParserInv, Classified(config), NEW id, id \notin Ids
  PROVE  PositionIn(combined_stations(config), id) = 0
<1>1. /\ DOMAIN combined_stations(config) = Stations
      /\ \A s \in Stations : WaypointOf(s) = combined_stations(config)[s]
  BY StationWaypoints, Zenon
<1>2. ASSUME NEW s \in Stations PROVE combined_stations(config)[s] # id
  <2>1. /\ number_of_stations(config) \in Nat
        /\ number_of_end_stations(config) \in 0 .. number_of_stations(config)
    BY StationWaypoints, Zenon
  <2>2. s <= number_of_end_stations(config) \/ s > number_of_end_stations(config)
    BY <2>1 DEF Stations
  <2>3. WaypointOf(s) \in IdsOf("endpoint") \/ WaypointOf(s) \in IdsOf("station")
    BY <1>2, <2>2, StationWaypoints, Zenon
  <2>4. WaypointOf(s) # id
    BY <2>3 DEF IdsOf
  <2> QED
    BY <1>1, <2>4, Zenon
<1> QED
  BY <1>1, <1>2, Zenon DEF PositionIn

\* Plans of up to two steps are sequences.
LEMMA PlanSeq ==
  ASSUME NEW T, NEW plan \in Plan2(T)
  PROVE  plan \in Seq(T) /\ Len(plan) \in Nat /\ DOMAIN plan = 1 .. Len(plan)
<1>1. CASE plan = <<>>
  BY <1>1
<1>2. CASE plan \in {<<e>> : e \in T}
  BY <1>2
<1>3. CASE plan \in T \X T
  <2>1. PICK a \in T, b \in T : plan = <<a, b>>
    BY <1>3
  <2> QED
    BY <2>1
<1> QED
  BY <1>1, <1>2, <1>3 DEF Plan2

\* The member named "10" comes before the one named "2".
LEMMA MembersOfTwo ==
  ASSUME NEW object, DOMAIN object = {2, 10}
  PROVE  /\ DOMAIN Members(object) = {1, 2}
         /\ Members(object)[1] = object[10] /\ Members(object)[2] = object[2]
<1>1. NameOrder(2) = 200 /\ NameOrder(10) = 101
  BY DEF NameOrder
<1>2. {o \in {2, 10} : NameOrder(o) <= NameOrder(2)} = {2, 10}
  <2>1. \A o \in {2, 10} : NameOrder(o) <= NameOrder(2)
    BY <1>1
  <2> QED
    BY <2>1, Zenon
<1>3. {o \in {2, 10} : NameOrder(o) <= NameOrder(10)} = {10}
  <2>1. \A o \in {2, 10} : NameOrder(o) <= NameOrder(10) <=> o = 10
    BY <1>1
  <2> QED
    BY <2>1
<1>4. Cardinality({10}) = 1 /\ Cardinality({2, 10}) = 2
  <2>1. IsFiniteSet({10}) /\ Cardinality({10}) = 1
    BY FS_Singleton
  <2>2. Cardinality({10} \cup {2}) = Cardinality({10}) + 1
    BY <2>1, FS_AddElement
  <2>3. {10} \cup {2} = {2, 10}
    OBVIOUS
  <2> QED
    BY <2>1, <2>2, <2>3
<1>5. DOMAIN Members(object) = 1 .. 2
  BY <1>4, Zenon DEF Members
<1> DEFINE place(o) == Cardinality({x \in DOMAIN object : NameOrder(x) <= NameOrder(o)})
<1>6. place(2) = 2 /\ place(10) = 1
  BY <1>2, <1>3, <1>4, Zenon
<1>7. 1 .. 2 = {1, 2}
  OBVIOUS
<1>8. \A p \in {1, 2} : Members(object)[p] = object[CHOOSE o \in DOMAIN object : place(o) = p]
  BY <1>4, <1>7, Zenon DEF Members
<1> HIDE DEF place
<1>9. (CHOOSE o \in DOMAIN object : place(o) = 1) = 10
  <2>1. \A o \in DOMAIN object : place(o) = 1 <=> o = 10
    BY <1>6
  <2> QED
    BY <2>1
<1>10. (CHOOSE o \in DOMAIN object : place(o) = 2) = 2
  <2>1. \A o \in DOMAIN object : place(o) = 2 <=> o = 2
    BY <1>6
  <2> QED
    BY <2>1
<1> QED
  BY <1>5, <1>7, <1>8, <1>9, <1>10, Zenon

\* What has become of a robot's plan when it leaves the broadcaster.
Relayed(heard, plan) ==
  /\ {"station_plan", "waypoint_plan"} \subseteq DOMAIN heard
  /\ heard.station_plan = [p \in DOMAIN plan |-> p - 1]
  /\ heard.waypoint_plan =
       [p \in DOMAIN plan |-> [type |-> IF plan[p].type = "eHold" THEN "Hold" ELSE "Waypoint",
                               value |-> plan[p].value]]

\* A robot's plan after two conversions to JSON and one back.
LEMMA RelayedPlan ==
  ASSUME NEW id, NEW plan, \A p \in DOMAIN plan : plan[p].type \in {"eHold", "eWaypoint"}
  PROVE  Relayed(Info_to_json(Info_from_json(Info_to_json(Planning(id, plan)))), plan)
<1>1. PICK info : info = Planning(id, plan)
  OBVIOUS
<1>2. info.waypoint_plan = plan /\ DOMAIN info.station_plan = DOMAIN plan
  BY <1>1 DEF Planning
<1>3. PICK json : json = Info_to_json(info)
  OBVIOUS
<1>4. json.station_plan = info.station_plan /\ json.waypoint_plan = [p \in DOMAIN plan |-> Action_to_json(plan[p])]
  BY <1>2, <1>3 DEF Info_to_json
<1>5. PICK written : written = json.waypoint_plan
  OBVIOUS
<1>6. /\ DOMAIN written = DOMAIN plan
      /\ \A p \in DOMAIN plan : written[p] = [type |-> IF plan[p].type = "eHold" THEN "Hold" ELSE "Waypoint",
                                              value |-> plan[p].value]
  BY <1>4, <1>5 DEF Action_to_json
<1>7. PICK told : told = Info_from_json(json)
  OBVIOUS
<1>8. PICK read : read = told.waypoint_plan
  OBVIOUS
<1>9. /\ told.station_plan = [p \in DOMAIN plan |-> p - 1]
      /\ read = [p \in DOMAIN written |-> [type |-> IF written[p].type = "Hold" THEN "eHold" ELSE "eWaypoint",
                                           value |-> written[p].value]]
  BY <1>2, <1>4, <1>5, <1>7, <1>8 DEF Info_from_json, get_field_as_actions, get_field_as_ints
<1>10. DOMAIN read = DOMAIN plan
  BY <1>6, <1>9, Zenon
<1>11. ASSUME NEW p \in DOMAIN plan
       PROVE  Action_to_json(read[p]) = [type |-> IF plan[p].type = "eHold" THEN "Hold" ELSE "Waypoint",
                                         value |-> plan[p].value]
  <2>1. read[p] = [type |-> IF written[p].type = "Hold" THEN "eHold" ELSE "eWaypoint", value |-> written[p].value]
    BY <1>6, <1>9, Zenon
  <2>2. written[p] = [type |-> IF plan[p].type = "eHold" THEN "Hold" ELSE "Waypoint", value |-> plan[p].value]
    BY <1>6, Zenon
  <2>3. CASE plan[p].type = "eHold"
    BY <2>1, <2>2, <2>3 DEF Action_to_json
  <2>4. CASE plan[p].type # "eHold"
    BY <2>1, <2>2, <2>4 DEF Action_to_json
  <2> QED
    BY <2>3, <2>4
<1>12. PICK heard : heard = Info_to_json(told)
  OBVIOUS
<1>13. /\ {"station_plan", "waypoint_plan"} \subseteq DOMAIN heard
       /\ heard.station_plan = told.station_plan
       /\ heard.waypoint_plan = [p \in DOMAIN read |-> Action_to_json(read[p])]
  BY <1>8, <1>12 DEF Info_to_json
<1>14. heard.waypoint_plan =
         [p \in DOMAIN plan |-> [type |-> IF plan[p].type = "eHold" THEN "Hold" ELSE "Waypoint",
                                 value |-> plan[p].value]]
  BY <1>10, <1>11, <1>13
<1>15. Relayed(heard, plan)
  BY <1>9, <1>13, <1>14, Zenon DEF Relayed
<1> QED
  BY <1>1, <1>3, <1>7, <1>12, <1>15, Zenon

\* The plan of the robot that UPPAAL numbers r.
PlanOf(id, plan, r) == IF r = NumberOf(id) THEN plan ELSE <<>>

\* Two robots have told the broadcaster their plans.
TwoPlans(dc, id, plan) ==
  /\ "robot_info_map" \in DOMAIN dc /\ DOMAIN dc.robot_info_map = {2, 10}
  /\ DOMAIN Members(dc.robot_info_map) = {1, 2}
  /\ \A o \in {2, 10} : {"station_plan", "waypoint_plan"} \subseteq DOMAIN dc.robot_info_map[o]
  /\ \A r \in {2, 3} : Relayed(Members(dc.robot_info_map)[r - 1], PlanOf(id, plan, r))

\* Each is heard at the place of its name.
LEMMA PlansHeard ==
  ASSUME NEW id \in {2, 10}, NEW plan \in Plan2(Actions), NEW dc, dc = OneOfTwo(id, plan)
  PROVE  TwoPlans(dc, id, plan)
<1>1. \A p \in DOMAIN plan : plan[p].type \in {"eHold", "eWaypoint"}
  <2>1. \A y \in Actions : y.type \in {"eHold", "eWaypoint"}
    BY DEF Actions
  <2>2. \A p \in DOMAIN plan : plan[p] \in Actions
    BY PlanFacts, Zenon
  <2> QED
    BY <2>1, <2>2, Zenon
<1>2. PICK map : map = dc.robot_info_map
  OBVIOUS
<1> DEFINE of(o) == IF o = id THEN plan ELSE <<>>
<1>3. "robot_info_map" \in DOMAIN dc /\ map = Broadcast([o \in {2, 10} |-> Planning(o, of(o))])
  BY <1>2 DEF OneOfTwo
<1>4. \A o : \A p \in DOMAIN of(o) : of(o)[p].type \in {"eHold", "eWaypoint"}
  <2> SUFFICES ASSUME NEW o PROVE \A p \in DOMAIN of(o) : of(o)[p].type \in {"eHold", "eWaypoint"}
    OBVIOUS
  <2>1. CASE o = id
    BY <1>1, <2>1, Zenon
  <2>2. CASE o # id
    BY <2>2
  <2> QED
    BY <2>1, <2>2
<1> HIDE DEF of
<1>5. /\ DOMAIN map = {2, 10}
      /\ \A o \in {2, 10} : map[o] = Info_to_json(Info_from_json(Info_to_json(Planning(o, of(o)))))
  BY <1>3, Zenon DEF Broadcast, InfoMap_to_json
<1>6. \A o \in {2, 10} : Relayed(map[o], of(o))
  BY <1>4, <1>5, RelayedPlan, Zenon
<1>7. DOMAIN Members(map) = {1, 2} /\ Members(map)[1] = map[10] /\ Members(map)[2] = map[2]
  BY <1>5, MembersOfTwo, Zenon
<1>8. PlanOf(id, plan, 2) = of(10) /\ PlanOf(id, plan, 3) = of(2)
  BY DEF PlanOf, NumberOf, of
<1>9. \A r \in {2, 3} : Relayed(Members(map)[r - 1], PlanOf(id, plan, r))
  <2>1. 2 - 1 = 1 /\ 3 - 1 = 2 /\ 2 \in {2, 10} /\ 10 \in {2, 10}
    OBVIOUS
  <2>2. Relayed(Members(map)[2 - 1], PlanOf(id, plan, 2)) /\ Relayed(Members(map)[3 - 1], PlanOf(id, plan, 3))
    BY <1>6, <1>7, <1>8, <2>1, Zenon
  <2>3. \A r \in {2, 3} : r = 2 \/ r = 3
    OBVIOUS
  <2> QED
    BY <2>2, <2>3, Zenon
<1>10. \A o \in {2, 10} : {"station_plan", "waypoint_plan"} \subseteq DOMAIN map[o]
  BY <1>6, Zenon DEF Relayed
<1> QED
  BY <1>2, <1>3, <1>5, <1>7, <1>9, <1>10, Zenon DEF TwoPlans

\* A plan that UPPAAL numbers r is that of one robot, or empty.
LEMMA PlanOfFacts ==
  ASSUME NEW id \in {2, 10}, NEW plan \in Plan2(Actions), NEW r \in {2, 3}
  PROVE  /\ PlanOf(id, plan, r) \in Plan2(Actions)
         /\ \A step \in Nat : step < Len(PlanOf(id, plan, r)) <=> r = NumberOf(id) /\ step < Len(plan)
<1>1. CASE r = NumberOf(id)
  BY <1>1, Zenon DEF PlanOf
<1>2. CASE r # NumberOf(id)
  <2>1. PlanOf(id, plan, r) = <<>>
    BY <1>2, Zenon DEF PlanOf
  <2>2. \A step \in Nat : ~ step < Len(<<>>)
    OBVIOUS
  <2>3. <<>> \in Plan2(Actions)
    BY DEF Plan2
  <2> QED
    BY <1>2, <2>1, <2>2, <2>3, Zenon
<1> QED
  BY <1>1, <1>2

\* A sequence made from another one by its places.
LEMMA SameLength ==
  ASSUME NEW l \in Nat, NEW q, q = [p \in 1 .. l |-> q[p]]
  PROVE  Len(q) = l /\ DOMAIN q = 1 .. l
OBVIOUS

\* The waypoint plan of another robot, step by step.
LEMMA ActionsHold == ASSUME stage = "done" PROVE ActionsArrive
<1> SUFFICES ASSUME NEW id \in {2, 10}, NEW plan \in Plan2(Actions)
             PROVE  LET dc == OneOfTwo(id, plan)
                    IN  \A r \in {2, 3}, step \in 0 .. 2 :
                          IF r = NumberOf(id) /\ step < Len(plan)
                          THEN /\ get_next_action_value(dc, r, step) = plan[step + 1].value
                               /\ get_next_action_type(dc, r, step) =
                                    (IF plan[step + 1].type = "eHold" THEN HOLD ELSE WAYPOINT)
                          ELSE get_next_action_type(dc, r, step) = DONE
  BY Zenon DEF ActionsArrive
<1>1. PICK dc : dc = OneOfTwo(id, plan)
  OBVIOUS
<1>2. TwoPlans(dc, id, plan)
  BY <1>1, PlansHeard, Zenon
<1>3. ASSUME NEW r \in {2, 3}, NEW step \in 0 .. 2
      PROVE  IF r = NumberOf(id) /\ step < Len(plan)
             THEN /\ get_next_action_value(dc, r, step) = plan[step + 1].value
                  /\ get_next_action_type(dc, r, step) =
                       (IF plan[step + 1].type = "eHold" THEN HOLD ELSE WAYPOINT)
             ELSE get_next_action_type(dc, r, step) = DONE
  <2>1. PICK mine : mine = PlanOf(id, plan, r)
    OBVIOUS
  <2>2. /\ mine \in Plan2(Actions)
        /\ \A n \in Nat : n < Len(mine) <=> r = NumberOf(id) /\ n < Len(plan)
    BY <2>1, PlanOfFacts, Zenon
  <2>3. Len(mine) \in Nat /\ DOMAIN mine = 1 .. Len(mine)
    BY <2>2, PlanSeq, Zenon
  <2>4. PICK sent : sent = WaypointPlan(dc, r)
    OBVIOUS
  <2>5. sent = [p \in DOMAIN mine |-> [type |-> IF mine[p].type = "eHold" THEN "Hold" ELSE "Waypoint",
                                       value |-> mine[p].value]]
    <3>1. Relayed(Members(dc.robot_info_map)[r - 1], mine)
      BY <1>2, <2>1, Zenon DEF TwoPlans
    <3>2. sent = Members(dc.robot_info_map)[r - 1].waypoint_plan
      BY <2>4, Zenon DEF WaypointPlan
    <3>3. PICK heard : heard = Members(dc.robot_info_map)[r - 1]
      OBVIOUS
    <3>4. Relayed(heard, mine) /\ sent = heard.waypoint_plan
      BY <3>1, <3>2, <3>3, Zenon
    <3> QED
      BY <3>4, Zenon DEF Relayed
  <2>6. Len(sent) = Len(mine) /\ DOMAIN sent = DOMAIN mine
    <3>1. PICK l \in Nat : l = Len(mine)
      BY <2>3, Zenon
    <3>2. sent = [p \in 1 .. l |-> sent[p]]
      BY <2>3, <2>5, <3>1, Zenon
    <3> QED
      BY <2>3, <3>1, <3>2, SameLength, Zenon
  <2>7. step \in Nat /\ r - 1 \in {1, 2}
    OBVIOUS
  <2>8. HasAction(dc, r, step) <=> step < Len(mine)
    <3>1. Has(dc, {"robot_info_map"}) /\ \A o \in DOMAIN dc.robot_info_map : Has(dc.robot_info_map[o], {"waypoint_plan"})
      BY <1>2 DEF Has, TwoPlans
    <3>2. r - 1 \in DOMAIN Members(dc.robot_info_map)
      BY <1>2, <2>7, Zenon DEF TwoPlans
    <3> QED
      BY <2>4, <2>6, <3>1, <3>2, Zenon DEF HasAction
  <2>9. CASE r = NumberOf(id) /\ step < Len(plan)
    <3>1. HasAction(dc, r, step) /\ mine = plan /\ step < Len(mine)
      BY <2>1, <2>2, <2>7, <2>8, <2>9, Zenon DEF PlanOf
    <3>2. step + 1 \in DOMAIN mine
      <4>1. PICK l \in Nat : l = Len(mine)
        BY <2>3, Zenon
      <4>2. step + 1 \in 1 .. l
        BY <3>1, <4>1
      <4> QED
        BY <2>3, <4>1, <4>2, Zenon
    <3>3. PICK y : y = mine[step + 1]
      OBVIOUS
    <3>4. sent[step + 1] = [type |-> IF y.type = "eHold" THEN "Hold" ELSE "Waypoint", value |-> y.value]
      BY <2>5, <3>2, <3>3, Zenon
    <3>5. get_next_action_value(dc, r, step) = sent[step + 1].value
      BY <2>4, <3>1, Zenon DEF get_next_action_value
    <3>6. get_next_action_type(dc, r, step) = convert_to_action_type(sent[step + 1])
      BY <2>4, <3>1, Zenon DEF get_next_action_type
    <3>7. sent[step + 1].value = y.value
      BY <3>4
    <3>8. convert_to_action_type(sent[step + 1]) = IF y.type = "eHold" THEN HOLD ELSE WAYPOINT
      <4>1. CASE y.type = "eHold"
        BY <3>4, <4>1 DEF convert_to_action_type
      <4>2. CASE y.type # "eHold"
        BY <3>4, <4>2 DEF convert_to_action_type
      <4> QED
        BY <4>1, <4>2
    <3> QED
      BY <2>9, <3>1, <3>3, <3>5, <3>6, <3>7, <3>8, Zenon
  <2>10. CASE ~ (r = NumberOf(id) /\ step < Len(plan))
    <3>1. ~ HasAction(dc, r, step)
      BY <2>2, <2>7, <2>8, <2>10, Zenon
    <3> QED
      BY <2>10, <3>1, Zenon DEF get_next_action_type
  <2> QED
    BY <2>9, <2>10, Zenon
<1> QED
  BY <1>1, <1>3, Zenon

\* The waypoints that the keys of a plan of this length name are stations.
KeysAreStations(length) == \A n \in 0 .. (length - 1) : n \in Ids /\ ast[n].type # "via"

\* Of a station plan, its length arrives.
LEMMA LengthsHold == ASSUME ParserInv, Classified(config), stage = "done" PROVE OnlyLengthsArrive
<1> SUFFICES ASSUME NEW id \in {2, 10}, NEW plan \in Plan2(Actions)
             PROVE  LET dc == OneOfTwo(id, plan)
                        sound == \A n \in 0 .. (Len(plan) - 1) : n \in Ids /\ ast[n].type # "via"
                    IN  \A r \in {2, 3}, step \in 0 .. 2 :
                          LET told == next_robot_station(config, dc, r, step)
                          IN  IF sound /\ r = NumberOf(id) /\ step < Len(plan)
                              THEN WaypointOf(told) = step
                              ELSE told = 0
  BY Zenon DEF OnlyLengthsArrive
<1>1. PICK dc : dc = OneOfTwo(id, plan)
  OBVIOUS
<1>2. TwoPlans(dc, id, plan)
  BY <1>1, PlansHeard, Zenon
<1> DEFINE cs == combined_stations(config)
           mine(r) == PlanOf(id, plan, r)
           numbers(r) == Plans(config, dc)[r - 1]
<1>3. \A r \in {2, 3} : /\ Len(mine(r)) \in Nat /\ DOMAIN mine(r) = 1 .. Len(mine(r))
                        /\ \A n \in Nat : n < Len(mine(r)) <=> r = NumberOf(id) /\ n < Len(plan)
  BY PlanOfFacts, PlanSeq, Zenon
<1>4. \A p \in Nat : PositionIn(cs, p) # 0 <=> p \in Ids /\ ast[p].type # "via"
  BY PositionFacts, NoPosition, Zenon
<1>5. DOMAIN Plans(config, dc) = {1, 2}
  BY <1>2, Zenon DEF Plans, TwoPlans
<1> HIDE DEF mine
<1>6. ASSUME NEW r \in {2, 3}
      PROVE  /\ DOMAIN numbers(r) = 1 .. Len(mine(r)) /\ Len(numbers(r)) = Len(mine(r))
             /\ \A p \in 1 .. Len(mine(r)) : numbers(r)[p] = PositionIn(cs, p - 1)
  <2>1. r - 1 \in {1, 2}
    OBVIOUS
  <2>2. PICK told : told = Members(dc.robot_info_map)[r - 1].station_plan
    OBVIOUS
  <2>3. told = [p \in DOMAIN mine(r) |-> p - 1]
    BY <1>2, <2>2, Zenon DEF TwoPlans, Relayed, mine
  <2>4. numbers(r) = [p \in DOMAIN told |-> PositionIn(cs, told[p])]
    BY <1>2, <2>1, <2>2, Zenon DEF Plans, TwoPlans
  <2>5. PICK l \in Nat : l = Len(mine(r))
    BY <1>3
  <2>6. DOMAIN told = 1 .. l /\ \A p \in 1 .. l : told[p] = p - 1
    BY <1>3, <2>3, <2>5, Zenon
  <2>7. PICK q : q = numbers(r)
    OBVIOUS
  <2>8. q = [p \in 1 .. l |-> q[p]] /\ \A p \in 1 .. l : q[p] = PositionIn(cs, p - 1)
    BY <2>4, <2>6, <2>7, Zenon
  <2>9. Len(q) = l /\ DOMAIN q = 1 .. l
    BY <2>8, SameLength, Zenon
  <2> HIDE DEF numbers
  <2> QED
    BY <2>5, <2>7, <2>8, <2>9, Zenon
<1>7. \A i \in {1, 2} : \E r \in {2, 3} : r - 1 = i
  OBVIOUS
<1>8. NumberOf(id) \in {2, 3} /\ mine(NumberOf(id)) = plan
  BY DEF NumberOf, mine, PlanOf
<1>9. PICK l \in Nat : l = Len(plan)
  BY PlanSeq, Zenon
<1>10. Convertible(config, dc) <=> KeysAreStations(Len(plan))
  <2>1. Has(config, {"stations", "end_stations"}) /\ Has(dc, {"robot_info_map"})
    BY <1>2 DEF Has, Classified, TwoPlans
  <2>2. \A o \in DOMAIN dc.robot_info_map : Has(dc.robot_info_map[o], {"station_plan"})
    BY <1>2 DEF Has, TwoPlans
  <2>3. Convertible(config, dc) <=> \A r \in {2, 3} : \A p \in DOMAIN numbers(r) : numbers(r)[p] # 0
    <3>1. \A r \in {2, 3} : r - 1 \in {1, 2}
      OBVIOUS
    <3>2. Convertible(config, dc) <=>
            \A i \in {1, 2} : \A p \in DOMAIN Plans(config, dc)[i] : Plans(config, dc)[i][p] # 0
      BY <1>5, <2>1, <2>2, Zenon DEF Convertible
    <3> QED
      BY <1>7, <3>1, <3>2, Zenon
  <2> HIDE DEF numbers
  <2>4. (\A r \in {2, 3} : \A p \in DOMAIN numbers(r) : numbers(r)[p] # 0)
          <=> \A r \in {2, 3} : \A p \in 1 .. Len(mine(r)) : PositionIn(cs, p - 1) # 0
    BY <1>6, Zenon
  <2>5. (\A r \in {2, 3} : \A p \in 1 .. Len(mine(r)) : PositionIn(cs, p - 1) # 0)
          <=> \A p \in 1 .. l : PositionIn(cs, p - 1) # 0
    <3>1. ASSUME NEW r \in {2, 3}, r # NumberOf(id) PROVE 1 .. Len(mine(r)) = {}
      <4>1. PICK k \in Nat : k = Len(mine(r))
        BY <1>3
      <4>2. ~ 0 < k
        BY <1>3, <3>1, <4>1
      <4> QED
        BY <4>1, <4>2
    <3>2. 1 .. Len(mine(NumberOf(id))) = 1 .. l
      BY <1>8, <1>9, Zenon
    <3> HIDE DEF cs
    <3> QED
      BY <1>8, <3>1, <3>2, Zenon
  <2>6. (\A p \in 1 .. l : PositionIn(cs, p - 1) # 0) <=> \A n \in 0 .. (l - 1) : PositionIn(cs, n) # 0
    <3>1. \A p \in 1 .. l : p - 1 \in 0 .. (l - 1)
      OBVIOUS
    <3>2. \A n \in 0 .. (l - 1) : n + 1 \in 1 .. l /\ (n + 1) - 1 = n
      OBVIOUS
    <3> HIDE DEF cs
    <3> QED
      BY <3>1, <3>2, Zenon
  <2>7. \A n \in 0 .. (l - 1) : n \in Nat
    OBVIOUS
  <2>8. (\A n \in 0 .. (l - 1) : PositionIn(cs, n) # 0) <=> KeysAreStations(l)
    BY <1>4, <2>7, Zenon DEF KeysAreStations
  <2> QED
    BY <1>9, <2>3, <2>4, <2>5, <2>6, <2>8, Zenon
<1>11. ASSUME NEW r \in {2, 3}, NEW step \in 0 .. 2
       PROVE  IF KeysAreStations(Len(plan)) /\ r = NumberOf(id) /\ step < Len(plan)
              THEN WaypointOf(next_robot_station(config, dc, r, step)) = step
              ELSE next_robot_station(config, dc, r, step) = 0
  <2>1. step \in Nat /\ r - 1 \in {1, 2} /\ (step + 1) - 1 = step
    OBVIOUS
  <2>2. step < Len(numbers(r)) <=> r = NumberOf(id) /\ step < Len(plan)
    BY <1>3, <1>6, <2>1, Zenon
  <2>3. CASE KeysAreStations(Len(plan)) /\ r = NumberOf(id) /\ step < Len(plan)
    <3>1. next_robot_station(config, dc, r, step) = numbers(r)[step + 1]
      BY <1>5, <1>10, <2>1, <2>2, <2>3, Zenon DEF next_robot_station
    <3>2. step + 1 \in 1 .. Len(mine(r))
      <4>1. mine(r) = plan
        BY <1>8, <2>3, Zenon
      <4>2. step + 1 \in 1 .. l
        BY <1>9, <2>1, <2>3
      <4> QED
        BY <1>9, <4>1, <4>2, Zenon
    <3>3. numbers(r)[step + 1] = PositionIn(cs, step)
      BY <1>6, <2>1, <3>2, Zenon
    <3>4. step \in 0 .. (l - 1)
      BY <1>9, <2>1, <2>3
    <3>5. step \in Ids /\ ast[step].type # "via"
      BY <1>9, <2>3, <3>4, Zenon DEF KeysAreStations
    <3>6. WaypointOf(PositionIn(cs, step)) = step
      BY <3>5, PositionFacts, Zenon
    <3> QED
      BY <2>3, <3>1, <3>3, <3>6, Zenon
  <2>4. CASE ~ (KeysAreStations(Len(plan)) /\ r = NumberOf(id) /\ step < Len(plan))
    <3>1. ~ (Convertible(config, dc) /\ step < Len(numbers(r)))
      BY <1>10, <2>2, <2>4, Zenon
    <3> QED
      BY <2>4, <3>1, Zenon DEF next_robot_station
  <2> QED
    BY <2>3, <2>4, Zenon
<1> HIDE DEF numbers, cs
<1> QED
  BY <1>1, <1>11, Zenon DEF KeysAreStations

-----------------------------------------------------------------------------
(* Reading a complete file.                                                  *)

Marks  == Nodes(NodeWords \cup {"Elisa3"})
Starts == Nodes(NodeWords)
Place(p, f) == CHOOSE q \in FieldsOf(p, f) : TRUE

\* What a reader makes of the words at a position.
LEMMA WordFacts ==
  ASSUME WorldAssumption, file \in WorldFiles
  PROVE  /\ \A p \in DOMAIN file : p \in Nat \ {0} /\ p <= Len(file)
         /\ \A p \in Nat \ {0} : p <= Len(file) => p \in DOMAIN file
         /\ Starts \subseteq Marks /\ Nodes({"Elisa3"}) \subseteq Marks /\ Marks \subseteq DOMAIN file
         /\ \A p \in DOMAIN file : /\ p \in Starts <=> file[p].word \in NodeWords
                                   /\ p \in Marks <=> file[p].word \in NodeWords \cup {"Elisa3"}
                                   /\ p \in Nodes({"Elisa3"}) <=> file[p].word = "Elisa3"
                                   /\ p \in Nodes({"Elisa3"}) => p \notin Starts
                                   /\ file[p].word \in Fields => p \notin Marks
<1>1. Len(file) \in Nat /\ DOMAIN file = 1 .. Len(file)
  BY FileFacts
<1>2. /\ \A p \in DOMAIN file : p \in Nat \ {0} /\ p <= Len(file)
      /\ \A p \in Nat \ {0} : p <= Len(file) => p \in DOMAIN file
  BY <1>1
<1>3. Starts \subseteq Marks /\ Nodes({"Elisa3"}) \subseteq Marks /\ Marks \subseteq DOMAIN file
  BY DEF Starts, Marks, Nodes
<1>4. ASSUME NEW p \in DOMAIN file
      PROVE  /\ p \in Starts <=> file[p].word \in NodeWords
             /\ p \in Marks <=> file[p].word \in NodeWords \cup {"Elisa3"}
             /\ p \in Nodes({"Elisa3"}) <=> file[p].word = "Elisa3"
             /\ p \in Nodes({"Elisa3"}) => p \notin Starts
             /\ file[p].word \in Fields => p \notin Marks
  BY DEF Starts, Marks, Nodes, NodeWords, Fields
<1> QED
  BY <1>2, <1>3, <1>4

\* The one place of a field of a waypoint.
LEMMA PlaceFacts ==
  ASSUME WorldAssumption, file \in WorldFiles, Complete, NEW p \in Starts, NEW f \in Fields
  PROVE  /\ FieldsOf(p, f) = {Place(p, f)}
         /\ Place(p, f) \in DOMAIN file /\ Place(p, f) \in Nat /\ p < Place(p, f)
         /\ file[Place(p, f)].word = f
         /\ \A r \in (p + 1) .. Place(p, f) : r \notin Marks
         /\ \A q \in DOMAIN file :
              q > p /\ file[q].word = f /\ (\A r \in (p + 1) .. q : r \notin Marks) => q = Place(p, f)
<1>1. Len(file) \in Nat /\ DOMAIN file = 1 .. Len(file)
  BY FileFacts
<1>2. IsFiniteSet(1 .. Len(file))
  BY <1>1, FS_Interval
<1>3. FieldsOf(p, f) \in SUBSET (1 .. Len(file))
  BY <1>1 DEF FieldsOf
<1>4. IsFiniteSet(FieldsOf(p, f))
  BY <1>2, <1>3, FS_Subset
<1>5. Cardinality(FieldsOf(p, f)) = 1
  BY Zenon DEF Complete, Starts
<1>6. \E q : FieldsOf(p, f) = {q}
  BY <1>4, <1>5, FS_Singleton
<1>7. PICK q : FieldsOf(p, f) = {q}
  BY <1>6, Zenon
<1>8. Place(p, f) = q
  <2>1. Place(p, f) \in FieldsOf(p, f)
    BY <1>7 DEF Place
  <2> QED
    BY <1>7, <2>1
<1>9. \A x : x \in FieldsOf(p, f) <=>
        /\ x \in DOMAIN file /\ x > p /\ file[x].word = f
        /\ \A r \in (p + 1) .. x : r \notin Marks
  BY DEF FieldsOf, Marks
<1>10. q \in FieldsOf(p, f) /\ \A x \in FieldsOf(p, f) : x = q
  BY <1>7
<1>11. /\ q \in DOMAIN file /\ q > p /\ file[q].word = f /\ \A r \in (p + 1) .. q : r \notin Marks
  BY <1>9, <1>10, Zenon
<1>12. q \in Nat /\ p \in Nat
  BY <1>1, <1>11 DEF Starts, Nodes
<1>13. p < q
  BY <1>11, <1>12
<1> QED
  BY <1>7, <1>8, <1>9, <1>10, <1>11, <1>12, <1>13, Zenon

Clear(p, k) == \A r \in (p + 1) .. (k - 1) : r \notin Marks

\* The fields of p lie before k.
Behind(p, k) == \A f \in Fields : Place(p, f) < k /\ Readable(file[Place(p, f)])

\* The fields of c that have been read.
SoFar(w, c, k) ==
  /\ DOMAIN w = {"type"} \cup {f \in Fields : Place(c, f) < k}
  /\ w.type = waypointType(file[c].word)
  /\ \A f \in Fields : Place(c, f) < k => Readable(file[Place(c, f)]) /\ w[f] = Field(c, f)

First(p) == \A q \in Starts : q < p => Field(q, "id") # Field(p, "id")

Before(k) == {p \in Starts : p < k}

\* The map of these waypoints.
Built(m, D) ==
  /\ DOMAIN m = {Field(p, "id") : p \in D}
  /\ \A p \in D : First(p) =>
       /\ m[Field(p, "id")].type = waypointType(file[p].word)
       /\ \A f \in Fields : m[Field(p, "id")][f] = Field(p, f)

Counted(r, k) == r = Cardinality({p \in Nodes({"Elisa3"}) : p < k})

AtTop(k, m) == (\A p \in Before(k) : Behind(p, k)) /\ Built(m, Before(k))

Current(w, c, k) ==
  /\ c \in Starts /\ c < k /\ Clear(c, k) /\ SoFar(w, c, k)
  /\ \E f \in Fields : k <= Place(c, f)

InNode(k, w, m) ==
  \E c : Current(w, c, k) /\ (\A p \in Before(c) : Behind(p, k)) /\ Built(m, Before(c))

ReadAt(k, w, m, r, s) ==
  /\ s \in {"top", "parsed"} => AtTop(k, m) /\ Counted(r, k)
  /\ s = "waypoint" => InNode(k, w, m) /\ Counted(r, k)
  /\ s = "parsed" => k > Len(file)
  /\ s \in {"malformed", "invalid_argument"} => ~ AllReadable

\* What lies before a place lies before the next.
LEMMA BehindNext ==
  ASSUME WorldAssumption, file \in WorldFiles, Complete, NEW p \in Starts, NEW k \in Nat, Behind(p, k)
  PROVE  Behind(p, k + 1)
<1>1. ASSUME NEW f \in Fields PROVE Place(p, f) < k + 1 /\ Readable(file[Place(p, f)])
  <2>1. Place(p, f) < k /\ Readable(file[Place(p, f)])
    BY Zenon DEF Behind
  <2>2. PICK x \in Nat : x = Place(p, f)
    BY PlaceFacts
  <2>3. x < k => x < k + 1
    OBVIOUS
  <2> QED
    BY <2>1, <2>2, <2>3, Zenon
<1> QED
  BY <1>1, Zenon DEF Behind

\* No waypoint starts at k.
LEMMA BeforeNext ==
  ASSUME WorldAssumption, file \in WorldFiles, NEW k \in Nat
  PROVE  /\ k \notin Starts => Before(k + 1) = Before(k)
         /\ k \in Starts => Before(k + 1) = Before(k) \cup {k}
<1>1. \A p \in Starts : p \in Nat
  BY WordFacts
<1>2. \A p \in Starts : p < k + 1 <=> p < k \/ p = k
  BY <1>1
<1> QED
  BY <1>1, <1>2 DEF Before

\* Another word between waypoints.
LEMMA TopNext ==
  ASSUME WorldAssumption, file \in WorldFiles, Complete, NEW k \in Nat, NEW m, AtTop(k, m), k \notin Starts
  PROVE  AtTop(k + 1, m)
<1>1. Before(k + 1) = Before(k)
  BY BeforeNext
<1>2. \A p \in Before(k) : p \in Starts /\ Behind(p, k)
  BY DEF AtTop, Before
<1>3. \A p \in Before(k) : Behind(p, k + 1)
  BY <1>2, BehindNext, Zenon
<1>4. Built(m, Before(k))
  BY Zenon DEF AtTop
<1> QED
  BY <1>1, <1>3, <1>4, Zenon DEF AtTop

\* Robots are counted where they are met.
LEMMA CountNext ==
  ASSUME WorldAssumption, file \in WorldFiles, NEW k \in Nat, NEW r, Counted(r, k)
  PROVE  /\ r \in Nat
         /\ k \in Nodes({"Elisa3"}) => Counted(r + 1, k + 1)
         /\ k \notin Nodes({"Elisa3"}) => Counted(r, k + 1)
<1> DEFINE R == Nodes({"Elisa3"})
           U(j) == {p \in R : p < j}
<1>1. Len(file) \in Nat /\ DOMAIN file = 1 .. Len(file)
  BY FileFacts
<1>2. R \in SUBSET (1 .. Len(file)) /\ IsFiniteSet(1 .. Len(file))
  BY <1>1, FS_Interval DEF Nodes
<1>3. IsFiniteSet(U(k)) /\ Cardinality(U(k)) \in Nat
  <2>1. U(k) \in SUBSET (1 .. Len(file))
    BY <1>2
  <2>2. IsFiniteSet(U(k))
    BY <1>2, <2>1, FS_Subset
  <2> QED
    BY <2>2, FS_CardinalityType
<1>4. \A p \in R : p \in Nat
  BY <1>2
<1> HIDE DEF R
<1>5. \A p \in R : (p < k + 1 <=> p < k \/ p = k) /\ (p < k => p # k)
  BY <1>4
<1>6. PICK j : j = k + 1
  OBVIOUS
<1>7. ASSUME k \in R PROVE U(k + 1) = U(k) \cup {k} /\ k \notin U(k)
  <2>1. \A p \in R : (p < j <=> p < k \/ p = k) /\ (p < k => p # k)
    BY <1>5, <1>6, Zenon
  <2>2. U(j) = U(k) \cup {k} /\ k \notin U(k)
    BY <1>7, <2>1, Zenon
  <2> QED
    BY <1>6, <2>2, Zenon
<1>8. ASSUME k \notin R PROVE U(k + 1) = U(k)
  <2>1. \A p \in R : p < j <=> p < k
    BY <1>5, <1>6, <1>8, Zenon
  <2>2. U(j) = U(k)
    BY <2>1, Zenon
  <2> QED
    BY <1>6, <2>2, Zenon
<1>9. \A i, x : Counted(x, i) <=> x = Cardinality(U(i))
  BY Zenon DEF Counted, R
<1> HIDE DEF U
<1>10. ASSUME k \in R PROVE Cardinality(U(k + 1)) = Cardinality(U(k)) + 1
  <2>1. Cardinality(U(k) \cup {k}) = Cardinality(U(k)) + 1
    BY <1>3, <1>7, <1>10, FS_AddElement
  <2> QED
    BY <1>7, <1>10, <2>1
<1>11. r = Cardinality(U(k))
  BY <1>9, Zenon
<1>12. k \in R => Counted(r + 1, k + 1)
  BY <1>9, <1>10, <1>11, Zenon
<1>13. k \notin R => Counted(r, k + 1)
  BY <1>8, <1>9, <1>11, Zenon
<1>14. r \in Nat
  BY <1>3, <1>11, Zenon
<1> QED
  BY <1>12, <1>13, <1>14 DEF R

\* What holds of the place where a waypoint is being read.
LEMMA CurrentFacts ==
  ASSUME WorldAssumption, file \in WorldFiles, Complete, NEW w, NEW c, NEW k \in Nat, Current(w, c, k)
  PROVE  /\ c \in Starts /\ c \in Nat /\ c < k
         /\ k \in DOMAIN file /\ k <= Len(file) /\ k \notin Marks /\ Clear(c, k + 1)
         /\ file[k].word \in Fields => Place(c, file[k].word) = k
         /\ \A f \in Fields : Place(c, f) = k => file[k].word = f
<1>1. c \in Starts /\ c < k /\ Clear(c, k)
  BY Zenon DEF Current
<1>2. PICK f \in Fields : k <= Place(c, f)
  BY Zenon DEF Current
<1>3. PICK q \in Nat : /\ q = Place(c, f) /\ q \in DOMAIN file /\ c < q
                       /\ \A r \in (c + 1) .. q : r \notin Marks
  BY <1>1, PlaceFacts
<1>4. c \in Nat \ {0} /\ c \in DOMAIN file /\ q <= Len(file) /\ Len(file) \in Nat
  BY <1>1, <1>3, WordFacts, FileFacts
<1>5. k <= q
  BY <1>2, <1>3, Zenon
<1>6. k \in (c + 1) .. q /\ k <= Len(file) /\ k # 0
  BY <1>1, <1>3, <1>4, <1>5
<1>7. k \notin Marks
  BY <1>3, <1>6, Zenon
<1>8. k \in DOMAIN file
  BY <1>6, WordFacts
<1>9. \A r \in (c + 1) .. k : r \notin Marks
  <2>1. \A r \in (c + 1) .. k : r \in (c + 1) .. (k - 1) \/ r = k
    BY <1>4
  <2> QED
    BY <1>1, <1>7, <2>1, Zenon DEF Clear
<1>10. Clear(c, k + 1)
  <2>1. (k + 1) - 1 = k
    OBVIOUS
  <2> QED
    BY <1>9, <2>1, Zenon DEF Clear
<1>11. ASSUME file[k].word \in Fields PROVE Place(c, file[k].word) = k
  <2>1. k > c
    BY <1>1, <1>4
  <2> QED
    BY <1>1, <1>8, <1>9, <1>11, <2>1, PlaceFacts, Zenon
<1>12. \A g \in Fields : Place(c, g) = k => file[k].word = g
  BY <1>1, PlaceFacts, Zenon
<1> QED
  BY <1>1, <1>4, <1>6, <1>7, <1>8, <1>10, <1>11, <1>12

\* A waypoint begins.
LEMMA Begin ==
  ASSUME WorldAssumption, file \in WorldFiles, Complete, NEW k \in Starts, NEW m, AtTop(k, m)
  PROVE  InNode(k + 1, [type |-> waypointType(file[k].word)], m)
<1>1. k \in Nat
  BY WordFacts
<1>2. k < k + 1 /\ Clear(k, k + 1)
  BY <1>1 DEF Clear
<1>3. ASSUME NEW f \in Fields PROVE ~ (Place(k, f) < k + 1) /\ k + 1 <= Place(k, f)
  <2>1. PICK q \in Nat : q = Place(k, f) /\ k < q
    BY PlaceFacts
  <2>2. ~ (q < k + 1) /\ k + 1 <= q
    BY <1>1, <2>1
  <2> QED
    BY <2>1, <2>2, Zenon
<1>4. SoFar([type |-> waypointType(file[k].word)], k, k + 1)
  <2>1. {f \in Fields : Place(k, f) < k + 1} = {}
    BY <1>3, Zenon
  <2>2. PICK t : t = waypointType(file[k].word)
    OBVIOUS
  <2>3. DOMAIN [type |-> t] = {"type"} \cup {} /\ [type |-> t].type = t
    OBVIOUS
  <2>4. /\ DOMAIN [type |-> t] = {"type"} \cup {f \in Fields : Place(k, f) < k + 1}
        /\ [type |-> t].type = waypointType(file[k].word)
    BY <2>1, <2>2, <2>3
  <2>5. SoFar([type |-> t], k, k + 1)
    BY <1>3, <2>4, Zenon DEF SoFar
  <2> QED
    BY <2>2, <2>5
<1>5. Current([type |-> waypointType(file[k].word)], k, k + 1)
  <2>1. "id" \in Fields
    BY DEF Fields
  <2> QED
    BY <1>2, <1>3, <1>4, <2>1, Zenon DEF Current
<1>6. \A p \in Before(k) : p \in Starts /\ Behind(p, k)
  BY DEF AtTop, Before
<1>7. \A p \in Before(k) : Behind(p, k + 1)
  BY <1>1, <1>6, BehindNext, Zenon
<1> QED
  BY <1>5, <1>7, Zenon DEF AtTop, InNode

\* Before the waypoint that is being read, nothing changes.
LEMMA InNodeNext ==
  ASSUME WorldAssumption, file \in WorldFiles, Complete, NEW k \in Nat, NEW c,
         \A p \in Before(c) : Behind(p, k)
  PROVE  \A p \in Before(c) : Behind(p, k + 1)
<1>1. \A p \in Before(c) : p \in Starts /\ Behind(p, k)
  BY DEF Before
<1> QED
  BY <1>1, BehindNext, Zenon

\* A field whose place is not k is read before k + 1 if it is read before k.
LEMMA OtherPlaces ==
  ASSUME WorldAssumption, file \in WorldFiles, Complete, NEW c \in Starts, NEW k \in Nat
  PROVE  \A f \in Fields : /\ Place(c, f) < k + 1 <=> Place(c, f) < k \/ Place(c, f) = k
                           /\ ~ (Place(c, f) < k + 1) <=> k + 1 <= Place(c, f)
<1> SUFFICES ASSUME NEW f \in Fields
             PROVE  /\ Place(c, f) < k + 1 <=> Place(c, f) < k \/ Place(c, f) = k
                    /\ ~ (Place(c, f) < k + 1) <=> k + 1 <= Place(c, f)
  OBVIOUS
<1>1. PICK q \in Nat : q = Place(c, f)
  BY PlaceFacts
<1>2. (q < k + 1 <=> q < k \/ q = k) /\ (~ (q < k + 1) <=> k + 1 <= q)
  OBVIOUS
<1> QED
  BY <1>1, <1>2, Zenon

\* Another word in a waypoint.
LEMMA SkipIn ==
  ASSUME WorldAssumption, file \in WorldFiles, Complete, NEW k \in Nat, NEW w, NEW m, InNode(k, w, m),
         file[k].word \notin Fields
  PROVE  InNode(k + 1, w, m)
<1>1. PICK c : Current(w, c, k) /\ (\A p \in Before(c) : Behind(p, k)) /\ Built(m, Before(c))
  BY Zenon DEF InNode
<1>2. /\ c \in Starts /\ c \in Nat /\ c < k /\ Clear(c, k + 1)
      /\ \A f \in Fields : Place(c, f) = k => file[k].word = f
  BY <1>1, CurrentFacts
<1>3. \A f \in Fields : /\ Place(c, f) < k + 1 <=> Place(c, f) < k \/ Place(c, f) = k
                        /\ ~ (Place(c, f) < k + 1) <=> k + 1 <= Place(c, f)
  BY <1>2, OtherPlaces
<1>4. \A f \in Fields : Place(c, f) # k
  BY <1>2, Zenon
<1>5. \A f \in Fields : Place(c, f) < k + 1 <=> Place(c, f) < k
  BY <1>3, <1>4, Zenon
<1>6. SoFar(w, c, k + 1)
  <2>1. SoFar(w, c, k)
    BY <1>1, Zenon DEF Current
  <2>2. {f \in Fields : Place(c, f) < k + 1} = {f \in Fields : Place(c, f) < k}
    BY <1>5, Zenon
  <2> QED
    BY <1>5, <2>1, <2>2, Zenon DEF SoFar
<1>7. c < k + 1
  BY <1>2
<1>8. \E f \in Fields : k + 1 <= Place(c, f)
  <2>1. PICK f \in Fields : k <= Place(c, f)
    BY <1>1, Zenon DEF Current
  <2>2. PICK q \in Nat : q = Place(c, f)
    BY <1>2, PlaceFacts
  <2>3. q # k /\ k <= q
    BY <1>4, <2>1, <2>2, Zenon
  <2>4. k + 1 <= q
    BY <2>3
  <2> QED
    BY <2>2, <2>4, Zenon
<1>9. Current(w, c, k + 1)
  BY <1>2, <1>6, <1>7, <1>8, Zenon DEF Current
<1>10. \A p \in Before(c) : Behind(p, k + 1)
  BY <1>1, InNodeNext, Zenon
<1> QED
  BY <1>1, <1>9, <1>10, Zenon DEF InNode

\* A field of the waypoint that is being read.
LEMMA ReadNext ==
  ASSUME WorldAssumption, file \in WorldFiles, Complete, NEW k \in Nat, NEW w, NEW c, Current(w, c, k),
         file[k].word \in Fields, Readable(file[k]),
         NEW read, read = Assign(w, file[k].word, Value(file[k]))
  PROVE  SoFar(read, c, k + 1)
<1>1. /\ c \in Starts
      /\ Place(c, file[k].word) = k
      /\ \A f \in Fields : Place(c, f) = k => file[k].word = f
  BY CurrentFacts
<1>2. SoFar(w, c, k)
  BY Zenon DEF Current
<1>3. PICK g \in Fields : g = file[k].word
  OBVIOUS
<1>4. \A f \in Fields : Place(c, f) < k + 1 <=> Place(c, f) < k \/ Place(c, f) = k
  BY <1>1, OtherPlaces
<1>5. \A f \in Fields : Place(c, f) < k + 1 <=> Place(c, f) < k \/ f = g
  BY <1>1, <1>3, <1>4, Zenon
<1>6. /\ DOMAIN read = DOMAIN w \cup {g}
      /\ \A f \in DOMAIN read : read[f] = IF f = g THEN Value(file[k]) ELSE w[f]
  BY <1>3, Zenon DEF Assign
<1>7. DOMAIN read = {"type"} \cup {f \in Fields : Place(c, f) < k + 1}
  <2>1. DOMAIN w = {"type"} \cup {f \in Fields : Place(c, f) < k}
    BY <1>2, Zenon DEF SoFar
  <2> QED
    BY <1>3, <1>5, <1>6, <2>1, Zenon
<1>8. "type" \in DOMAIN w /\ g # "type" /\ "type" \in DOMAIN read
  BY <1>2, <1>7 DEF SoFar, Fields
<1>9. read.type = waypointType(file[c].word)
  <2>1. read["type"] = w["type"]
    BY <1>6, <1>8, Zenon
  <2> QED
    BY <1>2, <2>1, Zenon DEF SoFar
<1>10. ASSUME NEW f \in Fields, Place(c, f) < k + 1
       PROVE  Readable(file[Place(c, f)]) /\ read[f] = Field(c, f)
  <2>1. f \in DOMAIN read
    BY <1>7, <1>10, Zenon
  <2>2. CASE f = g
    <3>1. Field(c, f) = Value(file[Place(c, f)])
      BY DEF Field, Place
    <3> QED
      BY <1>1, <1>3, <1>6, <2>1, <2>2, <3>1, Zenon
  <2>3. CASE f # g
    <3>1. Place(c, f) < k
      BY <1>5, <1>10, <2>3, Zenon
    <3> QED
      BY <1>2, <1>6, <2>1, <2>3, <3>1, Zenon DEF SoFar
  <2> QED
    BY <2>2, <2>3
<1> QED
  BY <1>7, <1>9, <1>10, Zenon DEF SoFar

\* A field that is not the last one.
LEMMA ReadOn ==
  ASSUME WorldAssumption, file \in WorldFiles, Complete, NEW k \in Nat, NEW w, NEW m, InNode(k, w, m),
         file[k].word \in Fields, Readable(file[k]),
         NEW read, read = Assign(w, file[k].word, Value(file[k])), ~ (Fields \subseteq DOMAIN read)
  PROVE  InNode(k + 1, read, m)
<1>1. PICK c : Current(w, c, k) /\ (\A p \in Before(c) : Behind(p, k)) /\ Built(m, Before(c))
  BY Zenon DEF InNode
<1>2. c \in Starts /\ c \in Nat /\ c < k /\ Clear(c, k + 1)
  BY <1>1, CurrentFacts
<1>3. SoFar(read, c, k + 1)
  BY <1>1, ReadNext
<1>4. c < k + 1
  BY <1>2
<1>5. \E f \in Fields : k + 1 <= Place(c, f)
  <2>1. PICK f \in Fields : f \notin DOMAIN read
    BY Zenon
  <2>2. ~ (Place(c, f) < k + 1)
    BY <1>3, <2>1, Zenon DEF SoFar
  <2>3. k + 1 <= Place(c, f)
    BY <1>2, <2>2, OtherPlaces
  <2> QED
    BY <2>3
<1>6. Current(read, c, k + 1)
  BY <1>2, <1>3, <1>4, <1>5, Zenon DEF Current
<1>7. \A p \in Before(c) : Behind(p, k + 1)
  BY <1>1, InNodeNext, Zenon
<1> QED
  BY <1>1, <1>6, <1>7, Zenon DEF InNode

\* A waypoint is the next one after those before it.
LEMMA BeforeDone ==
  ASSUME WorldAssumption, file \in WorldFiles, NEW k \in Nat, NEW c \in Starts, c < k, Clear(c, k + 1)
  PROVE  Before(k + 1) = Before(c) \cup {c}
<1>1. c \in Nat /\ \A p \in Starts : p \in Nat /\ p \in Marks
  BY WordFacts
<1>2. \A r \in (c + 1) .. k : r \notin Marks
  <2>1. (k + 1) - 1 = k
    OBVIOUS
  <2> QED
    BY <2>1, Zenon DEF Clear
<1>3. ASSUME NEW p \in Starts PROVE p < k + 1 <=> p < c \/ p = c
  <2>1. p \in Nat /\ p \notin (c + 1) .. k
    BY <1>1, <1>2, Zenon
  <2> QED
    BY <1>1, <2>1
<1> QED
  BY <1>3, Zenon DEF Before

\* The map with the waypoint that is complete.
LEMMA BuiltNext ==
  ASSUME NEW m, NEW c \in Starts, Built(m, Before(c)), NEW read, NEW k,
         SoFar(read, c, k), \A f \in Fields : Place(c, f) < k
  PROVE  Built(Insert(m, read.id, read), Before(c) \cup {c})
<1>1. "id" \in Fields
  BY DEF Fields
<1>2. \A f \in Fields : read[f] = Field(c, f)
  BY Zenon DEF SoFar
<1>3. PICK i : i = read.id
  OBVIOUS
<1>4. i = Field(c, "id")
  BY <1>1, <1>2, <1>3, Zenon
<1>5. PICK n : n = Insert(m, i, read)
  OBVIOUS
<1>6. /\ DOMAIN n = DOMAIN m \cup {i}
      /\ \A x \in DOMAIN m : n[x] = m[x]
      /\ i \notin DOMAIN m => n[i] = read
  <2>1. DOMAIN n = DOMAIN m \cup {i}
    BY <1>5, Zenon DEF Insert
  <2>2. \A x \in DOMAIN n : n[x] = IF x \in DOMAIN m THEN m[x] ELSE read
    BY <1>5, Zenon DEF Insert
  <2> QED
    BY <2>1, <2>2, Zenon
<1>7. DOMAIN m = {Field(p, "id") : p \in Before(c)}
  BY Zenon DEF Built
<1>8. DOMAIN n = {Field(p, "id") : p \in Before(c) \cup {c}}
  BY <1>4, <1>6, <1>7, Zenon
<1>9. ASSUME NEW p \in Before(c), First(p)
      PROVE  /\ n[Field(p, "id")].type = waypointType(file[p].word)
             /\ \A f \in Fields : n[Field(p, "id")][f] = Field(p, f)
  <2>1. n[Field(p, "id")] = m[Field(p, "id")]
    BY <1>6, <1>7, Zenon
  <2> QED
    BY <1>9, <2>1, Zenon DEF Built
<1>10. ASSUME First(c)
       PROVE  /\ n[Field(c, "id")].type = waypointType(file[c].word)
              /\ \A f \in Fields : n[Field(c, "id")][f] = Field(c, f)
  <2>1. i \notin DOMAIN m
    BY <1>4, <1>7, <1>10, Zenon DEF First, Before
  <2>2. n[Field(c, "id")] = read
    BY <1>4, <1>6, <2>1, Zenon
  <2>3. read.type = waypointType(file[c].word)
    BY Zenon DEF SoFar
  <2> QED
    BY <1>2, <2>2, <2>3, Zenon
<1>11. Built(n, Before(c) \cup {c})
  BY <1>8, <1>9, <1>10, Zenon DEF Built
<1> QED
  BY <1>3, <1>5, <1>11, Zenon

\* The field that completes a waypoint.
LEMMA ReadDone ==
  ASSUME WorldAssumption, file \in WorldFiles, Complete, NEW k \in Nat, NEW w, NEW m, InNode(k, w, m),
         file[k].word \in Fields, Readable(file[k]),
         NEW read, read = Assign(w, file[k].word, Value(file[k])), Fields \subseteq DOMAIN read
  PROVE  AtTop(k + 1, Insert(m, read.id, read))
<1>1. PICK c : Current(w, c, k) /\ (\A p \in Before(c) : Behind(p, k)) /\ Built(m, Before(c))
  BY Zenon DEF InNode
<1>2. c \in Starts /\ c \in Nat /\ c < k /\ Clear(c, k + 1)
  BY <1>1, CurrentFacts
<1>3. SoFar(read, c, k + 1)
  BY <1>1, ReadNext
<1>4. \A f \in Fields : Place(c, f) < k + 1
  <2>1. "type" \notin Fields
    BY DEF Fields
  <2> QED
    BY <1>3, <2>1, Zenon DEF SoFar
<1>5. Behind(c, k + 1)
  BY <1>3, <1>4, Zenon DEF Behind, SoFar
<1>6. \A p \in Before(c) : Behind(p, k + 1)
  BY <1>1, InNodeNext, Zenon
<1>7. Before(k + 1) = Before(c) \cup {c}
  BY <1>2, BeforeDone
<1>8. Built(Insert(m, read.id, read), Before(c) \cup {c})
  BY <1>1, <1>2, <1>3, <1>4, BuiltNext, Zenon
<1>9. \A p \in Before(k + 1) : Behind(p, k + 1)
  BY <1>5, <1>6, <1>7, Zenon
<1> QED
  BY <1>7, <1>8, <1>9, Zenon DEF AtTop

\* A field that is not a number.
LEMMA Garbage ==
  ASSUME WorldAssumption, file \in WorldFiles, Complete, NEW k \in Nat, NEW w, NEW m, InNode(k, w, m),
         file[k].word \in Fields, ~ Readable(file[k])
  PROVE  ~ AllReadable
<1>1. PICK c : Current(w, c, k)
  BY Zenon DEF InNode
<1>2. PICK f \in Fields : f = file[k].word
  OBVIOUS
<1>3. c \in Starts /\ Place(c, f) = k
  BY <1>1, <1>2, CurrentFacts
<1>4. k \in FieldsOf(c, f)
  <2>1. FieldsOf(c, f) = {Place(c, f)}
    BY <1>3, PlaceFacts
  <2> QED
    BY <1>3, <2>1, Zenon
<1> QED
  BY <1>3, <1>4, Zenon DEF AllReadable, Starts

ReadInv == Complete => ReadAt(pos, waypoint, ast, robots, parse)

\* What a reader understands depends on the file alone.
LEMMA SameFile ==
  ASSUME UNCHANGED file
  PROVE  /\ Complete' = Complete /\ AllReadable' = AllReadable
         /\ \A k, w, m, r, s : ReadAt(k, w, m, r, s)' = ReadAt(k, w, m, r, s)
<1>1. /\ \A W : Nodes(W)' = Nodes(W)
      /\ \A p, f : FieldsOf(p, f)' = FieldsOf(p, f)
      /\ Marks' = Marks /\ Starts' = Starts
  BY DEF Nodes, FieldsOf, Marks, Starts
<1>2. /\ \A p, f : Field(p, f)' = Field(p, f)
      /\ \A p, f : Place(p, f)' = Place(p, f)
  <2> SUFFICES ASSUME NEW p, NEW f PROVE Field(p, f)' = Field(p, f) /\ Place(p, f)' = Place(p, f)
    OBVIOUS
  <2>1. FieldsOf(p, f)' = FieldsOf(p, f) /\ file' = file
    BY <1>1, Zenon
  <2>2. Place(p, f)' = Place(p, f)
    BY <2>1, Zenon DEF Place
  <2>3. Field(p, f)' = Value(file'[Place(p, f)']) /\ Field(p, f) = Value(file[Place(p, f)])
    BY Zenon DEF Field, Place, Value
  <2> QED
    BY <2>1, <2>2, <2>3, Zenon
<1>3. /\ \A k : Before(k)' = Before(k)
      /\ \A p, k : Clear(p, k)' = Clear(p, k)
      /\ \A p, k : Behind(p, k)' = Behind(p, k)
      /\ \A p : First(p)' = First(p)
      /\ \A r, k : Counted(r, k)' = Counted(r, k)
      /\ \A w, c, k : SoFar(w, c, k)' = SoFar(w, c, k)
  BY <1>1, <1>2 DEF Before, Clear, Behind, First, Counted, SoFar
<1>4. /\ \A m, D : Built(m, D)' = Built(m, D)
      /\ \A w, c, k : Current(w, c, k)' = Current(w, c, k)
  BY <1>1, <1>2, <1>3 DEF Built, Current
<1>5. /\ \A k, m : AtTop(k, m)' = AtTop(k, m)
      /\ \A k, w, m : InNode(k, w, m)' = InNode(k, w, m)
  BY <1>3, <1>4 DEF AtTop, InNode
<1>6. Complete' = Complete /\ AllReadable' = AllReadable
  BY <1>1 DEF Complete, AllReadable
<1>7. \A k, w, m, r, s : ReadAt(k, w, m, r, s)' = ReadAt(k, w, m, r, s)
  BY <1>3, <1>5, <1>6 DEF ReadAt
<1> QED
  BY <1>6, <1>7

\* Nothing has been read at the start of a file.
LEMMA ReadInitially == ASSUME WorldAssumption, Init PROVE ReadInv
<1>1. file \in WorldFiles /\ pos = 1 /\ ast = <<>> /\ robots = 0 /\ parse = "top"
  BY DEF Init, ParserInit
<1>2. \A p \in DOMAIN file : ~ (p < 1)
  BY <1>1, FileFacts
<1>3. Before(1) = {} /\ {p \in Nodes({"Elisa3"}) : p < 1} = {}
  BY <1>2, Zenon DEF Before, Starts, Nodes
<1>4. Counted(0, 1)
  BY <1>3, FS_EmptySet DEF Counted
<1>5. Built(<<>>, {})
  <2>1. DOMAIN <<>> = {}
    OBVIOUS
  <2> QED
    BY <2>1, Zenon DEF Built
<1>6. AtTop(1, <<>>)
  BY <1>3, <1>5, Zenon DEF AtTop
<1>7. ReadAt(pos, waypoint, ast, robots, parse)
  BY <1>1, <1>4, <1>6 DEF ReadAt
<1> QED
  BY <1>7, Zenon DEF ReadInv

\* Each action of the parser reads on as a reader does.
LEMMA ReadStep ==
  ASSUME WorldAssumption, ParserInv, ReadInv, ParserNext
  PROVE  ReadInv'
<1>1. UNCHANGED file
  BY DEF ParserNext, BeginWaypoint, CountRobot, SkipWord, ReadField, ReadGarbage, EndOfStream
<1> SUFFICES ASSUME Complete PROVE ReadAt(pos', waypoint', ast', robots', parse')
  BY <1>1, SameFile, Zenon DEF ReadInv
<1>2. ReadAt(pos, waypoint, ast, robots, parse)
  BY Zenon DEF ReadInv
<1>3. file \in WorldFiles /\ pos \in Nat /\ Len(file) \in Nat
  BY FileFacts DEF ParserInv
<1>4. ASSUME parse = "top" PROVE AtTop(pos, ast) /\ Counted(robots, pos)
  BY <1>2, <1>4 DEF ReadAt
<1>5. ASSUME parse = "waypoint"
      PROVE  /\ InNode(pos, waypoint, ast) /\ Counted(robots, pos)
             /\ pos \in DOMAIN file /\ pos <= Len(file) /\ pos \notin Marks
  <2>1. InNode(pos, waypoint, ast) /\ Counted(robots, pos)
    BY <1>2, <1>5 DEF ReadAt
  <2>2. PICK c : Current(waypoint, c, pos)
    BY <2>1, Zenon DEF InNode
  <2> QED
    BY <1>3, <2>1, <2>2, CurrentFacts
<1>6. ASSUME pos \notin Nodes({"Elisa3"}), Counted(robots, pos) PROVE Counted(robots, pos + 1)
  BY <1>3, <1>6, CountNext
<1>7. Nodes({"Elisa3"}) \subseteq Marks
  BY <1>3, WordFacts
<1>8. CASE BeginWaypoint
  <2>1. parse = "top" /\ pos \in DOMAIN file /\ file[pos].word \in NodeWords
    BY <1>3, <1>8, WordFacts DEF BeginWaypoint, AtWord, ParserInv
  <2>2. pos \in Starts /\ pos \notin Nodes({"Elisa3"})
    BY <1>3, <2>1, WordFacts
  <2>3. InNode(pos + 1, [type |-> waypointType(file[pos].word)], ast)
    BY <1>3, <1>4, <2>1, <2>2, Begin
  <2>4. Counted(robots, pos + 1)
    BY <1>4, <1>6, <2>1, <2>2, Zenon
  <2>5. /\ waypoint' = [type |-> waypointType(file[pos].word)] /\ parse' = "waypoint" /\ pos' = pos + 1
        /\ ast' = ast /\ robots' = robots
    BY <1>8 DEF BeginWaypoint
  <2>6. InNode(pos', waypoint', ast') /\ Counted(robots', pos')
    BY <2>3, <2>4, <2>5, Zenon
  <2> QED
    BY <2>5, <2>6 DEF ReadAt
<1>9. CASE CountRobot
  <2>1. parse = "top" /\ pos \in DOMAIN file /\ file[pos].word = "Elisa3"
    BY <1>3, <1>9, WordFacts DEF CountRobot, AtWord, ParserInv
  <2>2. pos \notin Starts /\ pos \in Nodes({"Elisa3"})
    BY <1>3, <2>1, WordFacts
  <2>3. AtTop(pos + 1, ast)
    BY <1>3, <1>4, <2>1, <2>2, TopNext
  <2>4. Counted(robots + 1, pos + 1)
    BY <1>3, <1>4, <2>1, <2>2, CountNext
  <2>5. parse' = "top" /\ pos' = pos + 1 /\ ast' = ast /\ robots' = robots + 1
    BY <1>9 DEF CountRobot
  <2>6. AtTop(pos', ast') /\ Counted(robots', pos')
    BY <2>3, <2>4, <2>5, Zenon
  <2> QED
    BY <2>5, <2>6 DEF ReadAt
<1>10. CASE SkipWord
  <2>1. pos \in DOMAIN file
    BY <1>3, <1>10, WordFacts DEF SkipWord, ParserInv
  <2>2. pos' = pos + 1 /\ ast' = ast /\ robots' = robots /\ waypoint' = waypoint /\ parse' = parse
    BY <1>10 DEF SkipWord
  <2>3. CASE parse = "top"
    <3>1. file[pos].word \notin NodeWords \cup {"Elisa3"}
      BY <1>10, <2>3 DEF SkipWord, AtWord
    <3>2. pos \notin Starts /\ pos \notin Nodes({"Elisa3"})
      BY <1>3, <1>7, <2>1, <3>1, WordFacts
    <3>3. AtTop(pos + 1, ast) /\ Counted(robots, pos + 1)
      BY <1>3, <1>4, <1>6, <2>3, <3>2, TopNext
    <3>4. AtTop(pos', ast') /\ Counted(robots', pos')
      BY <2>2, <3>3, Zenon
    <3> QED
      BY <2>2, <2>3, <3>4 DEF ReadAt
  <2>4. CASE parse = "waypoint"
    <3>1. file[pos].word \notin Fields
      BY <1>10, <2>4 DEF SkipWord, AtWord
    <3>2. InNode(pos + 1, waypoint, ast)
      BY <1>3, <1>5, <2>4, <3>1, SkipIn
    <3>3. Counted(robots, pos + 1)
      BY <1>5, <1>6, <1>7, <2>4, Zenon
    <3>4. InNode(pos', waypoint', ast') /\ Counted(robots', pos')
      BY <2>2, <3>2, <3>3, Zenon
    <3> QED
      BY <2>2, <2>4, <3>4 DEF ReadAt
  <2> QED
    BY <1>10, <2>3, <2>4 DEF SkipWord
<1>11. CASE ReadField
  <2>1. parse = "waypoint" /\ file[pos].word \in Fields /\ Readable(file[pos])
    BY <1>11 DEF ReadField, AtWord
  <2>2. PICK read : read = Assign(waypoint, file[pos].word, Value(file[pos]))
    OBVIOUS
  <2>3. pos' = pos + 1 /\ robots' = robots
    BY <1>11 DEF ReadField
  <2>4. Counted(robots', pos')
    BY <1>5, <1>6, <1>7, <2>1, <2>3, Zenon
  <2>5. InNode(pos, waypoint, ast)
    BY <1>5, <2>1
  <2>6. CASE Fields \subseteq DOMAIN read
    <3>1. ast' = Insert(ast, read.id, read) /\ parse' = "top"
      BY <1>11, <2>2, <2>6, Zenon DEF ReadField
    <3>2. AtTop(pos + 1, Insert(ast, read.id, read))
      BY <1>3, <2>1, <2>2, <2>5, <2>6, ReadDone
    <3>3. AtTop(pos', ast')
      BY <2>3, <3>1, <3>2, Zenon
    <3> QED
      BY <2>4, <3>1, <3>3 DEF ReadAt
  <2>7. CASE ~ (Fields \subseteq DOMAIN read)
    <3>1. waypoint' = read /\ ast' = ast /\ parse' = "waypoint"
      BY <1>11, <2>1, <2>2, <2>7, Zenon DEF ReadField
    <3>2. InNode(pos + 1, read, ast)
      BY <1>3, <2>1, <2>2, <2>5, <2>7, ReadOn
    <3>3. InNode(pos', waypoint', ast')
      BY <2>3, <3>1, <3>2, Zenon
    <3> QED
      BY <2>4, <3>1, <3>3 DEF ReadAt
  <2> QED
    BY <2>6, <2>7
<1>12. CASE ReadGarbage
  <2>1. parse = "waypoint" /\ file[pos].word \in Fields /\ ~ Readable(file[pos])
    BY <1>12 DEF ReadGarbage, AtWord
  <2>2. ~ AllReadable
    BY <1>3, <1>5, <2>1, Garbage
  <2>3. parse' \in {"malformed", "invalid_argument"}
    BY <1>12 DEF ReadGarbage
  <2> QED
    BY <2>2, <2>3 DEF ReadAt
<1>13. CASE EndOfStream
  <2>1. pos > Len(file) /\ UNCHANGED <<file, pos, waypoint, ast, robots>>
    BY <1>13 DEF EndOfStream
  <2>2. parse # "waypoint"
    <3> SUFFICES ASSUME parse = "waypoint" PROVE FALSE
      OBVIOUS
    <3>1. pos <= Len(file)
      BY <1>5
    <3> QED
      BY <1>3, <2>1, <3>1
  <2>3. parse = "top" /\ parse' = "parsed"
    BY <1>13, <2>2 DEF EndOfStream
  <2>4. AtTop(pos', ast') /\ Counted(robots', pos') /\ pos' > Len(file)
    BY <1>4, <2>1, <2>3
  <2> QED
    BY <2>3, <2>4 DEF ReadAt
<1> QED
  BY <1>8, <1>9, <1>10, <1>11, <1>12, <1>13 DEF ParserNext

\* What a complete file has been read as.
ReadAll ==
  /\ \A p \in Starts : \A f \in Fields : Readable(file[Place(p, f)])
  /\ Built(ast, Starts)
  /\ robots = Cardinality(Nodes({"Elisa3"}))

\* At the end of a complete file everything has been read.
LEMMA ReadComplete ==
  ASSUME WorldAssumption, ParserInv, ReadInv, Complete, parse = "parsed"
  PROVE  ReadAll
<1>1. file \in WorldFiles /\ pos \in Nat /\ Len(file) \in Nat
  BY FileFacts DEF ParserInv
<1>2. AtTop(pos, ast) /\ Counted(robots, pos) /\ pos > Len(file)
  BY DEF ReadInv, ReadAt
<1>3. \A p \in DOMAIN file : p < pos
  <2>1. \A p \in DOMAIN file : p \in Nat /\ p <= Len(file)
    BY <1>1, WordFacts
  <2> QED
    BY <1>1, <1>2, <2>1
<1>4. Before(pos) = Starts
  BY <1>3, Zenon DEF Before, Starts, Nodes
<1>5. {p \in Nodes({"Elisa3"}) : p < pos} = Nodes({"Elisa3"})
  BY <1>3, Zenon DEF Nodes
<1> QED
  BY <1>2, <1>4, <1>5, Zenon DEF AtTop, Behind, Counted, ReadAll

\* So the map is the one the reader expects.
LEMMA ParsesHold == ASSUME WorldAssumption, ParserInv, ReadInv PROVE ParsesFile
<1> SUFFICES ASSUME Complete, parse = "parsed"
             PROVE  /\ DOMAIN ast = {Field(p, "id") : p \in Starts}
                    /\ robots = Cardinality(Nodes({"Elisa3"}))
                    /\ \A p \in Starts :
                         (\A q \in Starts : q < p => Field(q, "id") # Field(p, "id")) =>
                           /\ ast[Field(p, "id")].type = waypointType(file[p].word)
                           /\ \A f \in Fields : ast[Field(p, "id")][f] = Field(p, f)
  BY Zenon DEF ParsesFile, Starts
<1>1. ReadAll
  BY ReadComplete
<1> QED
  BY <1>1, Zenon DEF ReadAll, Built, First

\* The adjacency lists name waypoints.
LinksOK == \A a \in Ids : \A n \in DOMAIN ast[a].adjList : ast[a].adjList[n] \in Ids

\* The waypoints that get into the map bring all of its ids.
LEMMA ClaimsFacts ==
  ASSUME WorldAssumption, ParserInv, Complete, ReadAll
  PROVE  /\ {Field(p, "id") : p \in Claims} = Ids
         /\ \A p \in Claims : ast[Field(p, "id")].adjList = Field(p, "adjList")
<1>1. \A p : p \in Claims <=> p \in Starts /\ First(p)
  BY Zenon DEF Claims, Starts, First
<1>2. /\ Ids = {Field(p, "id") : p \in Starts}
      /\ \A p \in Starts : First(p) => \A f \in Fields : ast[Field(p, "id")][f] = Field(p, f)
  BY Zenon DEF ReadAll, Built, Ids
<1>3. "adjList" \in Fields
  BY DEF Fields
<1>4. \A p \in Claims : ast[Field(p, "id")].adjList = Field(p, "adjList")
  BY <1>1, <1>2, <1>3, Zenon
<1>5. ASSUME NEW p \in Starts PROVE \E q \in Claims : Field(q, "id") = Field(p, "id")
  <2> DEFINE T == {q \in Starts : Field(q, "id") = Field(p, "id")}
  <2>1. \A q \in Starts : q \in Nat
    BY WordFacts DEF ParserInv
  <2>2. T \in SUBSET Nat /\ T # {}
    BY <2>1
  <2>3. PICK q \in T : \A o \in T : q <= o
    BY <2>2, LeastNatural
  <2>4. q \in Starts /\ Field(q, "id") = Field(p, "id")
    OBVIOUS
  <2>5. ASSUME NEW o \in Starts, o < q PROVE Field(o, "id") # Field(q, "id")
    <3>1. ~ (q <= o)
      BY <2>1, <2>4, <2>5
    <3>2. o \notin T
      BY <2>3, <3>1, Zenon
    <3> QED
      BY <2>4, <3>2
  <2>6. First(q)
    BY <2>5, Zenon DEF First
  <2> QED
    BY <1>1, <2>4, <2>6, Zenon
<1>6. {Field(p, "id") : p \in Claims} = Ids
  <2>1. \A i : i \in {Field(p, "id") : p \in Claims} <=> \E p \in Claims : i = Field(p, "id")
    OBVIOUS
  <2>2. \A i : i \in Ids <=> \E p \in Starts : i = Field(p, "id")
    BY <1>2, Zenon
  <2>3. \A i : i \in {Field(p, "id") : p \in Claims} <=> i \in Ids
    BY <1>1, <1>5, <2>1, <2>2, Zenon
  <2> QED
    BY <2>3, Zenon
<1> QED
  BY <1>4, <1>6

\* A complete file is usable if its values can be read and the map is right.
LEMMA UsableAs ==
  ASSUME WorldAssumption, ParserInv, Complete, ReadAll
  PROVE  AllReadable /\ (Usable <=> Ids # {} /\ Ids = Rows /\ LinksOK)
<1>1. /\ {Field(p, "id") : p \in Claims} = Ids
      /\ \A p \in Claims : ast[Field(p, "id")].adjList = Field(p, "adjList")
  BY ClaimsFacts
<1>2. AllReadable
  <2>1. \A p \in Starts : \A f \in Fields : FieldsOf(p, f) = {Place(p, f)}
    BY PlaceFacts DEF ParserInv
  <2>2. \A p \in Starts : \A f \in Fields : Readable(file[Place(p, f)])
    BY Zenon DEF ReadAll
  <2>3. ASSUME NEW p \in Starts, NEW f \in Fields, NEW q \in FieldsOf(p, f) PROVE Readable(file[q])
    <3>1. q = Place(p, f)
      BY <2>1
    <3> QED
      BY <2>2, <3>1, Zenon
  <2> QED
    BY <2>3, Zenon DEF AllReadable, Starts
<1>3. LinksOK <=> \A p \in Claims : \A n \in DOMAIN Field(p, "adjList") : Field(p, "adjList")[n] \in Ids
  <2>1. ASSUME LinksOK, NEW p \in Claims, NEW n \in DOMAIN Field(p, "adjList")
        PROVE  Field(p, "adjList")[n] \in Ids
    <3>1. Field(p, "id") \in Ids
      BY <1>1, Zenon
    <3> QED
      BY <1>1, <2>1, <3>1, Zenon DEF LinksOK
  <2>2. ASSUME \A p \in Claims : \A n \in DOMAIN Field(p, "adjList") : Field(p, "adjList")[n] \in Ids,
               NEW a \in Ids, NEW n \in DOMAIN ast[a].adjList
        PROVE  ast[a].adjList[n] \in Ids
    <3>1. PICK p \in Claims : a = Field(p, "id")
      BY <1>1, Zenon
    <3> QED
      BY <1>1, <2>2, <3>1, Zenon
  <2> QED
    BY <2>1, <2>2, Zenon DEF LinksOK
<1>4. Usable <=> Ids # {} /\ Ids = Rows /\ LinksOK
  BY <1>1, <1>2, <1>3, Zenon DEF Usable, Rows
<1> QED
  BY <1>2, <1>4

\* Why a world is refused.
FateInv ==
  /\ stage \in Loop => LinksOK
  /\ stage = "failed" => ~ (Ids # {} /\ Ids = Rows /\ LinksOK)

\* Whether a map is right depends on the map alone.
LEMMA SameFate ==
  ASSUME UNCHANGED ast
  PROVE  LinksOK' = LinksOK /\ Ids' = Ids /\ Rows' = Rows
BY SameAst DEF LinksOK

\* Every step keeps the reasons why a world is refused.
LEMMA FateStep ==
  ASSUME StageInv, FateInv, [Next]_vars
  PROVE  FateInv'
<1>1. CASE Parse
  BY <1>1 DEF Parse, FateInv, Loop
<1>2. CASE Classify
  <2>1. UNCHANGED ast /\ stage' \in {"failed", "matrix"} /\ (stage' = "failed" => Ids = {})
    BY <1>2 DEF Classify
  <2> QED
    BY <2>1, SameFate DEF FateInv, Loop
<1>3. CASE AddWaypointMatrix
  <2>1. UNCHANGED ast /\ stage' \in {"failed", "edges"} /\ (stage' = "failed" => Ids # Rows)
    BY <1>3 DEF AddWaypointMatrix
  <2> QED
    BY <2>1, SameFate DEF FateInv, Loop
<1>4. CASE SetEdges
  <2>1. UNCHANGED ast
    BY <1>4 DEF SetEdges
  <2>2. \/ stage' = "failed" /\ ~ LinksOK
        \/ stage' = "relax" /\ LinksOK
    BY <1>4, Zenon DEF SetEdges, LinksOK
  <2> QED
    BY <2>1, <2>2, SameFate DEF FateInv, Loop
<1>5. CASE Relax \/ AddStationMatrix
  <2>1. UNCHANGED ast /\ stage \in Loop /\ stage' \in Loop
    BY <1>5 DEF Relax, AddStationMatrix, Loop
  <2> QED
    BY <2>1, SameFate DEF FateInv, Loop
<1>6. CASE Ended \/ UNCHANGED vars
  <2>1. UNCHANGED <<ast, stage>>
    BY <1>6 DEF Ended, vars
  <2> QED
    BY <2>1, SameFate DEF FateInv
<1> QED
  BY <1>1, <1>2, <1>3, <1>4, <1>5, <1>6, Zenon DEF Next

\* Exactly the usable worlds are loaded.
LEMMA UsableHold ==
  ASSUME WorldAssumption, IInv, ReadInv, FateInv
  PROVE  UsableWorldsLoad
<1> SUFFICES ASSUME Complete
             PROVE  /\ stage = "done" => Usable
                    /\ stage = "failed" \/ parse \in {"malformed", "invalid_argument"} => ~ Usable
  BY Zenon DEF UsableWorldsLoad
<1>1. ParserInv /\ StageInv
  BY Zenon DEF IInv
<1>2. ASSUME parse \in {"malformed", "invalid_argument"} PROVE ~ Usable
  <2>1. ~ AllReadable
    BY <1>2, Zenon DEF ReadInv, ReadAt
  <2> QED
    BY <2>1, Zenon DEF Usable
<1>3. ASSUME stage \in {"done", "failed"} PROVE ReadAll
  <2>1. parse = "parsed"
    BY <1>1, <1>3 DEF StageInv
  <2> QED
    BY <1>1, <2>1, ReadComplete
<1>4. ASSUME stage = "done" PROVE Usable
  <2>1. Ids # {} /\ Ids = Rows /\ LinksOK
    BY <1>1, <1>4 DEF StageInv, FateInv, Loop
  <2> QED
    BY <1>1, <1>3, <1>4, <2>1, UsableAs
<1>5. ASSUME stage = "failed" PROVE ~ Usable
  <2>1. ~ (Ids # {} /\ Ids = Rows /\ LinksOK)
    BY <1>5 DEF FateInv
  <2> QED
    BY <1>1, <1>3, <1>5, <2>1, UsableAs
<1> QED
  BY <1>2, <1>4, <1>5

-----------------------------------------------------------------------------
(* The whole invariant, and what follows from it.                          *)

WholeInv == IInv /\ ConfigInv /\ ReadInv /\ FateInv

\* The invariant holds when the program starts,
LEMMA WholeInitially == ASSUME WorldAssumption, Init PROVE WholeInv
<1>1. IInv
  BY Initially
<1>2. ConfigInv
  BY DEF Init, ConfigInv, Loop
<1>3. ReadInv
  BY ReadInitially
<1>4. FateInv
  BY DEF Init, FateInv, Loop
<1> QED
  BY <1>1, <1>2, <1>3, <1>4, Zenon DEF WholeInv

\* What has been read stays read while the parser rests.
LEMMA ReadStays ==
  ASSUME ReadInv, UNCHANGED <<file, pos, waypoint, ast, robots, parse>> PROVE ReadInv'
<1>1. /\ file' = file /\ pos' = pos /\ waypoint' = waypoint /\ ast' = ast
      /\ robots' = robots /\ parse' = parse
  OBVIOUS
<1>2. UNCHANGED file
  OBVIOUS
<1> SUFFICES ASSUME Complete PROVE ReadAt(pos', waypoint', ast', robots', parse')
  BY <1>2, SameFile, Zenon DEF ReadInv
<1>3. ReadAt(pos, waypoint, ast, robots, parse)
  BY Zenon DEF ReadInv
<1> QED
  BY <1>1, <1>3, Zenon

\* and every step keeps it.
LEMMA WholeStep == ASSUME WorldAssumption, WholeInv, [Next]_vars PROVE WholeInv'
<1>1. IInv /\ ConfigInv /\ ReadInv /\ FateInv /\ ParserInv /\ StageInv
  BY Zenon DEF WholeInv, IInv
<1>2. IInv'
  BY <1>1, Step, Zenon
<1>3. ConfigInv'
  BY <1>1, ConfigStep, Zenon
<1>4. ReadInv'
  <2>1. ParserNext \/ UNCHANGED <<file, pos, waypoint, ast, robots, parse>>
    BY Zenon DEF Next, Parse, Classify, AddWaypointMatrix, SetEdges, Relax, AddStationMatrix, Ended, vars
  <2> QED
    BY <1>1, <2>1, ReadStep, ReadStays, Zenon
<1>5. FateInv'
  BY <1>1, FateStep, Zenon
<1> QED
  BY <1>2, <1>3, <1>4, <1>5, Zenon DEF WholeInv

\* A configuration that is written has the lists.
LEMMA DoneClassified ==
  ASSUME WholeInv, stage = "done" PROVE ParserInv /\ Classified(config)
BY DEF WholeInv, IInv, ConfigInv, Loop

(* A complete world file is read as it is written, whatever stands between *)
(* the fields and the nodes: parse_stream() and parse_waypoint() build the *)
(* map that a reader of the file expects.                                  *)
THEOREM WorldIsRead == Spec => []WorldRead
<1>1. Init => WholeInv
  BY WorldAssumption, WholeInitially
<1>2. WholeInv /\ [Next]_vars => WholeInv'
  BY WorldAssumption, WholeStep
<1>3. WholeInv => ParsesFile
  BY WorldAssumption, ParsesHold, Zenon DEF WholeInv, IInv
<1> QED
  BY <1>1, <1>2, <1>3, TypesKept, PTL DEF Spec, WorldRead

(* Of the complete files, load_webots_to_config() turns exactly those into *)
(* a configuration whose values are numbers, whose ids are consecutive     *)
(* from 0, and whose adjacency lists name waypoints.                       *)
THEOREM UsableLoad == Spec => []UsableWorldsLoad
<1>1. Init => WholeInv
  BY WorldAssumption, WholeInitially
<1>2. WholeInv /\ [Next]_vars => WholeInv'
  BY WorldAssumption, WholeStep
<1>3. WholeInv => UsableWorldsLoad
  BY WorldAssumption, UsableHold, Zenon DEF WholeInv
<1> QED
  BY <1>1, <1>2, <1>3, PTL DEF Spec

(* The station numbers that config_wrapper.cpp gives UPPAAL are a          *)
(* numbering in every world: each station has one, end stations the first, *)
(* and an order of stations leaves exactly these and the end stations to   *)
(* be visited.                                                             *)
THEOREM StationsNumbered == Spec => []StationNumbers
<1>1. Init => WholeInv
  BY WorldAssumption, WholeInitially
<1>2. WholeInv /\ [Next]_vars => WholeInv'
  BY WorldAssumption, WholeStep
<1>3. WholeInv => StationNumbers
  <2>1. CASE stage = "done"
    BY <2>1, DoneClassified, NumbersHold, Zenon
  <2>2. CASE stage # "done"
    BY <2>2, Zenon DEF StationNumbers
  <2> QED
    BY <2>1, <2>2
<1> QED
  BY <1>1, <1>2, <1>3, PTL DEF Spec

(* get_station_dist() tells the shortest distance, truncated, whenever     *)
(* there are no end stations and all these distances fit an int, INT_MAX   *)
(* when they do not; and get_waypoint_dist() has a way that is no longer.  *)
THEOREM DistancesTold == Spec => []DistancesAgree
<1>1. Init => WholeInv
  BY WorldAssumption, WholeInitially
<1>2. WholeInv /\ [Next]_vars => WholeInv'
  BY WorldAssumption, WholeStep
<1>3. WholeInv => DistancesAgree
  BY WorldAssumption, IntAssumption, StationDistancesHold, LevelsHold, Zenon DEF WholeInv, DistancesAgree
<1> QED
  BY <1>1, <1>2, <1>3, PTL DEF Spec

(* In every world the waypoint plan of another robot reaches UPPAAL as     *)
(* that robot made it, and of its station plan only the length does.       *)
THEOREM PlansTold == Spec => []PlansArrive
<1>1. Init => WholeInv
  BY WorldAssumption, WholeInitially
<1>2. WholeInv /\ [Next]_vars => WholeInv'
  BY WorldAssumption, WholeStep
<1>3. WholeInv => PlansArrive
  <2>1. CASE stage = "done"
    BY <2>1, DoneClassified, LengthsHold, ActionsHold, Zenon DEF PlansArrive
  <2>2. CASE stage # "done"
    BY <2>2, Zenon DEF PlansArrive, OnlyLengthsArrive, ActionsArrive
  <2> QED
    BY <2>1, <2>2
<1> QED
  BY <1>1, <1>2, <1>3, PTL DEF Spec
=============================================================================
