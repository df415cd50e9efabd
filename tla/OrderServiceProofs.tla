------------------------- MODULE OrderServiceProofs -------------------------
(***************************************************************************)
(* Proofs about OrderService, for any command line and any clients.         *)
(***************************************************************************)
EXTENDS OrderService, FiniteSetTheorems, SequenceTheorems, TLAPS

-----------------------------------------------------------------------------
(* What Keep keeps of a sequence.                                            *)

\* The positions of a sequence that hold elements of S are finitely many, and ranked
\* without gaps.
LEMMA PositionsFinite ==
  ASSUME NEW E, NEW s \in Seq(E), NEW S
  PROVE  /\ IsFiniteSet(Positions(s, S)) /\ Positions(s, S) \subseteq 1 .. Len(s)
         /\ Cardinality(Positions(s, S)) \in 0 .. Len(s)
<1>1. Len(s) \in Nat /\ DOMAIN s = 1 .. Len(s)
  OBVIOUS
<1>2. IsFiniteSet(1 .. Len(s)) /\ Cardinality(1 .. Len(s)) = Len(s)
  BY <1>1, FS_Interval
<1>3. Positions(s, S) \in SUBSET (1 .. Len(s))
  BY <1>1 DEF Positions
<1>4. IsFiniteSet(Positions(s, S)) /\ Cardinality(Positions(s, S)) <= Len(s)
  BY <1>2, <1>3, FS_Subset
<1>5. Cardinality(Positions(s, S)) \in Nat
  BY <1>4, FS_CardinalityType
<1> QED
  BY <1>1, <1>3, <1>4, <1>5

\* The elements of a finite set of integers, numbered by how many are not greater.
LEMMA RanksOfSet ==
  ASSUME NEW P \in SUBSET Int, IsFiniteSet(P)
  PROVE  /\ Cardinality(P) \in Nat
         /\ \A i \in P : Cardinality({j \in P : j <= i}) \in 1 .. Cardinality(P)
         /\ \A i, j \in P : i < j => Cardinality({h \in P : h <= i}) < Cardinality({h \in P : h <= j})
         /\ \A k \in 1 .. Cardinality(P) : \E i \in P : Cardinality({j \in P : j <= i}) = k
<1> DEFINE n == Cardinality(P)
           Upto(i) == {j \in P : j <= i}
<1>1. n \in Nat
  BY FS_CardinalityType
<1>2. \A i \in P : IsFiniteSet(Upto(i)) /\ Cardinality(Upto(i)) \in Nat /\ Cardinality(Upto(i)) <= n
  <2> SUFFICES ASSUME NEW i \in P
               PROVE  /\ IsFiniteSet(Upto(i)) /\ Cardinality(Upto(i)) \in Nat
                      /\ Cardinality(Upto(i)) <= n
    OBVIOUS
  <2>1. Upto(i) \in SUBSET P
    OBVIOUS
  <2>2. IsFiniteSet(Upto(i)) /\ Cardinality(Upto(i)) <= Cardinality(P)
    BY <2>1, FS_Subset
  <2> QED
    BY <2>2, FS_CardinalityType
<1>3. \A i \in P : Cardinality(Upto(i)) \in 1 .. n
  <2> SUFFICES ASSUME NEW i \in P PROVE Cardinality(Upto(i)) \in 1 .. n
    OBVIOUS
  <2>1. i \in Upto(i)
    OBVIOUS
  <2>2. Cardinality(Upto(i)) # 0
    BY <1>2, <2>1, FS_EmptySet
  <2>3. Cardinality(Upto(i)) \in Nat /\ Cardinality(Upto(i)) <= n
    BY <1>2, Zenon
  <2> QED
    BY <1>1, <2>2, <2>3
<1>4. ASSUME NEW i \in P, NEW j \in P, i < j PROVE Cardinality(Upto(i)) < Cardinality(Upto(j))
  <2>1. i \in Int /\ j \in Int /\ \A h \in P : h \in Int
    OBVIOUS
  <2>2. j \in Upto(j) /\ j \notin Upto(i)
    BY <1>4, <2>1
  <2>3. ASSUME NEW h \in Upto(i) PROVE h \in Upto(j)
    BY <1>4, <2>1
  <2>4. Upto(i) \in SUBSET Upto(j) /\ j \in Upto(j) /\ j \notin Upto(i)
    BY <2>2, <2>3, Zenon
  <2>5. Cardinality(Upto(i)) <= Cardinality(Upto(j)) /\ Cardinality(Upto(i)) # Cardinality(Upto(j))
    BY <1>2, <2>4, FS_Subset
  <2>6. Cardinality(Upto(i)) \in Nat /\ Cardinality(Upto(j)) \in Nat
    BY <1>2, Zenon
  <2> QED
    BY <2>5, <2>6
<1>5. \A i, j \in P : Cardinality(Upto(i)) = Cardinality(Upto(j)) => i = j
  <2> SUFFICES ASSUME NEW i \in P, NEW j \in P, i < j
               PROVE  Cardinality(Upto(i)) # Cardinality(Upto(j))
    OBVIOUS
  <2>1. Cardinality(Upto(i)) \in Nat /\ Cardinality(Upto(j)) \in Nat
    BY <1>2, Zenon
  <2> QED
    BY <1>4, <2>1
<1>6. \A k \in 1 .. n : \E i \in P : Cardinality(Upto(i)) = k
  <2> DEFINE f == [i \in P |-> Cardinality(Upto(i))]
  <2>1. f \in Injection(P, 1 .. n)
    BY <1>3, <1>5, Zenon DEF Injection, IsInjective
  <2>2. IsFiniteSet(1 .. n) /\ Cardinality(1 .. n) = n
    BY <1>1, FS_Interval
  <2>3. f \in Surjection(P, 1 .. n)
    BY <2>1, <2>2, FS_Injection
  <2> QED
    BY <2>3 DEF Surjection
<1> QED
  BY <1>1, <1>3, <1>4, <1>6

\* The ranks of positions run from 1 to their number.
LEMMA RankBijective ==
  ASSUME NEW E, NEW s \in Seq(E), NEW S
  PROVE  /\ \A i \in Positions(s, S) : Rank(s, S, i) \in 1 .. Cardinality(Positions(s, S))
         /\ \A i, j \in Positions(s, S) : Rank(s, S, i) = Rank(s, S, j) => i = j
         /\ \A k \in 1 .. Cardinality(Positions(s, S)) :
              \E i \in Positions(s, S) : Rank(s, S, i) = k
<1> DEFINE P == Positions(s, S)
           Upto(i) == {j \in P : j <= i}
<1>1. P \in SUBSET Int /\ IsFiniteSet(P)
  BY PositionsFinite
<1>2. /\ Cardinality(P) \in Nat
      /\ \A i \in P : Cardinality(Upto(i)) \in 1 .. Cardinality(P)
      /\ \A i, j \in P : i < j => Cardinality(Upto(i)) < Cardinality(Upto(j))
      /\ \A k \in 1 .. Cardinality(P) : \E i \in P : Cardinality(Upto(i)) = k
  BY <1>1, RanksOfSet, Zenon
<1>3. \A i : Rank(s, S, i) = Cardinality(Upto(i))
  BY DEF Rank
<1>4. ASSUME NEW i \in P, NEW j \in P, Rank(s, S, i) = Rank(s, S, j) PROVE i = j
  <2> SUFFICES ASSUME NEW h \in P, NEW k \in P, h < k PROVE Rank(s, S, h) # Rank(s, S, k)
    BY <1>1, <1>4
  <2>1. /\ Rank(s, S, h) < Rank(s, S, k)
        /\ Rank(s, S, h) \in 1 .. Cardinality(P) /\ Rank(s, S, k) \in 1 .. Cardinality(P)
    BY <1>2, <1>3, Zenon
  <2> QED
    BY <2>1
<1> QED
  BY <1>2, <1>3, <1>4, Zenon

\* Nth is the inverse of the rank.
LEMMA NthInverse ==
  ASSUME NEW E, NEW s \in Seq(E), NEW S
  PROVE  /\ \A k \in 1 .. Cardinality(Positions(s, S)) :
              Nth(s, S, k) \in Positions(s, S) /\ Rank(s, S, Nth(s, S, k)) = k
         /\ \A i \in Positions(s, S) : Nth(s, S, Rank(s, S, i)) = i
<1>1. \A k \in 1 .. Cardinality(Positions(s, S)) :
        Nth(s, S, k) \in Positions(s, S) /\ Rank(s, S, Nth(s, S, k)) = k
  BY RankBijective, Zenon DEF Nth
<1>2. ASSUME NEW i \in Positions(s, S) PROVE Nth(s, S, Rank(s, S, i)) = i
  <2>1. Rank(s, S, i) \in 1 .. Cardinality(Positions(s, S))
    BY RankBijective, Zenon
  <2>2. /\ Nth(s, S, Rank(s, S, i)) \in Positions(s, S)
        /\ Rank(s, S, Nth(s, S, Rank(s, S, i))) = Rank(s, S, i)
    BY <1>1, <2>1, Zenon
  <2>3. \A h, j \in Positions(s, S) : Rank(s, S, h) = Rank(s, S, j) => h = j
    BY RankBijective, Zenon
  <2> QED
    BY <2>2, <2>3, Zenon
<1> QED
  BY <1>1, <1>2, Zenon

\* What Keep keeps: elements of s in S, all of them.
LEMMA KeepFacts ==
  ASSUME NEW E, NEW s \in Seq(E), NEW S
  PROVE  /\ Keep(s, S) \in Seq(E \cap S)
         /\ Len(Keep(s, S)) = Cardinality(Positions(s, S))
         /\ Len(Keep(s, S)) \in 0 .. Len(s)
         /\ Range(Keep(s, S)) = Range(s) \cap S
<1> DEFINE n == Cardinality(Positions(s, S))
<1>1. n \in Nat /\ n \in 0 .. Len(s) /\ DOMAIN s = 1 .. Len(s)
  BY PositionsFinite
<1>2. \A i \in Positions(s, S) : s[i] \in E \cap S /\ i \in DOMAIN s
  BY DEF Positions
<1>3. \A k \in 1 .. n : s[Nth(s, S, k)] \in E \cap S
  BY <1>2, NthInverse
<1>4. Keep(s, S) \in Seq(E \cap S) /\ Len(Keep(s, S)) = n
  BY <1>1, <1>3 DEF Keep
<1>5. DOMAIN Keep(s, S) = 1 .. n /\ \A k \in 1 .. n : Keep(s, S)[k] = s[Nth(s, S, k)]
  BY DEF Keep
<1>6. Range(Keep(s, S)) \subseteq Range(s) \cap S
  BY <1>2, <1>3, <1>5, NthInverse DEF Range
<1>7. ASSUME NEW x \in Range(s) \cap S PROVE x \in Range(Keep(s, S))
  <2>1. PICK i \in DOMAIN s : s[i] = x
    BY <1>7 DEF Range
  <2>2. i \in Positions(s, S)
    BY <1>7, <2>1 DEF Positions
  <2>3. Rank(s, S, i) \in 1 .. n /\ Nth(s, S, Rank(s, S, i)) = i
    BY <2>2, RankBijective, NthInverse
  <2> QED
    BY <1>5, <2>1, <2>3 DEF Range
<1> QED
  BY <1>1, <1>4, <1>6, <1>7

-----------------------------------------------------------------------------
(* Sequences without repetition.                                             *)

Distinct(s) == Cardinality(Range(s)) = Len(s)

LEMMA RangeFinite ==
  ASSUME NEW E, NEW s \in Seq(E)
  PROVE  /\ IsFiniteSet(Range(s)) /\ Range(s) \subseteq E
         /\ Cardinality(Range(s)) \in Nat /\ Cardinality(Range(s)) <= Len(s)
<1>1. Len(s) \in Nat /\ DOMAIN s = 1 .. Len(s) /\ s \in [1 .. Len(s) -> E]
  OBVIOUS
<1>2. IsFiniteSet(1 .. Len(s)) /\ Cardinality(1 .. Len(s)) = Len(s)
  BY <1>1, FS_Interval
<1>3. s \in Surjection(1 .. Len(s), Range(s)) /\ Range(s) \subseteq E
  BY <1>1, Zenon DEF Surjection, Range
<1>4. IsFiniteSet(Range(s)) /\ Cardinality(Range(s)) <= Cardinality(1 .. Len(s))
  BY <1>2, <1>3, FS_Surjection
<1> QED
  BY <1>2, <1>3, <1>4, FS_CardinalityType

LEMMA AppendDistinct ==
  ASSUME NEW E, NEW s \in Seq(E), NEW e \in E, Distinct(s), e \notin Range(s)
  PROVE  /\ Distinct(Append(s, e)) /\ Append(s, e) \in Seq(E)
         /\ Len(Append(s, e)) = Len(s) + 1 /\ Range(Append(s, e)) = Range(s) \cup {e}
<1>1. /\ Append(s, e) \in Seq(E) /\ Len(Append(s, e)) = Len(s) + 1 /\ Len(s) \in Nat
      /\ DOMAIN s = 1 .. Len(s) /\ DOMAIN Append(s, e) = 1 .. Len(s) + 1
      /\ Append(s, e)[Len(s) + 1] = e /\ \A k \in 1 .. Len(s) : Append(s, e)[k] = s[k]
  OBVIOUS
<1>2. Range(Append(s, e)) = Range(s) \cup {e}
  BY <1>1 DEF Range
<1>3. Cardinality(Range(s) \cup {e}) = Cardinality(Range(s)) + 1
  BY RangeFinite, FS_AddElement
<1> QED
  BY <1>1, <1>2, <1>3 DEF Distinct

LEMMA EmptyDistinct == Distinct(<<>>) /\ Range(<<>>) = {} /\ Len(<<>>) = 0
<1>1. Range(<<>>) = {} /\ Len(<<>>) = 0
  BY DEF Range
<1> QED
  BY <1>1, FS_EmptySet DEF Distinct

LEMMA OnlyEmptyHasNone ==
  ASSUME NEW E, NEW s \in Seq(E), s # <<>>
  PROVE  Range(s) # {}
<1>1. 1 \in DOMAIN s
  OBVIOUS
<1> QED
  BY <1>1 DEF Range

-----------------------------------------------------------------------------
(* The command line and the generator made of it.                            *)

\* n is a size of order the command line allows.
Fits(n) == option.min <= n /\ n <= option.max

\* From when it serves, the generator knows the stations of the command line.
GeneratorInv ==
  /\ Len(generator.stations) <= Len(option.stations)
  /\ status = "serving" => Range(generator.stations) = Known
  /\ status = "serving" /\ Proper => generator.min_size = option.min /\ generator.max_size = option.max

LEMMA StationsKnown ==
  ASSUME option \in Options, ~Contains(option.stations, Huge)
  PROVE  LET stations == parse_stations_argument(option.stations)
         IN  /\ stations \in Seq(Known) /\ Len(stations) <= Len(option.stations)
             /\ Range(stations) = Known
<1> DEFINE tokens == option.stations
           S == Range(tokens) \ {Word}
<1>1. tokens \in Seq(Int)
  BY OrderAssumption DEF Options
<1>2. Huge \notin Range(tokens)
  BY <1>1 DEF Contains, Range
<1>3. Range(tokens) \subseteq Int
  BY <1>1, RangeFinite
<1>4. Int \cap S = Known /\ Range(tokens) \cap S = Known
  BY <1>2, <1>3 DEF Known
<1>5. parse_stations_argument(tokens) = Keep(tokens, S)
  BY DEF parse_stations_argument
<1> HIDE DEF tokens, S
<1>6. /\ Keep(tokens, S) \in Seq(Int \cap S) /\ Len(Keep(tokens, S)) \in 0 .. Len(tokens)
      /\ Range(Keep(tokens, S)) = Range(tokens) \cap S
  BY <1>1, KeepFacts
<1>7. Len(tokens) \in Nat
  BY <1>1
<1> QED
  BY <1>4, <1>5, <1>6, <1>7 DEF tokens

\* A proper command line names at least as many stations as an order may have.
LEMMA ProperFits ==
  ASSUME option \in Options, Proper
  PROVE  /\ option.min \in Int /\ option.max \in Int /\ 0 <= option.min /\ option.min <= option.max
         /\ option.max <= Cardinality(Known) /\ IsFiniteSet(Known) /\ Cardinality(Known) \in Nat
<1>1. option.min \in Int /\ option.max \in Int
  BY OrderAssumption DEF Options, Proper
<1>2. option.stations \in Seq(Int)
  BY OrderAssumption DEF Options
<1>3. IsFiniteSet(Range(option.stations))
  BY <1>2, RangeFinite
<1>4. Known \in SUBSET Range(option.stations)
  BY DEF Known
<1>5. IsFiniteSet(Known) /\ Cardinality(Known) \in Nat
  BY <1>3, <1>4, FS_Subset, FS_CardinalityType
<1> QED
  BY <1>1, <1>5 DEF Proper

LEMMA MainStep ==
  ASSUME TypeOK, GeneratorInv, Main
  PROVE  /\ generator' \in [stations : Seq(Known), min_size : Int, max_size : Int]
         /\ GeneratorInv'
         /\ status' \in {"serving", "refused", "dead"} /\ (Proper => status' = "serving")
<1>1. /\ option' = option /\ Known' = Known /\ Proper' = Proper /\ option \in Options
      /\ generator \in [stations : Seq(Known), min_size : Int, max_size : Int]
  BY DEF Main, Known, Proper, TypeOK
<1>2. CASE UNCHANGED generator /\ status' # "serving" /\ ~Proper
  BY <1>1, <1>2 DEF Main, GeneratorInv
<1>3. CASE ~(UNCHANGED generator /\ status' # "serving" /\ ~Proper)
  <2>1. ~Contains(option.stations, Huge) /\ option.random
    BY <1>3, Zenon DEF Main, Proper
  <2>2. /\ status' = IF option.port_free THEN "serving" ELSE "dead"
        /\ \E min \in Given(option.min), max \in Given(option.max) :
             generator' = RandomGenerator(parse_stations_argument(option.stations), min, max)
    BY <2>1, Zenon DEF Main
  <2>3. PICK min \in Given(option.min), max \in Given(option.max) :
          generator' = RandomGenerator(parse_stations_argument(option.stations), min, max)
    BY <2>2, Zenon
  <2> DEFINE stations == parse_stations_argument(option.stations)
  <2>4. stations \in Seq(Known) /\ Len(stations) <= Len(option.stations) /\ Range(stations) = Known
    BY <1>1, <2>1, StationsKnown
  <2>5. min \in Int /\ max \in Int
    BY <1>1, <2>3, OrderAssumption DEF Given, Options
  <2>6. Proper => min = option.min /\ max = option.max /\ max # 0
    <3>1. Proper => option.min # Unset /\ option.max # Unset /\ 0 < option.max
      BY Zenon DEF Proper
    <3>2. /\ option.min # Unset => min = option.min
          /\ option.max # Unset => max = option.max
      BY <2>3 DEF Given
    <3> QED
      BY <2>5, <3>1, <3>2
  <2>9. generator' = RandomGenerator(stations, min, max)
    BY <2>3
  <2> HIDE DEF stations
  <2>7. /\ generator'.stations = stations /\ generator'.min_size = min
        /\ generator'.max_size = IF max = 0 THEN Len(stations) ELSE max
        /\ generator' \in [stations : Seq(Known), min_size : Int, max_size : Int]
    BY <2>4, <2>5, <2>9 DEF RandomGenerator
  <2>8. GeneratorInv'
    BY <1>1, <2>4, <2>6, <2>7 DEF GeneratorInv
  <2> QED
    BY <2>1, <2>2, <2>7, <2>8 DEF Proper
<1> QED
  BY <1>2, <1>3

-----------------------------------------------------------------------------
(* The thread of a connection.                                               *)

\* A client asks once, and only then.
ClientInv == \A c \in Clients : client[c] \in {"idle", "connected"} => asked[c] = ""

\* A thread that has read a message was sent one; what it may still pick is what it has
\* not picked yet; and what it has picked and has yet to pick make an order that fits.
ThreadInv(c) ==
  /\ thread[c].at \in {"generate", "pick"} => asked[c] = "get_order"
  /\ thread[c].at = "send" => asked[c] # ""
  /\ thread[c].at = "pick" =>
       /\ Range(thread[c].choices) = Known \ Range(thread[c].selected)
       /\ Distinct(thread[c].selected)
       /\ Proper => Fits(thread[c].left + Len(thread[c].selected))
  /\ thread[c].at = "send" /\ asked[c] = "get_order" =>
       /\ Distinct(thread[c].selected)
       /\ Proper => Fits(Len(thread[c].selected))

\* Every order that may be generated with a proper command line fits it.
LEMMA ProperSizes ==
  ASSUME TypeOK, GeneratorInv, status = "serving", Proper
  PROVE  /\ OrderSizes # {}
         /\ \A n \in OrderSizes : Fits(n) /\ n \in 0 .. Len(generator.stations)
<1>1. /\ generator.min_size = option.min /\ generator.max_size = option.max
      /\ Range(generator.stations) = Known /\ generator.stations \in Seq(Known)
      /\ option \in Options
  BY DEF TypeOK, GeneratorInv
<1>2. /\ option.min \in Int /\ option.max \in Int /\ 0 <= option.min /\ option.min <= option.max
      /\ option.max <= Cardinality(Known) /\ Cardinality(Known) \in Nat
  BY <1>1, ProperFits
<1>3. Cardinality(Known) <= Len(generator.stations) /\ Len(generator.stations) \in Nat
  BY <1>1, RangeFinite
<1>4. OrderSizes = {option.min + k : k \in 0 .. option.max - option.min}
  BY <1>1, <1>2 DEF OrderSizes
<1>5. option.min + 0 \in OrderSizes
  BY <1>2, <1>4
<1>6. ASSUME NEW n \in OrderSizes PROVE Fits(n) /\ n \in 0 .. Len(generator.stations)
  BY <1>2, <1>3, <1>4, <1>6 DEF Fits
<1> QED
  BY <1>5, <1>6

LEMMA ThreadFields ==
  ASSUME TypeOK, NEW c \in Clients
  PROVE  /\ thread[c] \in Threads /\ thread[c].left \in Nat
         /\ thread[c].left <= Len(option.stations) /\ Len(option.stations) \in Nat
         /\ thread[c].selected \in Seq(Known) /\ thread[c].choices \in Seq(Known)
<1>1. thread[c] \in Threads /\ option \in Options
  BY DEF TypeOK
<1>2. /\ thread[c].left \in 0 .. Len(option.stations)
      /\ thread[c].selected \in Seq(Known) /\ thread[c].choices \in Seq(Known)
  BY <1>1 DEF Threads
<1>3. Len(option.stations) \in Nat
  BY <1>1, OrderAssumption DEF Options
<1> QED
  BY <1>1, <1>2, <1>3

\* While a thread with a proper command line has to pick, there is something to pick.
LEMMA ProperChoices ==
  ASSUME TypeOK, Proper, NEW c \in Clients, ThreadInv(c), thread[c].at = "pick",
         thread[c].left > 0
  PROVE  thread[c].choices # <<>>
<1> SUFFICES ASSUME thread[c].choices = <<>> PROVE FALSE
  OBVIOUS
<1> DEFINE selected == thread[c].selected
<1>1. selected \in Seq(Known) /\ thread[c].left \in Nat /\ option \in Options
  BY ThreadFields DEF TypeOK
<1>2. Known \ Range(selected) = {} /\ Distinct(selected) /\ Fits(thread[c].left + Len(selected))
  BY EmptyDistinct DEF ThreadInv
<1> HIDE DEF selected
<1>3. IsFiniteSet(Range(selected)) /\ Cardinality(Range(selected)) \in Nat
  BY <1>1, RangeFinite
<1>4. Cardinality(Known) <= Cardinality(Range(selected))
  BY <1>2, <1>3, FS_Subset
<1>5. option.max \in Int /\ option.max <= Cardinality(Known) /\ Cardinality(Known) \in Nat
  BY <1>1, ProperFits
<1> QED
  BY <1>1, <1>2, <1>3, <1>4, <1>5 DEF Distinct, Fits

\* A step that leaves a connection alone.
LEMMA ThreadFrame ==
  ASSUME UNCHANGED option, NEW c \in Clients, ThreadInv(c), thread'[c] = thread[c],
         asked'[c] = asked[c]
  PROVE  ThreadInv(c)'
<1>1. Known' = Known /\ Proper' = Proper
  BY DEF Known, Proper
<1> QED
  BY <1>1 DEF ThreadInv, Fits

LEMMA OptionFrame ==
  ASSUME UNCHANGED option
  PROVE  Known' = Known /\ Proper' = Proper /\ Threads' = Threads /\ \A n : Fits(n)' = Fits(n)
  BY DEF Known, Proper, Threads, Fits

\* A thread that moves on without picking.
LEMMA MovesTo ==
  ASSUME TypeOK, NEW c \in Clients,
         NEW at \in {"receive", "spin", "generate", "send", "ended"},
         thread' = [thread EXCEPT ![c].at = at]
  PROVE  /\ thread' \in [Clients -> Threads] /\ thread'[c].at = at
         /\ thread'[c].selected = thread[c].selected
         /\ \A d \in Clients : d # c => thread'[d] = thread[d]
<1> DEFINE was == thread[c]
           now == [was EXCEPT !.at = at]
<1>1. thread \in [Clients -> Threads] /\ was \in Threads /\ thread' = [thread EXCEPT ![c] = now]
  BY DEF TypeOK
<1> HIDE DEF was
<1>2. now \in Threads /\ now.at = at /\ now.selected = was.selected
  BY <1>1 DEF Threads
<1> HIDE DEF now
<1> QED
  BY <1>1, <1>2 DEF was

LEMMA GenerateStep ==
  ASSUME TypeOK, GeneratorInv, NEW c \in Clients, ThreadInv(c), Generate(c)
  PROVE  /\ thread' \in [Clients -> Threads] /\ ThreadInv(c)'
         /\ \A d \in Clients : d # c => thread'[d] = thread[d]
         /\ status' \in {"serving", "dead"} /\ (Proper => status' = "serving")
<1>1. /\ status = "serving" /\ thread[c].at = "generate" /\ UNCHANGED <<option, asked>>
  BY DEF Generate, Thread
<1>2. CASE Dies
  <2>1. ~Proper
    BY <1>1, <1>2, ProperSizes DEF Generate, Dies
  <2> QED
    BY <1>1, <1>2, <2>1, ThreadFrame DEF Dies, TypeOK
<1>3. CASE ~Dies
  <2>1. PICK n \in OrderSizes :
          /\ n \in 0 .. Len(generator.stations) /\ UNCHANGED status
          /\ thread' = [thread EXCEPT ![c] = [at |-> "pick", left |-> n, selected |-> <<>>,
                                              choices |-> generator.stations]]
    BY <1>3 DEF Generate
  <2>2. /\ generator.stations \in Seq(Known) /\ Len(generator.stations) <= Len(option.stations)
        /\ Range(generator.stations) = Known /\ option.stations \in Seq(Int)
    BY <1>1, OrderAssumption DEF TypeOK, GeneratorInv, Options
  <2>3. n \in 0 .. Len(option.stations)
    BY <2>1, <2>2
  <2>4. thread' \in [Clients -> Threads] /\ \A d \in Clients : d # c => thread'[d] = thread[d]
    <3>1. [at |-> "pick", left |-> n, selected |-> <<>>, choices |-> generator.stations] \in Threads
      BY <2>2, <2>3 DEF Threads
    <3> QED
      BY <2>1, <3>1 DEF TypeOK
  <2>5. /\ thread'[c].at = "pick" /\ thread'[c].left = n /\ thread'[c].selected = <<>>
        /\ thread'[c].choices = generator.stations
    BY <2>1 DEF TypeOK
  <2>6. asked'[c] = "get_order"
    BY <1>1 DEF ThreadInv
  <2>7. Proper => Fits(n)
    BY <1>1, ProperSizes
  <2>8. n + Len(<<>>) = n
    BY <2>3, EmptyDistinct
  <2>9. ThreadInv(c)'
    BY <1>1, <2>2, <2>5, <2>6, <2>7, <2>8, EmptyDistinct, OptionFrame DEF ThreadInv
  <2> QED
    BY <1>1, <2>1, <2>4, <2>9
<1> QED
  BY <1>2, <1>3

LEMMA WithoutFacts ==
  ASSUME NEW E, NEW choices \in Seq(E), NEW element
  PROVE  /\ Without(choices, element) \in Seq(E)
         /\ Range(Without(choices, element)) = Range(choices) \ {element}
<1> DEFINE S == Range(choices) \ {element}
<1>1. Without(choices, element) = Keep(choices, S) /\ Range(choices) \cap S = S
  BY DEF Without
<1>2. S = Range(choices) \ {element}
  OBVIOUS
<1> HIDE DEF S
<1>3. Keep(choices, S) \in Seq(E \cap S) /\ Range(Keep(choices, S)) = Range(choices) \cap S
  BY KeepFacts
<1>4. Keep(choices, S) \in Seq(E)
  BY <1>3
<1> QED
  BY <1>1, <1>2, <1>3, <1>4

LEMMA PickStep ==
  ASSUME TypeOK, NEW c \in Clients, ThreadInv(c), Pick(c)
  PROVE  /\ thread' \in [Clients -> Threads] /\ ThreadInv(c)'
         /\ \A d \in Clients : d # c => thread'[d] = thread[d]
         /\ status' \in {"serving", "dead"} /\ (Proper => status' = "serving")
<1> DEFINE left == thread[c].left
           choices == thread[c].choices
           selected == thread[c].selected
<1>1. /\ status = "serving" /\ thread[c].at = "pick" /\ UNCHANGED <<option, asked>>
  BY DEF Pick, Thread
<1>2. /\ left \in Nat /\ left <= Len(option.stations) /\ Len(option.stations) \in Nat
      /\ selected \in Seq(Known) /\ choices \in Seq(Known) /\ thread \in [Clients -> Threads]
  BY ThreadFields DEF TypeOK
<1>3. /\ asked[c] = "get_order" /\ Range(choices) = Known \ Range(selected)
      /\ Distinct(selected) /\ (Proper => Fits(left + Len(selected)))
  BY <1>1 DEF ThreadInv
<1>4. CASE left = 0 /\ thread' = [thread EXCEPT ![c].at = "send"] /\ UNCHANGED status
  <2>1. /\ thread' \in [Clients -> Threads] /\ thread'[c].at = "send"
        /\ thread'[c].selected = selected /\ \A d \in Clients : d # c => thread'[d] = thread[d]
    BY <1>4, MovesTo
  <2>2. left + Len(selected) = Len(selected)
    BY <1>2, <1>4
  <2>3. ThreadInv(c)'
    BY <1>1, <1>3, <2>1, <2>2, OptionFrame DEF ThreadInv
  <2> QED
    BY <1>1, <1>4, <2>1, <2>3
<1>5. CASE left > 0 /\ choices = <<>> /\ Dies
  <2>1. ~Proper
    BY <1>1, <1>5, ProperChoices
  <2> QED
    BY <1>1, <1>2, <1>5, <2>1, ThreadFrame DEF Dies
<1>6. ASSUME NEW element \in Range(choices), left > 0, UNCHANGED status,
             thread' = [thread EXCEPT ![c].left = left - 1,
                                      ![c].selected = Append(selected, element),
                                      ![c].choices = Without(choices, element)]
      PROVE  /\ thread' \in [Clients -> Threads] /\ ThreadInv(c)'
             /\ \A d \in Clients : d # c => thread'[d] = thread[d]
  <2>1. element \in Known /\ element \notin Range(selected)
    BY <1>3
  <2>2. /\ Without(choices, element) \in Seq(Known)
        /\ Range(Without(choices, element)) = Range(choices) \ {element}
    BY <1>2, WithoutFacts
  <2>3. /\ Distinct(Append(selected, element)) /\ Append(selected, element) \in Seq(Known)
        /\ Len(Append(selected, element)) = Len(selected) + 1
        /\ Range(Append(selected, element)) = Range(selected) \cup {element}
    BY <1>2, <1>3, <2>1, AppendDistinct
  <2>4. left - 1 \in 0 .. Len(option.stations)
    BY <1>2, <1>6
  <2>5. (left - 1) + Len(Append(selected, element)) = left + Len(selected)
    <3>1. left \in Nat /\ Len(selected) \in Nat
      BY <1>2
    <3> HIDE DEF left, choices, selected
    <3> QED
      BY <2>3, <3>1
  <2>6. /\ thread' \in [Clients -> Threads] /\ \A d \in Clients : d # c => thread'[d] = thread[d]
        /\ thread'[c].at = "pick" /\ thread'[c].left = left - 1
        /\ thread'[c].selected = Append(selected, element)
        /\ thread'[c].choices = Without(choices, element)
    <3> HIDE DEF left, choices, selected
    <3> DEFINE was == thread[c]
               now == [was EXCEPT !.left = left - 1, !.selected = Append(selected, element),
                                  !.choices = Without(choices, element)]
    <3>1. was \in Threads /\ was.at = "pick"
      BY <1>1, <1>2
    <3>2. thread' = [thread EXCEPT ![c] = now]
      BY <1>6
    <3> HIDE DEF was
    <3>3. /\ now \in Threads /\ now.at = "pick" /\ now.left = left - 1
          /\ now.selected = Append(selected, element) /\ now.choices = Without(choices, element)
      BY <2>2, <2>3, <2>4, <3>1 DEF Threads
    <3> HIDE DEF now
    <3> QED
      BY <1>2, <3>2, <3>3
  <2>7. Range(Without(choices, element)) = Known \ Range(Append(selected, element))
    BY <1>3, <2>2, <2>3
  <2>8. ThreadInv(c)'
    BY <1>1, <1>3, <2>3, <2>5, <2>6, <2>7, OptionFrame DEF ThreadInv
  <2> QED
    BY <2>6, <2>8
<1> QED
  BY <1>1, <1>4, <1>5, <1>6 DEF Pick

-----------------------------------------------------------------------------
(* The whole service.                                                        *)

ServiceInv ==
  /\ TypeOK /\ ClientInv /\ GeneratorInv /\ \A c \in Clients : ThreadInv(c)
  /\ OrdersFit /\ ProperServiceSurvives

LEMMA ServiceInit == Init => ServiceInv
<1> SUFFICES ASSUME Init PROVE ServiceInv
  OBVIOUS
<1>1. option \in Options
  BY DEF Init
<1>2. Len(option.stations) \in Nat
  BY <1>1, OrderAssumption DEF Options
<1>3. TypeOK
  <2>1. NoThread \in Threads
    BY <1>2 DEF NoThread, Threads
  <2>2. NoReply \in [kind : {"none", "not_understood", "order"}, order : Seq(Known)]
    BY DEF NoReply
  <2>3. generator \in [stations : Seq(Known), min_size : Int, max_size : Int]
    <3>1. generator = [stations |-> <<>>, min_size |-> 0, max_size |-> 0]
      BY DEF Init
    <3>2. <<>> \in Seq(Known)
      OBVIOUS
    <3> QED
      BY <3>1, <3>2
  <2> QED
    <3>1. /\ status = "starting" /\ client = [c \in Clients |-> "idle"]
          /\ asked = [c \in Clients |-> ""]
          /\ thread = [c \in Clients |-> NoThread] /\ reply = [c \in Clients |-> NoReply]
      BY DEF Init
    <3> QED
      BY <1>1, <2>1, <2>2, <2>3, <3>1 DEF TypeOK
<1>4. GeneratorInv
  <2>1. Len(generator.stations) = 0 /\ status = "starting"
    BY DEF Init
  <2> QED
    BY <1>2, <2>1 DEF GeneratorInv
<1>5. ClientInv /\ (\A c \in Clients : ThreadInv(c)) /\ OrdersFit /\ ProperServiceSurvives
  BY DEF Init, ClientInv, ThreadInv, OrdersFit, ProperServiceSurvives, Ruins, NoThread, NoReply
<1> QED
  BY <1>3, <1>4, <1>5 DEF ServiceInv

\* What the threads of the other connections, the orders sent and the generator keep when
\* only the connection of c takes a step.
LEMMA ConnectionStep ==
  ASSUME ServiceInv, NEW c \in Clients, UNCHANGED <<option, generator, client, asked, reply>>,
         thread' \in [Clients -> Threads], ThreadInv(c)',
         \A d \in Clients : d # c => thread'[d] = thread[d],
         status = "serving", status' \in {"serving", "dead"},
         Proper => status' = "serving" \/ \E d \in Clients : Ruins(d)
  PROVE  ServiceInv'
<1>1. Known' = Known /\ Proper' = Proper /\ Threads' = Threads
  BY OptionFrame
<1>2. \A d \in Clients : ThreadInv(d)'
  BY ThreadFrame DEF ServiceInv
<1>3. TypeOK'
  BY <1>1 DEF ServiceInv, TypeOK
<1>4. ClientInv' /\ GeneratorInv' /\ OrdersFit'
  BY <1>1 DEF ServiceInv, ClientInv, GeneratorInv, OrdersFit
<1>5. ProperServiceSurvives'
  BY <1>1 DEF ProperServiceSurvives, Ruins
<1> QED
  BY <1>2, <1>3, <1>4, <1>5 DEF ServiceInv

LEMMA SendStep ==
  ASSUME ServiceInv, NEW c \in Clients, Send(c)
  PROVE  ServiceInv'
<1>1. /\ status = "serving" /\ thread[c].at = "send" /\ UNCHANGED <<option, generator, client, asked>>
      /\ reply' = [reply EXCEPT ![c] = response(c)]
  BY DEF Send, Thread
<1>2. Known' = Known /\ Proper' = Proper /\ Threads' = Threads
  BY <1>1, OptionFrame
<1>3. /\ asked[c] # "" /\ TypeOK /\ ThreadInv(c) /\ thread[c].selected \in Seq(Known)
      /\ asked[c] = "get_order" =>
           Distinct(thread[c].selected) /\ (Proper => Fits(Len(thread[c].selected)))
  BY <1>1, ThreadFields DEF ServiceInv, ThreadInv
<1>4. \/ thread' = thread /\ status' = "dead" /\ client[c] \in {"closed", "reset"}
      \/ thread' = [thread EXCEPT ![c].at = "ended"] /\ status' = "serving"
  BY <1>1 DEF Send, Dies
<1>5. /\ thread' \in [Clients -> Threads] /\ \A d \in Clients : d # c => thread'[d] = thread[d]
      /\ thread'[c] = thread[c] \/ thread'[c].at = "ended"
  BY <1>3, <1>4, MovesTo DEF TypeOK
<1>6. \A d \in Clients : ThreadInv(d)'
  <2>1. \A d \in Clients : d # c => ThreadInv(d)'
    BY <1>1, <1>5, ThreadFrame DEF ServiceInv
  <2>2. ThreadInv(c)'
    BY <1>1, <1>3, <1>5, ThreadFrame DEF ThreadInv
  <2> QED
    BY <2>1, <2>2
<1>7. /\ response(c) \in [kind : {"none", "not_understood", "order"}, order : Seq(Known)]
      /\ response(c).kind = "order" => response(c).order = thread[c].selected /\ asked[c] = "get_order"
  <2>1. CASE asked[c] = "get_order"
    BY <1>3, <2>1 DEF response, OrderOf
  <2>2. CASE asked[c] # "get_order"
    BY <2>2 DEF response, NotUnderstood
  <2> QED
    BY <2>1, <2>2
<1>8. TypeOK'
  <2>1. reply' \in [Clients -> [kind : {"none", "not_understood", "order"}, order : Seq(Known)]]
    BY <1>1, <1>3, <1>7 DEF TypeOK
  <2> QED
    BY <1>1, <1>2, <1>3, <1>4, <1>5, <2>1 DEF TypeOK
<1>9. OrdersFit'
  <2> SUFFICES ASSUME NEW d \in Clients, reply'[d].kind = "order"
               PROVE  /\ Range(reply'[d].order) \subseteq Known /\ Distinct(reply'[d].order)
                      /\ Proper => Fits(Len(reply'[d].order))
    BY <1>1, <1>2 DEF OrdersFit, Distinct, Fits
  <2>1. CASE d = c
    <3>1. reply'[c] = response(c)
      BY <1>1, <1>3 DEF TypeOK
    <3>2. reply'[d].order = thread[c].selected /\ asked[c] = "get_order"
      BY <1>7, <2>1, <3>1
    <3> QED
      BY <1>3, <3>2, RangeFinite
  <2>2. CASE d # c
    <3>1. reply'[d] = reply[d]
      BY <1>1, <1>3, <2>2 DEF TypeOK
    <3> QED
      BY <3>1 DEF ServiceInv, OrdersFit, Distinct, Fits
  <2> QED
    BY <2>1, <2>2
<1>10. ClientInv' /\ GeneratorInv' /\ ProperServiceSurvives'
  BY <1>1, <1>2, <1>3, <1>4 DEF ServiceInv, ClientInv, GeneratorInv, ProperServiceSurvives, Ruins
<1> QED
  BY <1>6, <1>8, <1>9, <1>10 DEF ServiceInv

LEMMA ServiceStep == ServiceInv /\ [Next]_vars => ServiceInv'
<1> SUFFICES ASSUME ServiceInv, [Next]_vars PROVE ServiceInv'
  OBVIOUS
<1>1. TypeOK /\ ClientInv /\ GeneratorInv /\ \A c \in Clients : ThreadInv(c)
  BY DEF ServiceInv
<1>2. CASE Main
  <2>1. /\ generator' \in [stations : Seq(Known), min_size : Int, max_size : Int] /\ GeneratorInv'
        /\ status' \in {"serving", "refused", "dead"} /\ (Proper => status' = "serving")
    BY <1>1, <1>2, MainStep
  <2>2. UNCHANGED <<option, client, asked, thread, reply>>
    BY <1>2 DEF Main
  <2>3. Known' = Known /\ Proper' = Proper /\ Threads' = Threads
    BY <2>2, OptionFrame
  <2>4. \A c \in Clients : ThreadInv(c)'
    BY <1>1, <2>2, ThreadFrame
  <2>5. TypeOK'
    BY <1>1, <2>1, <2>2, <2>3 DEF TypeOK
  <2>6. ClientInv' /\ OrdersFit' /\ ProperServiceSurvives'
    BY <2>1, <2>2, <2>3 DEF ServiceInv, ClientInv, OrdersFit, ProperServiceSurvives, Ruins
  <2> QED
    BY <2>1, <2>4, <2>5, <2>6 DEF ServiceInv
<1>3. ASSUME NEW c \in Clients, Accept(c) PROVE ServiceInv'
  <2>1. /\ thread' \in [Clients -> Threads] /\ thread'[c].at = "receive"
        /\ \A d \in Clients : d # c => thread'[d] = thread[d]
    BY <1>1, <1>3, MovesTo DEF Accept
  <2> QED
    BY <1>3, <2>1, ConnectionStep DEF Accept, ThreadInv
<1>4. ASSUME NEW c \in Clients, Receive(c) PROVE ServiceInv'
  <2>1. CASE Dies /\ Ruins(c)
    <3>1. UNCHANGED <<option, generator, client, asked, thread, reply>> /\ status = "serving" /\ status' = "dead"
      BY <1>4, <2>1 DEF Receive, Thread, Dies
    <3>2. thread' \in [Clients -> Threads] /\ ThreadInv(c)' /\ \A d \in Clients : d # c => thread'[d] = thread[d]
      BY <1>1, <3>1, ThreadFrame DEF TypeOK
    <3> QED
      BY <2>1, <3>1, <3>2, ConnectionStep
  <2>2. ASSUME NEW at \in {"generate", "send", "spin"},
               thread' = [thread EXCEPT ![c].at = at], UNCHANGED status,
               at = "generate" => asked[c] = "get_order",
               at = "send" => asked[c] = "other"
        PROVE  ServiceInv'
    <3>1. /\ thread' \in [Clients -> Threads] /\ thread'[c].at = at
          /\ \A d \in Clients : d # c => thread'[d] = thread[d]
      BY <1>1, <2>2, MovesTo
    <3>2. ThreadInv(c)'
      BY <1>4, <2>2, <3>1 DEF Receive, ThreadInv
    <3> QED
      BY <1>4, <2>2, <3>1, <3>2, ConnectionStep DEF Receive, Thread
  <2>3. (asked[c] = "malformed" \/ client[c] = "reset") => Ruins(c)
    BY DEF Ruins
  <2> QED
    BY <1>4, <2>1, <2>2, <2>3 DEF Receive
<1>5. ASSUME NEW c \in Clients, Generate(c) PROVE ServiceInv'
  BY <1>1, <1>5, GenerateStep, ConnectionStep DEF Generate, Thread
<1>6. ASSUME NEW c \in Clients, Pick(c) PROVE ServiceInv'
  BY <1>1, <1>6, PickStep, ConnectionStep DEF Pick, Thread
<1>7. ASSUME NEW c \in Clients, Connect(c) \/ Close(c) \/ \E m \in {"get_order", "other", "malformed"} : Ask(c, m)
      PROVE  ServiceInv'
  <2>1. /\ UNCHANGED <<option, status, generator, thread, reply>>
        /\ \A d \in Clients : d # c => client'[d] = client[d] /\ asked'[d] = asked[d]
        /\ client' \in [Clients -> {"idle", "connected", "asked", "closed", "reset"}]
        /\ asked' \in [Clients -> {"", "get_order", "other", "malformed"}]
        /\ client'[c] \in {"idle", "connected"} => asked'[c] = ""
        /\ asked'[c] = asked[c] \/ asked[c] = ""
        /\ client[c] \in {"closed", "reset"} => client'[c] = client[c] /\ asked'[c] = asked[c]
        /\ asked[c] = "malformed" => asked'[c] = asked[c]
    <3>1. /\ client \in [Clients -> {"idle", "connected", "asked", "closed", "reset"}]
          /\ asked \in [Clients -> {"", "get_order", "other", "malformed"}]
          /\ client[c] \in {"idle", "connected"} => asked[c] = ""
      BY <1>1 DEF TypeOK, ClientInv
    <3>2. CASE Connect(c)
      BY <3>1, <3>2 DEF Connect
    <3>3. CASE Close(c)
      BY <3>1, <3>3 DEF Close
    <3>4. CASE \E m \in {"get_order", "other", "malformed"} : Ask(c, m)
      BY <3>1, <3>4 DEF Ask
    <3> QED
      BY <1>7, <3>2, <3>3, <3>4
  <2>2. Known' = Known /\ Proper' = Proper /\ Threads' = Threads
    BY <2>1, OptionFrame
  <2>3. \A d \in Clients : ThreadInv(d)'
    <3>1. \A d \in Clients : d # c => ThreadInv(d)'
      BY <1>1, <2>1, ThreadFrame
    <3>2. asked[c] = "" => thread[c].at \notin {"generate", "pick", "send"}
      BY <1>1 DEF ThreadInv
    <3>3. ThreadInv(c)'
      <4>1. CASE asked'[c] = asked[c]
        BY <1>1, <2>1, <4>1, ThreadFrame
      <4>2. CASE asked[c] = ""
        BY <2>1, <3>2, <4>2 DEF ThreadInv
      <4> QED
        BY <2>1, <4>1, <4>2
    <3> QED
      BY <3>1, <3>3
  <2>4. TypeOK' /\ ClientInv' /\ GeneratorInv' /\ OrdersFit'
    BY <1>1, <2>1, <2>2 DEF ServiceInv, TypeOK, ClientInv, GeneratorInv, OrdersFit
  <2>5. ProperServiceSurvives'
    BY <2>1, <2>2 DEF ServiceInv, ProperServiceSurvives, Ruins
  <2> QED
    BY <2>3, <2>4, <2>5 DEF ServiceInv
<1>8. CASE UNCHANGED vars
  <2>1. Known' = Known /\ Proper' = Proper /\ Threads' = Threads
    BY <1>8, OptionFrame DEF vars
  <2>2. \A c \in Clients : ThreadInv(c)'
    BY <1>1, <1>8, ThreadFrame DEF vars
  <2> QED
    BY <1>8, <2>1, <2>2 DEF vars, ServiceInv, TypeOK, ClientInv, GeneratorInv, OrdersFit,
       ProperServiceSurvives, Ruins
<1> QED
  BY <1>2, <1>3, <1>4, <1>5, <1>6, <1>7, <1>8, SendStep DEF Next, Service

LEMMA ServiceInvariant == Spec => []ServiceInv
  BY ServiceInit, ServiceStep, PTL DEF Spec

\* Whatever the command line, every order names its stations, none of them twice, even if
\* --stations does; with a proper one it keeps to --min and --max.
THEOREM OrdersAreSound == Spec => []OrdersSound
<1>1. ServiceInv => OrdersSound
  BY DEF ServiceInv, OrdersSound
<1> QED
  BY <1>1, ServiceInvariant, PTL

\* With a proper command line the remainder and the pick of generate_order() never divide
\* by zero and pick_n_random() never throws: the service ends only by a client that sends
\* bytes outside a message, resets its connection, or leaves before its answer.
THEOREM ProperCommandLineSurvives == Spec => []ProperServiceSurvives
<1>1. ServiceInv => ProperServiceSurvives
  BY DEF ServiceInv
<1> QED
  BY <1>1, ServiceInvariant, PTL
=============================================================================
