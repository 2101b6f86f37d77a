---------------------------- MODULE SearchProof ----------------------------
(***************************************************************************)
(* Machine-checked theorems about ways to find a ride, for tables, queries *)
(* and limits of any kind.                                                 *)
(*                                                                         *)
(* RideSearch: nothing is written, so what a page, a match or a nearby     *)
(* list promises is a fact about one answer (PageOfSearch, MatchOfQuery,   *)
(* NearbyOfQuery), and the invariant only says that every answer so far    *)
(* was such a one.  The facts rest on lemmas about the flat map: the box   *)
(* around a circle with its padding holds the circle even where database   *)
(* and server differ by the largest skew, and rounded distances obey the   *)
(* triangle law up to one unit.  Then the weights: bounds of the parts of  *)
(* a score, whose sum stays below what a day is worth; and the chips:      *)
(* priorities name their chip, so the six strongest are well defined.      *)
(*                                                                         *)
(* ExternalFeed: there is one fetch at a time and nobody waits without     *)
(* one, and a host is mailed once.                                         *)
(***************************************************************************)
EXTENDS RideSearch, ExternalFeed, FiniteSetTheorems, WellFoundedInduction, TLAPS

LEMMA LeastNumber ==
  ASSUME NEW T, T \subseteq Nat, T # {}
  PROVE  \E m \in T : \A n \in T : m <= n
<1>1. \E m \in T : \A n \in T : ~ (<<n, m>> \in OpToRel(<, Nat))
  BY NatLessThanWellFounded, WFMin
<1>2. PICK m \in T : \A n \in T : ~ (<<n, m>> \in OpToRel(<, Nat))
  BY <1>1
<1>3. ASSUME NEW n \in T PROVE m <= n
  <2>1. ~ (n < m)
    BY <1>2 DEF OpToRel
  <2>2. m \in Nat /\ n \in Nat
    OBVIOUS
  <2>3. QED BY <2>1, <2>2
<1>4. QED BY <1>3

LEMMA SquareGrows ==
  ASSUME NEW x \in Nat, NEW y \in Nat
  PROVE  /\ x * x < y * y => x < y
         /\ x * x <= y * y => x <= y
         /\ x <= y => x * x <= y * y
<1>1. ASSUME y <= x PROVE y * y <= x * x
  <2>1. y * y <= x * y /\ x * y <= x * x
    BY <1>1
  <2>2. y * y \in Int /\ x * y \in Int /\ x * x \in Int
    OBVIOUS
  <2>3. QED BY <2>1, <2>2
<1>2. ASSUME y < x PROVE y * y < x * x
  <2>1. y * y <= y * x /\ y * x < x * x
    BY <1>2
  <2>2. y * y \in Int /\ y * x \in Int /\ x * x \in Int
    OBVIOUS
  <2>3. QED BY <2>1, <2>2
<1>3. ASSUME x <= y PROVE x * x <= y * y
  <2>1. x * x <= x * y /\ x * y <= y * y
    BY <1>3
  <2>2. y * y \in Int /\ x * y \in Int /\ x * x \in Int
    OBVIOUS
  <2>3. QED BY <2>1, <2>2
<1>4. QED BY <1>1, <1>2, <1>3

(* The distance of two points is the root of the sum of squares, rounded    *)
(* down.                                                                    *)
LEMMA RootFacts ==
  ASSUME NEW n \in Nat, n <= (2 * MapSide) * (2 * MapSide)
  PROVE  /\ Root(n) \in Nat
         /\ Root(n) * Root(n) <= n /\ n < (Root(n) + 1) * (Root(n) + 1)
<1> DEFINE T == {k \in Nat : n < (k + 1) * (k + 1)}
<1>1. n \in T
  <2>1. (n + 1) * (n + 1) = n * n + 2 * n + 1 /\ n * n \in Nat
    OBVIOUS
  <2>2. QED BY <2>1
<1>2. PICK k \in T : \A m \in T : k <= m
  BY <1>1, LeastNumber
<1>3. k * k <= n
  <2>1. CASE k = 0
    BY <2>1
  <2>2. CASE k # 0
    <3>1. k - 1 \in Nat /\ k - 1 \notin T
      BY <1>2, <2>2
    <3>2. ~(n < ((k - 1) + 1) * ((k - 1) + 1))
      BY <3>1
    <3>3. (k - 1) + 1 = k /\ k * k \in Nat
      OBVIOUS
    <3>4. QED BY <3>2, <3>3
  <2>3. QED BY <2>1, <2>2
<1>4. k <= 2 * MapSide
  <2>1. k * k <= (2 * MapSide) * (2 * MapSide)
    <3>1. k * k \in Nat /\ (2 * MapSide) * (2 * MapSide) \in Nat
      BY RideScoreAssumption
    <3>2. QED BY <1>3, <3>1
  <2>2. 2 * MapSide \in Nat
    BY RideScoreAssumption
  <2>3. QED BY <2>1, <2>2, SquareGrows
<1>5. k \in 0..(2 * MapSide) /\ k * k <= n /\ n < (k + 1) * (k + 1)
  BY <1>2, <1>3, <1>4, RideScoreAssumption
<1>6. Root(n) \in 0..(2 * MapSide) /\ Root(n) * Root(n) <= n /\ n < (Root(n) + 1) * (Root(n) + 1)
  BY <1>5 DEF Root
<1>7. QED BY <1>6, RideScoreAssumption

LEMMA Coordinates ==
  ASSUME NEW a \in Points
  PROVE  a[1] \in 0..MapSide /\ a[2] \in 0..MapSide /\ a # NoPoint
BY RideScoreAssumption DEF NoPoint

LEMMA SquareOfDifference ==
  ASSUME NEW x \in 0..MapSide, NEW y \in 0..MapSide
  PROVE  /\ (x - y) * (x - y) \in Nat
         /\ (x - y) * (x - y) <= MapSide * MapSide
         /\ (x - y) * (x - y) = Magnitude(x - y) * Magnitude(x - y)
         /\ Magnitude(x - y) \in Nat
<1>1. x \in Nat /\ y \in Nat /\ MapSide \in Nat /\ x - y \in Int
  BY RideScoreAssumption
<1>2. CASE x >= y
  <2>1. PICK d \in Nat : d = x - y
    BY <1>1, <1>2
  <2>2. d <= MapSide /\ Magnitude(x - y) = d
    BY <1>1, <1>2, <2>1 DEF Magnitude
  <2>3. d * d <= MapSide * MapSide /\ d * d \in Nat
    BY <1>1, <2>2, SquareGrows
  <2>4. QED BY <2>1, <2>2, <2>3
<1>3. CASE x < y
  <2>1. PICK d \in Nat : d = y - x
    BY <1>1, <1>3
  <2>2. d <= MapSide /\ Magnitude(x - y) = d /\ x - y = 0 - d
    BY <1>1, <1>3, <2>1 DEF Magnitude
  <2>3. d * d <= MapSide * MapSide /\ d * d \in Nat
    BY <1>1, <2>2, SquareGrows
  <2>4. (0 - d) * (0 - d) = d * d
    OBVIOUS
  <2>5. QED BY <2>2, <2>3, <2>4
<1>4. QED BY <1>1, <1>2, <1>3

SumOfSquares(a, b) == (a[1] - b[1]) * (a[1] - b[1]) + (a[2] - b[2]) * (a[2] - b[2])

LEMMA DistanceFacts ==
  ASSUME NEW a \in Points, NEW b \in Points
  PROVE  /\ CalculateDistance(a, b) \in Nat /\ SumOfSquares(a, b) \in Nat
         /\ CalculateDistance(a, b) * CalculateDistance(a, b) <= SumOfSquares(a, b)
         /\ SumOfSquares(a, b) < (CalculateDistance(a, b) + 1) * (CalculateDistance(a, b) + 1)
<1>1. CalculateDistance(a, b) = Root(SumOfSquares(a, b))
  BY DEF CalculateDistance, DistanceTable, SumOfSquares
<1>2. /\ a[1] \in 0..MapSide /\ a[2] \in 0..MapSide
      /\ b[1] \in 0..MapSide /\ b[2] \in 0..MapSide
  BY Coordinates
<1> DEFINE p == (a[1] - b[1]) * (a[1] - b[1])
           q == (a[2] - b[2]) * (a[2] - b[2])
           m == MapSide * MapSide
<1>3. p \in Nat /\ q \in Nat /\ p <= m /\ q <= m
  BY <1>2, SquareOfDifference
<1>4. m \in Nat /\ (2 * MapSide) * (2 * MapSide) = 4 * m
  BY RideScoreAssumption
<1> HIDE DEF p, q, m
<1>5. p + q \in Nat /\ p + q <= (2 * MapSide) * (2 * MapSide)
  BY <1>3, <1>4
<1>6. SumOfSquares(a, b) = p + q
  BY DEF SumOfSquares, p, q
<1>7. QED BY <1>1, <1>5, <1>6, RootFacts

(* Neither coordinate is further away than the point. *)
LEMMA BoxAroundCircle ==
  ASSUME NEW a \in Points, NEW b \in Points, NEW i \in 1..2
  PROVE  Magnitude(a[i] - b[i]) <= CalculateDistance(a, b)
<1>1. /\ a[1] \in 0..MapSide /\ a[2] \in 0..MapSide
      /\ b[1] \in 0..MapSide /\ b[2] \in 0..MapSide
  BY Coordinates
<1> DEFINE p == (a[1] - b[1]) * (a[1] - b[1])
           q == (a[2] - b[2]) * (a[2] - b[2])
           x == Magnitude(a[1] - b[1])
           y == Magnitude(a[2] - b[2])
           d == CalculateDistance(a, b)
<1>2. /\ p \in Nat /\ p = x * x /\ x \in Nat
      /\ q \in Nat /\ q = y * y /\ y \in Nat
  BY <1>1, SquareOfDifference
<1>3. d \in Nat /\ p + q < (d + 1) * (d + 1)
  BY DistanceFacts DEF SumOfSquares
<1> HIDE DEF p, q, x, y, d
<1>4. x * x < (d + 1) * (d + 1) /\ y * y < (d + 1) * (d + 1)
  <2>1. (d + 1) * (d + 1) \in Nat
    BY <1>3
  <2>2. QED BY <1>2, <1>3, <2>1
<1>5. x < d + 1 /\ y < d + 1
  BY <1>2, <1>3, <1>4, SquareGrows
<1>6. x <= d /\ y <= d
  BY <1>2, <1>3, <1>5
<1>7. QED BY <1>6 DEF x, y, d

(* The law of the triangle, up to the rounding. *)
LEMMA CauchySchwarz ==
  ASSUME NEW u \in Int, NEW v \in Int, NEW x \in Int, NEW y \in Int, NEW s \in Nat, NEW t \in Nat,
         u * u + v * v < s * s, x * x + y * y < t * t
  PROVE  u * x + v * y < s * t
<1> DEFINE m == u * u + v * v
           n == x * x + y * y
           k == u * x + v * y
           l == u * y - v * x
<1>1. k * k + l * l = m * n
  OBVIOUS
<1>2. m \in Int /\ n \in Int /\ k \in Int /\ l \in Int
  OBVIOUS
<1>3. m >= 0 /\ n >= 0
  <2>1. ASSUME NEW z \in Int PROVE z * z >= 0
    OBVIOUS
  <2>2. u * u >= 0 /\ v * v >= 0 /\ x * x >= 0 /\ y * y >= 0
    BY <2>1
  <2>3. u * u \in Int /\ v * v \in Int /\ x * x \in Int /\ y * y \in Int
    OBVIOUS
  <2>4. QED BY <2>2, <2>3
<1>4. m < s * s /\ n < t * t
  OBVIOUS
<1> DEFINE a == s * s
           b == t * t
<1>5. a \in Nat /\ b \in Nat
  OBVIOUS
<1>6. a * b = (s * t) * (s * t) /\ s * t \in Nat
  OBVIOUS
<1> HIDE DEF m, n, k, l, a, b
<1>7. m < a /\ n < b
  BY <1>4 DEF a, b
<1>8. m * n <= m * b /\ m * b < a * b
  <2>1. m * n <= m * b
    BY <1>2, <1>3, <1>5, <1>7
  <2>2. m * b < a * b
    BY <1>2, <1>3, <1>5, <1>7
  <2>3. QED BY <2>1, <2>2
<1>9. k * k < a * b
  <2>1. k * k \in Int /\ l * l \in Int /\ l * l >= 0 /\ m * n \in Int /\ m * b \in Int /\ a * b \in Int
    BY <1>2, <1>5
  <2>2. QED BY <1>1, <1>8, <2>1
<1>10. CASE k < 0
  <2>1. k < s * t
    BY <1>2, <1>6, <1>10
  <2>2. QED BY <2>1 DEF k
<1>11. CASE k >= 0
  <2>1. k \in Nat /\ k * k < (s * t) * (s * t)
    BY <1>2, <1>6, <1>9, <1>11
  <2>2. k < s * t
    BY <1>6, <2>1, SquareGrows
  <2>3. QED BY <2>2 DEF k
<1>12. QED BY <1>2, <1>10, <1>11

LEMMA TriangleLaw ==
  ASSUME NEW a \in Points, NEW b \in Points, NEW c \in Points
  PROVE  CalculateDistance(a, b) <= CalculateDistance(a, c) + CalculateDistance(c, b) + 1
<1> DEFINE u == a[1] - c[1]
           v == a[2] - c[2]
           x == c[1] - b[1]
           y == c[2] - b[2]
           s == CalculateDistance(a, c) + 1
           t == CalculateDistance(c, b) + 1
           d == CalculateDistance(a, b)
<1>1. u \in Int /\ v \in Int /\ x \in Int /\ y \in Int
  BY Coordinates
<1>2. a[1] - b[1] = u + x /\ a[2] - b[2] = v + y
  BY Coordinates
<1>3. /\ s \in Nat /\ t \in Nat /\ d \in Nat
      /\ u * u + v * v < s * s
      /\ x * x + y * y < t * t
  BY DistanceFacts DEF SumOfSquares
<1>4. d * d <= (u + x) * (u + x) + (v + y) * (v + y)
  BY <1>2, DistanceFacts DEF SumOfSquares
<1> HIDE DEF u, v, x, y, s, t, d
<1>5. u * x + v * y < s * t
  BY <1>1, <1>3, CauchySchwarz
<1>6. (u + x) * (u + x) + (v + y) * (v + y) = (u * u + v * v) + (x * x + y * y) + 2 * (u * x + v * y)
  BY <1>1
<1>7. (s + t) * (s + t) = s * s + t * t + 2 * (s * t)
  BY <1>3
<1>8. d * d < (s + t) * (s + t)
  <2> DEFINE m == u * u + v * v
             n == x * x + y * y
             k == u * x + v * y
             e == d * d
             l == s * s
             o == t * t
             f == s * t
  <2>1. m \in Int /\ n \in Int /\ k \in Int /\ e \in Int /\ l \in Int /\ o \in Int /\ f \in Int
    BY <1>1, <1>3
  <2>2. e <= m + n + 2 * k
    BY <1>4, <1>6
  <2>3. m < l /\ n < o /\ k < f
    BY <1>3, <1>5
  <2>4. (s + t) * (s + t) = l + o + 2 * f
    BY <1>7
  <2> HIDE DEF m, n, k, e, l, o, f
  <2>5. e < l + o + 2 * f
    BY <2>1, <2>2, <2>3
  <2>6. QED BY <2>4, <2>5 DEF e
<1>9. d < s + t
  BY <1>3, <1>8, SquareGrows
<1>10. d <= (s - 1) + (t - 1) + 1
  BY <1>3, <1>9
<1>11. QED BY <1>3, <1>10, DistanceFacts DEF s, t, d

-----------------------------------------------------------------------------
(* Sequences of the elements of a set, and their slices. *)

LEMMA OrderFacts ==
  ASSUME NEW S, IsFiniteSet(S), NEW s \in SetToSeqs(S)
  PROVE  /\ s \in Seq(S) /\ Len(s) = Cardinality(S) /\ Cardinality(S) \in Nat
         /\ \A i, j \in 1..Len(s) : i # j => s[i] # s[j]
         /\ \A x \in S : \E i \in 1..Len(s) : s[i] = x
<1> DEFINE D == 1..Cardinality(S)
<1>1. Cardinality(S) \in Nat
  BY FS_CardinalityType
<1>2. s \in [D -> S] /\ \A i, j \in D : i # j => s[i] # s[j]
  BY DEF SetToSeqs
<1>3. s \in Seq(S) /\ Len(s) = Cardinality(S)
  BY <1>1, <1>2
<1>4. s \in Injection(D, S)
  BY <1>2 DEF Injection, IsInjective
<1>5. IsFiniteSet(D) /\ Cardinality(D) = Cardinality(S)
  <2>1. 1 \in Int /\ Cardinality(S) \in Int
    BY <1>1
  <2>2. QED BY <1>1, <2>1, FS_Interval
<1>6. s \in Surjection(D, S)
  BY <1>4, <1>5, FS_Injection
<1>7. QED BY <1>1, <1>2, <1>3, <1>6 DEF Surjection

LEMMA SliceFacts ==
  ASSUME NEW S, NEW s \in Seq(S), NEW o \in Nat, NEW n \in Nat
  PROVE  /\ Slice(s, o, n) \in Seq(S)
         /\ Len(Slice(s, o, n)) = IF o >= Len(s) THEN 0 ELSE Least(Len(s) - o, n)
         /\ \A i \in 1..Len(Slice(s, o, n)) : o + i \in 1..Len(s) /\ Slice(s, o, n)[i] = s[o + i]
BY DEF Slice, Least

LEMMA ElementInRange ==
  ASSUME NEW S, NEW s \in Seq(S), NEW k \in 1..Len(s)
  PROVE  s[k] \in Range(s)
BY DEF Range

LEMMA RangeHasIndex ==
  ASSUME NEW S, NEW s \in Seq(S), NEW x \in Range(s)
  PROVE  x \in S /\ \E n \in 1..Len(s) : x = s[n]
BY DEF Range

(* What a LIMIT keeps of a set, in some order. *)
LEMMA CutFacts ==
  ASSUME NEW S, IsFiniteSet(S), NEW s \in SetToSeqs(S), NEW o \in Nat, NEW n \in Nat
  PROVE  /\ Range(Slice(s, o, n)) \subseteq S
         /\ Slice(s, o, n) \in Seq(S)
         /\ (o = 0 /\ Cardinality(S) <= n) => Range(Slice(s, o, n)) = S
         /\ Len(Slice(s, o, n)) <= n
         /\ Len(Slice(s, 0, n)) < n => Range(Slice(s, 0, n)) = S
<1>1. s \in Seq(S) /\ Len(s) = Cardinality(S) /\ \A x \in S : \E i \in 1..Len(s) : s[i] = x
  BY OrderFacts
<1>2. /\ Slice(s, o, n) \in Seq(S)
      /\ Len(Slice(s, o, n)) = IF o >= Len(s) THEN 0 ELSE Least(Len(s) - o, n)
      /\ \A i \in 1..Len(Slice(s, o, n)) : o + i \in 1..Len(s) /\ Slice(s, o, n)[i] = s[o + i]
  BY <1>1, SliceFacts
<1>3. Range(Slice(s, o, n)) \subseteq S
  BY <1>2, RangeHasIndex
<1>4. Len(Slice(s, o, n)) <= n
  BY <1>1, <1>2 DEF Least
<1>5. ASSUME Len(Slice(s, 0, n)) = Len(s) PROVE Range(Slice(s, 0, n)) = S
  <2>1. /\ Slice(s, 0, n) \in Seq(S)
        /\ \A i \in 1..Len(Slice(s, 0, n)) : 0 + i \in 1..Len(s) /\ Slice(s, 0, n)[i] = s[0 + i]
    BY <1>1, SliceFacts
  <2>2. \A i \in 1..Len(s) : Slice(s, 0, n)[i] = s[i]
    BY <1>5, <2>1
  <2>3. \A x \in S : x \in Range(Slice(s, 0, n))
    <3> TAKE x \in S
    <3>1. PICK i \in 1..Len(s) : s[i] = x
      BY <1>1
    <3>2. i \in 1..Len(Slice(s, 0, n)) /\ Slice(s, 0, n)[i] = x
      BY <1>5, <2>2, <3>1
    <3>3. \A k \in 1..Len(Slice(s, 0, n)) : Slice(s, 0, n)[k] \in Range(Slice(s, 0, n))
      BY <2>1, ElementInRange
    <3>4. QED BY <3>2, <3>3
  <2>4. QED BY <2>1, <2>3, RangeHasIndex
<1>6. Len(Slice(s, 0, n)) = IF 0 >= Len(s) THEN 0 ELSE Least(Len(s) - 0, n)
  BY <1>1, SliceFacts
<1>7. Cardinality(S) <= n \/ Len(Slice(s, 0, n)) < n => Len(Slice(s, 0, n)) = Len(s)
  BY <1>1, <1>6 DEF Least
<1>8. QED BY <1>2, <1>3, <1>4, <1>5, <1>7

-----------------------------------------------------------------------------
(* The candidates of a search, as sets. *)

LEMMA Given ==
  ASSUME TypeOK
  PROVE  /\ IsFiniteSet(rides) /\ rides \subseteq RideRows
         /\ query \in Queries /\ skew \in -5..5
<1>1. <<rides, query>> \in Cases /\ skew \in Skews \cup {0}
  BY DEF TypeOK
<1>2. Cases \subseteq (SUBSET RideRows) \X Queries /\ \A c \in Cases : IsFiniteSet(c[1])
  BY RideSearchAssumption
<1>3. skew \in -5..5
  BY <1>1, RideSearchAssumption
<1>4. QED BY <1>1, <1>2, <1>3

LEMMA Limits ==
  ASSUME TypeOK
  PROVE  query.limit \in Nat \ {0} /\ CandidateLimit(query) \in Nat \ {0}
<1>1. query.limit \in Nat \ {0}
  BY Given DEF Queries
<1>2. CandidateFactor * query.limit \in Nat
  BY <1>1, RideSearchAssumption
<1>3. CandidateFloor \in Nat \ {0} /\ CandidateCeiling \in Nat \ {0}
  BY RideSearchAssumption
<1> DEFINE n == CandidateFactor * query.limit
<1> HIDE DEF n
<1>4. Least(CandidateCeiling, Most(CandidateFloor, n)) \in Nat \ {0}
  BY <1>2, <1>3 DEF Least, Most, n
<1>5. QED BY <1>1, <1>4 DEF CandidateLimit, n

LEMMA CandidatesAreBase ==
  ASSUME TypeOK
  PROVE  /\ IsFiniteSet(BaseSearch(query)) /\ BaseSearch(query) \subseteq rides
         /\ IsFiniteSet(CoordinateCandidates(query)) /\ CoordinateCandidates(query) \subseteq BaseSearch(query)
         /\ IsFiniteSet(TextCandidates(query)) /\ TextCandidates(query) \subseteq BaseSearch(query)
         /\ IsFiniteSet(FallbackCandidates(query)) /\ FallbackCandidates(query) \subseteq BaseSearch(query)
<1>1. BaseSearch(query) \subseteq rides
  BY DEF BaseSearch
<1>2. /\ CoordinateCandidates(query) \subseteq BaseSearch(query)
      /\ TextCandidates(query) \subseteq BaseSearch(query)
      /\ FallbackCandidates(query) \subseteq BaseSearch(query)
  BY DEF CoordinateCandidates, TextCandidates, FallbackCandidates
<1>3. IsFiniteSet(rides)
  BY Given
<1>4. IsFiniteSet(BaseSearch(query))
  BY <1>1, <1>3, FS_Subset
<1>5. QED BY <1>1, <1>2, <1>4, FS_Subset

(* Whatever a search loads, it loads from the rides that can be booked.     *)
LEMMA LoadedFromBase ==
  ASSUME TypeOK, NEW offset \in Nat, NEW failed, NEW S \in Loaded(offset, failed)
  PROVE  S \subseteq BaseSearch(query)
<1>1. CandidateLimit(query) \in Nat
  BY Limits
<1>2. ASSUME NEW T \in Loads(CoordinateCandidates(query), LAMBDA r : CoordinateOrder(query, r), offset)
      PROVE  T \subseteq BaseSearch(query)
  <2>1. PICK s \in SetToSeqs(CoordinateCandidates(query)) : T = Range(Slice(s, offset, CandidateLimit(query)))
    BY <1>2 DEF Loads, Orders
  <2>2. T \subseteq CoordinateCandidates(query)
    BY <1>1, <2>1, CandidatesAreBase, CutFacts
  <2>3. QED BY <2>2, CandidatesAreBase
<1>3. ASSUME NEW T \in Loads(TextCandidates(query), StartTimeOrder, offset)
      PROVE  T \subseteq BaseSearch(query)
  <2>1. PICK s \in SetToSeqs(TextCandidates(query)) : T = Range(Slice(s, offset, CandidateLimit(query)))
    BY <1>3 DEF Loads, Orders
  <2>2. T \subseteq TextCandidates(query)
    BY <1>1, <2>1, CandidatesAreBase, CutFacts
  <2>3. QED BY <2>2, CandidatesAreBase
<1>4. ASSUME NEW T \in Loads(FallbackCandidates(query), StartTimeOrder, offset)
      PROVE  T \subseteq BaseSearch(query)
  <2>1. PICK s \in SetToSeqs(FallbackCandidates(query)) : T = Range(Slice(s, offset, CandidateLimit(query)))
    BY <1>4 DEF Loads, Orders
  <2>2. T \subseteq FallbackCandidates(query)
    BY <1>1, <2>1, CandidatesAreBase, CutFacts
  <2>3. QED BY <2>2, CandidatesAreBase
<1>5. ASSUME NEW T \in Loads(BaseSearch(query), StartTimeOrder, offset)
      PROVE  T \subseteq BaseSearch(query)
  <2>1. PICK s \in SetToSeqs(BaseSearch(query)) : T = Range(Slice(s, offset, CandidateLimit(query)))
    BY <1>5 DEF Loads, Orders
  <2>2. QED BY <1>1, <2>1, CandidatesAreBase, CutFacts
<1>6. ASSUME NEW T \in FirstLoads(offset, failed)
      PROVE  T \subseteq BaseSearch(query)
  <2>1. CASE HasCoordinate(query)
    <3> DEFINE A == Loads(CoordinateCandidates(query), LAMBDA r : CoordinateOrder(query, r), offset)
               B == Loads(TextCandidates(query), StartTimeOrder, offset)
               C == IF HasText(query) /\ "text" \notin failed THEN B ELSE {{}}
    <3>0. FirstLoads(offset, failed) = IF "candidates" \in failed THEN {} ELSE {a \cup b : a \in A, b \in C}
      BY <2>1 DEF FirstLoads
    <3> HIDE DEF A, C
    <3>1. PICK a \in A, b \in C : T = a \cup b
      BY <1>6, <3>0
    <3> USE DEF A, C
    <3>2. a \subseteq BaseSearch(query)
      BY <1>2
    <3>3. b \subseteq BaseSearch(query)
      BY <1>3
    <3>4. QED BY <3>1, <3>2, <3>3
  <2>2. CASE ~HasCoordinate(query)
    BY <1>3, <1>5, <1>6, <2>2 DEF FirstLoads
  <2>3. QED BY <2>1, <2>2
<1>7. ASSUME NEW T \in Fallback(offset, failed)
      PROVE  T \subseteq BaseSearch(query)
  BY <1>4, <1>7 DEF Fallback
<1>8. PICK T \in FirstLoads(offset, failed) : S \in (IF T # {} THEN {T} ELSE Fallback(offset, failed))
  BY DEF Loaded
<1>9. QED BY <1>6, <1>7, <1>8

(* The ride is within the radius on the database's map whenever it is so on *)
(* the server's: the padding covers the difference.                         *)
LEMMA PaddingEnough ==
  ASSUME TypeOK, NEW r \in rides, HasCoordinate(query), WithinRadius(query, r), r \in BaseSearch(query)
  PROVE  r \in CoordinateCandidates(query)
<1>1. /\ query.radius \in Nat /\ skew \in -5..5
      /\ query.from \in Points \cup {NoPoint} /\ query.to \in Points \cup {NoPoint}
      /\ r.from \in Points \cup {NoPoint} /\ r.to \in Points \cup {NoPoint}
  BY Given DEF Queries, RideRows
<1>2. ASSUME NEW a \in Points, NEW b \in Points \cup {NoPoint}, DistanceOf(a, b) \in 0..query.radius
      PROVE  CoordinateRadiusFilter(a, b, query.radius)
  <2>1. a # NoPoint
    BY Coordinates
  <2>2. AreCoordinatesValid(b)
    BY <1>1, <1>2, <2>1 DEF DistanceOf, None
  <2>3. b # NoPoint /\ CalculateDistance(a, b) \in 0..query.radius
    BY <1>2, <2>1, <2>2 DEF DistanceOf, AreCoordinatesValid
  <2>4. CalculateDistance(a, b) + skew <= query.radius + Most(5, query.radius \div 100)
    <3>1. query.radius \div 100 \in Nat
      BY <1>1
    <3>2. Most(5, query.radius \div 100) \in Nat /\ Most(5, query.radius \div 100) >= 5
      BY <3>1 DEF Most
    <3>3. QED BY <1>1, <2>3, <3>2
  <2>5. QED BY <2>3, <2>4 DEF CoordinateRadiusFilter, FlatDistance, ConservativeRadius
<1>3. CASE query.from # NoPoint
  <2>1. query.from \in Points
    BY <1>1, <1>3
  <2>2. StartDistance(query, r) \in 0..query.radius
    BY <1>3 DEF WithinRadius
  <2>3. CoordinateRadiusFilter(query.from, r.from, query.radius)
    BY <1>1, <1>2, <2>1, <2>2 DEF StartDistance
  <2>4. QED BY <1>3, <2>3 DEF CoordinateCandidates
<1>4. CASE query.from = NoPoint
  <2>1. query.to # NoPoint
    BY <1>4 DEF HasCoordinate
  <2>2. query.to \in Points
    BY <1>1, <2>1
  <2>3. EndDistance(query, r) \in 0..query.radius
    BY <2>1 DEF WithinRadius
  <2>4. CoordinateRadiusFilter(query.to, r.to, query.radius)
    BY <1>1, <1>2, <2>2, <2>3 DEF EndDistance
  <2>5. QED BY <1>4, <2>4 DEF CoordinateCandidates
<1>5. QED BY <1>3, <1>4

(* With no more rides than candidates, the first page is made from all that *)
(* are within the radius.                                                   *)
LEMMA FirstLoadWhole ==
  ASSUME TypeOK, ~ByText(query), Cardinality(rides) <= CandidateLimit(query),
         NEW S \in Loaded(0, {}), NEW r \in BaseSearch(query), WithinRadius(query, r)
  PROVE  r \in S
<1>1. CandidateLimit(query) \in Nat /\ IsFiniteSet(rides)
  BY Limits, Given
<1>2. ASSUME NEW C, C \subseteq rides, NEW s \in SetToSeqs(C)
      PROVE  Range(Slice(s, 0, CandidateLimit(query))) = C
  <2>1. IsFiniteSet(C) /\ Cardinality(C) <= Cardinality(rides) /\ Cardinality(C) \in Nat /\ Cardinality(rides) \in Nat
    BY <1>1, <1>2, FS_Subset, FS_CardinalityType
  <2>2. Cardinality(C) <= CandidateLimit(query)
    BY <1>1, <2>1
  <2>3. 0 \in Nat
    OBVIOUS
  <2>4. QED BY <1>1, <2>1, <2>2, <2>3, CutFacts
<1>3. PICK T \in FirstLoads(0, {}) : S \in (IF T # {} THEN {T} ELSE Fallback(0, {}))
  BY DEF Loaded
<1>4. r \in T
  <2>1. CASE HasCoordinate(query)
    <3> DEFINE A == Loads(CoordinateCandidates(query), LAMBDA x : CoordinateOrder(query, x), 0)
               C == IF HasText(query) /\ "text" \notin {} THEN Loads(TextCandidates(query), StartTimeOrder, 0) ELSE {{}}
    <3>0. FirstLoads(0, {}) = IF "candidates" \in {} THEN {} ELSE {a \cup b : a \in A, b \in C}
      BY <2>1 DEF FirstLoads
    <3> HIDE DEF A, C
    <3>1. PICK a \in A : a \subseteq T
      BY <1>3, <3>0
    <3> USE DEF A, C
    <3>2. PICK s \in SetToSeqs(CoordinateCandidates(query)) : a = Range(Slice(s, 0, CandidateLimit(query)))
      BY <3>1 DEF Loads, Orders
    <3>3. a = CoordinateCandidates(query)
      BY <1>2, <3>2, CandidatesAreBase
    <3>4. r \in CoordinateCandidates(query)
      BY <2>1, CandidatesAreBase, PaddingEnough
    <3>5. QED BY <3>1, <3>3, <3>4
  <2>2. CASE ~HasCoordinate(query)
    <3>1. ~HasText(query)
      BY <2>2 DEF ByText
    <3>2. T \in Loads(BaseSearch(query), StartTimeOrder, 0)
      BY <2>2, <3>1 DEF FirstLoads
    <3>3. PICK s \in SetToSeqs(BaseSearch(query)) : T = Range(Slice(s, 0, CandidateLimit(query)))
      BY <3>2 DEF Loads, Orders
    <3>4. T = BaseSearch(query)
      BY <1>2, <3>3, CandidatesAreBase
    <3>5. QED BY <3>4
  <2>3. QED BY <2>1, <2>2
<1>5. QED BY <1>3, <1>4

-----------------------------------------------------------------------------
(* A page, said without the variables. *)

PageFine(q, p) ==
  p.status = 200 =>
    /\ Len(p.cards) <= q.limit
    /\ \A i, j \in DOMAIN p.cards : i # j => p.cards[i] # p.cards[j]
    /\ \A i \in DOMAIN p.cards : Wanted(q, p.cards[i])
    /\ \A i, j \in DOMAIN p.cards :
         i < j => ~KeyBefore(RankKey(q, p.cards[j], p.failed), RankKey(q, p.cards[i], p.failed))

FirstFine(rs, q, p) ==
  (p.status = 200 /\ p.failed = {} /\ ~ByText(q) /\ Cardinality(rs) <= CandidateLimit(q)) =>
    \A r \in rs : (Wanted(q, r) /\ r \notin Range(p.cards)) =>
      /\ Len(p.cards) = q.limit
      /\ \A i \in DOMAIN p.cards : ~KeyBefore(RankKey(q, r, {}), RankKey(q, p.cards[i], {}))

(* The WHERE clause, on signed columns, and the helper the query is meant   *)
(* to agree with.                                                           *)
LEMMA WantedIsBase ==
  ASSUME TypeOK, NEW r \in rides
  PROVE  Wanted(query, r) <=> r \in BaseSearch(query) /\ WithinRadius(query, r)
<1>1. r.total \in Nat /\ r.booked \in Nat /\ query.minSeats \in Nat \cup {None}
  BY Given DEF RideRows, Queries
<1>2. CanAcceptAnotherPassenger(r.total, r.booked) <=> PassengerSeatsLeftPredicate(r.total, r.booked)
  BY <1>1 DEF CanAcceptAnotherPassenger, PassengerSeatsLeftPredicate, PassengerSeatsLeft, PassengerCapacity
<1>3. ASSUME PassengerSeatsLeftPredicate(r.total, r.booked), query.minSeats # None
      PROVE  PassengerSeatsLeft(r.total, r.booked) >= query.minSeats
               <=> MinSeatsLeftPredicate(r.total, r.booked, query.minSeats)
  BY <1>1, <1>3 DEF MinSeatsLeftPredicate, PassengerSeatsLeftPredicate, PassengerSeatsLeft, PassengerCapacity
<1>4. QED BY <1>2, <1>3 DEF Wanted, Bookable, BaseSearch

LEMMA PageInOrder ==
  ASSUME NEW S, NEW failed, NEW p \in PagesOf(S, failed)
  PROVE  \E s \in SetToSeqs({r \in S : WithinRadius(query, r)}) :
           /\ p = [status |-> 200, failed |-> failed, cards |-> Slice(s, 0, query.limit)]
           /\ \A i, j \in DOMAIN s : i < j => ~KeyBefore(RankKey(query, s[j], failed), RankKey(query, s[i], failed))
<1> DEFINE shown == {r \in S : WithinRadius(query, r)}
<1>1. PICK s : /\ s \in Orders(shown, LAMBDA r : RankKey(query, r, failed))
               /\ p = [status |-> 200, failed |-> failed, cards |-> Slice(s, 0, query.limit)]
  BY DEF PagesOf
<1> HIDE DEF shown
<1>2. /\ s \in SetToSeqs(shown)
      /\ \A i, j \in DOMAIN s : i < j => ~KeyBefore(RankKey(query, s[j], failed), RankKey(query, s[i], failed))
  BY <1>1 DEF Orders
<1>3. QED BY <1>1, <1>2 DEF shown

LEMMA PageOfSearch ==
  ASSUME TypeOK, NEW offset \in Nat, NEW failed, NEW p \in SearchRides(offset, failed)
  PROVE  /\ p \in [status : {200, 500}, failed : {failed}, cards : Seq(rides)]
         /\ PageFine(query, p)
         /\ offset = 0 => FirstFine(rides, query, p)
<1>1. CASE Loaded(offset, failed) = {}
  <2>1. p = [status |-> 500, failed |-> failed, cards |-> <<>>]
    BY <1>1 DEF SearchRides
  <2>2. <<>> \in Seq(rides)
    OBVIOUS
  <2>3. QED BY <2>1, <2>2 DEF PageFine, FirstFine
<1>2. CASE Loaded(offset, failed) # {}
  <2>1. PICK S \in Loaded(offset, failed) : p \in PagesOf(S, failed)
    BY <1>2 DEF SearchRides
  <2> DEFINE shown == {r \in S : WithinRadius(query, r)}
  <2>2. PICK s \in SetToSeqs(shown) :
          /\ p = [status |-> 200, failed |-> failed, cards |-> Slice(s, 0, query.limit)]
          /\ \A i, j \in DOMAIN s : i < j => ~KeyBefore(RankKey(query, s[j], failed), RankKey(query, s[i], failed))
    BY <2>1, PageInOrder
  <2>3. /\ s \in SetToSeqs(shown)
        /\ \A i, j \in DOMAIN s : i < j => ~KeyBefore(RankKey(query, s[j], failed), RankKey(query, s[i], failed))
    BY <2>2
  <2>4. S \subseteq BaseSearch(query)
    BY LoadedFromBase
  <2>5. IsFiniteSet(shown) /\ shown \subseteq BaseSearch(query) /\ shown \subseteq rides
    <3>1. shown \subseteq BaseSearch(query)
      BY <2>4
    <3>2. QED BY <3>1, CandidatesAreBase, FS_Subset
  <2>6. \A r \in shown : Wanted(query, r)
    BY <2>5, WantedIsBase
  <2> HIDE DEF shown
  <2>7. query.limit \in Nat /\ 0 \in Nat
    BY Limits
  <2>8. /\ s \in Seq(shown) /\ DOMAIN s = 1..Len(s)
        /\ \A i, j \in 1..Len(s) : i # j => s[i] # s[j]
        /\ \A x \in shown : \E i \in 1..Len(s) : s[i] = x
    BY <2>3, <2>5, OrderFacts
  <2> DEFINE c == Slice(s, 0, query.limit)
  <2>9. /\ c \in Seq(shown)
        /\ Len(c) = IF 0 >= Len(s) THEN 0 ELSE Least(Len(s) - 0, query.limit)
        /\ \A i \in 1..Len(c) : 0 + i \in 1..Len(s) /\ c[i] = s[0 + i]
    BY <2>7, <2>8, SliceFacts
  <2>10. /\ Len(c) \in Nat /\ Len(c) <= query.limit /\ Len(c) <= Len(s) /\ Len(s) \in Nat
         /\ Len(c) < Len(s) => Len(c) = query.limit
    BY <2>7, <2>8, <2>9 DEF Least
  <2>11. \A i \in 1..Len(c) : i \in 1..Len(s) /\ c[i] = s[i]
    BY <2>9
  <2>12. DOMAIN c = 1..Len(c)
    BY <2>9
  <2>13. p.status = 200 /\ p.failed = failed /\ p.cards = c
    BY <2>2
  <2> HIDE DEF c
  <2>14. c \in Seq(rides)
    BY <2>5, <2>9
  <2>15. PageFine(query, p)
    <3>1. \A i, j \in DOMAIN c : i # j => c[i] # c[j]
      BY <2>8, <2>11, <2>12
    <3>2. \A i \in DOMAIN c : Wanted(query, c[i])
      BY <2>6, <2>9, <2>12
    <3>3. \A i, j \in DOMAIN c : i < j => ~KeyBefore(RankKey(query, c[j], failed), RankKey(query, c[i], failed))
      BY <2>3, <2>8, <2>11, <2>12
    <3>4. QED BY <2>10, <2>13, <3>1, <3>2, <3>3 DEF PageFine
  <2>16. ASSUME offset = 0 PROVE FirstFine(rides, query, p)
    <3> SUFFICES ASSUME failed = {}, ~ByText(query), Cardinality(rides) <= CandidateLimit(query),
                        NEW r \in rides, Wanted(query, r), r \notin Range(c)
                 PROVE  /\ Len(c) = query.limit
                        /\ \A i \in DOMAIN c : ~KeyBefore(RankKey(query, r, {}), RankKey(query, c[i], {}))
      BY <2>13 DEF FirstFine
    <3>1. r \in BaseSearch(query) /\ WithinRadius(query, r)
      BY WantedIsBase
    <3>2. S \in Loaded(0, {})
      BY <2>1, <2>16
    <3>3. r \in shown
      BY <3>1, <3>2, FirstLoadWhole DEF shown
    <3>4. PICK k \in 1..Len(s) : s[k] = r
      BY <2>8, <3>3
    <3>5. k \notin 1..Len(c)
      <4>1. SUFFICES ASSUME k \in 1..Len(c) PROVE FALSE
        OBVIOUS
      <4>2. c[k] = r /\ c[k] \in Range(c)
        BY <2>9, <2>11, <3>4, <4>1, ElementInRange
      <4>3. QED BY <4>2
    <3>6. Len(c) = query.limit
      BY <2>10, <3>5
    <3>7. ASSUME NEW i \in DOMAIN c
          PROVE  ~KeyBefore(RankKey(query, r, {}), RankKey(query, c[i], {}))
      <4>1. i \in DOMAIN s /\ k \in DOMAIN s /\ i < k /\ c[i] = s[i]
        BY <2>8, <2>10, <2>11, <2>12, <3>5
      <4>2. ~KeyBefore(RankKey(query, s[k], failed), RankKey(query, s[i], failed))
        BY <2>3, <4>1
      <4>3. QED BY <3>4, <4>1, <4>2
    <3>8. QED BY <3>6, <3>7
  <2>17. p \in [status : {200, 500}, failed : {failed}, cards : Seq(rides)]
    BY <2>2, <2>14 DEF c
  <2>18. QED BY <2>15, <2>16, <2>17
<1>3. QED BY <1>1, <1>2

-----------------------------------------------------------------------------
(* Scrolling by departure. *)

Departures(S) == \A r, s \in S : r.time \in Int /\ (r.time = s.time => r = s)

LEMMA DepartureFacts ==
  ASSUME NEW S, IsFiniteSet(S), NEW s \in ByDeparture(S)
  PROVE  /\ s \in Seq(S) /\ Len(s) = Cardinality(S) /\ Cardinality(S) \in Nat
         /\ \A i, j \in 1..Cardinality(S) : i # j => s[i] # s[j]
         /\ \A x \in S : \E i \in 1..Cardinality(S) : s[i] = x
         /\ \A i, j \in 1..Cardinality(S) : i < j => s[i].time <= s[j].time
<1>1. s \in SetToSeqs(S) /\ \A i, j \in 1..Cardinality(S) : i < j => s[i].time <= s[j].time
  BY DEF ByDeparture
<1>2. /\ s \in Seq(S) /\ Len(s) = Cardinality(S) /\ Cardinality(S) \in Nat
      /\ \A i, j \in 1..Len(s) : i # j => s[i] # s[j]
      /\ \A x \in S : \E i \in 1..Len(s) : s[i] = x
  BY <1>1, OrderFacts
<1>3. QED BY <1>1, <1>2

(* Rides of distinct times have one order.                                  *)
LEMMA OneOrder ==
  ASSUME NEW S, IsFiniteSet(S), Departures(S), NEW s \in ByDeparture(S), NEW t \in ByDeparture(S)
  PROVE  s = t
<1> DEFINE n == Cardinality(S)
<1>1. /\ s \in Seq(S) /\ Len(s) = n /\ n \in Nat
      /\ \A i, j \in 1..n : i # j => s[i] # s[j]
      /\ \A x \in S : \E i \in 1..n : s[i] = x
  BY DepartureFacts
<1>2. /\ t \in Seq(S) /\ Len(t) = n
      /\ \A i, j \in 1..n : i # j => t[i] # t[j]
      /\ \A x \in S : \E i \in 1..n : t[i] = x
  BY DepartureFacts
<1>3. /\ \A i, j \in 1..n : i < j => s[i].time <= s[j].time
      /\ \A i, j \in 1..n : i < j => t[i].time <= t[j].time
  BY DepartureFacts
<1> HIDE DEF n
<1>4. \A i \in 1..n : s[i] \in S /\ t[i] \in S
  BY <1>1, <1>2
<1>5. ASSUME \E i \in 1..n : s[i] # t[i] PROVE FALSE
  <2> DEFINE T == {i \in 1..n : s[i] # t[i]}
  <2>1. T \subseteq Nat /\ T # {}
    BY <1>5
  <2>2. PICK m \in T : \A i \in T : m <= i
    <3> HIDE DEF T
    <3>1. QED BY <2>1, LeastNumber
  <2>3. m \in 1..n /\ s[m] # t[m] /\ \A i \in 1..n : i < m => s[i] = t[i]
    BY <2>2
  <2>4. PICK j \in 1..n : s[m] = t[j]
    BY <1>2, <1>4, <2>3
  <2>5. PICK k \in 1..n : t[m] = s[k]
    BY <1>1, <1>4, <2>3
  <2>6. m < j
    <3>1. j # m
      BY <2>3, <2>4
    <3>2. ASSUME j < m PROVE FALSE
      <4>1. s[j] = s[m] /\ j # m
        BY <2>3, <2>4, <3>2
      <4>2. QED BY <1>1, <2>3, <4>1
    <3>3. QED BY <2>3, <3>1, <3>2
  <2>7. m < k
    <3>1. k # m
      BY <2>3, <2>5
    <3>2. ASSUME k < m PROVE FALSE
      <4>1. t[k] = t[m] /\ k # m
        BY <2>3, <2>5, <3>2
      <4>2. QED BY <1>2, <2>3, <4>1
    <3>3. QED BY <2>3, <3>1, <3>2
  <2>8. t[m].time <= s[m].time /\ s[m].time <= t[m].time
    BY <1>3, <2>3, <2>4, <2>5, <2>6, <2>7
  <2>9. s[m] \in S /\ t[m] \in S
    BY <1>4, <2>3
  <2>10. s[m].time = t[m].time
    BY <2>8, <2>9 DEF Departures
  <2>11. QED BY <2>3, <2>9, <2>10 DEF Departures
<1>6. QED BY <1>1, <1>2, <1>5

(* A piece of the order of a set is the order of the piece.                 *)
LEMMA PieceInOrder ==
  ASSUME NEW S, IsFiniteSet(S), NEW s \in ByDeparture(S), NEW o \in Nat, NEW n \in Nat
  PROVE  Slice(s, o, n) \in ByDeparture(Range(Slice(s, o, n)))
<1> DEFINE c == Slice(s, o, n)
           R == Range(c)
<1>1. /\ s \in Seq(S) /\ Len(s) = Cardinality(S) /\ Cardinality(S) \in Nat
      /\ \A i, j \in 1..Len(s) : i # j => s[i] # s[j]
  BY DepartureFacts
<1>2. /\ c \in Seq(S) /\ Len(c) \in Nat
      /\ \A i \in 1..Len(c) : o + i \in 1..Len(s) /\ c[i] = s[o + i]
  BY <1>1, SliceFacts
<1>3. \A i, j \in 1..Len(s) : i < j => s[i].time <= s[j].time
  BY <1>1, DepartureFacts
<1> HIDE DEF c
<1>4. /\ \A i \in 1..Len(c) : c[i] \in R
      /\ \A x \in R : \E i \in 1..Len(c) : c[i] = x
  <2>1. c \in Seq(S)
    BY <1>2
  <2>2. \A i \in 1..Len(c) : c[i] \in Range(c)
    BY <2>1, ElementInRange
  <2>3. \A x \in Range(c) : \E i \in 1..Len(c) : x = c[i]
    BY <2>1, RangeHasIndex
  <2>4. QED BY <2>2, <2>3
<1> HIDE DEF R
<1>5. \A i, j \in 1..Len(c) : i # j => c[i] # c[j]
  BY <1>1, <1>2
<1>6. IsFiniteSet(R) /\ Cardinality(R) = Len(c)
  <2> DEFINE D == 1..Len(c)
  <2>1. IsFiniteSet(D) /\ Cardinality(D) = Len(c)
    BY <1>2, FS_Interval
  <2>2. c \in Injection(D, R) /\ c \in Surjection(D, R)
    BY <1>2, <1>4, <1>5 DEF Injection, IsInjective, Surjection
  <2> HIDE DEF D
  <2>3. QED BY <2>1, <2>2, FS_Surjection
<1>7. c \in SetToSeqs(R)
  <2>1. c \in [1..Cardinality(R) -> R]
    BY <1>2, <1>4, <1>6
  <2>2. QED BY <1>5, <1>6, <2>1 DEF SetToSeqs
<1>8. \A i, j \in 1..Cardinality(R) : i < j => c[i].time <= c[j].time
  BY <1>2, <1>3, <1>6
<1>9. QED BY <1>7, <1>8 DEF ByDeparture, R, c

(* Both sorts of a search by departure lead to this order.                  *)
LEMMA OrdersByDeparture ==
  ASSUME NEW S, IsFiniteSet(S), S \subseteq RideRows, NEW s \in SetToSeqs(S),
         \A i, j \in DOMAIN s : i < j => ~KeyBefore(<<s[j].time>>, <<s[i].time>>)
  PROVE  s \in ByDeparture(S)
<1>1. ASSUME NEW a \in Int, NEW b \in Int, a < b PROVE KeyBefore(<<a>>, <<b>>)
  <2>1. 1 \in DOMAIN <<a>> /\ <<a>>[1] < <<b>>[1] /\ \A k \in 1..(1 - 1) : <<a>>[k] = <<b>>[k]
    BY <1>1
  <2>2. QED BY <2>1 DEF KeyBefore
<1>2. s \in Seq(S) /\ Len(s) = Cardinality(S) /\ Cardinality(S) \in Nat
  BY OrderFacts
<1>3. ASSUME NEW i \in 1..Cardinality(S), NEW j \in 1..Cardinality(S), i < j
      PROVE  s[i].time <= s[j].time
  <2>1. i \in DOMAIN s /\ j \in DOMAIN s
    BY <1>2
  <2>2. s[i].time \in Int /\ s[j].time \in Int
    <3>1. s[i] \in RideRows /\ s[j] \in RideRows
      BY <1>2
    <3>2. \A r \in RideRows : r.time \in Int
      BY DEF RideRows
    <3>3. QED BY <3>1, <3>2
  <2>3. ~KeyBefore(<<s[j].time>>, <<s[i].time>>)
    BY <1>3, <2>1
  <2>4. ~(s[j].time < s[i].time)
    BY <1>1, <2>2, <2>3
  <2>5. QED BY <2>2, <2>4
<1>4. QED BY <1>3 DEF ByDeparture

Scrolls(q) == q.sort = "time" /\ ~HasCoordinate(q) /\ ~HasText(q)

PartFine(q, rs, k, p) ==
  (Scrolls(q) /\ (\A r, s \in rs : r.time = s.time => r = s) /\ p.status = 200) =>
    \A s \in ByDeparture({r \in rs : Wanted(q, r)}) : p.cards = Slice(s, q.limit * k, q.limit)

(* The first cards of a long enough piece are the shorter piece.            *)
LEMMA SliceOfSlice ==
  ASSUME NEW S, NEW s \in Seq(S), NEW o \in Nat, NEW n \in Nat, NEW m \in Nat, m <= n
  PROVE  Slice(Slice(s, o, n), 0, m) = Slice(s, o, m)
<1> DEFINE c == Slice(s, o, n)
           d == Slice(s, o, m)
           e == Slice(c, 0, m)
<1>1. /\ c \in Seq(S) /\ d \in Seq(S)
      /\ Len(c) = IF o >= Len(s) THEN 0 ELSE Least(Len(s) - o, n)
      /\ Len(d) = IF o >= Len(s) THEN 0 ELSE Least(Len(s) - o, m)
      /\ \A i \in 1..Len(c) : c[i] = s[o + i]
      /\ \A i \in 1..Len(d) : d[i] = s[o + i]
  BY SliceFacts
<1> HIDE DEF c, d
<1>2. /\ e \in Seq(S)
      /\ Len(e) = IF 0 >= Len(c) THEN 0 ELSE Least(Len(c) - 0, m)
      /\ \A i \in 1..Len(e) : 0 + i \in 1..Len(c) /\ e[i] = c[0 + i]
  BY <1>1, SliceFacts
<1> HIDE DEF e
<1>3. Len(e) = Len(d) /\ Len(e) \in Nat
  BY <1>1, <1>2 DEF Least
<1>4. \A i \in 1..Len(d) : e[i] = d[i]
  BY <1>1, <1>2, <1>3
<1>5. e = d
  <2>1. e \in Seq(S) /\ d \in Seq(S)
    BY <1>1, <1>2
  <2>2. QED BY <1>3, <1>4, <2>1
<1>6. QED BY <1>5 DEF c, d, e

LEMMA PartOfSearch ==
  ASSUME TypeOK, NEW k \in Nat, NEW failed, NEW p \in SearchRides(query.limit * k, failed)
  PROVE  PartFine(query, rides, k, p)
<1> SUFFICES ASSUME Scrolls(query), \A r, s \in rides : r.time = s.time => r = s, p.status = 200,
                    NEW s \in ByDeparture({r \in rides : Wanted(query, r)})
             PROVE  p.cards = Slice(s, query.limit * k, query.limit)
  BY DEF PartFine
<1> DEFINE W == BaseSearch(query)
           o == query.limit * k
           n == CandidateLimit(query)
           l == query.limit
<1>1. l \in Nat /\ n \in Nat /\ o \in Nat /\ l <= n
  <2>1. l \in Nat \ {0} /\ n \in Nat
    BY Limits
  <2>2. CandidateFactor \in Nat \ {0} /\ CandidateFloor \in Nat /\ CandidateCeiling \in Nat /\ l <= CandidateCeiling
    <3>1. <<rides, query>> \in Cases
      BY DEF TypeOK
    <3>2. QED BY <3>1, RideSearchAssumption
  <2>3. o \in Nat
    BY <2>1
  <2> DEFINE product == CandidateFactor * l
  <2>4. product \in Nat /\ l <= product
    BY <2>1, <2>2
  <2>5. n = Least(CandidateCeiling, Most(CandidateFloor, product))
    BY DEF CandidateLimit
  <2> HIDE DEF product, n, l, o
  <2>6. l <= n
    BY <2>1, <2>2, <2>4, <2>5 DEF Least, Most
  <2>7. QED BY <2>1, <2>3, <2>6
<1>2. ~HasCoordinate(query) /\ ~HasText(query) /\ query.sort = "time"
  BY DEF Scrolls
<1>3. {r \in rides : Wanted(query, r)} = W
  <2>1. \A r \in rides : WithinRadius(query, r)
    BY <1>2 DEF HasCoordinate, WithinRadius
  <2>2. W \subseteq rides
    BY CandidatesAreBase
  <2>3. QED BY <2>1, <2>2, WantedIsBase
<1>4. IsFiniteSet(W) /\ W \subseteq rides /\ W \subseteq RideRows /\ Departures(W)
  <2>1. IsFiniteSet(W) /\ W \subseteq rides /\ rides \subseteq RideRows
    BY CandidatesAreBase, Given
  <2>2. QED BY <2>1 DEF Departures, RideRows
<1>5. s \in ByDeparture(W) /\ s \in Seq(W)
  <2>1. s \in ByDeparture(W)
    BY <1>3
  <2>2. QED BY <1>4, <2>1, OrderFacts DEF ByDeparture
<1> DEFINE c == Slice(s, o, n)
<1>6. ASSUME NEW S \in Loaded(o, failed) PROVE S = Range(c)
  <2>1. PICK T \in FirstLoads(o, failed) : S \in (IF T # {} THEN {T} ELSE Fallback(o, failed))
    BY <1>6 DEF Loaded
  <2>2. S = T
    <3>1. CASE T # {}
      BY <2>1, <3>1
    <3>2. CASE T = {}
      BY <1>2, <2>1, <3>2 DEF Fallback
    <3>3. QED BY <3>1, <3>2
  <2>3. T \in Loads(W, StartTimeOrder, o)
    BY <1>2, <2>1 DEF FirstLoads
  <2>4. PICK t \in Orders(W, StartTimeOrder) : T = Range(Slice(t, o, n))
    BY <2>3 DEF Loads
  <2>5. t \in ByDeparture(W)
    <3>1. t \in SetToSeqs(W) /\ \A i, j \in DOMAIN t : i < j => ~KeyBefore(<<t[j].time>>, <<t[i].time>>)
      BY <2>4 DEF Orders, StartTimeOrder
    <3> HIDE DEF W
    <3>2. QED BY <1>4, <3>1, OrdersByDeparture
  <2>6. t = s
    BY <1>4, <1>5, <2>5, OneOrder
  <2>7. QED BY <2>2, <2>4, <2>6
<1>7. c \in ByDeparture(Range(c)) /\ Range(c) \subseteq W
  <2>1. s \in SetToSeqs(W)
    BY <1>5 DEF ByDeparture
  <2> HIDE DEF W, o, n
  <2>2. IsFiniteSet(W) /\ o \in Nat /\ n \in Nat
    BY <1>1, <1>4
  <2>3. c \in ByDeparture(Range(c))
    BY <1>5, <2>2, PieceInOrder
  <2>4. Range(c) \subseteq W
    BY <2>1, <2>2, CutFacts
  <2>5. QED BY <2>3, <2>4
<1> HIDE DEF c, W, o, n
<1>8. Loaded(o, failed) # {}
  BY DEF SearchRides, o
<1>9. PICK S \in Loaded(o, failed) : p \in PagesOf(S, failed)
  BY <1>8 DEF SearchRides, o
<1> DEFINE shown == {r \in S : WithinRadius(query, r)}
<1>10. PICK t \in SetToSeqs(shown) :
         /\ p = [status |-> 200, failed |-> failed, cards |-> Slice(t, 0, query.limit)]
         /\ \A i, j \in DOMAIN t : i < j => ~KeyBefore(RankKey(query, t[j], failed), RankKey(query, t[i], failed))
  BY <1>9, PageInOrder
<1>11. shown = Range(c)
  BY <1>2, <1>6 DEF HasCoordinate, WithinRadius
<1> HIDE DEF shown
<1>12. IsFiniteSet(shown) /\ shown \subseteq RideRows /\ Departures(shown)
  <2>1. IsFiniteSet(shown)
    BY <1>4, <1>7, <1>11, FS_Subset
  <2>2. QED BY <1>4, <1>7, <1>11, <2>1 DEF Departures
<1>13. t = c
  <2>1. t \in ByDeparture(shown)
    <3>1. \A i, j \in DOMAIN t : i < j => ~KeyBefore(<<t[j].time>>, <<t[i].time>>)
      BY <1>2, <1>10 DEF RankKey
    <3>2. QED BY <1>10, <1>12, <3>1, OrdersByDeparture
  <2>2. c \in ByDeparture(shown)
    BY <1>7, <1>11
  <2>3. QED BY <1>12, <2>1, <2>2, OneOrder
<1>14. Slice(c, 0, l) = Slice(s, o, l)
  BY <1>1, <1>5, SliceOfSlice DEF c
<1>15. QED BY <1>10, <1>13, <1>14 DEF o

-----------------------------------------------------------------------------
(* The other two surfaces. *)

MatchFine(q, m) ==
  m.asked =>
    \A r \in Range(m.cards) :
      (/\ r.time > Now /\ r.booked = r.accepted
       /\ AreCoordinatesValid(r.from) /\ AreCoordinatesValid(r.to)) =>
         Wanted([q EXCEPT !.date = None, !.target = None, !.maxPrice = None, !.minSeats = None,
                          !.radius = m.radius], r)

NearbyFine(rs, q, n) ==
  n.asked =>
    LET around == [q EXCEPT !.date = None, !.target = None, !.maxPrice = None, !.minSeats = None,
                            !.to = NoPoint, !.radius = NearbyRadius(q.radius)]
        near   == {r \in rs : Wanted(around, r) /\ r.ongoing = 0}
        listed == Range(n.cards)
    IN  /\ {r \in listed : r.host # Viewer /\ AreCoordinatesValid(r.from)} \subseteq near
        /\ Cardinality(near \cup listed) <= n.count
        /\ Len(n.cards) = q.limit \/ near \subseteq listed

(* The strict matches are rows of the query, within the true distances.     *)
LEMMA StrictRowsOnly ==
  ASSUME TypeOK, NEW radius \in Nat, NEW window, NEW t \in FindStrictRouteMatches(query, radius, window),
         NEW r \in Range(t)
  PROVE  /\ r \in StrictRows(query, radius, window)
         /\ CalculateDistance(query.from, r.from) <= radius
         /\ CalculateDistance(query.to, r.to) <= radius
<1> DEFINE Key(x)  == <<FlatDistance(query.from, x.from) + FlatDistance(query.to, x.to), x.time>>
           Near(S) == {x \in S : /\ CalculateDistance(query.from, x.from) <= radius
                                 /\ CalculateDistance(query.to, x.to) <= radius}
           R == StrictRows(query, radius, window)
<1>1. IsFiniteSet(R)
  <2>1. R \subseteq rides /\ IsFiniteSet(rides)
    BY Given DEF StrictRows
  <2>2. QED BY <2>1, FS_Subset
<1>2. PICK s \in SetToSeqs(R) : \E u \in SetToSeqs(Near(Range(Slice(s, 0, 3 * StrictLimit)))) :
        t = Slice(u, 0, StrictLimit)
  BY DEF FindStrictRouteMatches, Orders
<1>3. StrictLimit \in Nat /\ 3 * StrictLimit \in Nat /\ 0 \in Nat
  BY RideSearchAssumption
<1> DEFINE cut  == Range(Slice(s, 0, 3 * StrictLimit))
           near == Near(cut)
<1>4. cut \subseteq R
  BY <1>1, <1>2, <1>3, CutFacts
<1>5. near \subseteq cut /\ near \subseteq R
  BY <1>4
<1>6. IsFiniteSet(near)
  BY <1>1, <1>5, FS_Subset
<1>7. PICK u \in SetToSeqs(near) : t = Slice(u, 0, StrictLimit)
  BY <1>2
<1> HIDE DEF near
<1>8. Range(Slice(u, 0, StrictLimit)) \subseteq near
  BY <1>3, <1>6, <1>7, CutFacts
<1>9. r \in near
  BY <1>7, <1>8
<1>10. QED BY <1>5, <1>9 DEF near

LEMMA MatchOfQuery ==
  ASSUME TypeOK, HasBoth(query), NEW radius \in Nat, NEW window,
         NEW t \in FindStrictRouteMatches(query, radius, window)
  PROVE  MatchFine(query, [asked |-> TRUE, cards |-> t, radius |-> radius, window |-> window])
<1> DEFINE m == [asked |-> TRUE, cards |-> t, radius |-> radius, window |-> window]
           q == [query EXCEPT !.date = None, !.target = None, !.maxPrice = None, !.minSeats = None,
                              !.radius = m.radius]
<1>1. m.asked = TRUE /\ m.cards = t /\ m.radius = radius
  OBVIOUS
<1>2. query \in Queries
  BY Given
<1>3. /\ q.date = None /\ q.target = None /\ q.maxPrice = None /\ q.minSeats = None /\ q.radius = radius
      /\ q.from = query.from /\ q.to = query.to
  BY <1>2 DEF Queries
<1> HIDE DEF m, q
<1> SUFFICES ASSUME NEW r \in Range(t), r.time > Now, r.booked = r.accepted,
                    AreCoordinatesValid(r.from), AreCoordinatesValid(r.to)
             PROVE  Wanted(q, r)
  BY <1>1 DEF MatchFine, m, q
<1>4. /\ r \in StrictRows(query, radius, window)
      /\ CalculateDistance(query.from, r.from) <= radius
      /\ CalculateDistance(query.to, r.to) <= radius
  BY StrictRowsOnly
<1>5. r \in rides /\ r.total - 1 > r.accepted /\ r.host # Viewer
  BY <1>4 DEF StrictRows
<1>6. /\ r.total \in Nat /\ r.booked \in Nat
      /\ r.from \in Points \cup {NoPoint} /\ r.to \in Points \cup {NoPoint}
      /\ query.from \in Points \cup {NoPoint} /\ query.to \in Points \cup {NoPoint}
  BY <1>2, <1>5, Given DEF RideRows, Queries
<1>7. Bookable(r)
  BY <1>5, <1>6 DEF Bookable, CanAcceptAnotherPassenger, PassengerSeatsLeft, PassengerCapacity
<1>8. WindowDate(q) = None
  BY <1>3 DEF WindowDate
<1>9. /\ query.from \in Points /\ query.to \in Points /\ query.from # NoPoint /\ query.to # NoPoint
      /\ r.from \in Points /\ r.to \in Points
  BY <1>6 DEF HasBoth, AreCoordinatesValid
<1>10. CalculateDistance(query.from, r.from) \in 0..radius /\ CalculateDistance(query.to, r.to) \in 0..radius
  BY <1>4, <1>9, DistanceFacts
<1>11. WithinRadius(q, r)
  BY <1>3, <1>9, <1>10 DEF WithinRadius, StartDistance, EndDistance, DistanceOf
<1>12. QED BY <1>3, <1>7, <1>8, <1>11 DEF Wanted

LEMMA NearbyOfQuery ==
  ASSUME TypeOK, query.from # NoPoint, NEW excluded \in {{}, {Viewer}},
         NEW t \in LoadNearbyRides(query, excluded)
  PROVE  NearbyFine(rides, query, [asked |-> TRUE, cards |-> t, excluded |-> excluded,
                                   count |-> Cardinality(NearbyRows(query))])
<1> DEFINE n == [asked |-> TRUE, cards |-> t, excluded |-> excluded, count |-> Cardinality(NearbyRows(query))]
           around == [query EXCEPT !.date = None, !.target = None, !.maxPrice = None, !.minSeats = None,
                                   !.to = NoPoint, !.radius = NearbyRadius(query.radius)]
           R == NearbyRows(query)
           C == {r \in R : r.host \notin excluded}
<1>1. n.asked = TRUE /\ n.cards = t /\ n.count = Cardinality(R)
  OBVIOUS
<1>2. query \in Queries
  BY Given
<1>3. /\ around.date = None /\ around.target = None /\ around.maxPrice = None /\ around.minSeats = None
      /\ around.radius = NearbyRadius(query.radius)
      /\ around.from = query.from /\ around.to = NoPoint
  BY <1>2 DEF Queries
<1>4. /\ query.from \in Points /\ query.radius \in Nat /\ query.limit \in Nat /\ 0 \in Nat
      /\ NearbyRadius(query.radius) \in Nat
  BY <1>2, Limits DEF Queries, NearbyRadius, Least
<1> HIDE DEF n, around
<1>5. /\ IsFiniteSet(R) /\ R \subseteq rides
      /\ IsFiniteSet(C) /\ C \subseteq R
  <2>1. R \subseteq rides /\ IsFiniteSet(rides) /\ C \subseteq R
    BY Given DEF NearbyRows
  <2>2. QED BY <2>1, FS_Subset
<1>6. PICK s \in SetToSeqs(C) : t = Slice(s, 0, query.limit)
  BY DEF LoadNearbyRides, Orders
<1>7. /\ Range(t) \subseteq C
      /\ Len(t) <= query.limit
      /\ Len(t) < query.limit => Range(t) = C
  <2> HIDE DEF C
  <2>1. QED BY <1>4, <1>5, <1>6, CutFacts
<1>8. ASSUME NEW r \in R, r.host # Viewer, AreCoordinatesValid(r.from)
      PROVE  Wanted(around, r) /\ r.ongoing = 0
  <2>1. /\ r \in rides /\ r.time > Now /\ PassengerSeatsLeftPredicate(r.total, r.booked) /\ r.ongoing = 0
        /\ CalculateDistance(query.from, r.from) <= NearbyRadius(query.radius)
    BY <1>8 DEF NearbyRows
  <2>2. r.total \in Nat /\ r.booked \in Nat /\ r.from \in Points
    BY <1>8, <2>1, Given DEF RideRows, AreCoordinatesValid
  <2>3. Bookable(r)
    BY <1>8, <2>1, <2>2 DEF Bookable, CanAcceptAnotherPassenger, PassengerSeatsLeft, PassengerCapacity,
                            PassengerSeatsLeftPredicate
  <2>4. CalculateDistance(query.from, r.from) \in 0..NearbyRadius(query.radius)
    BY <1>4, <2>1, <2>2, DistanceFacts
  <2>5. WithinRadius(around, r)
    BY <1>3, <1>4, <1>8, <2>4 DEF WithinRadius, StartDistance, DistanceOf
  <2>6. WindowDate(around) = None
    BY <1>3 DEF WindowDate
  <2>7. QED BY <1>3, <2>1, <2>3, <2>5, <2>6 DEF Wanted
<1>9. ASSUME NEW r \in rides, Wanted(around, r), r.ongoing = 0
      PROVE  r \in R /\ r.host # Viewer
  <2>1. /\ r.total \in Nat /\ r.booked \in Nat /\ r.from \in Points \cup {NoPoint}
    BY <1>9, Given DEF RideRows
  <2>2. Bookable(r) /\ WithinRadius(around, r)
    BY <1>9 DEF Wanted
  <2>3. r.time > Now /\ r.host # Viewer /\ PassengerSeatsLeftPredicate(r.total, r.booked)
    BY <2>1, <2>2 DEF Bookable, CanAcceptAnotherPassenger, PassengerSeatsLeft, PassengerCapacity,
                      PassengerSeatsLeftPredicate
  <2>4. query.from # NoPoint /\ DistanceOf(query.from, r.from) \in 0..NearbyRadius(query.radius)
    BY <1>3, <2>2 DEF WithinRadius, StartDistance
  <2>5. AreCoordinatesValid(r.from)
    BY <1>4, <2>4 DEF DistanceOf, None
  <2>6. /\ r.from # NoPoint /\ r.from \in Points
        /\ CalculateDistance(query.from, r.from) \in 0..NearbyRadius(query.radius)
    BY <2>1, <2>4, <2>5 DEF DistanceOf, AreCoordinatesValid
  <2>7. InBounds(query.from, r.from, NearbyRadius(query.radius))
    <3> SUFFICES ASSUME NEW i \in 1..2
                 PROVE  Magnitude(query.from[i] - r.from[i]) <= ConservativeRadius(NearbyRadius(query.radius))
      BY DEF InBounds
    <3>1. Magnitude(query.from[i] - r.from[i]) <= CalculateDistance(query.from, r.from)
      BY <1>4, <2>6, BoxAroundCircle
    <3>2. Magnitude(query.from[i] - r.from[i]) \in Int
      <4>1. /\ query.from[1] \in Int /\ query.from[2] \in Int /\ r.from[1] \in Int /\ r.from[2] \in Int
        BY <1>4, <2>6, Coordinates, RideScoreAssumption
      <4>2. QED BY <4>1 DEF Magnitude
    <3>3. CalculateDistance(query.from, r.from) <= ConservativeRadius(NearbyRadius(query.radius))
      <4> DEFINE m == NearbyRadius(query.radius)
      <4> HIDE DEF m
      <4>1. m \in Nat /\ CalculateDistance(query.from, r.from) \in 0..m
        BY <1>4, <2>6 DEF m
      <4>2. m \div 100 \in Nat
        BY <4>1
      <4>3. CalculateDistance(query.from, r.from) <= ConservativeRadius(m)
        BY <4>1, <4>2 DEF ConservativeRadius, Most
      <4>4. QED BY <4>3 DEF m
    <3>4. ConservativeRadius(NearbyRadius(query.radius)) \in Int
      <4> DEFINE m == NearbyRadius(query.radius)
      <4> HIDE DEF m
      <4>1. m \in Nat /\ m \div 100 \in Int
        BY <1>4 DEF m
      <4>2. ConservativeRadius(m) \in Int
        BY <4>1 DEF ConservativeRadius, Most
      <4>3. QED BY <4>2 DEF m
    <3>5. QED BY <2>6, <3>1, <3>2, <3>3, <3>4
  <2>8. CalculateDistance(query.from, r.from) <= NearbyRadius(query.radius)
    BY <2>6
  <2>9. QED BY <1>9, <2>3, <2>6, <2>7, <2>8 DEF NearbyRows
<1> DEFINE near == {r \in rides : Wanted(around, r) /\ r.ongoing = 0}
<1>10. {r \in Range(t) : r.host # Viewer /\ AreCoordinatesValid(r.from)} \subseteq near
  BY <1>5, <1>7, <1>8
<1>11. Cardinality(near \cup Range(t)) <= Cardinality(R)
  <2>1. near \cup Range(t) \subseteq R
    BY <1>5, <1>7, <1>9
  <2>2. QED BY <1>5, <2>1, FS_Subset
<1>12. Len(t) = query.limit \/ near \subseteq Range(t)
  <2>1. near \subseteq C
    BY <1>9
  <2>2. Len(t) \in Nat
    <3>1. s \in Seq(C)
      BY <1>5, <1>6, OrderFacts
    <3>2. t \in Seq(C)
      BY <1>4, <1>6, <3>1, SliceFacts
    <3>3. QED BY <3>2
  <2>3. QED BY <1>4, <1>7, <2>1, <2>2
<1>13. QED BY <1>1, <1>10, <1>11, <1>12 DEF NearbyFine, n, around

-----------------------------------------------------------------------------
(* What holds of all answers so far. *)

SearchInv ==
  /\ TypeOK
  /\ \A k \in DOMAIN pages : PageFine(query, pages[k])
  /\ pages # <<>> => FirstFine(rides, query, pages[1])
  /\ \A k \in DOMAIN pages : PartFine(query, rides, k - 1, pages[k])
  /\ MatchFine(query, matches)
  /\ NearbyFine(rides, query, nearby)

LEMMA InvInit == Init => SearchInv
<1> SUFFICES ASSUME Init PROVE SearchInv
  OBVIOUS
<1>1. <<rides, query>> \in Cases
  <2>1. PICK c \in Cases : rides = c[1] /\ query = c[2]
    BY DEF Init
  <2>2. c = <<c[1], c[2]>>
    BY RideSearchAssumption
  <2>3. QED BY <2>1, <2>2
<1>2. skew \in Skews \cup {0}
  BY DEF Init
<1>3. pages = <<>> /\ matches = NoAnswer /\ nearby = NoAnswer
  BY DEF Init
<1>4. TypeOK
  BY <1>1, <1>2, <1>3, RideSearchAssumption DEF TypeOK
<1>5. QED BY <1>3, <1>4 DEF SearchInv, MatchFine, NearbyFine, NoAnswer

LEMMA SearchStep == SearchInv /\ Search => SearchInv'
<1> SUFFICES ASSUME SearchInv, Search PROVE SearchInv'
  OBVIOUS
<1> DEFINE Answers == [status : {200, 500}, failed : Failures, cards : Seq(rides)]
<1>0. PICK failed \in Failures : \E x \in SearchRides(query.limit * Len(pages), failed) : pages' = Append(pages, x)
  BY DEF Search
<1>1. PICK p \in SearchRides(query.limit * Len(pages), failed) : pages' = Append(pages, p)
  BY <1>0
<1>2. /\ rides' = rides /\ query' = query /\ skew' = skew /\ matches' = matches /\ nearby' = nearby
      /\ Len(pages) < MaxPages
  BY DEF Search
<1>3. TypeOK /\ pages \in Seq(Answers) /\ Len(pages) \in Nat
  BY DEF SearchInv, TypeOK
<1>4. query.limit * Len(pages) \in Nat /\ (pages = <<>> => query.limit * Len(pages) = 0)
  BY <1>3, Limits
<1>5. /\ p \in [status : {200, 500}, failed : {failed}, cards : Seq(rides)]
      /\ PageFine(query, p)
      /\ pages = <<>> => FirstFine(rides, query, p)
  BY <1>1, <1>3, <1>4, PageOfSearch
<1>6. p \in Answers
  BY <1>5
<1> HIDE DEF Answers
<1>7. /\ pages' \in Seq(Answers) /\ Len(pages') = Len(pages) + 1
      /\ \A k \in DOMAIN pages : k \in DOMAIN pages' /\ pages'[k] = pages[k]
      /\ \A k \in DOMAIN pages' : k \in DOMAIN pages \/ pages'[k] = p
      /\ pages = <<>> => pages'[1] = p
      /\ pages # <<>> => 1 \in DOMAIN pages
  BY <1>1, <1>3, <1>6
<1>8. TypeOK'
  <2>1. <<rides, query>> \in Cases /\ skew \in Skews \cup {0}
    BY <1>3 DEF TypeOK
  <2>2. Len(pages') <= MaxPages
    BY <1>2, <1>3, <1>7, RideSearchAssumption
  <2>3. QED BY <1>2, <1>7, <2>1, <2>2 DEF TypeOK, Answers
<1>9. \A k \in DOMAIN pages' : PageFine(query, pages'[k])
  BY <1>5, <1>7 DEF SearchInv
<1>10. FirstFine(rides, query, pages'[1])
  BY <1>5, <1>7 DEF SearchInv
<1>11. MatchFine(query, matches) /\ NearbyFine(rides, query, nearby)
  BY DEF SearchInv
<1>12. \A k \in DOMAIN pages' : PartFine(query, rides, k - 1, pages'[k])
  <2>1. PartFine(query, rides, Len(pages), p)
    BY <1>1, <1>3, PartOfSearch
  <2>2. ASSUME NEW k \in DOMAIN pages', k # Len(pages) + 1
        PROVE  k \in DOMAIN pages /\ pages'[k] = pages[k]
    <3>1. DOMAIN pages' = 1..Len(pages') /\ DOMAIN pages = 1..Len(pages)
      BY <1>3, <1>7
    <3>2. QED BY <1>3, <1>7, <2>2, <3>1
  <2>3. pages'[Len(pages) + 1] = p /\ (Len(pages) + 1) - 1 = Len(pages)
    BY <1>1, <1>3
  <2>4. QED BY <1>1, <2>1, <2>2, <2>3 DEF SearchInv
<1>13. QED BY <1>2, <1>8, <1>9, <1>10, <1>11, <1>12 DEF SearchInv

LEMMA MatchingCreateStep == SearchInv /\ MatchingCreate => SearchInv'
<1> SUFFICES ASSUME SearchInv, MatchingCreate PROVE SearchInv'
  OBVIOUS
<1>1. PICK radius \in {StrictRadius(0), StrictRadius(query.radius)}, window \in {StrictWindow(0), StrictWindow(Day)} :
        \E t \in FindStrictRouteMatches(query, radius, window) :
          matches' = [asked |-> TRUE, cards |-> t, radius |-> radius, window |-> window]
  BY DEF MatchingCreate
<1>2. PICK t \in FindStrictRouteMatches(query, radius, window) :
        matches' = [asked |-> TRUE, cards |-> t, radius |-> radius, window |-> window]
  BY <1>1
<1>3. /\ rides' = rides /\ query' = query /\ skew' = skew /\ pages' = pages /\ nearby' = nearby
      /\ HasBoth(query)
  BY DEF MatchingCreate
<1>4. TypeOK
  BY DEF SearchInv
<1>5. radius \in Nat
  <2>1. query.radius \in Nat
    BY <1>4, Given DEF Queries
  <2>2. QED BY <2>1, <1>1 DEF StrictRadius, Least
<1>6. MatchFine(query, matches')
  BY <1>2, <1>3, <1>4, <1>5, MatchOfQuery
<1>7. TypeOK'
  BY <1>3, <1>4 DEF TypeOK
<1>8. QED BY <1>3, <1>6, <1>7 DEF SearchInv

LEMMA NearbyStep == SearchInv /\ Nearby => SearchInv'
<1> SUFFICES ASSUME SearchInv, Nearby PROVE SearchInv'
  OBVIOUS
<1>1. PICK excluded \in {{}, {Viewer}} : \E t \in LoadNearbyRides(query, excluded) :
        nearby' = [asked |-> TRUE, cards |-> t, excluded |-> excluded, count |-> Cardinality(NearbyRows(query))]
  BY DEF Nearby
<1>2. PICK t \in LoadNearbyRides(query, excluded) :
        nearby' = [asked |-> TRUE, cards |-> t, excluded |-> excluded, count |-> Cardinality(NearbyRows(query))]
  BY <1>1
<1>3. /\ rides' = rides /\ query' = query /\ skew' = skew /\ pages' = pages /\ matches' = matches
      /\ query.from # NoPoint
  BY DEF Nearby
<1>4. TypeOK
  BY DEF SearchInv
<1>5. NearbyFine(rides, query, nearby')
  BY <1>2, <1>3, <1>4, NearbyOfQuery
<1>6. TypeOK'
  BY <1>3, <1>4 DEF TypeOK
<1>7. QED BY <1>3, <1>5, <1>6 DEF SearchInv

LEMMA InvHolds == Spec => []SearchInv
<1>1. Init => SearchInv
  BY InvInit
<1>2. SearchInv /\ [Next]_vars => SearchInv'
  <2> SUFFICES ASSUME SearchInv, [Next]_vars PROVE SearchInv'
    OBVIOUS
  <2>1. CASE UNCHANGED vars
    BY <2>1 DEF vars, SearchInv, TypeOK
  <2>2. QED BY <2>1, SearchStep, MatchingCreateStep, NearbyStep DEF Next
<1>3. QED BY <1>1, <1>2, PTL DEF Spec

(* searchRides.go:209-1258: what a page of results promises, for tables and *)
(* queries of any kind.                                                     *)
THEOREM PagesKeepTheirPromise == Spec => []PageRight
<1>1. SearchInv => PageRight
  <2> SUFFICES ASSUME SearchInv PROVE PageRight
    OBVIOUS
  <2>1. CardsWanted
    BY DEF SearchInv, PageFine, CardsWanted, Answered
  <2>2. FirstPageComplete
    BY DEF SearchInv, FirstFine, FirstPageComplete
  <2>3. QED BY <2>1, <2>2 DEF PageRight
<1>2. QED BY <1>1, InvHolds, PTL

(* searchRides.go:230, 1253: a scroll by departure is cut out of one list,  *)
(* however many rides are loaded for a page.                                *)
THEOREM ScrollIsWhole == Spec => []PagesPartition
<1>1. SearchInv => PagesPartition
  <2> SUFFICES ASSUME SearchInv, Scrolls(query), \A r, s \in rides : r.time = s.time => r = s,
                      NEW s \in ByDeparture({r \in rides : Wanted(query, r)}), NEW k \in Answered
               PROVE  pages[k].cards = Slice(s, query.limit * (k - 1), query.limit)
    BY DEF PagesPartition, Scrolls
  <2>1. PartFine(query, rides, k - 1, pages[k]) /\ pages[k].status = 200
    BY DEF SearchInv, Answered
  <2>2. QED BY <2>1 DEF PartFine
<1>2. QED BY <1>1, InvHolds, PTL

(* searchRides.go:869, matchingCreate.go:186, nearbyCount.go:136: the three *)
(* queries agree on what they find.                                         *)
THEOREM SurfacesAgree == Spec => []SurfacesNest
<1>1. SearchInv => SurfacesNest
  BY DEF SearchInv, MatchFine, NearbyFine, SurfacesNest
<1>2. QED BY <1>1, InvHolds, PTL

-----------------------------------------------------------------------------
(* The parts of the score of a ride that the search shows. *)

(* A tier is one of the values listed, or the last. *)
Tiers(tiers, n) == DOMAIN tiers = 1..n /\ \A i \in 1..n : tiers[i][1] \in Int

TierFound(d, tiers, n, other) ==
  \/ Tier(d, tiers, other) = other /\ \A i \in 1..n : d > tiers[i][1]
  \/ \E i \in 1..n : /\ Tier(d, tiers, other) = tiers[i][2]
                     /\ d <= tiers[i][1]
                     /\ \A j \in 1..n : j < i => d > tiers[j][1]

LEMMA TierValue ==
  ASSUME NEW d \in Int, NEW n \in Nat, NEW tiers, Tiers(tiers, n), NEW other
  PROVE  TierFound(d, tiers, n, other)
<1> DEFINE hit == {i \in DOMAIN tiers : d <= tiers[i][1]}
<1>0. DOMAIN tiers = 1..n /\ \A i \in 1..n : tiers[i][1] \in Int
  BY DEF Tiers
<1>1. \A i \in 1..n : i \notin hit => d > tiers[i][1]
  BY <1>0
<1>2. CASE hit = {}
  BY <1>1, <1>2 DEF Tier, TierFound
<1>3. CASE hit # {}
  <2>1. hit \subseteq 1..n
    BY <1>0
  <2>2. PICK m \in hit : \A k \in hit : m <= k
    <3>1. hit \subseteq Nat
      BY <2>1
    <3>2. QED BY <1>3, <3>1, LeastNumber
  <2>3. Min(hit) \in hit /\ \A k \in hit : Min(hit) <= k
    BY <2>2 DEF Min
  <2>4. Tier(d, tiers, other) = tiers[Min(hit)][2]
    BY <1>3 DEF Tier
  <2>5. \A j \in 1..n : j < Min(hit) => d > tiers[j][1]
    <3> SUFFICES ASSUME NEW j \in 1..n, j < Min(hit) PROVE j \notin hit
      BY <1>1
    <3>1. Min(hit) \in Int
      BY <2>1, <2>3
    <3> HIDE DEF hit
    <3>2. ASSUME j \in hit PROVE FALSE
      <4>1. Min(hit) <= j
        BY <2>3, <3>2
      <4>2. QED BY <3>1, <4>1
    <3>3. QED BY <3>2
  <2>6. QED BY <2>1, <2>3, <2>4, <2>5 DEF TierFound
<1>4. QED BY <1>2, <1>3

Between(x, low, high) == x \in Int /\ low <= x /\ x <= high

LEMMA DivBound ==
  ASSUME NEW k \in Nat, NEW c \in Nat, NEW w \in Nat, c <= w, w > 0
  PROVE  Between((k * c) \div w, 0, k)
<1> DEFINE p == k * c
           m == k * w
<1>1. p \in Nat /\ m \in Nat /\ p <= m
  OBVIOUS
<1>2. PICK d \in Int : d = p \div w
  BY <1>1
<1>3. w * d <= p /\ p < w * (d + 1)
  BY <1>1, <1>2
<1>4. d >= 0
  BY <1>1, <1>2
<1>5. d <= k
  <2>1. SUFFICES ASSUME d > k PROVE FALSE
    BY <1>2
  <2>2. w * d >= w * (k + 1)
    BY <1>2, <2>1
  <2>3. w * (k + 1) = m + w /\ w * d \in Int
    BY <1>2
  <2>4. QED BY <1>1, <1>3, <2>2, <2>3
<1>6. QED BY <1>2, <1>4, <1>5 DEF Between

LEMMA WordsFinite ==
  ASSUME NEW n \in Words
  PROVE  IsFiniteSet(MeaningfulWords(n))
<1>1. n \in Surjection(1..Len(n), Range(n))
  <2>1. n \in [1..Len(n) -> Range(n)] /\ \A x \in Range(n) : \E i \in 1..Len(n) : n[i] = x
    BY DEF Words, Range
  <2>2. QED BY <2>1 DEF Surjection
<1>2. IsFiniteSet(1..Len(n))
  BY FS_Interval DEF Words
<1>3. IsFiniteSet(Range(n))
  BY <1>1, <1>2, FS_Surjection
<1>4. QED BY <1>3, FS_Subset DEF MeaningfulWords

LEMMA TextRange ==
  ASSUME NEW a \in Words, NEW v \in Words, NEW max \in Nat
  PROVE  Between(TextFit(a, v, max), 0, 100 * max)
<1> DEFINE words   == MeaningfulWords(a)
           matched == words \cap Range(v)
           k == 42 * max
<1>1. ASSUME matched # {}
      PROVE  Between((42 * max * Cardinality(matched)) \div Cardinality(words), 0, k)
  <2>1. IsFiniteSet(words) /\ IsFiniteSet(matched) /\ matched \subseteq words
    BY WordsFinite, FS_Subset
  <2>2. /\ Cardinality(matched) \in Nat /\ Cardinality(words) \in Nat
        /\ Cardinality(matched) <= Cardinality(words) /\ Cardinality(matched) # 0
    <3> HIDE DEF words
    <3>1. QED BY <1>1, <2>1, FS_Subset, FS_CardinalityType, FS_EmptySet
  <2> HIDE DEF words, matched
  <2>3. k \in Nat
    OBVIOUS
  <2> HIDE DEF k
  <2>4. Between((k * Cardinality(matched)) \div Cardinality(words), 0, k)
    BY <2>2, <2>3, DivBound
  <2>5. QED BY <2>4 DEF k
<1>2. CASE a = <<>> \/ v = <<>>
  BY <1>2 DEF TextFit, Between
<1>3. CASE ~(a = <<>> \/ v = <<>>) /\ a = v
  BY <1>3 DEF TextFit, Between
<1>4. CASE ~(a = <<>> \/ v = <<>>) /\ a # v /\ (TextContains(v, a) \/ TextContains(a, v))
  BY <1>4 DEF TextFit, Between
<1>5. CASE ~(a = <<>> \/ v = <<>>) /\ a # v /\ ~(TextContains(v, a) \/ TextContains(a, v))
  <2>1. TextFit(a, v, max) = IF matched = {} THEN 0
                             ELSE (42 * max * Cardinality(matched)) \div Cardinality(words)
    BY <1>5 DEF TextFit
  <2> HIDE DEF matched, words
  <2>2. QED BY <1>1, <2>1 DEF Between
<1>6. QED BY <1>2, <1>3, <1>4, <1>5

Shown(q, r) ==
  q \in Queries /\ r \in RideRows /\ WithinRadius(q, r) /\ q.radius <= 2000

LEMMA PickupRange ==
  ASSUME NEW q, NEW r, Shown(q, r)
  PROVE  /\ q.from = NoPoint => PickupFit(q, r) = 0
         /\ q.from # NoPoint => Between(PickupFit(q, r), 5500, 23000)
<1>1. ASSUME q.from = NoPoint PROVE PickupFit(q, r) = 0
  BY <1>1 DEF PickupFit
<1>2. ASSUME q.from # NoPoint PROVE Between(PickupFit(q, r), 5500, 23000)
  <2> DEFINE d == StartDistance(q, r)
             tiers == <<<<70, 23000>>, <<200, 20500>>, <<400, 17500>>, <<1000, 12000>>,
                        <<2000, 5500>>, <<4000, -2000>>>>
             last == -14000
  <2>1. d \in Int /\ 0 <= d /\ d <= 2000
    BY <1>2 DEF Shown, WithinRadius, Queries
  <2>2. PickupFit(q, r) = Tier(d, tiers, last)
    BY <1>2, <2>1 DEF PickupFit, None
  <2> HIDE DEF d
  <2>3. Tiers(tiers, 6)
    BY DEF Tiers
  <2>4. TierFound(d, tiers, 6, last)
    <3> HIDE DEF tiers, last
    <3>1. QED BY <2>1, <2>3, TierValue
  <2>5. PICK i \in 1..6 : PickupFit(q, r) = tiers[i][2] /\ d <= tiers[i][1] /\ (i > 5 => d > tiers[5][1])
    <3>1. tiers[6][1] = 4000
      OBVIOUS
    <3>2. QED BY <2>1, <2>2, <2>4, <3>1 DEF TierFound
  <2>6. /\ tiers[1][2] = 23000 /\ tiers[2][2] = 20500 /\ tiers[3][2] = 17500
        /\ tiers[4][2] = 12000 /\ tiers[5][2] = 5500 /\ tiers[5][1] = 2000
    OBVIOUS
  <2> HIDE DEF tiers
  <2>7. i # 6
    BY <2>1, <2>5, <2>6
  <2>8. QED BY <2>5, <2>6, <2>7 DEF Between
<1>3. QED BY <1>1, <1>2

LEMMA DropOffRange ==
  ASSUME NEW q, NEW r, Shown(q, r)
  PROVE  /\ q.to = NoPoint => DropOffFit(q, r)[1] = 0
         /\ q.to # NoPoint => /\ Between(DropOffFit(q, r)[1], 7000, 43000)
                              /\ DropOffFit(q, r)[1] < 22000 => DropOffFit(q, r)[1] <= 13500
<1>1. ASSUME q.to = NoPoint PROVE DropOffFit(q, r)[1] = 0
  BY <1>1 DEF DropOffFit
<1>2. ASSUME q.to # NoPoint
      PROVE  /\ Between(DropOffFit(q, r)[1], 7000, 43000)
             /\ DropOffFit(q, r)[1] < 22000 => DropOffFit(q, r)[1] <= 13500
  <2> DEFINE d == EndDistance(q, r)
             tiers == <<<<70,   <<43000, "Exact destination">>>>,
                        <<200,  <<38000, "Very close destination">>>>,
                        <<500,  <<30000, "Nearby destination">>>>,
                        <<1200, <<13500, "Same area">>>>,
                        <<3000, <<7000,  "Nearby area">>>>>>
             trip == RequestedTrip(q)
             other == IF trip > 200 /\ 100 * d <= 12 * trip THEN <<9000, "Close for this route">>
                      ELSE IF trip > 200 /\ 100 * d <= 20 * trip THEN <<4500, "Same broad destination">>
                      ELSE <<-Least(19000, 2 * d), NoReason>>
  <2>1. d \in Int /\ 0 <= d /\ d <= 2000
    BY <1>2 DEF Shown, WithinRadius, Queries
  <2>2. d # None
    BY <2>1 DEF None
  <2>3. DropOffFit(q, r) = Tier(d, tiers, other)
    BY <1>2, <2>2 DEF DropOffFit
  <2> HIDE DEF d, other
  <2>4. Tiers(tiers, 5)
    BY DEF Tiers
  <2>5. TierFound(d, tiers, 5, other)
    <3> HIDE DEF tiers
    <3>1. QED BY <2>1, <2>4, TierValue
  <2>6. PICK i \in 1..5 : DropOffFit(q, r) = tiers[i][2]
    <3>1. tiers[5][1] = 3000
      OBVIOUS
    <3> HIDE DEF tiers
    <3>2. QED BY <2>1, <2>3, <2>5, <3>1 DEF TierFound
  <2>7. /\ tiers[1][2][1] = 43000 /\ tiers[2][2][1] = 38000 /\ tiers[3][2][1] = 30000
        /\ tiers[4][2][1] = 13500 /\ tiers[5][2][1] = 7000
    OBVIOUS
  <2> HIDE DEF tiers
  <2>8. QED BY <2>6, <2>7 DEF Between
<1>3. QED BY <1>1, <1>2

LEMMA Names ==
  ASSUME NEW q, NEW r, Shown(q, r)
  PROVE  /\ Between(TextFit(q.toName, r.toName, 70), 0, 7000)
         /\ Between(TextFit(q.fromName, r.fromName, 28), 0, 2800)
         /\ Between(TextFit(q.toName, r.toName, 42), 0, 4200)
<1>1. q.fromName \in Words /\ q.toName \in Words /\ r.fromName \in Words /\ r.toName \in Words
  BY DEF Shown, Queries, RideRows
<1>2. /\ Between(TextFit(q.toName, r.toName, 70), 0, 100 * 70)
      /\ Between(TextFit(q.fromName, r.fromName, 28), 0, 100 * 28)
      /\ Between(TextFit(q.toName, r.toName, 42), 0, 100 * 42)
  BY <1>1, TextRange
<1>3. QED BY <1>2 DEF Between

LEMMA DestinationRange ==
  ASSUME NEW q, NEW r, Shown(q, r)
  PROVE  /\ q.to = NoPoint => Between(DestinationFit(q, r)[1], 0, 7000)
         /\ q.to # NoPoint => Between(DestinationFit(q, r)[1], 7000, 43000)
<1> DEFINE f == DropOffFit(q, r)[1]
           t == TextFit(q.toName, r.toName, 70)
<1>1. /\ q.to = NoPoint => f = 0
      /\ q.to # NoPoint => Between(f, 7000, 43000) /\ (f < 22000 => f <= 13500)
  BY DropOffRange
<1>2. Between(t, 0, 7000)
  BY Names
<1>3. \/ t < 5500 /\ DestinationFit(q, r)[1] = f
      \/ f >= 22000 /\ DestinationFit(q, r)[1] = f
      \/ ~(f >= 22000) /\ DestinationFit(q, r)[1] = f + t
  BY DEF DestinationFit
<1> DEFINE e == DestinationFit(q, r)[1]
<1> HIDE DEF f, t, e
<1>4. ASSUME q.to = NoPoint PROVE Between(e, 0, 7000)
  BY <1>1, <1>2, <1>3, <1>4 DEF Between, e
<1>5. ASSUME q.to # NoPoint PROVE Between(e, 7000, 43000)
  BY <1>1, <1>2, <1>3, <1>5 DEF Between, e
<1>6. QED BY <1>4, <1>5 DEF e

LEMMA AvailabilityRange ==
  ASSUME NEW q, NEW r, Shown(q, r)
  PROVE  Between(AvailabilityAndPrice(q, r), 0, 6000)
<1> DEFINE left == SeatsLeftOf(r)
           cap == Most(1, PassengerCapacity(r.total))
           share == (1600 * left) \div cap
<1>1. r.total \in Nat /\ r.booked \in Nat /\ q.minSeats \in Nat \cup {None} /\ q.maxPrice \in Nat \cup {None}
  BY DEF Shown, RideRows, Queries
<1>2. left \in Nat /\ cap \in Nat /\ left <= cap /\ cap > 0
  BY <1>1 DEF SeatsLeftOf, PassengerSeatsLeft, PassengerCapacity, Most
<1> HIDE DEF left, cap
<1>4. Between(share, 0, 1600)
  BY <1>2, DivBound
<1> DEFINE a == IF left > 1 THEN 800 ELSE 0
           b == IF q.minSeats # None /\ left >= q.minSeats THEN 1200 ELSE 0
           c == IF q.maxPrice # None /\ r.price <= q.maxPrice THEN 1600 ELSE 0
           d == IF q.maxPrice # None /\ r.price <= q.maxPrice \div 2 THEN 800 ELSE 0
<1>5. AvailabilityAndPrice(q, r) = share + a + b + c + d
  BY DEF AvailabilityAndPrice, left, cap
<1>6. Between(a, 0, 800) /\ Between(b, 0, 1200) /\ Between(c, 0, 1600) /\ Between(d, 0, 800)
  BY DEF Between
<1> HIDE DEF share, a, b, c, d
<1>7. QED BY <1>4, <1>5, <1>6 DEF Between

LEMMA BucketRange ==
  ASSUME NEW q, NEW r
  PROVE  Between(PreferredTimeBucket(q, r), -1600, 3400)
BY DEF PreferredTimeBucket, Between

(* The day weighs what it does only by its distance from the chosen one.    *)
LEMMA DayNumber ==
  ASSUME NEW q, NEW r, Shown(q, r), TargetDay(q) # None
  PROVE  /\ DayOf(r.time) \in Int /\ TargetDay(q) \in Int
         /\ DayOf(r.time) = TargetDay(q) => DateFit(q, r) = 72000
         /\ DayOf(r.time) # TargetDay(q) => DateFit(q, r) \in Int /\ DateFit(q, r) <= -38000
<1>1. r.time \in Int /\ q.target \in Nat \cup {None} /\ q.date \in Nat \cup {None}
  BY DEF Shown, RideRows, Queries
<1>2. DayOf(r.time) \in Int
  BY <1>1 DEF DayOf, Day
<1>3. TargetDay(q) \in Int
  BY <1>1 DEF TargetDay, DayOf, Day, None
<1> DEFINE off == Magnitude(DayOf(r.time) - TargetDay(q))
<1>4. /\ off \in Nat
      /\ DayOf(r.time) = TargetDay(q) => off = 0
      /\ DayOf(r.time) # TargetDay(q) => off >= 1
  BY <1>2, <1>3 DEF Magnitude
<1>5. /\ off = 0 => DateFit(q, r) = 72000
      /\ off = 1 => DateFit(q, r) = -38000
      /\ off > 1 => DateFit(q, r) = -72000 - 18000 * (off - 1)
  BY <1>4 DEF DateFit
<1> HIDE DEF off
<1>6. QED BY <1>2, <1>3, <1>4, <1>5

LEMMA ProductOfInts ==
  ASSUME NEW x \in Int, NEW y \in Int
  PROVE  x * y \in Int
OBVIOUS

LEMMA QuotientOfNat ==
  ASSUME NEW x \in Nat, NEW n \in Nat, n > 0
  PROVE  x \div n \in Nat
<1>1. PICK d \in Int : d = x \div n
  OBVIOUS
<1>2. n * d <= x /\ x < n * (d + 1)
  BY <1>1
<1>3. d >= 0
  <2>1. SUFFICES ASSUME d <= -1 PROVE FALSE
    BY <1>1
  <2>2. n * (d + 1) <= 0
    BY <1>1, <2>1
  <2>3. n * (d + 1) \in Int
    BY <1>1
  <2>4. QED BY <1>2, <2>2, <2>3
<1>4. QED BY <1>1, <1>3

(* A detour is never shorter than the way, but for the rounding.            *)
LEMMA DetourBound ==
  ASSUME NEW len \in Nat, len >= 200, NEW extra \in Int, extra >= -1
  PROVE  (100 * extra) \div len \in Int /\ (100 * extra) \div len >= -1
<1>1. PICK d \in Int : d = (100 * extra) \div len
  OBVIOUS
<1>2. len * d <= 100 * extra /\ 100 * extra < len * (d + 1)
  BY <1>1
<1>3. d >= -1
  <2>1. SUFFICES ASSUME d <= -2 PROVE FALSE
    BY <1>1
  <2>2. len * (d + 1) <= len * (-1)
    BY <1>1, <2>1
  <2>3. len * (d + 1) \in Int /\ len * (-1) = 0 - len
    BY <1>1
  <2>4. QED BY <1>2, <2>2, <2>3
<1>4. QED BY <1>1, <1>3

LEMMA OverlapRange ==
  ASSUME NEW q, NEW r, Shown(q, r)
  PROVE  Between(RouteOverlap(q, r), 0, 35024)
<1> DEFINE len == CalculateDistance(r.from, r.to)
           x   == (q.to[1] - r.from[1]) * (r.to[2] - r.from[2]) - (q.to[2] - r.from[2]) * (r.to[1] - r.from[1])
           dot == (q.to[1] - r.from[1]) * (r.to[1] - r.from[1]) + (q.to[2] - r.from[2]) * (r.to[2] - r.from[2])
           percent   == ((dot \div len) * 100) \div len
           deviation == Magnitude(x) \div len
           corridor  == Least(1600, Most(240, (Most(len, RequestedTrip(q)) * 8) \div 100))
           extra     == CalculateDistance(r.from, q.to) + CalculateDistance(q.to, r.to) - len
           detour    == (100 * extra) \div len
           value     == 17000 + (12000 * (corridor - deviation)) \div corridor
                          + 24 * percent + Most(0, 3600 - 120 * detour)
           far       == \/ ~HasBoth(q)
                        \/ ~AreCoordinatesValid(r.from)
                        \/ ~AreCoordinatesValid(r.to)
                        \/ len < 200
           along     == percent \in 12..96 /\ deviation <= corridor /\ detour <= 28
<1>1. RouteOverlap(q, r) = IF far THEN 0 ELSE IF along THEN value ELSE 0
  <2>1. Magnitude(x) \div len = deviation
    OBVIOUS
  <2>2. QED BY DEF RouteOverlap
<1>2. ASSUME ~far, along PROVE Between(value, 0, 35024)
  <2>1. /\ q.from \in Points /\ q.to \in Points /\ r.from \in Points /\ r.to \in Points
    BY <1>2 DEF Shown, Queries, RideRows, HasBoth, AreCoordinatesValid
  <2>2. /\ len \in Nat /\ CalculateDistance(r.from, q.to) \in Nat /\ CalculateDistance(q.to, r.to) \in Nat
        /\ RequestedTrip(q) \in Nat /\ len <= CalculateDistance(r.from, q.to) + CalculateDistance(q.to, r.to) + 1
    BY <2>1, DistanceFacts, TriangleLaw DEF RequestedTrip
  <2>3. len >= 200
    BY <1>2, <2>2
  <2>4. extra \in Int /\ extra >= -1
    BY <2>2
  <2>5. x \in Int
    <3>1. /\ q.to[1] - r.from[1] \in Int /\ q.to[2] - r.from[2] \in Int
          /\ r.to[1] - r.from[1] \in Int /\ r.to[2] - r.from[2] \in Int
      <4>1. /\ q.to[1] \in 0..MapSide /\ q.to[2] \in 0..MapSide
            /\ r.from[1] \in 0..MapSide /\ r.from[2] \in 0..MapSide
            /\ r.to[1] \in 0..MapSide /\ r.to[2] \in 0..MapSide
        BY <2>1, Coordinates
      <4>2. QED BY <4>1
    <3>2. /\ (q.to[1] - r.from[1]) * (r.to[2] - r.from[2]) \in Int
          /\ (q.to[2] - r.from[2]) * (r.to[1] - r.from[1]) \in Int
      BY <3>1, ProductOfInts
    <3>3. QED BY <3>2
  <2> HIDE DEF x, dot
  <2>6. Magnitude(x) \in Nat
    BY <2>5 DEF Magnitude
  <2>7. corridor \in Nat /\ corridor >= 240
    <3> DEFINE broad == Most(len, RequestedTrip(q)) * 8
    <3>1. broad \in Nat
      BY <2>2 DEF Most
    <3> HIDE DEF broad
    <3>2. broad \div 100 \in Nat
      BY <3>1
    <3>3. Least(1600, Most(240, broad \div 100)) \in Nat /\ Least(1600, Most(240, broad \div 100)) >= 240
      BY <3>2 DEF Least, Most
    <3>4. QED BY <3>3 DEF broad
  <2> HIDE DEF len, extra, corridor
  <2>8. detour \in Int /\ detour >= -1
    BY <2>2, <2>3, <2>4, DetourBound DEF len
  <2>9. deviation \in Nat
    <3>1. len \in Nat /\ len > 0
      BY <2>2, <2>3 DEF len
    <3>2. QED BY <2>6, <3>1, QuotientOfNat
  <2>10. percent \in 12..96 /\ deviation <= corridor /\ detour <= 28
    BY <1>2
  <2> HIDE DEF percent, deviation, detour
  <2>11. Between((12000 * (corridor - deviation)) \div corridor, 0, 12000)
    <3>1. corridor - deviation \in Nat /\ corridor - deviation <= corridor /\ corridor > 0
      BY <2>7, <2>9, <2>10
    <3>2. 12000 \in Nat
      OBVIOUS
    <3>3. QED BY <2>7, <3>1, <3>2, DivBound
  <2> DEFINE share == (12000 * (corridor - deviation)) \div corridor
             bonus == Most(0, 3600 - 120 * detour)
  <2>12. share \in Int /\ 0 <= share /\ share <= 12000
    BY <2>11 DEF Between
  <2>13. bonus \in Int /\ 0 <= bonus /\ bonus <= 3720
    BY <2>8 DEF Most
  <2>14. percent \in Int /\ 12 <= percent /\ percent <= 96
    BY <2>10
  <2>15. value = 17000 + share + 24 * percent + bonus
    OBVIOUS
  <2> HIDE DEF share, bonus, value
  <2>16. QED BY <2>12, <2>13, <2>14, <2>15 DEF Between
<1>3. QED
  <2> HIDE DEF far, along, value
  <2>1. QED BY <1>1, <1>2 DEF Between

HostWeight(r, hosts) == IF ~hosts \/ r.past < 3 THEN 0 ELSE IF r.past >= 10 THEN 1200 ELSE 600
UsualWeight(r, routes) == IF routes /\ r.usual THEN 1800 ELSE 0

(* Whatever else speaks for a ride of a neighbouring day, it weighs less    *)
(* than the day does.                                                       *)
LEMMA DayDominates ==
  ASSUME NEW q, NEW r, NEW o, NEW hosts, NEW routes, Shown(q, r), Shown(q, o),
         q.target = None, TargetDay(q) # None,
         DayOf(r.time) # TargetDay(q), DayOf(o.time) = TargetDay(q)
  PROVE  /\ RelevanceScore(q, r, hosts, routes) \in Int /\ RelevanceScore(q, o, hosts, routes) \in Int
         /\ RelevanceScore(q, r, hosts, routes) < RelevanceScore(q, o, hosts, routes)
<1> DEFINE Score(x) == DateFit(q, x) + 0 + PickupFit(q, x) + DestinationFit(q, x)[1] + RouteOverlap(q, x)
                         + TextFit(q.fromName, x.fromName, 28) + TextFit(q.toName, x.toName, 42)
                         + AvailabilityAndPrice(q, x) + PreferredTimeBucket(q, x)
                         + HostWeight(x, hosts) + UsualWeight(x, routes)
<1>1. /\ RelevanceScore(q, r, hosts, routes) = Score(r)
      /\ RelevanceScore(q, o, hosts, routes) = Score(o)
  BY DEF RelevanceScore, ScoreRide, TimeFit, HostWeight, UsualWeight
<1> DEFINE p == PickupFit(q, r)
           d == DestinationFit(q, r)[1]
           v == RouteOverlap(q, r)
           f == TextFit(q.fromName, r.fromName, 28)
           t == TextFit(q.toName, r.toName, 42)
           a == AvailabilityAndPrice(q, r)
           b == PreferredTimeBucket(q, r)
           h == HostWeight(r, hosts)
           u == UsualWeight(r, routes)
           p2 == PickupFit(q, o)
           d2 == DestinationFit(q, o)[1]
           v2 == RouteOverlap(q, o)
           f2 == TextFit(q.fromName, o.fromName, 28)
           t2 == TextFit(q.toName, o.toName, 42)
           a2 == AvailabilityAndPrice(q, o)
           b2 == PreferredTimeBucket(q, o)
           h2 == HostWeight(o, hosts)
           u2 == UsualWeight(o, routes)
<1>2. DateFit(q, r) \in Int /\ DateFit(q, r) <= -38000 /\ DateFit(q, o) = 72000
  BY DayNumber
<1>3. p \in Int /\ p2 \in Int /\ p - p2 <= 17500
  <2>1. CASE q.from = NoPoint
    BY <2>1, PickupRange
  <2>2. CASE q.from # NoPoint
    <3>1. Between(PickupFit(q, r), 5500, 23000) /\ Between(PickupFit(q, o), 5500, 23000)
      BY <2>2, PickupRange
    <3>2. QED BY <3>1 DEF Between
  <2>3. QED BY <2>1, <2>2
<1>4. d \in Int /\ d2 \in Int /\ d - d2 <= 36000
  <2>1. CASE q.to = NoPoint
    <3>1. Between(DestinationFit(q, r)[1], 0, 7000) /\ Between(DestinationFit(q, o)[1], 0, 7000)
      BY <2>1, DestinationRange
    <3>2. QED BY <3>1 DEF Between
  <2>2. CASE q.to # NoPoint
    <3>1. Between(DestinationFit(q, r)[1], 7000, 43000) /\ Between(DestinationFit(q, o)[1], 7000, 43000)
      BY <2>2, DestinationRange
    <3>2. QED BY <3>1 DEF Between
  <2>3. QED BY <2>1, <2>2
<1>5. v \in Int /\ v2 \in Int /\ v - v2 <= 35024
  <2>1. Between(RouteOverlap(q, r), 0, 35024) /\ Between(RouteOverlap(q, o), 0, 35024)
    BY OverlapRange
  <2>2. QED BY <2>1 DEF Between
<1>6. /\ f \in Int /\ f2 \in Int /\ f - f2 <= 2800
      /\ t \in Int /\ t2 \in Int /\ t - t2 <= 4200
  <2>1. Between(f, 0, 2800) /\ Between(f2, 0, 2800) /\ Between(t, 0, 4200) /\ Between(t2, 0, 4200)
    BY Names
  <2>2. QED BY <2>1 DEF Between
<1>7. a \in Int /\ a2 \in Int /\ a - a2 <= 6000
  <2>1. Between(a, 0, 6000) /\ Between(a2, 0, 6000)
    BY AvailabilityRange
  <2>2. QED BY <2>1 DEF Between
<1>8. b \in Int /\ b2 \in Int /\ b - b2 <= 5000
  <2>1. Between(b, -1600, 3400) /\ Between(b2, -1600, 3400)
    BY BucketRange
  <2>2. QED BY <2>1 DEF Between
<1>9. h \in Int /\ h2 \in Int /\ h - h2 <= 1200
  BY DEF HostWeight
<1>10. u \in Int /\ u2 \in Int /\ u - u2 <= 1800
  BY DEF UsualWeight
<1>11. /\ Score(r) = DateFit(q, r) + 0 + p + d + v + f + t + a + b + h + u
       /\ Score(o) = DateFit(q, o) + 0 + p2 + d2 + v2 + f2 + t2 + a2 + b2 + h2 + u2
  OBVIOUS
<1> DEFINE sr == Score(r)
           so == Score(o)
<1>12. sr = DateFit(q, r) + 0 + p + d + v + f + t + a + b + h + u
  BY <1>11
<1>13. so = DateFit(q, o) + 0 + p2 + d2 + v2 + f2 + t2 + a2 + b2 + h2 + u2
  BY <1>11
<1>14. RelevanceScore(q, r, hosts, routes) = sr /\ RelevanceScore(q, o, hosts, routes) = so
  BY <1>1
<1> HIDE DEF Score, sr, so, p, d, v, f, t, a, b, h, u, p2, d2, v2, f2, t2, a2, b2, h2, u2
<1>15. sr \in Int /\ so \in Int
  BY <1>2, <1>3, <1>4, <1>5, <1>6, <1>7, <1>8, <1>9, <1>10, <1>12, <1>13
<1>16. sr < so
  BY <1>2, <1>3, <1>4, <1>5, <1>6, <1>7, <1>8, <1>9, <1>10, <1>12, <1>13
<1>17. QED BY <1>14, <1>15, <1>16

(* A target time keeps a search within one day.                             *)
LEMMA OneDay ==
  ASSUME NEW q \in Queries, NEW r \in RideRows, q.target # None, Wanted(q, r)
  PROVE  DayOf(r.time) = WindowDate(q)
<1>1. q.target \in Nat /\ q.date \in Nat \cup {None} /\ r.time \in Int
  BY DEF Queries, RideRows
<1>2. WindowDate(q) \in Int /\ WindowDate(q) # None
  BY <1>1 DEF WindowDate, DayOf, Day, None
<1> DEFINE w == WindowDate(q)
<1>3. r.time \in TimeWindow(q)
  BY <1>2 DEF Wanted
<1>4. r.time \in (w * 1440)..(w * 1440 + 1440 - 1)
  BY <1>3 DEF TimeWindow, Day
<1> HIDE DEF w
<1>5. w \in Int
  BY <1>2 DEF w
<1>6. r.time >= w * 1440 /\ r.time < (w + 1) * 1440
  BY <1>1, <1>4, <1>5
<1>7. r.time \div 1440 = w
  BY <1>1, <1>5, <1>6
<1>8. QED BY <1>7 DEF DayOf, Day, w

(* Of two rides that differ in nothing but being early and late by as much, *)
(* the early one scores higher.                                             *)
LEMMA EarlierWins ==
  ASSUME NEW q, NEW r, NEW o, NEW hosts, NEW routes, Shown(q, r), Shown(q, o),
         q.target # None, DayOf(r.time) = DayOf(o.time),
         [r EXCEPT !.time = o.time] = o,
         r.time - q.target = q.target - o.time, Magnitude(r.time - q.target) <= 90, r.time > o.time
  PROVE  /\ RelevanceScore(q, r, hosts, routes) \in Int /\ RelevanceScore(q, o, hosts, routes) \in Int
         /\ RelevanceScore(q, r, hosts, routes) < RelevanceScore(q, o, hosts, routes)
<1>1. /\ r.time \in Int /\ o.time \in Int /\ q.target \in Nat
  BY DEF Shown, RideRows, Queries
<1>2. /\ o.from = r.from /\ o.to = r.to /\ o.fromName = r.fromName /\ o.toName = r.toName
      /\ o.total = r.total /\ o.booked = r.booked /\ o.price = r.price
      /\ o.past = r.past /\ o.usual = r.usual
  BY DEF Shown, RideRows
<1> DEFINE late == r.time - q.target
<1>3. late \in Nat /\ late > 0 /\ late <= 90 /\ o.time - q.target = 0 - late
  BY <1>1 DEF Magnitude
<1>4. Decay[late] \in Nat
  <2>1. Day \in Nat /\ late <= Day
    BY <1>3 DEF Day
  <2>2. late \in 0..Day
    BY <1>3, <2>1
  <2> HIDE DEF late
  <2>3. QED BY <2>2, RideScoreAssumption
<1>5. TimeFit(q, r) = Decay[late] - Least(11000, 135 * late)
  <2>1. Magnitude(late) = late /\ ~(late <= 0 /\ late <= 90) /\ ~(late < -180)
    BY <1>3 DEF Magnitude
  <2>2. TimeFit(q, r) = Decay[late] + 0 - Least(11000, 135 * late) - 0
    BY <1>3, <2>1 DEF TimeFit
  <2>3. Least(11000, 135 * late) \in Int
    BY <1>3 DEF Least
  <2> HIDE DEF late
  <2>4. QED BY <1>4, <2>2, <2>3
<1>6. TimeFit(q, o) = Decay[late] + 3400
  <2>1. Magnitude(o.time - q.target) = late
    BY <1>3 DEF Magnitude
  <2>2. TimeFit(q, o) = Decay[late] + 3400 - 0 - 0
    BY <1>3, <2>1 DEF TimeFit
  <2> HIDE DEF late
  <2>3. QED BY <1>4, <2>2
<1>7. TimeFit(q, r) \in Int /\ TimeFit(q, o) \in Int /\ TimeFit(q, r) < TimeFit(q, o)
  <2>1. Least(11000, 135 * late) \in Int /\ Least(11000, 135 * late) > 0
    BY <1>3 DEF Least
  <2> HIDE DEF late
  <2>2. QED BY <1>4, <1>5, <1>6, <2>1
<1> DEFINE date == DateFit(q, r)
           p == PickupFit(q, r)
           d == DestinationFit(q, r)[1]
           v == RouteOverlap(q, r)
           f == TextFit(q.fromName, r.fromName, 28)
           t == TextFit(q.toName, r.toName, 42)
           a == AvailabilityAndPrice(q, r)
           b == PreferredTimeBucket(q, r)
           h == HostWeight(r, hosts)
           u == UsualWeight(r, routes)
<1>8. RelevanceScore(q, r, hosts, routes) = date + TimeFit(q, r) + p + d + v + f + t + a + b + h + u
  BY DEF RelevanceScore, ScoreRide, HostWeight, UsualWeight
<1>9. RelevanceScore(q, o, hosts, routes) = date + TimeFit(q, o) + p + d + v + f + t + a + b + h + u
  <2>1. DateFit(q, o) = date
    BY DEF DateFit
  <2>2. PickupFit(q, o) = p
    BY <1>2 DEF PickupFit, StartDistance
  <2>3. DestinationFit(q, o)[1] = d
    BY <1>2 DEF DestinationFit, DropOffFit, EndDistance
  <2>4. RouteOverlap(q, o) = v
    BY <1>2 DEF RouteOverlap
  <2>5. TextFit(q.fromName, o.fromName, 28) = f /\ TextFit(q.toName, o.toName, 42) = t
    BY <1>2
  <2>6. AvailabilityAndPrice(q, o) = a
    BY <1>2 DEF AvailabilityAndPrice, SeatsLeftOf
  <2>7. PreferredTimeBucket(q, o) = b
    BY DEF PreferredTimeBucket
  <2>8. HostWeight(o, hosts) = h /\ UsualWeight(o, routes) = u
    BY <1>2 DEF HostWeight, UsualWeight
  <2>9. RelevanceScore(q, o, hosts, routes) =
          DateFit(q, o) + TimeFit(q, o) + PickupFit(q, o) + DestinationFit(q, o)[1] + RouteOverlap(q, o)
            + TextFit(q.fromName, o.fromName, 28) + TextFit(q.toName, o.toName, 42)
            + AvailabilityAndPrice(q, o) + PreferredTimeBucket(q, o)
            + HostWeight(o, hosts) + UsualWeight(o, routes)
    BY DEF RelevanceScore, ScoreRide, HostWeight, UsualWeight
  <2> HIDE DEF date, p, d, v, f, t, a, b, h, u
  <2>10. QED BY <2>1, <2>2, <2>3, <2>4, <2>5, <2>6, <2>7, <2>8, <2>9
<1>10. /\ date \in Int /\ p \in Int /\ d \in Int /\ v \in Int /\ f \in Int /\ t \in Int
       /\ a \in Int /\ b \in Int /\ h \in Int /\ u \in Int
  <2>1. TargetDay(q) # None
    BY <1>1 DEF TargetDay, DayOf, Day, None
  <2>2. date \in Int
    <3>1. DayOf(r.time) = TargetDay(q) => DateFit(q, r) = 72000
      BY <2>1, DayNumber
    <3>2. DayOf(r.time) # TargetDay(q) => DateFit(q, r) \in Int
      BY <2>1, DayNumber
    <3>3. QED BY <3>1, <3>2
  <2>3. p \in Int
    BY PickupRange DEF Between
  <2>4. d \in Int
    BY DestinationRange DEF Between
  <2>5. v \in Int
    BY OverlapRange DEF Between
  <2>6. f \in Int /\ t \in Int
    BY Names DEF Between
  <2>7. a \in Int
    BY AvailabilityRange DEF Between
  <2>8. b \in Int
    BY BucketRange DEF Between
  <2>9. h \in Int /\ u \in Int
    BY DEF HostWeight, UsualWeight
  <2>10. QED BY <2>2, <2>3, <2>4, <2>5, <2>6, <2>7, <2>8, <2>9
<1> DEFINE tr == TimeFit(q, r)
           to == TimeFit(q, o)
<1>11. tr \in Int /\ to \in Int /\ tr < to
  BY <1>7
<1>12. /\ RelevanceScore(q, r, hosts, routes) = date + tr + p + d + v + f + t + a + b + h + u
       /\ RelevanceScore(q, o, hosts, routes) = date + to + p + d + v + f + t + a + b + h + u
  BY <1>8, <1>9
<1> DEFINE sr == RelevanceScore(q, r, hosts, routes)
           so == RelevanceScore(q, o, hosts, routes)
<1>13. /\ sr = date + tr + p + d + v + f + t + a + b + h + u
       /\ so = date + to + p + d + v + f + t + a + b + h + u
  BY <1>12
<1> HIDE DEF tr, to, date, p, d, v, f, t, a, b, h, u, sr, so
<1>14. sr \in Int /\ so \in Int
  BY <1>10, <1>11, <1>13
<1>15. sr < so
  BY <1>10, <1>11, <1>13
<1>16. QED BY <1>14, <1>15 DEF sr, so

(* search_scoring.go:105-169: the chosen day first, whatever else counts,   *)
(* and the earlier of two rides that are as far from the wanted time.       *)
THEOREM WeightsDoWhatIsMeant == Spec => []IntendedOrder
<1>1. SearchInv => IntendedOrder
  <2> SUFFICES ASSUME SearchInv, NEW k \in Answered, query.sort = "relevance", query.radius <= 2000,
                      NEW i \in DOMAIN pages[k].cards, NEW j \in DOMAIN pages[k].cards, i < j
               PROVE  /\ TargetDay(query) # None =>
                           ~(/\ DayOf(pages[k].cards[i].time) # TargetDay(query)
                             /\ DayOf(pages[k].cards[j].time) = TargetDay(query))
                      /\ (/\ query.target # None
                          /\ [pages[k].cards[i] EXCEPT !.time = pages[k].cards[j].time] = pages[k].cards[j]
                          /\ pages[k].cards[i].time - query.target = query.target - pages[k].cards[j].time
                          /\ Magnitude(pages[k].cards[i].time - query.target) <= 90) =>
                             pages[k].cards[i].time <= pages[k].cards[j].time
    BY DEF IntendedOrder
  <2> DEFINE r == pages[k].cards[i]
             o == pages[k].cards[j]
             hosts  == "hosts" \notin pages[k].failed
             routes == "routes" \notin pages[k].failed
  <2>1. k \in DOMAIN pages /\ pages[k].status = 200 /\ TypeOK /\ PageFine(query, pages[k])
    BY DEF Answered, SearchInv
  <2>2. pages[k].cards \in Seq(rides)
    <3> DEFINE R == [status : {200, 500}, failed : Failures, cards : Seq(rides)]
    <3>1. pages \in Seq(R) /\ k \in DOMAIN pages
      BY <2>1 DEF TypeOK
    <3> HIDE DEF R
    <3>2. pages[k] \in R
      BY <3>1
    <3>3. QED BY <3>2 DEF R
  <2>3. r \in rides /\ o \in rides /\ query \in Queries /\ rides \subseteq RideRows
    BY <2>1, <2>2, Given
  <2>4. Wanted(query, r) /\ Wanted(query, o)
    BY <2>1 DEF PageFine
  <2>5. Shown(query, r) /\ Shown(query, o)
    BY <2>3, <2>4 DEF Shown, Wanted
  <2>6. ~KeyBefore(RankKey(query, o, pages[k].failed), RankKey(query, r, pages[k].failed))
    BY <2>1 DEF PageFine
  <2> HIDE DEF r, o
  <2>7. ~KeyBefore(<<-RelevanceScore(query, o, hosts, routes), o.time>>,
                   <<-RelevanceScore(query, r, hosts, routes), r.time>>)
    BY <2>6 DEF RankKey
  <2> DEFINE sr == RelevanceScore(query, r, hosts, routes)
             so == RelevanceScore(query, o, hosts, routes)
  <2> HIDE DEF hosts, routes
  <2>8. ASSUME sr \in Int, so \in Int, sr < so PROVE FALSE
    <3> HIDE DEF sr, so
    <3>1. -so < -sr
      BY <2>8
    <3>2. KeyBefore(<<-so, o.time>>, <<-sr, r.time>>)
      <4>1. 1 \in DOMAIN <<-so, o.time>> /\ <<-so, o.time>>[1] < <<-sr, r.time>>[1]
        BY <3>1
      <4>2. \A x \in 1..(1 - 1) : <<-so, o.time>>[x] = <<-sr, r.time>>[x]
        OBVIOUS
      <4>3. \E y \in DOMAIN <<-so, o.time>> :
              /\ <<-so, o.time>>[y] < <<-sr, r.time>>[y]
              /\ \A x \in 1..(y - 1) : <<-so, o.time>>[x] = <<-sr, r.time>>[x]
        <5> WITNESS 1 \in DOMAIN <<-so, o.time>>
        <5>1. QED BY <4>1, <4>2
      <4>4. QED BY <4>3 DEF KeyBefore
    <3>3. QED BY <2>7, <3>2 DEF sr, so
  <2>9. ASSUME query.target # None
        PROVE  DayOf(r.time) = DayOf(o.time)
    <3>1. DayOf(r.time) = WindowDate(query) /\ DayOf(o.time) = WindowDate(query)
      BY <2>3, <2>4, <2>9, OneDay
    <3>2. QED BY <3>1
  <2>10. ASSUME TargetDay(query) # None, DayOf(r.time) # TargetDay(query), DayOf(o.time) = TargetDay(query)
         PROVE  FALSE
    <3>1. query.target = None
      BY <2>9, <2>10
    <3>2. sr \in Int /\ so \in Int /\ sr < so
      BY <2>5, <2>10, <3>1, DayDominates
    <3>3. QED BY <2>8, <3>2
  <2>11. ASSUME query.target # None, [r EXCEPT !.time = o.time] = o,
                r.time - query.target = query.target - o.time, Magnitude(r.time - query.target) <= 90,
                r.time > o.time
         PROVE  FALSE
    <3>1. sr \in Int /\ so \in Int /\ sr < so
      BY <2>5, <2>9, <2>11, EarlierWins
    <3>2. QED BY <2>8, <3>1
  <2>12. r.time \in Int /\ o.time \in Int
    BY <2>3 DEF RideRows
  <2>13. QED BY <2>10, <2>11, <2>12 DEF r, o
<1>2. QED BY <1>1, InvHolds, PTL

-----------------------------------------------------------------------------
(* The chips and the reasons of one ride. *)

LEMMA ReasonsOfChips ==
  /\ ReasonsOf("top_host") = {"Top host"}
  /\ ReasonsOf("trusted_host") = {"Trusted host"}
  /\ ReasonsOf("repeat_route") = {"Your usual route"}
  /\ ReasonsOf("just_listed") = {"Just listed"}
  /\ ReasonsOf("great_price") = {"Great price"}
  /\ ReasonsOf("within_budget") = {"Within budget"}
  /\ ReasonsOf("on_the_way") = {"On the way"}
  /\ ReasonsOf("tomorrow") = {"Tomorrow's ride"}
  /\ ReasonsOf("exact_pickup") = {"Very close to pickup"}
  /\ ReasonsOf("near_pickup") = {"Very close to pickup"}
  /\ ReasonsOf("nearby_pickup") = {"Very close to pickup", "Close to pickup"}
  /\ ReasonsOf("exact_destination") = {"Very close to destination"}
  /\ ReasonsOf("near_destination") = {"Very close to destination"}
  /\ ReasonsOf("nearby_destination") = {"Very close to destination", "Close to destination"}
BY DEF ReasonsOf

LEMMA DistanceRange ==
  ASSUME NEW q \in Queries, NEW r \in RideRows
  PROVE  /\ StartDistance(q, r) \in Nat \cup {None}
         /\ EndDistance(q, r) \in Nat \cup {None}
<1>1. /\ q.from \in Points \cup {NoPoint} /\ q.to \in Points \cup {NoPoint}
      /\ r.from \in Points \cup {NoPoint} /\ r.to \in Points \cup {NoPoint}
  BY DEF Queries, RideRows
<1>2. ASSUME NEW a \in Points \cup {NoPoint}, NEW b \in Points \cup {NoPoint}
      PROVE  DistanceOf(a, b) \in Nat \cup {None}
  <2>1. CASE a # NoPoint /\ AreCoordinatesValid(b)
    <3>1. a \in Points /\ b \in Points
      BY <2>1 DEF AreCoordinatesValid
    <3>2. QED BY <2>1, <3>1, DistanceFacts DEF DistanceOf
  <2>2. CASE ~(a # NoPoint /\ AreCoordinatesValid(b))
    BY <2>2 DEF DistanceOf
  <2>3. QED BY <2>1, <2>2
<1>3. QED BY <1>1, <1>2 DEF StartDistance, EndDistance

LEMMA DestinationChipIs ==
  ASSUME NEW d \in Nat \cup {None}, DestinationChip(d) # NoChip
  PROVE  \/ DestinationChip(d) = <<88, "exact_destination">> /\ d <= 200
         \/ DestinationChip(d) = <<84, "near_destination">> /\ d <= 200
         \/ DestinationChip(d) = <<72, "nearby_destination">> /\ d <= 500
         \/ DestinationChip(d) = <<50, "same_area_destination">>
<1> DEFINE tiers == <<<<70, <<88, "exact_destination">>>>, <<200, <<84, "near_destination">>>>,
                      <<500, <<72, "nearby_destination">>>>, <<1200, <<50, "same_area_destination">>>>>>
           c == DestinationChip(d)
<1>1. d # None /\ c = Tier(d, tiers, NoChip)
  BY DEF DestinationChip, PlaceChip
<1>2. d \in Nat /\ d \in Int
  BY <1>1
<1>3. Tiers(tiers, 4)
  BY DEF Tiers
<1>4. TierFound(d, tiers, 4, NoChip)
  <2> HIDE DEF tiers
  <2>1. QED BY <1>2, <1>3, TierValue
<1>5. PICK i \in 1..4 : c = tiers[i][2] /\ d <= tiers[i][1]
  <2> HIDE DEF tiers
  <2>1. QED BY <1>1, <1>4 DEF TierFound
<1>6. /\ tiers[1] = <<70, <<88, "exact_destination">>>> /\ tiers[2] = <<200, <<84, "near_destination">>>>
      /\ tiers[3] = <<500, <<72, "nearby_destination">>>> /\ tiers[4] = <<1200, <<50, "same_area_destination">>>>
  OBVIOUS
<1> HIDE DEF tiers, c
<1>7. CASE i = 1
  BY <1>2, <1>5, <1>6, <1>7 DEF c
<1>8. CASE i = 2
  BY <1>5, <1>6, <1>8 DEF c
<1>9. CASE i = 3
  BY <1>5, <1>6, <1>9 DEF c
<1>10. CASE i = 4
  BY <1>5, <1>6, <1>10 DEF c
<1>11. QED BY <1>7, <1>8, <1>9, <1>10

LEMMA PickupChipIs ==
  ASSUME NEW d \in Nat \cup {None}, PickupChip(d) # NoChip
  PROVE  \/ PickupChip(d) = <<86, "exact_pickup">> /\ d <= 200
         \/ PickupChip(d) = <<78, "near_pickup">> /\ d <= 200
         \/ PickupChip(d) = <<60, "nearby_pickup">> /\ d <= 600
<1> DEFINE tiers == <<<<70, <<86, "exact_pickup">>>>, <<200, <<78, "near_pickup">>>>, <<600, <<60, "nearby_pickup">>>>>>
           c == PickupChip(d)
<1>1. d # None /\ c = Tier(d, tiers, NoChip)
  BY DEF PickupChip, PlaceChip
<1>2. d \in Nat /\ d \in Int
  BY <1>1
<1>3. Tiers(tiers, 3)
  BY DEF Tiers
<1>4. TierFound(d, tiers, 3, NoChip)
  <2> HIDE DEF tiers
  <2>1. QED BY <1>2, <1>3, TierValue
<1>5. PICK i \in 1..3 : c = tiers[i][2] /\ d <= tiers[i][1]
  <2> HIDE DEF tiers
  <2>1. QED BY <1>1, <1>4 DEF TierFound
<1>6. /\ tiers[1] = <<70, <<86, "exact_pickup">>>> /\ tiers[2] = <<200, <<78, "near_pickup">>>>
      /\ tiers[3] = <<600, <<60, "nearby_pickup">>>>
  OBVIOUS
<1> HIDE DEF tiers, c
<1>7. CASE i = 1
  BY <1>2, <1>5, <1>6, <1>7 DEF c
<1>8. CASE i = 2
  BY <1>5, <1>6, <1>8 DEF c
<1>9. CASE i = 3
  BY <1>5, <1>6, <1>9 DEF c
<1>10. QED BY <1>7, <1>8, <1>9

(* A point within 2 km gets its word about nearness.                        *)
LEMMA NearnessIs ==
  ASSUME NEW d \in Nat \cup {None}, d # None, NEW near, NEW close
  PROVE  /\ d <= 200 => Nearness(d, near, close) = near
         /\ d <= 600 => Nearness(d, near, close) \in {near, close}
<1>1. d \in Nat
  OBVIOUS
<1>2. Nearness(d, near, close) = IF d < 400 THEN near ELSE IF d < 1000 THEN close ELSE NoReason
  BY DEF Nearness
<1>3. QED BY <1>1, <1>2

(* Chips of distinct priorities: the six strongest are all of them, or six. *)
Ranked(A) ==
  /\ \A x \in A : Between(x[1], 0, 100)
  /\ \A x, y \in A : x[1] = y[1] => x = y

Above(A, x) == {d \in A : d[1] > x[1]}

LEMMA SixStrongest ==
  ASSUME NEW A, Ranked(A), NEW C, C = {x \in A : Cardinality(Above(A, x)) < 6}
  PROVE  /\ Cardinality(C) <= 6
         /\ Cardinality(C) < 6 => C = A
<1>1. IsFiniteSet(A)
  <2> DEFINE f == [x \in A |-> x[1]]
  <2>1. PICK n \in Nat : n = 100
    OBVIOUS
  <2>2. \A x \in A : x[1] \in 0..n
    BY <2>1 DEF Ranked, Between
  <2>3. f \in Injection(A, 0..n)
    BY <2>2 DEF Ranked, Injection, IsInjective
  <2>4. IsFiniteSet(0..n)
    BY FS_Interval
  <2>5. QED BY <2>3, <2>4, FS_Injection
<1>2. C \subseteq A /\ \A x : Above(A, x) \subseteq A
  BY DEF Above
<1>3. IsFiniteSet(C) /\ \A x : IsFiniteSet(Above(A, x))
  BY <1>1, <1>2, FS_Subset
<1>4. Cardinality(C) \in Nat /\ \A x : Cardinality(Above(A, x)) \in Nat
  BY <1>3, FS_CardinalityType
<1>5. \A x \in A : x[1] \in Nat /\ x[1] <= 100
  BY DEF Ranked, Between
<1>6. Cardinality(C) <= 6
  <2>1. CASE C = {}
    BY <2>1, FS_EmptySet
  <2>2. CASE C # {}
    <3> DEFINE T == {x[1] : x \in C}
    <3>1. T \subseteq Nat /\ T # {}
      BY <1>2, <1>5, <2>2
    <3>2. PICK m \in T : \A n \in T : m <= n
      <4> HIDE DEF T
      <4>1. QED BY <3>1, LeastNumber
    <3>3. PICK c \in C : c[1] = m
      BY <3>2
    <3>4. C \subseteq Above(A, c) \cup {c}
      <4> SUFFICES ASSUME NEW d \in C, d # c PROVE d \in Above(A, c)
        OBVIOUS
      <4>1. d[1] >= c[1] /\ d[1] # c[1]
        BY <1>2, <3>2, <3>3 DEF Ranked
      <4>2. QED BY <1>2, <1>5, <4>1 DEF Above
    <3>5. Cardinality(Above(A, c)) < 6
      OBVIOUS
    <3>6. /\ IsFiniteSet(Above(A, c) \cup {c})
          /\ Cardinality(Above(A, c) \cup {c}) <= Cardinality(Above(A, c)) + 1
      <4> DEFINE U == Above(A, c)
      <4>1. IsFiniteSet(U) /\ Cardinality(U) \in Nat
        BY <1>3, <1>4
      <4> HIDE DEF U
      <4>2. /\ IsFiniteSet(U \cup {c})
            /\ Cardinality(U \cup {c}) = IF c \in U THEN Cardinality(U) ELSE Cardinality(U) + 1
        BY <4>1, FS_AddElement
      <4>3. IsFiniteSet(U \cup {c}) /\ Cardinality(U \cup {c}) <= Cardinality(U) + 1
        BY <4>1, <4>2
      <4>4. QED BY <4>3 DEF U
    <3>7. Cardinality(C) <= Cardinality(Above(A, c) \cup {c})
      BY <3>4, <3>6, FS_Subset
    <3>8. Cardinality(Above(A, c) \cup {c}) \in Nat
      BY <3>6, FS_CardinalityType
    <3>9. QED BY <1>4, <3>5, <3>6, <3>7, <3>8
  <2>3. QED BY <2>1, <2>2
<1>7. ASSUME C # A PROVE Cardinality(C) >= 6
  <2> DEFINE T == {100 - x[1] : x \in A \ C}
  <2>1. T \subseteq Nat /\ T # {}
    BY <1>2, <1>5, <1>7
  <2>2. PICK m \in T : \A n \in T : m <= n
    <3> HIDE DEF T
    <3>1. QED BY <2>1, LeastNumber
  <2>3. PICK c \in A \ C : 100 - c[1] = m
    BY <2>2
  <2>4. Above(A, c) \subseteq C
    <3> SUFFICES ASSUME NEW d \in A, d \notin C, d[1] > c[1] PROVE FALSE
      BY DEF Above
    <3>1. m <= 100 - d[1]
      BY <2>2
    <3>2. QED BY <1>5, <2>3, <3>1
  <2>5. Cardinality(Above(A, c)) >= 6
    BY <1>4, <2>3
  <2>6. Cardinality(Above(A, c)) <= Cardinality(C)
    BY <1>3, <2>4, FS_Subset
  <2>7. QED BY <1>4, <2>5, <2>6
<1>8. QED BY <1>4, <1>6, <1>7

LEMMA TimeChipIs ==
  ASSUME NEW q \in Queries, NEW r \in RideRows
  PROVE  TimeChip(q, r) \in {NoChip, <<100, "exact_time">>, <<92, "close_time">>, <<64, "flexible_time">>}
<1> DEFINE tiers == <<<<15, <<100, "exact_time">>>>, <<45, <<92, "close_time">>>>, <<120, <<64, "flexible_time">>>>>>
           d == Magnitude(r.time - q.target)
           c == TimeChip(q, r)
<1>1. CASE q.target = None
  BY <1>1 DEF TimeChip
<1>2. CASE q.target # None
  <2>1. d \in Int
    BY <1>2 DEF Queries, RideRows, Magnitude
  <2>2. c = Tier(d, tiers, NoChip)
    BY <1>2 DEF TimeChip
  <2>3. Tiers(tiers, 3)
    BY DEF Tiers
  <2> HIDE DEF d
  <2>4. TierFound(d, tiers, 3, NoChip)
    <3> HIDE DEF tiers
    <3>1. QED BY <2>1, <2>3, TierValue
  <2>5. c = NoChip \/ \E i \in 1..3 : c = tiers[i][2]
    <3> HIDE DEF tiers, c
    <3>1. QED BY <2>2, <2>4 DEF TierFound
  <2>6. /\ tiers[1][2] = <<100, "exact_time">> /\ tiers[2][2] = <<92, "close_time">>
        /\ tiers[3][2] = <<64, "flexible_time">>
    OBVIOUS
  <2> HIDE DEF tiers
  <2>7. ASSUME NEW i \in 1..3, c = tiers[i][2]
        PROVE  c \in {NoChip, <<100, "exact_time">>, <<92, "close_time">>, <<64, "flexible_time">>}
    <3> HIDE DEF c
    <3>1. i = 1 \/ i = 2 \/ i = 3
      OBVIOUS
    <3>2. QED BY <2>6, <2>7, <3>1
  <2>8. QED BY <2>5, <2>7
<1>3. QED BY <1>1, <1>2

LEMMA DateChipIs ==
  ASSUME NEW q \in Queries, NEW r \in RideRows
  PROVE  DateChip(q, r) \in {NoChip, <<98, "selected_date">>, <<58, "next_day">>, <<58, "previous_day">>}
<1>1. CASE TargetDay(q) = None \/ Magnitude(DayOf(r.time) - TargetDay(q)) > 1
  BY <1>1 DEF DateChip
<1>2. CASE ~(TargetDay(q) = None \/ Magnitude(DayOf(r.time) - TargetDay(q)) > 1)
  <2> DEFINE days == DayOf(r.time) - TargetDay(q)
  <2>1. r.time \in Int /\ q.target \in Nat \cup {None} /\ q.date \in Nat \cup {None}
    BY DEF RideRows, Queries
  <2>2. DayOf(r.time) \in Int /\ TargetDay(q) \in Int
    BY <2>1 DEF DayOf, TargetDay, Day, None
  <2>3. days = 0 \/ days = 1 \/ days = -1
    BY <1>2, <2>2 DEF Magnitude
  <2>4. QED BY <1>2, <2>3 DEF DateChip
<1>3. QED BY <1>1, <1>2

(* A ride that has not left is of today or later. *)
LEMMA BucketChipIs ==
  ASSUME NEW q \in Queries, NEW r \in RideRows, r.time > Now
  PROVE  /\ BucketChip(q, r) \in {NoChip, <<80, "leaving_soon">>, <<62, "today">>, <<56, "tomorrow">>, <<42, "this_week">>}
         /\ BucketChip(q, r) = <<56, "tomorrow">> => DayReason(r) = "Tomorrow's ride"
<1> DEFINE days == DayOf(r.time) - DayOf(Now)
<1>1. r.time \in Int /\ Now \in Nat
  BY RideScoreAssumption DEF RideRows
<1>2. DayOf(r.time) \in Int /\ DayOf(Now) \in Int /\ days \in Nat
  BY <1>1 DEF DayOf, Day
<1> DEFINE c == BucketChip(q, r)
           wait == r.time - Now
<1>3. TargetDay(q) # None => c = NoChip
  BY DEF BucketChip
<1>4. TargetDay(q) = None =>
        /\ days = 0 => c = IF wait < 90 THEN <<80, "leaving_soon">> ELSE <<62, "today">>
        /\ days = 1 => c = <<56, "tomorrow">>
        /\ days \in 2..7 => c = <<42, "this_week">>
        /\ days > 7 => c = NoChip
  BY <1>2 DEF BucketChip
<1>5. days = 1 => DayReason(r) = "Tomorrow's ride"
  <2>1. days = 1 => DayOf(r.time) = DayOf(Now) + 1 /\ DayOf(r.time) # DayOf(Now)
    BY <1>2
  <2>2. QED BY <2>1 DEF DayReason
<1>6. days = 0 \/ days = 1 \/ days \in 2..7 \/ days > 7
  BY <1>2
<1> HIDE DEF days, c, wait
<1>7. /\ c \in {NoChip, <<80, "leaving_soon">>, <<62, "today">>, <<56, "tomorrow">>, <<42, "this_week">>}
      /\ c = <<56, "tomorrow">> => days = 1
  <2>1. CASE TargetDay(q) # None
    BY <1>3, <2>1 DEF NoChip
  <2>2. CASE TargetDay(q) = None
    BY <1>4, <1>6, <2>2 DEF NoChip
  <2>3. QED BY <2>1, <2>2
<1>8. QED BY <1>5, <1>7 DEF c

LEMMA PlainChips ==
  ASSUME NEW q, NEW r, NEW hosts
  PROVE  /\ HostChip(r, hosts) \in {NoChip, <<75, "top_host">>, <<68, "trusted_host">>}
         /\ SeatChip(q, r) \in {NoChip, <<54, "fits_group">>, <<38, "multiple_seats">>, <<66, "last_seat">>}
         /\ PriceChip(q, r) \in {NoChip, <<52, "great_price">>, <<36, "within_budget">>}
BY DEF HostChip, SeatChip, PriceChip

(* Which chip has which priority. *)
ChipOfPriority(c, q, r, hosts, routes) ==
  /\ c[1] \in {100, 92, 64} => c = TimeChip(q, r)
  /\ c[1] \in {98, 58} => c = DateChip(q, r)
  /\ c[1] \in {80, 62, 56, 42} => c = BucketChip(q, r)
  /\ c[1] \in {75, 68} => c = HostChip(r, hosts)
  /\ c[1] \in {54, 38, 66} => c = SeatChip(q, r)
  /\ c[1] \in {52, 36} => c = PriceChip(q, r)
  /\ c[1] = 96 => c = <<96, "repeat_route">> /\ routes /\ r.usual
  /\ c[1] = 90 => c = <<90, "on_the_way">> /\ OnTheWay(q, r)
  /\ c[1] = 70 => c = <<70, "just_listed">> /\ r.age < 60
  /\ c[1] \in {88, 84, 72, 50} => c = DestinationChip(EndDistance(q, r))
  /\ c[1] \in {86, 78, 60} => c = PickupChip(StartDistance(q, r))

Priorities == {100, 92, 64, 98, 58, 80, 62, 56, 42, 75, 68, 54, 38, 66, 52, 36, 96, 90, 70, 88, 84, 72, 50, 86, 78, 60}

LEMMA ChipsRanked ==
  ASSUME NEW q \in Queries, NEW r \in RideRows, r.time > Now, NEW hosts, NEW routes,
         NEW c \in AllChips(q, r, hosts, routes)
  PROVE  c[1] \in Priorities /\ ChipOfPriority(c, q, r, hosts, routes)
<1>1. c # NoChip
  BY DEF AllChips
<1>2. CASE c = TimeChip(q, r)
  <2>1. c[1] \in {100, 92, 64}
    BY <1>1, <1>2, TimeChipIs
  <2>2. QED BY <1>2, <2>1 DEF Priorities, ChipOfPriority
<1>3. CASE c = DateChip(q, r)
  <2>1. c[1] \in {98, 58}
    BY <1>1, <1>3, DateChipIs
  <2>2. QED BY <1>3, <2>1 DEF Priorities, ChipOfPriority
<1>4. CASE c = BucketChip(q, r)
  <2>1. c \in {NoChip, <<80, "leaving_soon">>, <<62, "today">>, <<56, "tomorrow">>, <<42, "this_week">>}
    BY <1>4, BucketChipIs
  <2>2. c[1] \in {80, 62, 56, 42}
    BY <1>1, <2>1
  <2>3. QED BY <1>4, <2>2 DEF Priorities, ChipOfPriority
<1>5. CASE c = HostChip(r, hosts)
  <2>1. c[1] \in {75, 68}
    BY <1>1, <1>5, PlainChips
  <2>2. QED BY <1>5, <2>1 DEF Priorities, ChipOfPriority
<1>6. CASE c = SeatChip(q, r)
  <2>1. c[1] \in {54, 38, 66}
    BY <1>1, <1>6, PlainChips
  <2>2. QED BY <1>6, <2>1 DEF Priorities, ChipOfPriority
<1>7. CASE c = PriceChip(q, r)
  <2>1. c[1] \in {52, 36}
    BY <1>1, <1>7, PlainChips
  <2>2. QED BY <1>7, <2>1 DEF Priorities, ChipOfPriority
<1>8. CASE c = IF routes /\ r.usual THEN <<96, "repeat_route">> ELSE NoChip
  <2>1. c = <<96, "repeat_route">> /\ routes /\ r.usual
    BY <1>1, <1>8
  <2>2. QED BY <2>1 DEF Priorities, ChipOfPriority
<1>9. CASE c = IF OnTheWay(q, r) THEN <<90, "on_the_way">> ELSE NoChip
  <2>1. c = <<90, "on_the_way">> /\ OnTheWay(q, r)
    BY <1>1, <1>9
  <2>2. QED BY <2>1 DEF Priorities, ChipOfPriority
<1>10. CASE c = IF r.age < 60 THEN <<70, "just_listed">> ELSE NoChip
  <2>1. c = <<70, "just_listed">> /\ r.age < 60
    BY <1>1, <1>10
  <2>2. QED BY <2>1 DEF Priorities, ChipOfPriority
<1>11. CASE c = DestinationChip(EndDistance(q, r))
  <2>1. EndDistance(q, r) \in Nat \cup {None}
    BY DistanceRange
  <2>2. \/ c = <<88, "exact_destination">> \/ c = <<84, "near_destination">>
        \/ c = <<72, "nearby_destination">> \/ c = <<50, "same_area_destination">>
    BY <1>1, <1>11, <2>1, DestinationChipIs
  <2>3. c[1] \in {88, 84, 72, 50}
    BY <2>2
  <2>4. QED BY <1>11, <2>3 DEF Priorities, ChipOfPriority
<1>12. CASE c = PickupChip(StartDistance(q, r))
  <2>1. StartDistance(q, r) \in Nat \cup {None}
    BY DistanceRange
  <2>2. c = <<86, "exact_pickup">> \/ c = <<78, "near_pickup">> \/ c = <<60, "nearby_pickup">>
    BY <1>1, <1>12, <2>1, PickupChipIs
  <2>3. c[1] \in {86, 78, 60}
    BY <2>2
  <2>4. QED BY <1>12, <2>3 DEF Priorities, ChipOfPriority
<1>13. QED BY <1>2, <1>3, <1>4, <1>5, <1>6, <1>7, <1>8, <1>9, <1>10, <1>11, <1>12 DEF AllChips

LEMMA AllRanked ==
  ASSUME NEW q \in Queries, NEW r \in RideRows, r.time > Now, NEW hosts, NEW routes
  PROVE  Ranked(AllChips(q, r, hosts, routes))
<1>1. ASSUME NEW x \in AllChips(q, r, hosts, routes), NEW y \in AllChips(q, r, hosts, routes), x[1] = y[1]
      PROVE  x = y
  <2>1. /\ x[1] \in Priorities /\ ChipOfPriority(x, q, r, hosts, routes)
        /\ ChipOfPriority(y, q, r, hosts, routes)
    BY ChipsRanked
  <2>2. QED BY <1>1, <2>1 DEF Priorities, ChipOfPriority
<1>2. ASSUME NEW x \in AllChips(q, r, hosts, routes) PROVE Between(x[1], 0, 100)
  <2>1. x[1] \in Priorities
    BY ChipsRanked
  <2>2. QED BY <2>1 DEF Priorities, Between
<1>3. QED BY <1>1, <1>2 DEF Ranked

(* The parts of the line, by where they come from. *)
HostReason(r, hosts) ==
  IF ~hosts \/ r.past < 3 THEN NoReason ELSE IF r.past >= 10 THEN "Top host" ELSE "Trusted host"

PriceReason(q, r) ==
  IF q.maxPrice = None THEN NoReason
  ELSE IF r.price <= q.maxPrice \div 2 THEN "Great price"
  ELSE IF r.price <= q.maxPrice THEN "Within budget" ELSE NoReason

LEMMA LineHas ==
  ASSUME NEW q, NEW r, NEW hosts, NEW routes, NEW x, x # NoReason,
         \/ x = FirstReason(q, r)
         \/ x = "Your usual route" /\ routes /\ r.usual
         \/ x = "Just listed" /\ r.age < 60
         \/ x = HostReason(r, hosts)
         \/ x = Nearness(StartDistance(q, r), "Very close to pickup", "Close to pickup")
         \/ x = Nearness(EndDistance(q, r), "Very close to destination", "Close to destination")
         \/ x = DayReason(r)
         \/ x = PriceReason(q, r)
  PROVE  x \in MatchReasons(q, r, hosts, routes)
BY DEF MatchReasons, HostReason, PriceReason

LEMMA ChipHasReason ==
  ASSUME NEW q \in Queries, NEW r \in RideRows, r.time > Now, NEW hosts, NEW routes,
         NEW c \in AllChips(q, r, hosts, routes), c[2] \in Paired
  PROVE  \E x \in ReasonsOf(c[2]) : x \in MatchReasons(q, r, hosts, routes)
<1>1. c[1] \in Priorities /\ ChipOfPriority(c, q, r, hosts, routes) /\ c # NoChip
  BY ChipsRanked DEF AllChips
<1>2. CASE c = HostChip(r, hosts)
  <2>1. \/ c = <<75, "top_host">> /\ HostReason(r, hosts) = "Top host"
        \/ c = <<68, "trusted_host">> /\ HostReason(r, hosts) = "Trusted host"
    BY <1>1, <1>2 DEF HostChip, HostReason
  <2>2. \/ "Top host" \in ReasonsOf(c[2]) /\ HostReason(r, hosts) = "Top host"
        \/ "Trusted host" \in ReasonsOf(c[2]) /\ HostReason(r, hosts) = "Trusted host"
    <3>1. CASE c = <<75, "top_host">> /\ HostReason(r, hosts) = "Top host"
      BY <3>1, ReasonsOfChips
    <3>2. CASE c = <<68, "trusted_host">> /\ HostReason(r, hosts) = "Trusted host"
      BY <3>2, ReasonsOfChips
    <3>3. QED BY <2>1, <3>1, <3>2
  <2>3. "Top host" # NoReason /\ "Trusted host" # NoReason
    BY DEF NoReason
  <2>4. QED BY <2>2, <2>3, LineHas
<1>3. CASE c = PriceChip(q, r)
  <2>1. \/ c = <<52, "great_price">> /\ PriceReason(q, r) = "Great price"
        \/ c = <<36, "within_budget">> /\ PriceReason(q, r) = "Within budget"
    BY <1>1, <1>3 DEF PriceChip, PriceReason
  <2>2. \/ "Great price" \in ReasonsOf(c[2]) /\ PriceReason(q, r) = "Great price"
        \/ "Within budget" \in ReasonsOf(c[2]) /\ PriceReason(q, r) = "Within budget"
    <3>1. CASE c = <<52, "great_price">> /\ PriceReason(q, r) = "Great price"
      BY <3>1, ReasonsOfChips
    <3>2. CASE c = <<36, "within_budget">> /\ PriceReason(q, r) = "Within budget"
      BY <3>2, ReasonsOfChips
    <3>3. QED BY <2>1, <3>1, <3>2
  <2>3. "Great price" # NoReason /\ "Within budget" # NoReason
    BY DEF NoReason
  <2>4. QED BY <2>2, <2>3, LineHas
<1>4. CASE c[1] = 96
  <2>1. c = <<96, "repeat_route">> /\ routes /\ r.usual
    BY <1>1, <1>4 DEF ChipOfPriority
  <2>2. "Your usual route" \in ReasonsOf(c[2]) /\ "Your usual route" # NoReason
    BY <2>1, ReasonsOfChips DEF NoReason
  <2>3. QED BY <2>1, <2>2, LineHas
<1>5. CASE c[1] = 90
  <2>1. c = <<90, "on_the_way">> /\ OnTheWay(q, r)
    BY <1>1, <1>5 DEF ChipOfPriority
  <2>2. FirstReason(q, r) = "On the way"
    BY <2>1 DEF FirstReason
  <2>3. "On the way" \in ReasonsOf(c[2]) /\ "On the way" # NoReason
    BY <2>1, ReasonsOfChips DEF NoReason
  <2>4. QED BY <2>2, <2>3, LineHas
<1>6. CASE c[1] = 70
  <2>1. c = <<70, "just_listed">> /\ r.age < 60
    BY <1>1, <1>6 DEF ChipOfPriority
  <2>2. "Just listed" \in ReasonsOf(c[2]) /\ "Just listed" # NoReason
    BY <2>1, ReasonsOfChips DEF NoReason
  <2>3. QED BY <2>1, <2>2, LineHas
<1>7. CASE c = BucketChip(q, r)
  <2>1. c = <<56, "tomorrow">>
    <3>1. \/ c = <<80, "leaving_soon">> \/ c = <<62, "today">> \/ c = <<56, "tomorrow">> \/ c = <<42, "this_week">>
      BY <1>1, <1>7, BucketChipIs
    <3>2. c[2] \notin {"leaving_soon", "today", "this_week"}
      BY DEF Paired
    <3>3. QED BY <3>1, <3>2
  <2>2. DayReason(r) = "Tomorrow's ride"
    BY <1>7, <2>1, BucketChipIs
  <2>3. "Tomorrow's ride" \in ReasonsOf(c[2]) /\ "Tomorrow's ride" # NoReason
    BY <2>1, ReasonsOfChips DEF NoReason
  <2>4. QED BY <2>2, <2>3, LineHas
<1>8. CASE c = DestinationChip(EndDistance(q, r))
  <2>1. PICK d \in Nat \cup {None} : d = EndDistance(q, r)
    BY DistanceRange
  <2>2. PICK x : x = Nearness(d, "Very close to destination", "Close to destination")
    OBVIOUS
  <2>3. d # None /\ d \in Nat
    BY <1>1, <1>8, <2>1 DEF DestinationChip, PlaceChip
  <2>4. \/ c = <<88, "exact_destination">> /\ d <= 200
        \/ c = <<84, "near_destination">> /\ d <= 200
        \/ c = <<72, "nearby_destination">> /\ d <= 500
        \/ c = <<50, "same_area_destination">>
    BY <1>1, <1>8, <2>1, DestinationChipIs
  <2>5. c[2] # "same_area_destination"
    BY DEF Paired
  <2>6. /\ d <= 200 => x = "Very close to destination"
        /\ d <= 600 => x \in {"Very close to destination", "Close to destination"}
    <3>1. \A near, close : /\ d <= 200 => Nearness(d, near, close) = near
                           /\ d <= 600 => Nearness(d, near, close) \in {near, close}
      BY <2>1, <2>3, NearnessIs
    <3>2. QED BY <2>2, <3>1
  <2>7. d <= 600
    BY <2>3, <2>4, <2>5
  <2>8. x \in ReasonsOf(c[2])
    <3>1. CASE c = <<88, "exact_destination">> /\ d <= 200
      BY <2>6, <3>1, ReasonsOfChips
    <3>2. CASE c = <<84, "near_destination">> /\ d <= 200
      BY <2>6, <3>2, ReasonsOfChips
    <3>3. CASE c = <<72, "nearby_destination">>
      BY <2>6, <2>7, <3>3, ReasonsOfChips
    <3>4. QED BY <2>4, <2>5, <3>1, <3>2, <3>3
  <2>9. x # NoReason
    BY <2>6, <2>7 DEF NoReason
  <2>10. QED BY <2>1, <2>2, <2>8, <2>9, LineHas
<1>9. CASE c = PickupChip(StartDistance(q, r))
  <2>1. PICK d \in Nat \cup {None} : d = StartDistance(q, r)
    BY DistanceRange
  <2>2. PICK x : x = Nearness(d, "Very close to pickup", "Close to pickup")
    OBVIOUS
  <2>3. d # None /\ d \in Nat
    BY <1>1, <1>9, <2>1 DEF PickupChip, PlaceChip
  <2>4. \/ c = <<86, "exact_pickup">> /\ d <= 200
        \/ c = <<78, "near_pickup">> /\ d <= 200
        \/ c = <<60, "nearby_pickup">> /\ d <= 600
    BY <1>1, <1>9, <2>1, PickupChipIs
  <2>5. /\ d <= 200 => x = "Very close to pickup"
        /\ d <= 600 => x \in {"Very close to pickup", "Close to pickup"}
    <3>1. \A near, close : /\ d <= 200 => Nearness(d, near, close) = near
                           /\ d <= 600 => Nearness(d, near, close) \in {near, close}
      BY <2>1, <2>3, NearnessIs
    <3>2. QED BY <2>2, <3>1
  <2>6. d <= 600
    BY <2>3, <2>4
  <2>7. x \in ReasonsOf(c[2])
    <3>1. CASE c = <<86, "exact_pickup">> /\ d <= 200
      BY <2>5, <3>1, ReasonsOfChips
    <3>2. CASE c = <<78, "near_pickup">> /\ d <= 200
      BY <2>5, <3>2, ReasonsOfChips
    <3>3. CASE c = <<60, "nearby_pickup">>
      BY <2>5, <2>6, <3>3, ReasonsOfChips
    <3>4. QED BY <2>4, <3>1, <3>2, <3>3
  <2>8. x # NoReason
    BY <2>5, <2>6 DEF NoReason
  <2>9. QED BY <2>1, <2>2, <2>7, <2>8, LineHas
<1>10. CASE c[1] \in {100, 92, 64} \/ c[1] \in {98, 58} \/ c[1] \in {54, 38, 66}
  <2>1. CASE c = TimeChip(q, r)
    BY <1>1, <2>1, TimeChipIs DEF Paired
  <2>2. CASE c = DateChip(q, r)
    BY <1>1, <2>2, DateChipIs DEF Paired
  <2>3. CASE c = SeatChip(q, r)
    BY <1>1, <2>3, PlainChips DEF Paired
  <2>4. QED BY <1>1, <1>10, <2>1, <2>2, <2>3 DEF ChipOfPriority
<1>11. QED BY <1>1, <1>2, <1>3, <1>4, <1>5, <1>6, <1>7, <1>8, <1>9, <1>10 DEF ChipOfPriority, Priorities

(* What the first part of the line is about. *)
PlaceReasons ==
  {NoReason, "Exact destination", "Very close destination", "Nearby destination", "Same area", "Nearby area",
   "Close for this route", "Same broad destination", "Destination name match", "On the way", "Close pickup",
   "Close time"}

LEMMA DropOffReason ==
  ASSUME NEW q \in Queries, NEW r \in RideRows
  PROVE  DropOffFit(q, r)[2] \in PlaceReasons
<1>1. CASE q.to = NoPoint \/ EndDistance(q, r) = None
  <2>1. CASE q.to = NoPoint
    BY <2>1 DEF DropOffFit, PlaceReasons
  <2>2. CASE q.to # NoPoint /\ EndDistance(q, r) = None
    <3>1. DropOffFit(q, r) = <<-16000, NoReason>>
      BY <2>2 DEF DropOffFit
    <3>2. QED BY <3>1 DEF PlaceReasons
  <2>3. QED BY <1>1, <2>1, <2>2
<1>2. CASE ~(q.to = NoPoint \/ EndDistance(q, r) = None)
  <2> DEFINE d == EndDistance(q, r)
             tiers == <<<<70,   <<43000, "Exact destination">>>>,
                        <<200,  <<38000, "Very close destination">>>>,
                        <<500,  <<30000, "Nearby destination">>>>,
                        <<1200, <<13500, "Same area">>>>,
                        <<3000, <<7000,  "Nearby area">>>>>>
             trip == RequestedTrip(q)
             other == IF trip > 200 /\ 100 * d <= 12 * trip THEN <<9000, "Close for this route">>
                      ELSE IF trip > 200 /\ 100 * d <= 20 * trip THEN <<4500, "Same broad destination">>
                      ELSE <<-Least(19000, 2 * d), NoReason>>
  <2>0. q.to # NoPoint /\ d # None
    BY <1>2
  <2>1. d \in Int
    BY <2>0, DistanceRange
  <2>2. DropOffFit(q, r) = Tier(d, tiers, other)
    BY <2>0 DEF DropOffFit
  <2>3. other[2] \in PlaceReasons
    BY DEF PlaceReasons
  <2> HIDE DEF d, other
  <2>4. Tiers(tiers, 5)
    BY DEF Tiers
  <2>5. TierFound(d, tiers, 5, other)
    <3> HIDE DEF tiers
    <3>1. QED BY <2>1, <2>4, TierValue
  <2>6. DropOffFit(q, r) = other \/ \E i \in 1..5 : DropOffFit(q, r) = tiers[i][2]
    <3> HIDE DEF tiers
    <3>1. QED BY <2>2, <2>5 DEF TierFound
  <2>7. /\ tiers[1][2][2] = "Exact destination" /\ tiers[2][2][2] = "Very close destination"
        /\ tiers[3][2][2] = "Nearby destination" /\ tiers[4][2][2] = "Same area" /\ tiers[5][2][2] = "Nearby area"
    OBVIOUS
  <2> HIDE DEF tiers
  <2>8. \A i \in 1..5 : tiers[i][2][2] \in PlaceReasons
    <3>1. /\ tiers[1][2][2] \in PlaceReasons /\ tiers[2][2][2] \in PlaceReasons /\ tiers[3][2][2] \in PlaceReasons
          /\ tiers[4][2][2] \in PlaceReasons /\ tiers[5][2][2] \in PlaceReasons
      BY <2>7 DEF PlaceReasons
    <3>2. \A i \in 1..5 : i = 1 \/ i = 2 \/ i = 3 \/ i = 4 \/ i = 5
      OBVIOUS
    <3>3. QED BY <3>1, <3>2
  <2>9. QED BY <2>3, <2>6, <2>8
<1>3. QED BY <1>1, <1>2

LEMMA FirstReasonIsOfPlace ==
  ASSUME NEW q \in Queries, NEW r \in RideRows
  PROVE  FirstReason(q, r) \in PlaceReasons
<1>1. DestinationFit(q, r)[2] \in PlaceReasons
  <2>1. DropOffFit(q, r)[2] \in PlaceReasons
    BY DropOffReason
  <2>2. \/ DestinationFit(q, r)[2] = DropOffFit(q, r)[2]
        \/ DestinationFit(q, r)[2] = "Destination name match"
    <3> DEFINE fit   == DropOffFit(q, r)
               text  == TextFit(q.toName, r.toName, 70)
               alone == text < 5500 \/ fit[1] >= 22000
               sum   == fit[1] + text
               word  == IF fit[2] = NoReason THEN "Destination name match" ELSE fit[2]
    <3>1. DestinationFit(q, r) = IF alone THEN fit ELSE <<sum, word>>
      BY DEF DestinationFit
    <3>w. word = fit[2] \/ word = "Destination name match"
      OBVIOUS
    <3> HIDE DEF fit, text, alone, sum, word
    <3>2. DestinationFit(q, r)[2] = fit[2] \/ DestinationFit(q, r)[2] = "Destination name match"
      <4>1. CASE alone
        BY <3>1, <4>1
      <4>2. CASE ~alone
        <5>1. DestinationFit(q, r) = <<sum, word>>
          BY <3>1, <4>2
        <5>2. <<sum, word>>[2] = word
          OBVIOUS
        <5>3. DestinationFit(q, r)[2] = word
          BY <5>1, <5>2
        <5>4. QED BY <3>w, <5>3
      <4>3. QED BY <4>1, <4>2
    <3>3. QED BY <3>2 DEF fit
  <2>3. QED BY <2>1, <2>2 DEF PlaceReasons
<1>2. \/ FirstReason(q, r) = DestinationFit(q, r)[2]
      \/ FirstReason(q, r) \in {"On the way", "Nearby destination", "Close pickup", "Close time", NoReason}
  BY DEF FirstReason
<1>3. QED BY <1>1, <1>2 DEF PlaceReasons

(* No other part of the line says what the six say. *)
LEMMA ReasonHasChip ==
  ASSUME NEW q \in Queries, NEW r \in RideRows, NEW hosts, NEW routes,
         NEW kind \in {"top_host", "trusted_host", "repeat_route", "just_listed", "great_price", "within_budget"},
         ReasonsOf(kind) \subseteq MatchReasons(q, r, hosts, routes)
  PROVE  \E c \in AllChips(q, r, hosts, routes) : c[2] = kind
<1> DEFINE six == {"Top host", "Trusted host", "Your usual route", "Just listed", "Great price", "Within budget"}
<1>1. FirstReason(q, r) \notin six
  BY FirstReasonIsOfPlace DEF PlaceReasons, NoReason
<1>2. /\ Nearness(StartDistance(q, r), "Very close to pickup", "Close to pickup") \notin six
      /\ Nearness(EndDistance(q, r), "Very close to destination", "Close to destination") \notin six
  BY DEF Nearness, NoReason
<1>3. DayReason(r) \notin six
  BY DEF DayReason, NoReason
<1>4. ASSUME NEW x \in six, x \in MatchReasons(q, r, hosts, routes)
      PROVE  \/ x = "Your usual route" /\ routes /\ r.usual
             \/ x = "Just listed" /\ r.age < 60
             \/ x = HostReason(r, hosts)
             \/ x = PriceReason(q, r)
  BY <1>1, <1>2, <1>3, <1>4 DEF MatchReasons, HostReason, PriceReason, NoReason
<1>5. CASE kind = "top_host"
  <2>1. HostReason(r, hosts) = "Top host"
    BY <1>4, <1>5, ReasonsOfChips DEF PriceReason, NoReason
  <2>2. HostChip(r, hosts) = <<75, "top_host">>
    BY <2>1 DEF HostReason, HostChip, NoReason
  <2>3. QED BY <1>5, <2>2 DEF AllChips, NoChip
<1>6. CASE kind = "trusted_host"
  <2>1. HostReason(r, hosts) = "Trusted host"
    BY <1>4, <1>6, ReasonsOfChips DEF PriceReason, NoReason
  <2>2. HostChip(r, hosts) = <<68, "trusted_host">>
    BY <2>1 DEF HostReason, HostChip, NoReason
  <2>3. QED BY <1>6, <2>2 DEF AllChips, NoChip
<1>7. CASE kind = "great_price"
  <2>1. PriceReason(q, r) = "Great price"
    BY <1>4, <1>7, ReasonsOfChips DEF HostReason, NoReason
  <2>2. PriceChip(q, r) = <<52, "great_price">>
    BY <2>1 DEF PriceReason, PriceChip, NoReason
  <2>3. QED BY <1>7, <2>2 DEF AllChips, NoChip
<1>8. CASE kind = "within_budget"
  <2>1. PriceReason(q, r) = "Within budget"
    BY <1>4, <1>8, ReasonsOfChips DEF HostReason, NoReason
  <2>2. PriceChip(q, r) = <<36, "within_budget">>
    BY <2>1 DEF PriceReason, PriceChip, NoReason
  <2>3. QED BY <1>8, <2>2 DEF AllChips, NoChip
<1>9. CASE kind = "repeat_route"
  <2>1. routes /\ r.usual
    BY <1>4, <1>9, ReasonsOfChips DEF HostReason, PriceReason, NoReason
  <2>2. <<96, "repeat_route">> \in AllChips(q, r, hosts, routes)
    BY <2>1 DEF AllChips, NoChip
  <2>3. QED BY <1>9, <2>2
<1>10. CASE kind = "just_listed"
  <2>1. r.age < 60
    BY <1>4, <1>10, ReasonsOfChips DEF HostReason, PriceReason, NoReason
  <2>2. <<70, "just_listed">> \in AllChips(q, r, hosts, routes)
    BY <2>1 DEF AllChips, NoChip
  <2>3. QED BY <1>10, <2>2
<1>11. QED BY <1>5, <1>6, <1>7, <1>8, <1>9, <1>10

Mirrored(q, r, hosts, routes) ==
  LET chips   == MatchSignals(q, r, hosts, routes)
      reasons == MatchReasons(q, r, hosts, routes)
  IN  /\ Cardinality(chips) <= 6
      /\ \A c \in chips : c[2] \in Paired => ReasonsOf(c[2]) \cap reasons # {}
      /\ Cardinality(chips) < 6 =>
           \A kind \in {"top_host", "trusted_host", "repeat_route", "just_listed", "great_price", "within_budget"} :
             ReasonsOf(kind) \subseteq reasons => \E c \in chips : c[2] = kind

(* searchRides.go:531-631, search_scoring.go:546-840: every chip that has a *)
(* reason finds it in the line, and a line with a reason of the six kinds   *)
(* has the chip, unless six stronger ones are there.                        *)
THEOREM ChipsMatchTheLine == Spec => []ChipsMirrorReasons
<1>1. SearchInv => ChipsMirrorReasons
  <2> SUFFICES ASSUME SearchInv, NEW k \in Answered, NEW i \in DOMAIN pages[k].cards
               PROVE  Mirrored(query, pages[k].cards[i], "hosts" \notin pages[k].failed, "routes" \notin pages[k].failed)
    BY DEF ChipsMirrorReasons, Mirrored
  <2> DEFINE hosts  == "hosts" \notin pages[k].failed
             routes == "routes" \notin pages[k].failed
  <2> HIDE DEF hosts, routes
  <2>1. k \in DOMAIN pages /\ pages[k].status = 200 /\ TypeOK /\ PageFine(query, pages[k])
    BY DEF Answered, SearchInv
  <2>2. pages[k].cards \in Seq(rides)
    <3> DEFINE R == [status : {200, 500}, failed : Failures, cards : Seq(rides)]
    <3>1. pages \in Seq(R) /\ k \in DOMAIN pages
      BY <2>1 DEF TypeOK
    <3> HIDE DEF R
    <3>2. pages[k] \in R
      BY <3>1
    <3>3. QED BY <3>2 DEF R
  <2>3. PICK r \in RideRows : r = pages[k].cards[i]
    BY <2>1, <2>2, Given
  <2>4. query \in Queries
    BY <2>1, Given
  <2>5. r.time > Now
    BY <2>1, <2>3 DEF PageFine, Wanted, Bookable
  <2> DEFINE A == AllChips(query, r, hosts, routes)
             C == MatchSignals(query, r, hosts, routes)
             reasons == MatchReasons(query, r, hosts, routes)
  <2>6. C = {x \in A : Cardinality(Above(A, x)) < 6}
    BY DEF MatchSignals, Above
  <2>7. Ranked(A)
    BY <2>4, <2>5, AllRanked
  <2>8. /\ \A c \in A : c[2] \in Paired => \E x \in ReasonsOf(c[2]) : x \in reasons
        /\ \A kind \in {"top_host", "trusted_host", "repeat_route", "just_listed", "great_price", "within_budget"} :
             ReasonsOf(kind) \subseteq reasons => \E c \in A : c[2] = kind
    BY <2>4, <2>5, ChipHasReason, ReasonHasChip
  <2> HIDE DEF A, C, reasons
  <2>9. C \subseteq A /\ Cardinality(C) <= 6 /\ (Cardinality(C) < 6 => C = A)
    BY <2>6, <2>7, SixStrongest
  <2>10. /\ Cardinality(C) <= 6
         /\ \A c \in C : c[2] \in Paired => ReasonsOf(c[2]) \cap reasons # {}
         /\ Cardinality(C) < 6 =>
              \A kind \in {"top_host", "trusted_host", "repeat_route", "just_listed", "great_price", "within_budget"} :
                ReasonsOf(kind) \subseteq reasons => \E c \in C : c[2] = kind
    BY <2>8, <2>9
  <2>11. QED BY <2>3, <2>10 DEF A, C, reasons, hosts, routes, Mirrored
<1>2. QED BY <1>1, InvHolds, PTL

-----------------------------------------------------------------------------
(* The external feed: where a request and a fetch may be.                   *)

Places == {"idle", "cold", "old", "fetching", "fetched", "waiting", "woken", "lease", "sending", "releasing",
           "done", "already", "sent", "failed"}

(* Moving one request keeps where everybody is typed. *)
LEMMA MovesTyped ==
  ASSUME FeedTypeOK, NEW f \in Fetchers, NEW from, NEW to \in Places, Moves(f, from, to)
  PROVE  at' \in [Fetchers -> Places]
BY DEF FeedTypeOK, Places, Moves, Ended

LEMMA AfterFeedTyped ==
  ASSUME NEW p, NEW got
  PROVE  AfterFeed(p, got) \in {"lease", "done"}
BY DEF AfterFeed

LEMMA RequestTyped ==
  ASSUME FeedTypeOK, NEW p \in Requests, RequestStep(p)
  PROVE  FeedTypeOK'
<1>p. p \in Fetchers /\ FeedTypeOK /\ Background \in Fetchers
  BY DEF Fetchers
<1>0. \A got : AfterFeed(p, got) \in Places
  BY AfterFeedTyped DEF Places
<1>s. Snapshot \in {"nothing", "ride", "gone"}
  BY DEF FeedTypeOK, Snapshot
<1>1. CASE Ask(p)
  <2>1. at' \in [Fetchers -> Places] /\ seen' \in [Requests -> {"nothing", "ride", "gone"}]
    <3>1. CASE cache = "cold"
      <4>1. Moves(p, "idle", "cold") /\ UNCHANGED seen
        BY <1>1, <3>1 DEF Ask
      <4>2. QED BY <1>p, <4>1, MovesTyped DEF Places, FeedTypeOK
    <3>2. CASE cache # "cold" /\ old
      <4>1. Moves(p, "idle", "old") /\ seen' = [seen EXCEPT ![p] = cache]
        BY <1>1, <3>2 DEF Ask
      <4>2. QED BY <1>p, <3>2, <4>1, MovesTyped DEF Places, FeedTypeOK
    <3>3. CASE cache # "cold" /\ ~old
      <4>1. Moves(p, "idle", AfterFeed(p, cache)) /\ seen' = [seen EXCEPT ![p] = cache]
        BY <1>1, <3>3 DEF Ask, Gets
      <4>2. QED BY <1>p, <1>0, <3>3, <4>1, MovesTyped DEF FeedTypeOK
    <3>4. QED BY <3>1, <3>2, <3>3
  <2>2. QED BY <1>1, <1>p, <2>1 DEF Ask, FeedTypeOK, Places, Ended
<1>2. CASE RefreshInBackground(p)
  <2>1. at' \in [Fetchers -> Places]
    BY <1>2, <1>p, <1>0 DEF RefreshInBackground, FeedTypeOK, Places, Ended
  <2>2. QED BY <1>2, <1>p, <2>1 DEF RefreshInBackground, FeedTypeOK, Places, Ended
<1>3. CASE RefreshSynchronously(p)
  <2>1. \E to \in {"waiting", "fetching"} : Moves(p, "cold", to)
    BY <1>3 DEF RefreshSynchronously
  <2>2. at' \in [Fetchers -> Places]
    BY <1>p, <2>1, MovesTyped DEF Places
  <2>3. QED BY <1>3, <1>p, <2>2 DEF RefreshSynchronously, FeedTypeOK, Places, Ended
<1>4. CASE Recheck(p)
  <2>1. at' \in [Fetchers -> Places] /\ seen' \in [Requests -> {"nothing", "ride", "gone"}]
    <3>1. CASE inFlight
      <4>1. Moves(p, "woken", "waiting") /\ UNCHANGED seen
        BY <1>4, <3>1 DEF Recheck
      <4>2. QED BY <1>p, <4>1, MovesTyped DEF Places, FeedTypeOK
    <3>2. CASE ~inFlight
      <4>1. Moves(p, "woken", AfterFeed(p, Snapshot)) /\ seen' = [seen EXCEPT ![p] = Snapshot]
        BY <1>4, <3>2 DEF Recheck, Gets
      <4>2. QED BY <1>p, <1>0, <1>s, <4>1, MovesTyped DEF FeedTypeOK
    <3>3. QED BY <3>1, <3>2
  <2>2. QED BY <1>4, <1>p, <2>1 DEF Recheck, FeedTypeOK, Places, Ended
<1>5. CASE TakeLease(p)
  <2>1. \E to \in {"sending", "already", "failed"} : Moves(p, "lease", to)
    BY <1>5 DEF TakeLease
  <2>2. at' \in [Fetchers -> Places]
    BY <1>p, <2>1, MovesTyped DEF Places
  <2>3. QED BY <1>5, <1>p, <2>2 DEF TakeLease, FeedTypeOK, Places, Ended
<1>6. CASE SendInvite(p)
  <2>1. \E to \in {"sent", "releasing"} : Moves(p, "sending", to)
    BY <1>6 DEF SendInvite
  <2>2. at' \in [Fetchers -> Places]
    BY <1>p, <2>1, MovesTyped DEF Places
  <2>3. slips' \subseteq Slips /\ mails' \in Nat
    <3>1. /\ mails' = mails + 1 \/ mails' = mails
          /\ \E S \in {{}, {"refused"}, {"unconfirmed"}} : slips' = slips \cup S
      BY <1>6 DEF SendInvite
    <3>2. mails \in Nat /\ slips \subseteq Slips
      BY DEF FeedTypeOK
    <3>3. slips' \subseteq Slips
      BY <3>1, <3>2 DEF Slips
    <3>4. mails' \in Nat
      BY <3>1, <3>2
    <3>5. QED BY <3>3, <3>4
  <2>4. QED BY <1>6, <1>p, <2>2, <2>3 DEF SendInvite, FeedTypeOK, Places, Ended
<1>7. CASE ReleaseLease(p)
  <2>1. at' \in [Fetchers -> Places]
    BY <1>7, <1>p, MovesTyped DEF ReleaseLease, Places
  <2>2. QED BY <1>7, <1>p, <2>1 DEF ReleaseLease, FeedTypeOK, Places, Ended, Slips
<1>8. QED BY <1>1, <1>2, <1>3, <1>4, <1>5, <1>6, <1>7 DEF RequestStep

LEMMA FetchTyped ==
  ASSUME FeedTypeOK, NEW f \in Fetchers, FetchStep(f)
  PROVE  FeedTypeOK'
<1>s. Snapshot \in {"nothing", "ride", "gone"}
  BY DEF FeedTypeOK, Snapshot
<1>1. CASE Fetch(f)
  <2>1. at' \in [Fetchers -> Places]
    BY <1>1, MovesTyped DEF Fetch, Places
  <2>2. QED BY <1>1, <2>1 DEF Fetch, FeedTypeOK, Places, Ended
<1>2. CASE WakeAll(f)
  <2>1. \A w \in Fetchers : Woken(w) \in Places
    BY DEF Woken, FeedTypeOK, Places, Ended
  <2>2. AfterFeed(f, Snapshot) \in Places
    BY AfterFeedTyped DEF Places
  <2>3. at' \in [Fetchers -> Places] /\ seen' \in [Requests -> {"nothing", "ride", "gone"}]
    <3>1. CASE f = Background
      BY <1>2, <2>1, <3>1 DEF WakeAll, FeedTypeOK, Places
    <3>2. CASE f # Background
      BY <1>2, <1>s, <2>1, <2>2, <3>2 DEF WakeAll, FeedTypeOK, Fetchers
    <3>3. QED BY <3>1, <3>2
  <2>4. QED BY <1>2, <2>3 DEF WakeAll, FeedTypeOK, Places, Ended
<1>3. QED BY <1>1, <1>2 DEF FetchStep

LEMMA FeedTyped == FeedTypeOK /\ [FeedNext]_feedVars => FeedTypeOK'
<1>1. SUFFICES ASSUME FeedTypeOK, [FeedNext]_feedVars PROVE FeedTypeOK'
  OBVIOUS
<1>2. CASE UNCHANGED feedVars
  BY <1>1, <1>2 DEF feedVars, FeedTypeOK
<1>3. CASE \E p \in Requests : RequestStep(p)
  BY <1>1, <1>3, RequestTyped
<1>4. CASE \E f \in Fetchers : FetchStep(f)
  BY <1>1, <1>4, FetchTyped
<1>5. CASE GrowOld \/ Delist
  BY <1>1, <1>5 DEF GrowOld, Delist, FeedTypeOK
<1>6. CASE FeedCrash
  <2>1. at' \in [Fetchers -> Places]
    BY <1>1, <1>6 DEF FeedCrash, FeedTypeOK, Places, Ended
  <2>2. QED BY <1>1, <1>6, <2>1 DEF FeedCrash, FeedTypeOK, Places, Ended, Slips
<1>7. QED BY <1>1, <1>2, <1>3, <1>4, <1>5, <1>6 DEF FeedNext

(* The cache, the flag and everybody's place in the handlers stay well     *)
(* formed.                                                                 *)
THEOREM FeedTypeCorrect == FeedSpec => []FeedTypeOK
<1>1. FeedInit => FeedTypeOK
  <2>1. SUFFICES ASSUME FeedInit PROVE FeedTypeOK
    OBVIOUS
  <2>2. at \in [Fetchers -> Places] /\ seen \in [Requests -> {"nothing", "ride", "gone"}]
    BY <2>1 DEF FeedInit, Places
  <2>3. QED BY <2>1, <2>2 DEF FeedInit, FeedTypeOK, Places, Ended
<1>2. QED BY <1>1, FeedTyped, PTL DEF FeedSpec

-----------------------------------------------------------------------------
(* One fetch at a time. *)

(* A step that starts and ends no fetch and lets nobody wait leaves the     *)
(* condition as it is.                                                      *)
LEMMA OthersForgetNobody ==
  ASSUME NobodyForgotten, NEW p \in Fetchers,
         \A f \in Fetchers \ {p} : at'[f] = at[f],
         at[p] \notin {"fetching", "fetched"}, at'[p] \notin {"fetching", "fetched"},
         at'[p] = "waiting" => inFlight,
         inFlight' = inFlight
  PROVE  NobodyForgotten'
<1>1. Fetching' = Fetching
  BY DEF Fetching
<1>2. \A q \in Requests : at'[q] = "waiting" => inFlight
  BY DEF NobodyForgotten, Fetchers
<1>3. QED BY <1>1, <1>2 DEF NobodyForgotten

LEMMA RequestForgetsNobody ==
  ASSUME FeedTypeOK, NobodyForgotten, NEW p \in Requests, RequestStep(p)
  PROVE  NobodyForgotten'
<1>p. /\ p \in Fetchers /\ Background \in Fetchers /\ p # Background
      /\ DOMAIN at = Fetchers /\ inFlight \in BOOLEAN
  BY FeedAssumption DEF Fetchers, FeedTypeOK
<1>a. \A got : AfterFeed(p, got) \in {"lease", "done"}
  BY AfterFeedTyped
<1>1. CASE Ask(p) \/ Recheck(p) \/ TakeLease(p) \/ SendInvite(p) \/ ReleaseLease(p)
  <2>1. /\ inFlight' = inFlight
        /\ \E from \in {"idle", "woken", "lease", "sending", "releasing"},
             to \in {"cold", "old", "lease", "done", "waiting", "sending", "already", "failed", "sent", "releasing"} :
             Moves(p, from, to) /\ (to = "waiting" => inFlight)
    <3>1. CASE Ask(p)
      BY <1>a, <3>1 DEF Ask, Gets
    <3>2. CASE Recheck(p)
      BY <1>a, <3>2 DEF Recheck, Gets
    <3>3. CASE TakeLease(p)
      BY <3>3 DEF TakeLease
    <3>4. CASE SendInvite(p)
      BY <3>4 DEF SendInvite
    <3>5. CASE ReleaseLease(p)
      BY <3>5 DEF ReleaseLease
    <3>6. QED BY <1>1, <3>1, <3>2, <3>3, <3>4, <3>5
  <2>2. /\ \A f \in Fetchers \ {p} : at'[f] = at[f]
        /\ at[p] \notin {"fetching", "fetched"} /\ at'[p] \notin {"fetching", "fetched"}
        /\ at'[p] = "waiting" => inFlight
    BY <1>p, <2>1 DEF Moves
  <2>3. QED BY <1>p, <2>1, <2>2, OthersForgetNobody
<1>2. CASE RefreshInBackground(p)
  <2>1. /\ inFlight' = TRUE /\ at[p] = "old" /\ at'[p] \in {"lease", "done"}
        /\ at'[Background] = IF inFlight THEN at[Background] ELSE "fetching"
        /\ \A f \in Fetchers \ {p, Background} : at'[f] = at[f]
    BY <1>2, <1>p, <1>a DEF RefreshInBackground
  <2>2. CASE inFlight
    BY <1>p, <2>1, <2>2, OthersForgetNobody
  <2>3. CASE ~inFlight
    <3>1. Fetching = {}
      BY <2>3 DEF NobodyForgotten
    <3>2. \A f \in Fetchers : at'[f] \in {"fetching", "fetched"} <=> f = Background
      BY <1>p, <2>1, <2>3, <3>1 DEF Fetching
    <3>3. Fetching' = {Background}
      BY <1>p, <3>2 DEF Fetching
    <3>4. QED BY <2>1, <3>3 DEF NobodyForgotten
  <2>4. QED BY <2>2, <2>3
<1>3. CASE RefreshSynchronously(p)
  <2>1. /\ inFlight' = TRUE /\ at[p] = "cold"
        /\ at'[p] = IF inFlight THEN "waiting" ELSE "fetching"
        /\ \A f \in Fetchers \ {p} : at'[f] = at[f]
    BY <1>3, <1>p DEF RefreshSynchronously, Moves
  <2>2. CASE inFlight
    BY <1>p, <2>1, <2>2, OthersForgetNobody
  <2>3. CASE ~inFlight
    <3>1. Fetching = {}
      BY <2>3 DEF NobodyForgotten
    <3>2. Fetching' = {p}
      BY <1>p, <2>1, <2>3, <3>1 DEF Fetching
    <3>3. QED BY <2>1, <3>2 DEF NobodyForgotten
  <2>4. QED BY <2>2, <2>3
<1>4. QED BY <1>1, <1>2, <1>3 DEF RequestStep

LEMMA FetchForgetsNobody ==
  ASSUME FeedTypeOK, NobodyForgotten, NEW f \in Fetchers, FetchStep(f)
  PROVE  NobodyForgotten'
<1>f. DOMAIN at = Fetchers
  BY DEF FeedTypeOK
<1>1. CASE Fetch(f)
  <2>1. /\ inFlight' = inFlight /\ at[f] = "fetching" /\ at'[f] = "fetched"
        /\ \A w \in Fetchers \ {f} : at'[w] = at[w]
    BY <1>1, <1>f DEF Fetch, Moves
  <2>2. Fetching' = Fetching
    BY <2>1 DEF Fetching
  <2>3. \A p \in Requests : at'[p] = "waiting" => inFlight
    BY <2>1 DEF NobodyForgotten, Fetchers
  <2>4. QED BY <2>1, <2>2, <2>3 DEF NobodyForgotten
<1>2. CASE WakeAll(f)
  <2>1. /\ ~inFlight' /\ at[f] = "fetched"
        /\ at'[f] \in {"idle", "lease", "done"}
        /\ \A w \in Fetchers \ {f} : at'[w] = Woken(w)
    BY <1>2, AfterFeedTyped DEF WakeAll
  <2>2. \A w \in Fetchers \ {f} : at[w] \notin {"fetching", "fetched"}
    BY <2>1 DEF NobodyForgotten, Fetching
  <2>3. \A w \in Fetchers : at'[w] \notin {"fetching", "fetched", "waiting"}
    BY <2>1, <2>2 DEF Woken
  <2>4. Fetching' = {}
    BY <2>3 DEF Fetching
  <2>5. QED BY <2>1, <2>3, <2>4 DEF NobodyForgotten, Fetchers
<1>3. QED BY <1>1, <1>2 DEF FetchStep

(* One fetch runs at a time, the flag tells whether one does, and nobody    *)
(* waits on the condition variable without one: whoever waits is woken by   *)
(* it (external_rides.go:297-336).                                          *)
THEOREM OneFetchAtATime == FeedSpec => []NobodyForgotten
<1>1. FeedInit => NobodyForgotten
  BY DEF FeedInit, NobodyForgotten, Fetching, Fetchers
<1>2. FeedTypeOK /\ NobodyForgotten /\ [FeedNext]_feedVars => NobodyForgotten'
  <2>1. SUFFICES ASSUME FeedTypeOK, NobodyForgotten, [FeedNext]_feedVars PROVE NobodyForgotten'
    OBVIOUS
  <2>2. CASE UNCHANGED feedVars \/ GrowOld \/ Delist
    BY <2>1, <2>2 DEF feedVars, GrowOld, Delist, NobodyForgotten, Fetching
  <2>3. CASE \E p \in Requests : RequestStep(p)
    BY <2>1, <2>3, RequestForgetsNobody
  <2>4. CASE \E f \in Fetchers : FetchStep(f)
    BY <2>1, <2>4, FetchForgetsNobody
  <2>5. CASE FeedCrash
    <3>1. /\ ~inFlight'
          /\ \A f \in Fetchers : at'[f] \in {"idle", "already", "sent", "failed"}
      BY <2>5 DEF FeedCrash
    <3>2. QED BY <3>1 DEF NobodyForgotten, Fetching, Fetchers
  <2>6. QED BY <2>1, <2>2, <2>3, <2>4, <2>5 DEF FeedNext
<1>3. QED BY <1>1, <1>2, FeedTypeCorrect, PTL DEF FeedSpec

-----------------------------------------------------------------------------
(* One mail per host. *)

AtWork(p) == at[p] \in {"sending", "releasing"}

(* The mails that a failed call may have sent after all. *)
Unsure == IF "unconfirmed" \in slips THEN 1 ELSE 0

(* Who is at work holds the lease, alone.  A mail beyond the unsure ones    *)
(* leaves the lease taken for good.                                         *)
LeaseInv ==
  /\ \A p \in Inviters : AtWork(p) => lease
  /\ \A p, q \in Inviters : AtWork(p) /\ AtWork(q) => p = q
  /\ \A p \in Requests \ Inviters : at[p] \notin {"lease", "sending", "releasing", "already"}
  /\ mails <= 1 + Unsure
  /\ (~lease \/ \E p \in Inviters : at[p] = "sending") => mails <= Unsure
  /\ (\E p \in Inviters : at[p] = "releasing") => mails <= Unsure
  /\ (\E p \in Inviters : at[p] = "releasing") => "refused" \in slips \/ mails # 0
  /\ "unreleased" \in slips => "refused" \in slips \/ mails # 0
  /\ (lease /\ mails = 0) =>
       (\E p \in Inviters : AtWork(p)) \/ slips \cap {"crash", "unreleased"} # {}
  /\ (mails = 0 /\ \E p \in Inviters : at[p] = "already") =>
       (\E p \in Inviters : AtWork(p)) \/ slips \cap {"crash", "refused"} # {}

LEMMA UnsureCount == Cardinality(slips \cap {"unconfirmed"}) = Unsure
<1>1. CASE "unconfirmed" \in slips
  <2>1. slips \cap {"unconfirmed"} = {"unconfirmed"}
    BY <1>1
  <2>2. QED BY <1>1, <2>1, FS_Singleton DEF Unsure
<1>2. CASE "unconfirmed" \notin slips
  <2>1. slips \cap {"unconfirmed"} = {}
    BY <1>2
  <2>2. QED BY <1>2, <2>1, FS_EmptySet DEF Unsure
<1>3. QED BY <1>1, <1>2

LEMMA LeaseEnough == LeaseInv => InvitesOnce
BY UnsureCount DEF LeaseInv, InvitesOnce, AtWork

(* The steps that touch neither the row nor the mails, nor anybody who is   *)
(* about to.                                                                *)
LEMMA OthersKeepLease ==
  ASSUME FeedTypeOK, LeaseInv, UNCHANGED <<lease, mails, slips>>,
         \A p \in Requests : at'[p] # at[p] => ~AtWork(p) /\ at'[p] \notin {"sending", "releasing", "already"},
         \A p \in Requests \ Inviters : at'[p] # "lease"
  PROVE  LeaseInv'
<1>1. \A p \in Requests : AtWork(p)' <=> AtWork(p)
  BY DEF AtWork
<1>2. \A p \in Requests : \A s \in {"sending", "releasing"} : at'[p] = s <=> at[p] = s
  BY DEF AtWork
<1>3. \A p \in Requests : at'[p] = "already" => at[p] = "already"
  OBVIOUS
<1>4. Unsure' = Unsure
  BY DEF Unsure
<1>5. Inviters \subseteq Requests
  BY DEF Requests
<1>6. QED BY <1>1, <1>2, <1>3, <1>4, <1>5 DEF LeaseInv

LEMMA AskKeepsLease ==
  ASSUME FeedTypeOK, LeaseInv, NEW p \in Requests,
         Ask(p) \/ RefreshInBackground(p) \/ RefreshSynchronously(p) \/ Recheck(p)
  PROVE  LeaseInv'
<1>p. DOMAIN at = Fetchers /\ p \in Fetchers /\ Background \notin Requests /\ Requests \subseteq Fetchers
  BY FeedAssumption DEF FeedTypeOK, Fetchers
<1>1. UNCHANGED <<lease, mails, slips>>
  BY DEF Ask, RefreshInBackground, RefreshSynchronously, Recheck, Gets
<1>2. /\ \A q \in Requests \ {p} : at'[q] = at[q]
      /\ at[p] \in {"idle", "old", "cold", "woken"}
      /\ at'[p] \in {"cold", "old", "waiting", "fetching", "done"} \/ (at'[p] = "lease" /\ p \in Inviters)
  <2>1. \A got : AfterFeed(p, got) = "done" \/ (AfterFeed(p, got) = "lease" /\ p \in Inviters)
    BY DEF AfterFeed
  <2>2. CASE Ask(p)
    BY <1>p, <2>1, <2>2 DEF Ask, Gets, Moves
  <2>3. CASE RefreshInBackground(p)
    BY <1>p, <2>1, <2>3 DEF RefreshInBackground
  <2>4. CASE RefreshSynchronously(p)
    BY <1>p, <2>4 DEF RefreshSynchronously, Moves
  <2>5. CASE Recheck(p)
    BY <1>p, <2>1, <2>5 DEF Recheck, Gets, Moves
  <2>6. QED BY <2>2, <2>3, <2>4, <2>5
<1>3. \A q \in Requests : at'[q] # at[q] => ~AtWork(q) /\ at'[q] \notin {"sending", "releasing", "already"}
  BY <1>2 DEF AtWork
<1>4. \A q \in Requests \ Inviters : at'[q] # "lease"
  BY <1>2 DEF LeaseInv
<1>5. QED BY <1>1, <1>3, <1>4, OthersKeepLease

LEMMA FetchKeepsLease ==
  ASSUME FeedTypeOK, LeaseInv, NEW f \in Fetchers, FetchStep(f)
  PROVE  LeaseInv'
<1>p. DOMAIN at = Fetchers /\ Background \notin Requests /\ Requests \subseteq Fetchers
  BY FeedAssumption DEF FeedTypeOK, Fetchers
<1>1. UNCHANGED <<lease, mails, slips>>
  BY DEF FetchStep, Fetch, WakeAll
<1>2. /\ at[f] \in {"fetching", "fetched"}
      /\ f \in Requests => at'[f] \in {"fetched", "done"} \/ (at'[f] = "lease" /\ f \in Inviters)
      /\ \A q \in Fetchers \ {f} : at'[q] = at[q] \/ (at[q] = "waiting" /\ at'[q] = "woken")
  <2>1. CASE Fetch(f)
    BY <1>p, <2>1 DEF Fetch, Moves
  <2>2. CASE WakeAll(f)
    BY <1>p, <2>2 DEF WakeAll, Woken, AfterFeed
  <2>3. QED BY <2>1, <2>2 DEF FetchStep
<1>3. \A q \in Requests : at'[q] # at[q] => ~AtWork(q) /\ at'[q] \notin {"sending", "releasing", "already"}
  BY <1>p, <1>2 DEF AtWork
<1>4. \A q \in Requests \ Inviters : at'[q] # "lease"
  BY <1>p, <1>2 DEF LeaseInv
<1>5. QED BY <1>1, <1>3, <1>4, OthersKeepLease

(* Nobody else moves when the handler of one host takes, uses or gives back *)
(* the lease.                                                               *)
LEMMA LeaseMoves ==
  ASSUME FeedTypeOK, LeaseInv, NEW p \in Requests, NEW from \in {"lease", "sending", "releasing"}, NEW to,
         Moves(p, from, to)
  PROVE  /\ p \in Inviters /\ Inviters \subseteq Requests
         /\ at[p] = from /\ at'[p] = to
         /\ \A q \in Requests \ {p} : at'[q] = at[q]
         /\ mails \in Nat /\ lease \in BOOLEAN
         /\ from # "lease" => lease
         /\ from # "lease" => \A q \in Inviters \ {p} : ~AtWork(q) /\ at'[q] \notin {"sending", "releasing"}
<1>1. p \in Inviters /\ Inviters \subseteq Requests /\ at[p] = from
  BY DEF LeaseInv, Moves, Requests
<1>2. at'[p] = to /\ \A q \in Requests \ {p} : at'[q] = at[q]
  BY DEF FeedTypeOK, Moves, Fetchers
<1>3. mails \in Nat /\ lease \in BOOLEAN
  BY DEF FeedTypeOK
<1>4. from # "lease" => AtWork(p)
  BY <1>1 DEF AtWork
<1>5. from # "lease" => lease /\ \A q \in Inviters \ {p} : ~AtWork(q)
  BY <1>1, <1>4 DEF LeaseInv
<1>6. QED BY <1>1, <1>2, <1>3, <1>5 DEF AtWork

LEMMA TakeKeepsLease ==
  ASSUME FeedTypeOK, LeaseInv, NEW p \in Requests, TakeLease(p)
  PROVE  LeaseInv'
<1>1. \E to : Moves(p, "lease", to)
  BY DEF TakeLease
<1>2. /\ p \in Inviters /\ Inviters \subseteq Requests
      /\ at[p] = "lease" /\ \A q \in Requests \ {p} : at'[q] = at[q]
      /\ mails \in Nat /\ lease \in BOOLEAN
  BY <1>1, LeaseMoves
<1>3. mails' = mails /\ slips' = slips /\ Unsure' = Unsure
  BY DEF TakeLease, Unsure
<1>4. \/ ~lease /\ at'[p] = "sending" /\ lease'
      \/ lease /\ at'[p] = "already" /\ lease' = lease
      \/ at'[p] = "failed" /\ lease' = lease
  BY <1>2 DEF TakeLease, Moves, FeedTypeOK, Fetchers
<1>5. CASE ~lease /\ at'[p] = "sending" /\ lease'
  <2>1. \A q \in Inviters : ~AtWork(q) /\ at[q] \notin {"sending", "releasing"}
    BY <1>5 DEF LeaseInv, AtWork
  <2>2. \A q \in Inviters : AtWork(q)' <=> q = p
    BY <1>2, <1>5, <2>1 DEF AtWork
  <2>3. \A q \in Inviters : at'[q] # "releasing"
    BY <1>2, <1>5, <2>1
  <2>4. mails <= Unsure
    BY <1>5 DEF LeaseInv
  <2>5. QED BY <1>2, <1>3, <1>5, <2>2, <2>3, <2>4 DEF LeaseInv
<1>6. CASE at'[p] \in {"already", "failed"} /\ lease' = lease /\ (at'[p] = "already" => lease)
  <2>1. \A q \in Inviters : AtWork(q)' <=> AtWork(q)
    BY <1>2, <1>6 DEF AtWork
  <2>2. \A q \in Inviters : \A s \in {"sending", "releasing"} : at'[q] = s <=> at[q] = s
    BY <1>2, <1>6
  <2>3. (mails = 0 /\ \E q \in Inviters : at'[q] = "already") =>
          (\E q \in Inviters : AtWork(q)) \/ slips \cap {"crash", "refused"} # {}
    <3>1. CASE at'[p] = "already"
      BY <1>2, <1>6, <3>1 DEF LeaseInv
    <3>2. CASE at'[p] = "failed"
      BY <1>2, <3>2 DEF LeaseInv
    <3>3. QED BY <1>6, <3>1, <3>2
  <2>4. QED BY <1>2, <1>3, <1>6, <2>1, <2>2, <2>3 DEF LeaseInv
<1>7. QED BY <1>4, <1>5, <1>6

LEMMA SendKeepsLease ==
  ASSUME FeedTypeOK, LeaseInv, NEW p \in Requests, SendInvite(p)
  PROVE  LeaseInv'
<1>1. \E to : Moves(p, "sending", to)
  BY DEF SendInvite
<1>2. /\ p \in Inviters /\ Inviters \subseteq Requests
      /\ at[p] = "sending" /\ \A q \in Requests \ {p} : at'[q] = at[q]
      /\ mails \in Nat /\ lease = TRUE
      /\ \A q \in Inviters \ {p} : ~AtWork(q) /\ at'[q] \notin {"sending", "releasing"}
  BY <1>1, LeaseMoves
<1>3. lease' = lease /\ mails <= Unsure
  BY <1>2 DEF SendInvite, LeaseInv
<1>4. Unsure \in {0, 1}
  BY DEF Unsure
<1>5. \A q \in Requests \ Inviters : at'[q] = at[q]
  BY <1>2
<1>6. CASE Moves(p, "sending", "sent") /\ mails' = mails + 1 /\ UNCHANGED slips
  <2>1. at'[p] = "sent" /\ Unsure' = Unsure
    BY <1>6 DEF Moves, FeedTypeOK, Fetchers, Unsure
  <2>2. \A q \in Inviters : ~AtWork(q)' /\ at'[q] \notin {"sending", "releasing"}
    BY <1>2, <2>1 DEF AtWork
  <2>3. mails' <= 1 + Unsure' /\ mails' # 0
    BY <1>2, <1>3, <1>4, <1>6, <2>1
  <2>4. QED BY <1>2, <1>3, <1>5, <2>2, <2>3 DEF LeaseInv
<1>7. CASE /\ Moves(p, "sending", "releasing")
           /\ \/ slips' = slips \cup {"refused"} /\ mails' = mails
              \/ "unconfirmed" \notin slips /\ slips' = slips \cup {"unconfirmed"} /\ mails' = mails + 1
  <2>1. at'[p] = "releasing"
    BY <1>7 DEF Moves, FeedTypeOK, Fetchers
  <2>2. \A q \in Inviters : (AtWork(q)' <=> q = p) /\ at'[q] # "sending"
    BY <1>2, <2>1 DEF AtWork
  <2>3. mails' <= Unsure' /\ mails' <= 1 + Unsure'
    <3>1. CASE slips' = slips \cup {"refused"} /\ mails' = mails
      BY <1>2, <1>3, <1>4, <3>1 DEF Unsure
    <3>2. CASE "unconfirmed" \notin slips /\ slips' = slips \cup {"unconfirmed"} /\ mails' = mails + 1
      BY <1>2, <1>3, <3>2 DEF Unsure
    <3>3. QED BY <1>7, <3>1, <3>2
  <2>4. "refused" \in slips' \/ mails' # 0
    <3>1. CASE slips' = slips \cup {"refused"}
      BY <3>1
    <3>2. CASE mails' = mails + 1
      BY <1>2, <3>2
    <3>3. QED BY <1>7, <3>1, <3>2
  <2>5. QED BY <1>2, <1>3, <1>5, <2>1, <2>2, <2>3, <2>4 DEF LeaseInv
<1>8. QED BY <1>6, <1>7 DEF SendInvite

LEMMA ReleaseKeepsLease ==
  ASSUME FeedTypeOK, LeaseInv, NEW p \in Requests, ReleaseLease(p)
  PROVE  LeaseInv'
<1>1. Moves(p, "releasing", "failed")
  BY DEF ReleaseLease
<1>2. /\ p \in Inviters /\ Inviters \subseteq Requests
      /\ at[p] = "releasing" /\ at'[p] = "failed" /\ \A q \in Requests \ {p} : at'[q] = at[q]
      /\ mails \in Nat /\ lease = TRUE
      /\ \A q \in Inviters \ {p} : ~AtWork(q) /\ at'[q] \notin {"sending", "releasing"}
  BY <1>1, LeaseMoves
<1>3. mails' = mails /\ mails <= Unsure /\ ("refused" \in slips \/ mails # 0)
  BY <1>2 DEF ReleaseLease, LeaseInv
<1>4. /\ \/ lease' = FALSE /\ slips' = slips
         \/ lease' = TRUE /\ slips' = slips \cup {"unreleased"}
      /\ Unsure' = Unsure
  BY <1>2 DEF ReleaseLease, Unsure
<1>5. \A q \in Inviters : ~AtWork(q)' /\ at'[q] \notin {"sending", "releasing"}
  BY <1>2 DEF AtWork
<1>6. mails' <= Unsure' /\ mails' <= 1 + Unsure'
  BY <1>2, <1>3, <1>4 DEF Unsure
<1>7. "refused" \in slips' \/ mails' # 0
  BY <1>3, <1>4
<1>8. \A q \in Requests \ Inviters : at'[q] = at[q]
  BY <1>2
<1>9. QED BY <1>2, <1>4, <1>5, <1>6, <1>7, <1>8 DEF LeaseInv

LEMMA LeaseKept == FeedTypeOK /\ LeaseInv /\ [FeedNext]_feedVars => LeaseInv'
<1>1. SUFFICES ASSUME FeedTypeOK, LeaseInv, [FeedNext]_feedVars PROVE LeaseInv'
  OBVIOUS
<1>2. CASE UNCHANGED feedVars \/ GrowOld \/ Delist
  <2>1. UNCHANGED <<at, lease, mails, slips>>
    BY <1>2 DEF feedVars, GrowOld, Delist
  <2>2. QED BY <1>1, <2>1 DEF LeaseInv, AtWork, Unsure
<1>3. CASE \E p \in Requests : RequestStep(p)
  BY <1>1, <1>3, AskKeepsLease, TakeKeepsLease, SendKeepsLease, ReleaseKeepsLease DEF RequestStep
<1>4. CASE \E f \in Fetchers : FetchStep(f)
  BY <1>1, <1>4, FetchKeepsLease
<1>5. CASE FeedCrash
  <2>1. /\ UNCHANGED <<lease, mails>> /\ slips' = slips \cup {"crash"} /\ mails \in Nat
        /\ Unsure' = Unsure
    BY <1>1, <1>5 DEF FeedCrash, Unsure, FeedTypeOK
  <2>2. \A p \in Requests : /\ at'[p] \notin {"lease", "sending", "releasing"}
                            /\ at'[p] = "already" => at[p] = "already"
    BY <1>5, FeedAssumption DEF FeedCrash, Fetchers
  <2>3. \A p \in Inviters : ~AtWork(p)' /\ at'[p] \notin {"sending", "releasing"}
    BY <2>2 DEF AtWork, Requests
  <2>4. (lease' \/ mails' <= Unsure') /\ mails' <= 1 + Unsure'
    BY <1>1, <2>1 DEF LeaseInv, Unsure, FeedTypeOK
  <2>5. "unreleased" \in slips' => "refused" \in slips' \/ mails' # 0
    BY <1>1, <2>1 DEF LeaseInv
  <2>6. QED BY <1>1, <2>1, <2>2, <2>3, <2>4, <2>5 DEF LeaseInv
<1>6. QED BY <1>1, <1>2, <1>3, <1>4, <1>5 DEF FeedNext

(* Whatever requests, retries, refused mails, failed deletions and a crash *)
(* do, the host of an external ride gets one mail, a second only if one    *)
(* left that looked refused; and a lease or an answer without a mail has a *)
(* reason (external_invite.go:79-116).                                     *)
THEOREM InvitedOnce == FeedSpec => []InvitesOnce
<1>1. FeedInit => LeaseInv
  BY FeedAssumption DEF FeedInit, LeaseInv, AtWork, Unsure, Requests, Fetchers
<1>2. QED BY <1>1, LeaseKept, LeaseEnough, FeedTypeCorrect, PTL DEF FeedSpec
=============================================================================
