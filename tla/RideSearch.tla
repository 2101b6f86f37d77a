---------------------------- MODULE RideSearch ----------------------------
(***************************************************************************)
(* The three ways to find a ride: the pages of /ride/search, the strict    *)
(* matches shown to somebody about to post a ride of their own, and the    *)
(* rides near a point with their count.  Each has SQL of its own over the  *)
(* same table; a search then rates what it loaded (RideScore), sorts again *)
(* and cuts.  Nothing is written, so the table stays fixed.                *)
(*                                                                         *)
(* The database measures distance on a flat map and the server on a        *)
(* sphere: they differ by skew.  Both sort with algorithms that leave the  *)
(* order of ties open.                                                     *)
(***************************************************************************)
EXTENDS RideScore

CONSTANTS
  Viewer,         \* the user who asks; rides name their host
  Cases,          \* the pairs of a table and a query to look at
  Failures,       \* sets of database calls that fail together
  Skews,          \* differences between flat and spherical distance
  CandidateFactor, CandidateFloor, CandidateCeiling, \* 8, 80 and 250 in the code
  Similar,        \* the pairs of names whose trigrams are alike
  StrictLimit,    \* 5: strict matches returned; three times as many are read
  MaxPages        \* bound: pages asked for

ASSUME RideSearchAssumption ==
  /\ {CandidateFactor, CandidateFloor, CandidateCeiling} \subseteq Nat \ {0}
  /\ StrictLimit \in Nat \ {0} /\ MaxPages \in Nat
  /\ \A s \in Skews : s \in -5..5
  /\ Cases \subseteq (SUBSET RideRows) \X Queries
  /\ \A c \in Cases : IsFiniteSet(c[1]) /\ c[2].limit <= CandidateCeiling \* 50 cards at most

VARIABLES
  rides,   \* rows of rides with what a search reads of their hosts and bookings
  query,
  skew,
  pages,   \* the answers of /ride/search so far, at offsets 0, limit, 2 limit...
  matches, \* the answer of /ride/matching-create
  nearby   \* the answers of /ride/nearby and /ride/nearby-count

vars == <<rides, query, skew, pages, matches, nearby>>

-----------------------------------------------------------------------------
(* ORDER BY and sort.Slice: keys are sequences compared from the left. *)

KeyBefore(a, b) ==
  \E i \in DOMAIN a : a[i] < b[i] /\ \A j \in 1..(i - 1) : a[j] = b[j]

Orders(S, Key(_)) ==
  {s \in SetToSeqs(S) : \A i, j \in DOMAIN s : i < j => ~KeyBefore(Key(s[j]), Key(s[i]))}

(* LIMIT n OFFSET o. *)
Slice(s, o, n) == SubSeq(s, o + 1, Least(Len(s), o + n))

-----------------------------------------------------------------------------
(* The candidates of a search. *)

WindowDate(q) == IF q.date # None THEN q.date ELSE IF q.target # None THEN DayOf(q.target) ELSE None

(* A preferred time given as a clock narrows the day to two hours around.   *)
TimeWindow(q) ==
  LET start == WindowDate(q) * Day
  IN  IF q.clock # None /\ q.target = None
      THEN (start + q.clock - 120)..(start + q.clock + 120)
      ELSE start..(start + Day - 1)

BaseSearch(q) ==
  {r \in rides :
     /\ PassengerSeatsLeftPredicate(r.total, r.booked)
     /\ r.time > Now
     /\ r.host # Viewer
     /\ WindowDate(q) # None => r.time \in TimeWindow(q)
     /\ q.maxPrice # None => r.price <= q.maxPrice
     /\ q.minSeats # None => MinSeatsLeftPredicate(r.total, r.booked, q.minSeats)}

(* Mutant: the box in the database is not padded. *)
ConservativeRadiusNoPadding(m) == m

ConservativeRadius(m) == m + Most(5, m \div 100)

FlatDistance(a, b) == CalculateDistance(a, b) + skew

CoordinateRadiusFilter(asked, p, radius) ==
  p # NoPoint /\ FlatDistance(asked, p) <= ConservativeRadius(radius)

(* Only the start narrows the query when both ends have coordinates. *)
CoordinateCandidates(q) ==
  {r \in BaseSearch(q) : IF q.from # NoPoint
                         THEN CoordinateRadiusFilter(q.from, r.from, q.radius)
                         ELSE CoordinateRadiusFilter(q.to, r.to, q.radius)}

FarAway == 1000000
OrderTerm(asked, p) == IF p = NoPoint THEN FarAway ELSE FlatDistance(asked, p)

CoordinateOrder(q, r) ==
  IF HasBoth(q) THEN <<OrderTerm(q.from, r.from) + OrderTerm(q.to, r.to), OrderTerm(q.to, r.to), r.time>>
  ELSE IF q.from # NoPoint THEN <<OrderTerm(q.from, r.from), r.time>>
  ELSE <<OrderTerm(q.to, r.to), r.time>>

(* An end given by its name only. *)
TextStart(q) == q.fromName # <<>> /\ q.from = NoPoint
TextEnd(q)   == q.toName # <<>> /\ q.to = NoPoint
HasText(q)   == TextStart(q) \/ TextEnd(q)

HasCoordinate(q) == q.from # NoPoint \/ q.to # NoPoint

(* The database calls of a search that may fail. *)
Calls(q) ==
  {"hosts", "routes"} \cup (IF HasText(q) THEN {"text", "fallback"} ELSE {})
    \cup (IF HasCoordinate(q) \/ ~HasText(q) THEN {"candidates"} ELSE {})

LocationQuery(asked, v) ==
  \/ TextContains(v, asked)
  \/ /\ MeaningfulWords(asked) # {}
     /\ MeaningfulWords(asked) \subseteq Range(v)
  \/ /\ <<asked, v>> \in Similar
     /\ MeaningfulWords(asked) \cap Range(v) # {}

TextCandidates(q) ==
  {r \in BaseSearch(q) : /\ TextStart(q) => LocationQuery(q.fromName, r.fromName)
                         /\ TextEnd(q)   => LocationQuery(q.toName, r.toName)}

(* The last resort of a text search: the first meaningful word alone. *)
FirstWord(n) == n[Min({i \in DOMAIN n : n[i] \notin WeakWords})]

FallbackFiltered(q) == \/ TextStart(q) /\ MeaningfulWords(q.fromName) # {}
                       \/ TextEnd(q) /\ MeaningfulWords(q.toName) # {}

FallbackCandidates(q) ==
  LET Fits(n, v) == MeaningfulWords(n) # {} => FirstWord(n) \in Range(v)
  IN  {r \in BaseSearch(q) : /\ TextStart(q) => Fits(q.fromName, r.fromName)
                             /\ TextEnd(q)   => Fits(q.toName, r.toName)}

CandidateLimit(q) == Least(CandidateCeiling, Most(CandidateFloor, CandidateFactor * q.limit))

(* The sets of rides that loadSearchRideCandidates may return. *)
Loads(S, Key(_), offset) ==
  {Range(Slice(s, offset, CandidateLimit(query))) : s \in Orders(S, Key)}

(* Mutant: the latest departures are loaded first. *)
LatestFirst(r) == <<-r.time>>

StartTimeOrder(r) == <<r.time>>

-----------------------------------------------------------------------------
(* One page. *)

(* In memory, both ends count where the search has a coordinate at all. *)
WithinRadius(q, r) ==
  /\ q.from # NoPoint => StartDistance(q, r) \in 0..q.radius
  /\ q.to # NoPoint   => EndDistance(q, r) \in 0..q.radius

TotalDistance(q, r) ==
  LET s == StartDistance(q, r)
      e == EndDistance(q, r)
  IN  IF s = None /\ e = None THEN FarAway ELSE Most(s, 0) + Most(e, 0)

RankKey(q, r, failed) ==
  CASE q.sort = "time"      -> <<r.time>>
    [] q.sort = "price"     -> <<r.price>>
    [] q.sort = "distance"  -> <<TotalDistance(q, r)>>
    [] q.sort = "relevance" -> <<-RelevanceScore(q, r, "hosts" \notin failed, "routes" \notin failed), r.time>>

(* The rides that a page at this offset may be made from, as sets; no set   *)
(* at all where the request ends in an error.                               *)
FirstLoads(offset, failed) ==
  IF HasCoordinate(query)
  THEN IF "candidates" \in failed THEN {}
       ELSE {a \cup b : a \in Loads(CoordinateCandidates(query), LAMBDA r : CoordinateOrder(query, r), offset),
                        b \in IF HasText(query) /\ "text" \notin failed
                              THEN Loads(TextCandidates(query), StartTimeOrder, offset) ELSE {{}}}
  ELSE IF HasText(query)
  THEN IF "text" \in failed THEN {{}} ELSE Loads(TextCandidates(query), StartTimeOrder, offset)
  ELSE IF "candidates" \in failed THEN {}
  ELSE Loads(BaseSearch(query), StartTimeOrder, offset)

Fallback(offset, failed) ==
  IF ~(HasText(query) /\ FallbackFiltered(query)) THEN {{}}
  ELSE IF "fallback" \notin failed THEN Loads(FallbackCandidates(query), StartTimeOrder, offset)
  ELSE IF "text" \in failed THEN {} ELSE {{}}

Loaded(offset, failed) ==
  UNION {IF S # {} THEN {S} ELSE Fallback(offset, failed) : S \in FirstLoads(offset, failed)}

PagesOf(loaded, failed) ==
  LET shown == {r \in loaded : WithinRadius(query, r)}
  IN  {[status |-> 200, failed |-> failed, cards |-> Slice(s, 0, query.limit)] :
         s \in Orders(shown, LAMBDA r : RankKey(query, r, failed))}

SearchRides(offset, failed) ==
  IF Loaded(offset, failed) = {} THEN {[status |-> 500, failed |-> failed, cards |-> <<>>]}
  ELSE UNION {PagesOf(S, failed) : S \in Loaded(offset, failed)}

-----------------------------------------------------------------------------
(* Strict matches and nearby rides. *)

(* Zero takes the default, and each bound has a maximum. *)
StrictRadius(m) == IF m <= 0 THEN 100 ELSE Least(m, 600)
StrictWindow(h) == IF h <= 0 THEN 180 ELSE Least(h, 720)

StrictTime(q) == IF q.target # None THEN q.target
                 ELSE IF q.date # None THEN q.date * Day + 720 ELSE Now + 60

StrictRows(q, radius, window) ==
  {r \in rides :
     /\ Magnitude(r.time - StrictTime(q)) <= window
     /\ r.total - 1 > r.accepted
     /\ r.ongoing = 0
     /\ CoordinateRadiusFilter(q.from, r.from, radius)
     /\ CoordinateRadiusFilter(q.to, r.to, radius)
     /\ r.host # Viewer
     /\ ~r.requested}

(* The rows are cut at three times the limit before the true distances are  *)
(* looked at.                                                               *)
FindStrictRouteMatches(q, radius, window) ==
  LET Key(r)  == <<FlatDistance(q.from, r.from) + FlatDistance(q.to, r.to), r.time>>
      True(S) == {r \in S : /\ CalculateDistance(q.from, r.from) <= radius
                            /\ CalculateDistance(q.to, r.to) <= radius}
  IN  UNION {{Slice(t, 0, StrictLimit) : t \in Orders(True(Range(Slice(s, 0, 3 * StrictLimit))), Key)} :
               s \in Orders(StrictRows(q, radius, window), Key)}

NearbyRadius(m) == IF m <= 0 THEN 1000 ELSE Least(m, 10000)

InBounds(asked, p, radius) ==
  \A i \in 1..2 : Magnitude(asked[i] - p[i]) <= ConservativeRadius(radius)

(* Mutant: rides under way are near, too. *)
NearbyRowsOngoing(q) ==
  {r \in rides : /\ r.time > Now
                 /\ PassengerSeatsLeftPredicate(r.total, r.booked)
                 /\ r.from # NoPoint
                 /\ CalculateDistance(q.from, r.from) <= NearbyRadius(q.radius)}

NearbyRows(q) ==
  {r \in rides :
     /\ r.time > Now
     /\ PassengerSeatsLeftPredicate(r.total, r.booked)
     /\ r.ongoing = 0
     /\ r.from # NoPoint
     /\ InBounds(q.from, r.from, NearbyRadius(q.radius))
     /\ CalculateDistance(q.from, r.from) <= NearbyRadius(q.radius)}

(* The app may name the viewer as a host to leave out. *)
LoadNearbyRides(q, excluded) ==
  {Slice(s, 0, q.limit) : s \in Orders({r \in NearbyRows(q) : r.host \notin excluded}, StartTimeOrder)}

-----------------------------------------------------------------------------
NoAnswer == [asked |-> FALSE]

Init ==
  /\ \E c \in Cases : rides = c[1] /\ query = c[2]
  /\ skew \in IF HasCoordinate(query) THEN Skews ELSE {0}
  /\ pages = <<>>
  /\ matches = NoAnswer
  /\ nearby = NoAnswer

(* The app asks for the next page at the number of cards it asked for, and  *)
(* stops at an error.                                                       *)
Search ==
  /\ Len(pages) < MaxPages
  /\ \A k \in DOMAIN pages : pages[k].status = 200
  /\ matches = NoAnswer /\ nearby = NoAnswer
  /\ \E failed \in {f \in Failures : f \subseteq Calls(query)} : \E p \in SearchRides(query.limit * Len(pages), failed) :
       pages' = Append(pages, p)
  /\ UNCHANGED <<rides, query, skew, matches, nearby>>

MatchingCreate ==
  /\ HasBoth(query)
  /\ pages = <<>> /\ matches = NoAnswer /\ nearby = NoAnswer
  /\ \E radius \in {StrictRadius(0), StrictRadius(query.radius)} :
     \E window \in {StrictWindow(0), StrictWindow(Day)} :
     \E s \in FindStrictRouteMatches(query, radius, window) :
       matches' = [asked |-> TRUE, cards |-> s, radius |-> radius, window |-> window]
  /\ UNCHANGED <<rides, query, skew, pages, nearby>>

Nearby ==
  /\ query.from # NoPoint
  /\ pages = <<>> /\ matches = NoAnswer /\ nearby = NoAnswer
  /\ \E excluded \in {{}, {Viewer}} : \E s \in LoadNearbyRides(query, excluded) :
       nearby' = [asked |-> TRUE, cards |-> s, excluded |-> excluded, count |-> Cardinality(NearbyRows(query))]
  /\ UNCHANGED <<rides, query, skew, pages, matches>>

Next == Search \/ MatchingCreate \/ Nearby

Spec == Init /\ [][Next]_vars

-----------------------------------------------------------------------------
TypeOK ==
  /\ <<rides, query>> \in Cases
  /\ skew \in Skews \cup {0}
  /\ pages \in Seq([status : {200, 500}, failed : Failures, cards : Seq(rides)])
  /\ Len(pages) <= MaxPages

(* What the user asked for, said over the true distances and free of any    *)
(* candidate list.                                                          *)
Bookable(r) == r.time > Now /\ r.host # Viewer /\ CanAcceptAnotherPassenger(r.total, r.booked)

Wanted(q, r) ==
  /\ Bookable(r)
  /\ WindowDate(q) # None => r.time \in TimeWindow(q)
  /\ q.maxPrice # None => r.price <= q.maxPrice
  /\ q.minSeats # None => PassengerSeatsLeft(r.total, r.booked) >= q.minSeats
  /\ WithinRadius(q, r)

ByText(q) == HasText(q) /\ ~HasCoordinate(q)

Answered == {k \in DOMAIN pages : pages[k].status = 200}

(* Every card of a page is a ride that the user asked for and could book,   *)
(* no ride is there twice, and the order is the one that was asked for.     *)
CardsWanted ==
  \A k \in Answered : LET cards == pages[k].cards IN
    /\ Len(cards) <= query.limit
    /\ \A i, j \in DOMAIN cards : i # j => cards[i] # cards[j]
    /\ \A i \in DOMAIN cards : Wanted(query, cards[i])
    /\ \A i, j \in DOMAIN cards :
         i < j => ~KeyBefore(RankKey(query, cards[j], pages[k].failed), RankKey(query, cards[i], pages[k].failed))

(* Where nothing failed and the candidates were not cut, the first page     *)
(* leaves a ride out only for better ones: the filter in the database, on   *)
(* its flat map, never loses a ride that the true distances let in.         *)
FirstPageComplete ==
  LET first == pages[1]
      left  == {r \in rides : Wanted(query, r)} \ Range(first.cards)
  IN  (/\ pages # <<>>
       /\ first.status = 200 /\ first.failed = {}
       /\ ~ByText(query)
       /\ Cardinality(rides) <= CandidateLimit(query)) =>
        \A r \in left : /\ Len(first.cards) = query.limit
                        /\ \A i \in DOMAIN first.cards :
                             ~KeyBefore(RankKey(query, r, {}), RankKey(query, first.cards[i], {}))

(* searchRides.go:209-1258, nearbyCount.go:69-78: what a page of results    *)
(* promises, however the candidates were found.                             *)
PageRight == CardsWanted /\ FirstPageComplete

ByDeparture(S) ==
  {s \in SetToSeqs(S) : \A i, j \in 1..Cardinality(S) : i < j => s[i].time <= s[j].time}

(* searchRides.go:230, 1253: scrolling through rides by departure, without  *)
(* a place, shows each ride once and in order: page after page is the next  *)
(* piece of all the rides wanted.  (Other orders sort each page by itself,  *)
(* and a search by text that finds nothing falls back to a wider one:       *)
(* there, scrolling may repeat and skip.)                                   *)
PagesPartition ==
  (/\ query.sort = "time" /\ ~HasCoordinate(query) /\ ~HasText(query)
   /\ \A r, s \in rides : r.time = s.time => r = s) =>
     \A s \in ByDeparture({r \in rides : Wanted(query, r)}) :
     \A k \in Answered :
       pages[k].cards = Slice(s, query.limit * (k - 1), query.limit)

(* searchRides.go:869, matchingCreate.go:186, nearbyCount.go:136: the three *)
(* surfaces filter by SQL of their own, and agree.  A strict match that can *)
(* be booked at all is among the results of the same search; the nearby     *)
(* list holds the earliest rides that the count counts, and a search around *)
(* the same point finds them.                                               *)
SurfacesNest ==
  /\ matches.asked =>
       \A r \in Range(matches.cards) :
         (/\ r.time > Now /\ r.booked = r.accepted
          /\ AreCoordinatesValid(r.from) /\ AreCoordinatesValid(r.to)) =>
            Wanted([query EXCEPT !.date = None, !.target = None, !.maxPrice = None, !.minSeats = None,
                                 !.radius = matches.radius], r)
  /\ nearby.asked =>
       LET around == [query EXCEPT !.date = None, !.target = None, !.maxPrice = None, !.minSeats = None,
                                   !.to = NoPoint, !.radius = NearbyRadius(query.radius)]
           near   == {r \in rides : Wanted(around, r) /\ r.ongoing = 0}
           listed == Range(nearby.cards)
       IN  /\ {r \in listed : r.host # Viewer /\ AreCoordinatesValid(r.from)} \subseteq near
           /\ Cardinality(near \cup listed) <= nearby.count
           /\ Len(nearby.cards) = query.limit \/ near \subseteq listed

(* search_scoring.go:105-169: how the weights are meant.  Rides of the      *)
(* chosen day come before those that a preferred time near midnight lets in *)
(* from the next day, however well those fit otherwise; and of two rides    *)
(* equally far from the wanted time, the earlier one comes first ("usually  *)
(* safer than a late one").                                                 *)
IntendedOrder ==
  \A k \in Answered :
    LET cards == pages[k].cards IN
    (query.sort = "relevance" /\ query.radius <= 2000) =>
      \A i, j \in DOMAIN cards : i < j =>
        /\ TargetDay(query) # None =>
             ~(DayOf(cards[i].time) # TargetDay(query) /\ DayOf(cards[j].time) = TargetDay(query))
        /\ (/\ query.target # None
            /\ [cards[i] EXCEPT !.time = cards[j].time] = cards[j]
            /\ cards[i].time - query.target = query.target - cards[j].time
            /\ Magnitude(cards[i].time - query.target) <= 90) => cards[i].time <= cards[j].time

(* The reasons that go with a chip. *)
ReasonsOf(kind) ==
  CASE kind = "top_host"      -> {"Top host"}
    [] kind = "trusted_host"  -> {"Trusted host"}
    [] kind = "repeat_route"  -> {"Your usual route"}
    [] kind = "just_listed"   -> {"Just listed"}
    [] kind = "great_price"   -> {"Great price"}
    [] kind = "within_budget" -> {"Within budget"}
    [] kind = "on_the_way"    -> {"On the way"}
    [] kind = "tomorrow"      -> {"Tomorrow's ride"}
    [] kind \in {"exact_pickup", "near_pickup"} -> {"Very close to pickup"}
    [] kind = "nearby_pickup" -> {"Very close to pickup", "Close to pickup"}
    [] kind \in {"exact_destination", "near_destination"} -> {"Very close to destination"}
    [] kind = "nearby_destination" -> {"Very close to destination", "Close to destination"}

Paired == {"top_host", "trusted_host", "repeat_route", "just_listed", "great_price", "within_budget", "on_the_way",
           "tomorrow", "exact_pickup", "near_pickup", "nearby_pickup", "exact_destination", "near_destination",
           "nearby_destination"}

(* searchRides.go:531-631, search_scoring.go:546-840: a card's chips and    *)
(* its line of reasons are derived twice, with thresholds of their own.     *)
(* Every chip on trust, freshness, price, route and nearness has its reason *)
(* in the line, but that of a destination in the same area.                 *)
ChipsMirrorReasons ==
  \A k \in Answered : \A i \in DOMAIN pages[k].cards :
    LET r       == pages[k].cards[i]
        hosts   == "hosts" \notin pages[k].failed
        routes  == "routes" \notin pages[k].failed
        chips   == MatchSignals(query, r, hosts, routes)
        reasons == MatchReasons(query, r, hosts, routes)
    IN  /\ Cardinality(chips) <= 6
        /\ \A c \in chips : c[2] \in Paired => ReasonsOf(c[2]) \cap reasons # {}
        /\ Cardinality(chips) < 6 =>
             \A kind \in {"top_host", "trusted_host", "repeat_route", "just_listed", "great_price", "within_budget"} :
               ReasonsOf(kind) \subseteq reasons => \E c \in chips : c[2] = kind
=============================================================================
