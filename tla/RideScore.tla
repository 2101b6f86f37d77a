----------------------------- MODULE RideScore -----------------------------
(***************************************************************************)
(* How /ride/search rates a ride against a query: the score, the reasons   *)
(* written under the card, and the chips next to it.                       *)
(*                                                                         *)
(* Points lie on a plane, one unit being 5 m; a coordinate of 0 is one     *)
(* that the app did not set, and NoPoint is NULL.  Times are minutes, day  *)
(* 0 being today in India.  A name is its sequence of normalised words.    *)
(* Scores are in hundredths.                                               *)
(***************************************************************************)
EXTENDS Seats, FiniteSets, FiniteSetsExt, SequencesExt

CONSTANTS
  MapSide,       \* the map is a square of this side
  Points,     \* the points rides and queries use
  Decay,      \* minutes |-> 290 exp(-minutes / 95), in hundredths
  WeakWords,  \* "airport", "station", "the", and words of two letters
  Now         \* the minute at which the query is answered

NoPoint == <<-1, -1>>
None    == -1
Day     == 1440

ASSUME RideScoreAssumption ==
  /\ MapSide \in Nat /\ Points \subseteq (0..MapSide) \X (0..MapSide)
  /\ Now \in Nat
  /\ Decay \in [0..Day -> Nat]

Words == Seq(STRING)

(* What a search reads of a ride, its host and its bookings. *)
RideRows ==
  [host : STRING, from : Points \cup {NoPoint}, to : Points \cup {NoPoint}, fromName : Words, toName : Words,
   time : Int, total : Nat, booked : Nat, accepted : Nat, price : Nat, ongoing : Nat,
   requested : BOOLEAN, past : Nat, usual : BOOLEAN, age : Nat]

(* The parameters of a search, after their defaults. *)
Queries ==
  [sort : {"time", "price", "distance", "relevance"}, limit : Nat \ {0},
   from : Points \cup {NoPoint}, to : Points \cup {NoPoint}, fromName : Words, toName : Words,
   date : Nat \cup {None}, clock : Nat \cup {None}, target : Nat \cup {None},
   bucket : {"any", "morning", "afternoon", "evening", "night"}, radius : Nat,
   maxPrice : Nat \cup {None}, minSeats : Nat \cup {None}]

DayOf(t) == t \div Day
HourOf(t) == (t % Day) \div 60

Magnitude(n) == IF n < 0 THEN -n ELSE n
Least(a, b) == IF a < b THEN a ELSE b
Most(a, b)  == IF a < b THEN b ELSE a

(* The value of the first tier <<limit, value>> that d is within. *)
Tier(d, tiers, other) ==
  LET hit == {i \in DOMAIN tiers : d <= tiers[i][1]}
  IN  IF hit = {} THEN other ELSE tiers[Min(hit)][2]

-----------------------------------------------------------------------------
(* Distances. *)

Root(n) == CHOOSE k \in 0..(2 * MapSide) : k * k <= n /\ n < (k + 1) * (k + 1)

DistanceTable ==
  [a \in Points |-> [b \in Points |->
     Root((a[1] - b[1]) * (a[1] - b[1]) + (a[2] - b[2]) * (a[2] - b[2]))]]

CalculateDistance(a, b) == DistanceTable[a][b]

AreCoordinatesValid(p) == p # NoPoint /\ p[1] # 0 /\ p[2] # 0

(* None unless the query and the ride both have the point. *)
DistanceOf(asked, p) ==
  IF asked # NoPoint /\ AreCoordinatesValid(p) THEN CalculateDistance(asked, p) ELSE None

StartDistance(q, r) == DistanceOf(q.from, r.from)
EndDistance(q, r)   == DistanceOf(q.to, r.to)

HasBoth(q) == q.from # NoPoint /\ q.to # NoPoint

RequestedTrip(q) == IF HasBoth(q) THEN CalculateDistance(q.from, q.to) ELSE 0

-----------------------------------------------------------------------------
(* Names. *)

MeaningfulWords(n) == Range(n) \ WeakWords

TextContains(v, n) ==
  \E i \in 0..(Len(v) - Len(n)) : \A j \in DOMAIN n : v[i + j] = n[j]

TextFit(asked, v, max) ==
  LET words   == MeaningfulWords(asked)
      matched == words \cap Range(v)
  IN  CASE asked = <<>> \/ v = <<>> -> 0
        [] asked = v -> 100 * max
        [] asked # v /\ (TextContains(v, asked) \/ TextContains(asked, v)) -> 78 * max
        [] OTHER -> IF matched = {} THEN 0
                    ELSE (42 * max * Cardinality(matched)) \div Cardinality(words)

-----------------------------------------------------------------------------
(* Day and time. *)

(* A target time stands for its day, also where a date is given. *)
TargetDay(q) == IF q.target # None THEN DayOf(q.target) ELSE q.date

(* Mutant: the day next to the chosen one costs nothing. *)
DateFitNeighbours(q, r) ==
  IF TargetDay(q) = None THEN 0
  ELSE IF DayOf(r.time) = TargetDay(q) THEN 72000 ELSE 0

DateFit(q, r) ==
  LET ahead == DayOf(r.time) - DayOf(Now)
      off   == Magnitude(DayOf(r.time) - TargetDay(q))
  IN  IF TargetDay(q) = None
      THEN CASE ahead = 0 -> 12000
             [] ahead = 1 -> 9000
             [] ahead # 0 /\ ahead # 1 /\ ahead <= 7 -> 5500 - 400 * ahead
             [] ahead > 7 -> -1000 * (ahead - 7)
      ELSE CASE off = 0 -> 72000
             [] off = 1 -> -38000
             [] off > 1 -> -72000 - 18000 * (off - 1)

TimeFit(q, r) ==
  LET late == r.time - q.target
      off  == Magnitude(late)
  IN  IF q.target = None THEN 0
      ELSE Decay[off] + (IF late <= 0 /\ off <= 90 THEN 3400 ELSE 0)
                      - (IF late > 0 THEN Least(11000, 135 * late) ELSE 0)
                      - (IF late < -180 THEN 55 * (off - 180) ELSE 0)

InBucket(b, h) == CASE b = "morning"   -> h \in 6..11
                    [] b = "afternoon" -> h \in 12..16
                    [] b = "evening"   -> h \in 17..20
                    [] b = "night"     -> h >= 21 \/ h < 6

PreferredTimeBucket(q, r) ==
  IF q.target # None \/ q.bucket = "any" THEN 0
  ELSE IF InBucket(q.bucket, HourOf(r.time)) THEN 3400 ELSE -1600

-----------------------------------------------------------------------------
(* Places. *)

PickupFit(q, r) ==
  IF q.from = NoPoint THEN 0
  ELSE IF StartDistance(q, r) = None THEN -18000
  ELSE Tier(StartDistance(q, r),
            <<<<70, 23000>>, <<200, 20500>>, <<400, 17500>>, <<1000, 12000>>,
              <<2000, 5500>>, <<4000, -2000>>>>, -14000)

NoReason == "none"

(* What the drop-off alone is worth: a score and a reason. *)
DropOffFit(q, r) ==
  LET d    == EndDistance(q, r)
      trip == RequestedTrip(q)
      PartOfTrip(percent) == trip > 200 /\ 100 * d <= percent * trip
  IN  IF q.to = NoPoint THEN <<0, NoReason>>
      ELSE IF d = None THEN <<-16000, NoReason>>
      ELSE Tier(d, <<<<70,   <<43000, "Exact destination">>>>,
                     <<200,  <<38000, "Very close destination">>>>,
                     <<500,  <<30000, "Nearby destination">>>>,
                     <<1200, <<13500, "Same area">>>>,
                     <<3000, <<7000,  "Nearby area">>>>>>,
                IF PartOfTrip(12) THEN <<9000, "Close for this route">>
                ELSE IF PartOfTrip(20) THEN <<4500, "Same broad destination">>
                ELSE <<-Least(19000, 2 * d), NoReason>>)

DestinationFit(q, r) ==
  LET fit  == DropOffFit(q, r)
      text == TextFit(q.toName, r.toName, 70)
  IN  IF text < 5500 \/ fit[1] >= 22000 THEN fit
      ELSE <<fit[1] + text, IF fit[2] = NoReason THEN "Destination name match" ELSE fit[2]>>

(* "On the way": the requested destination lies along the ride's route,     *)
(* within a corridor, past its first eighth and before its very end.        *)
RouteOverlap(q, r) ==
  LET ab  == <<r.to[1] - r.from[1], r.to[2] - r.from[2]>>
      ap  == <<q.to[1] - r.from[1], q.to[2] - r.from[2]>>
      len == CalculateDistance(r.from, r.to)
      dot == ap[1] * ab[1] + ap[2] * ab[2]
      percent   == ((dot \div len) * 100) \div len
      deviation == Magnitude(ap[1] * ab[2] - ap[2] * ab[1]) \div len
      corridor  == Least(1600, Most(240, (Most(len, RequestedTrip(q)) * 8) \div 100))
      extra     == CalculateDistance(r.from, q.to) + CalculateDistance(q.to, r.to) - len
      detour    == (100 * extra) \div len
  IN  IF \/ ~HasBoth(q)
         \/ ~AreCoordinatesValid(r.from)
         \/ ~AreCoordinatesValid(r.to)
         \/ len < 200
      THEN 0
      ELSE IF percent \in 12..96 /\ deviation <= corridor /\ detour <= 28
      THEN 17000 + (12000 * (corridor - deviation)) \div corridor
                 + 24 * percent + Most(0, 3600 - 120 * detour)
      ELSE 0

OnTheWay(q, r) ==
  RouteOverlap(q, r) > 0 /\ 10 * RouteOverlap(q, r) > 8 * DestinationFit(q, r)[1]

-----------------------------------------------------------------------------
(* Seats, price, host. *)

SeatsLeftOf(r) == PassengerSeatsLeft(r.total, r.booked)

AvailabilityAndPrice(q, r) ==
  LET left == SeatsLeftOf(r)
  IN  (1600 * left) \div Most(1, PassengerCapacity(r.total))
      + (IF left > 1 THEN 800 ELSE 0)
      + (IF q.minSeats # None /\ left >= q.minSeats THEN 1200 ELSE 0)
      + (IF q.maxPrice # None /\ r.price <= q.maxPrice THEN 1600 ELSE 0)
      + (IF q.maxPrice # None /\ r.price <= q.maxPrice \div 2 THEN 800 ELSE 0)

(* What scoreRideForSearch adds up. *)
ScoreRide(q, r) ==
  DateFit(q, r) + TimeFit(q, r) + PickupFit(q, r) + DestinationFit(q, r)[1] + RouteOverlap(q, r)
    + TextFit(q.fromName, r.fromName, 28) + TextFit(q.toName, r.toName, 42)
    + AvailabilityAndPrice(q, r) + PreferredTimeBucket(q, r)

(* hosts, routes: whether the host statistics and the viewer's past routes  *)
(* could be read.                                                           *)
RelevanceScore(q, r, hosts, routes) ==
  ScoreRide(q, r)
    + (IF ~hosts \/ r.past < 3 THEN 0 ELSE IF r.past >= 10 THEN 1200 ELSE 600)
    + (IF routes /\ r.usual THEN 1800 ELSE 0)

-----------------------------------------------------------------------------
(* The line of reasons, as the set of its parts. *)

FirstReason(q, r) ==
  LET fit == DestinationFit(q, r)[2]
      e   == EndDistance(q, r)
      s   == StartDistance(q, r)
  IN  CASE OnTheWay(q, r) -> "On the way"
        [] ~OnTheWay(q, r) /\ fit # NoReason -> fit
        [] OTHER -> IF e # None /\ e <= 1200 THEN "Nearby destination"
                    ELSE IF s # None /\ s <= 400 THEN "Close pickup"
                    ELSE IF q.target # None THEN "Close time"
                    ELSE NoReason

Nearness(d, near, close) == IF d = None THEN NoReason
                            ELSE IF d < 400 THEN near
                            ELSE IF d < 1000 THEN close ELSE NoReason

DayReason(r) ==
  LET wait == r.time - Now
  IN  CASE DayOf(r.time) = DayOf(Now) ->
             IF wait > 60 /\ wait < 360 THEN "Good timing today"
             ELSE IF wait >= 30 THEN "Today's ride" ELSE "Leaving soon"
        [] DayOf(r.time) = DayOf(Now) + 1 -> "Tomorrow's ride"
        [] OTHER -> IF wait <= 72 * 60 THEN "This week" ELSE NoReason

MatchReasons(q, r, hosts, routes) ==
  { FirstReason(q, r),
    IF routes /\ r.usual THEN "Your usual route" ELSE NoReason,
    IF r.age < 60 THEN "Just listed" ELSE NoReason,
    IF ~hosts \/ r.past < 3 THEN NoReason ELSE IF r.past >= 10 THEN "Top host" ELSE "Trusted host",
    Nearness(StartDistance(q, r), "Very close to pickup", "Close to pickup"),
    Nearness(EndDistance(q, r), "Very close to destination", "Close to destination"),
    IF SeatsLeftOf(r) > 2 THEN "Multiple seats available"
    ELSE IF SeatsLeftOf(r) > 1 THEN "2 seats available" ELSE NoReason,
    DayReason(r),
    IF q.maxPrice = None THEN NoReason
    ELSE IF r.price <= q.maxPrice \div 2 THEN "Great price"
    ELSE IF r.price <= q.maxPrice THEN "Within budget" ELSE NoReason } \ {NoReason}

-----------------------------------------------------------------------------
(* The chips: pairs <<priority, kind>>, each kind with a priority of its    *)
(* own; the six strongest are sent.                                         *)

NoChip == <<0, "none">>

TimeChip(q, r) ==
  IF q.target = None THEN NoChip
  ELSE Tier(Magnitude(r.time - q.target),
            <<<<15, <<100, "exact_time">>>>, <<45, <<92, "close_time">>>>, <<120, <<64, "flexible_time">>>>>>, NoChip)

DateChip(q, r) ==
  LET days == DayOf(r.time) - TargetDay(q)
  IN  IF TargetDay(q) = None \/ Magnitude(days) > 1 THEN NoChip
      ELSE CASE days = 0 -> <<98, "selected_date">>
             [] days = 1 -> <<58, "next_day">>
             [] days = -1 -> <<58, "previous_day">>

BucketChip(q, r) ==
  LET days == DayOf(r.time) - DayOf(Now)
  IN  IF TargetDay(q) # None THEN NoChip
      ELSE CASE days = 0 -> IF r.time - Now < 90 THEN <<80, "leaving_soon">> ELSE <<62, "today">>
             [] days = 1 -> <<56, "tomorrow">>
             [] days \in 2..7 -> <<42, "this_week">>
             [] days > 7 -> NoChip

(* Mutant: the chip counts from a different number of rides. *)
HostChipEarly(r, hosts) == IF ~hosts \/ r.past < 3 THEN NoChip ELSE <<75, "top_host">>

HostChip(r, hosts) == IF ~hosts \/ r.past < 3 THEN NoChip
                      ELSE IF r.past >= 10 THEN <<75, "top_host">> ELSE <<68, "trusted_host">>

SeatChip(q, r) ==
  IF q.minSeats # None /\ q.minSeats >= 2 /\ SeatsLeftOf(r) >= q.minSeats THEN <<54, "fits_group">>
  ELSE IF SeatsLeftOf(r) >= 3 THEN <<38, "multiple_seats">>
  ELSE IF SeatsLeftOf(r) = 1 THEN <<66, "last_seat">> ELSE NoChip

PriceChip(q, r) == IF q.maxPrice = None THEN NoChip
                   ELSE IF r.price <= q.maxPrice \div 2 THEN <<52, "great_price">>
                   ELSE IF r.price <= q.maxPrice THEN <<36, "within_budget">> ELSE NoChip

PlaceChip(d, tiers) == IF d = None THEN NoChip ELSE Tier(d, tiers, NoChip)

DestinationChip(d) ==
  PlaceChip(d, <<<<70, <<88, "exact_destination">>>>, <<200, <<84, "near_destination">>>>,
                 <<500, <<72, "nearby_destination">>>>, <<1200, <<50, "same_area_destination">>>>>>)

PickupChip(d) ==
  PlaceChip(d, <<<<70, <<86, "exact_pickup">>>>, <<200, <<78, "near_pickup">>>>, <<600, <<60, "nearby_pickup">>>>>>)

AllChips(q, r, hosts, routes) ==
  { TimeChip(q, r), DateChip(q, r), BucketChip(q, r), HostChip(r, hosts), SeatChip(q, r), PriceChip(q, r),
    IF routes /\ r.usual THEN <<96, "repeat_route">> ELSE NoChip,
    IF OnTheWay(q, r) THEN <<90, "on_the_way">> ELSE NoChip,
    IF r.age < 60 THEN <<70, "just_listed">> ELSE NoChip,
    DestinationChip(EndDistance(q, r)), PickupChip(StartDistance(q, r)) } \ {NoChip}

MatchSignals(q, r, hosts, routes) ==
  LET chips == AllChips(q, r, hosts, routes)
  IN  {c \in chips : Cardinality({d \in chips : d[1] > c[1]}) < 6}
=============================================================================
