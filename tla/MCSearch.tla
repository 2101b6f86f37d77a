----------------------------- MODULE MCSearch -----------------------------
(***************************************************************************)
(* The rides of the server and those of the other service, for TLC.  They  *)
(* share no state, so a behaviour is of one of the two (part).             *)
(*                                                                         *)
(* Searches: families of small tables with the queries that tell their     *)
(* rides apart.                                                            *)
(***************************************************************************)
EXTENDS RideSearch, ExternalFeed

VARIABLE part

Home == <<1000, 1000>>   \* where the queries start
Near == <<1000, 1100>>   \* 500 m away
Edge == <<1000, 3000>>   \* 10 km away
Past == <<1000, 3003>>   \* 15 m more
Zero == <<0, 1000>>
Goal == <<5000, 1000>>   \* where the queries end, 20 km away
Door == <<5060, 1000>>   \* 300 m from Goal
Side == <<5000, 1100>>
Far  == <<6000, 1000>>   \* 5 km beyond
Onward == <<5240, 1000>>   \* 1.2 km beyond
Off  == <<5000, 3000>>   \* 10 km aside

MCPoints == {Home, Near, Edge, Past, Zero, Goal, Door, Side, Far, Onward, Off}

(* Halved every 66 minutes. *)
MCDecay == [m \in 0..Day |-> LET top == 29000 \div (2 ^ (m \div 66))
                             IN  top - (top * (m % 66)) \div 132]

Airport == <<"chennai", "airport">>
MCWeak  == {"airport", "the"}
MCSimilar == {<<<<"chenai", "airport">>, Airport>>, <<<<"kpn", "airport">>, Airport>>}

Ride == [host |-> "h", from |-> NoPoint, to |-> NoPoint, fromName |-> <<"vit">>, toName |-> Airport,
         time |-> 2 * Day, total |-> 4, booked |-> 0, accepted |-> 0, price |-> 400, ongoing |-> 0,
         requested |-> FALSE, past |-> 0, usual |-> FALSE, age |-> 600]

Query == [sort |-> "relevance", limit |-> 2, from |-> NoPoint, to |-> NoPoint, fromName |-> <<>>, toName |-> <<>>,
          date |-> None, clock |-> None, bucket |-> "any", target |-> None, radius |-> 2000,
          maxPrice |-> None, minSeats |-> None]

Family(n, rows, queries) == {<<t, q>> : t \in UNION {kSubset(k, rows) : k \in 1..n}, q \in queries}

(* Distances at the edge of the radius, missing and unset coordinates. *)
Places == Family(3,
  {[Ride EXCEPT !.from = p[1], !.to = p[2]] :
     p \in {<<Near, Door>>, <<Edge, Goal>>, <<Past, Goal>>, <<Zero, Side>>, <<NoPoint, Goal>>, <<Home, Far>>, <<Edge, NoPoint>>}},
  {[Query EXCEPT !.from = e[1], !.to = e[2], !.sort = s, !.fromName = n] :
     e \in {<<Home, Goal>>, <<Home, NoPoint>>, <<NoPoint, Goal>>}, s \in {"relevance", "distance"}, n \in {<<>>, <<"vit">>}})

(* Departure, price and seats, with pages of one and two cards. *)
Board == Family(4,
  {[Ride EXCEPT !.time = x[1], !.price = x[2], !.booked = x[3], !.host = x[4]] :
     x \in {<<Day, 400, 0, "h">>, <<Day + 60, 200, 1, "h">>, <<2 * Day, 300, 2, "h">>, <<Day + 90, 100, 3, "h">>,
            <<Now - 5, 400, 0, "h">>, <<Now + 40, 150, 0, "v">>, <<Now + 70, 150, 1, "h">>, <<9 * Day, 300, 0, "h">>}},
  {[Query EXCEPT !.sort = s, !.limit = l, !.maxPrice = f[1], !.minSeats = f[2], !.bucket = f[3]] :
     s \in {"time", "price", "relevance"}, l \in 1..2,
     f \in {<<None, None, "any">>, <<300, None, "night">>, <<400, 2, "any">>}})

(* Names: equal, contained, by words, alike, by the first word alone. *)
Names == Family(3,
  {[Ride EXCEPT !.toName = n, !.time = t] :
     n \in {Airport, <<"chennai">>, <<"bangalore", "airport">>}, t \in {Day, 2 * Day}},
  {[Query EXCEPT !.toName = n, !.sort = s, !.limit = 1] :
     n \in {Airport, <<"chennai", "central">>, <<"airport">>, <<"chenai", "airport">>, <<"kpn", "airport">>, <<"the", "chennai", "airport">>},
     s \in {"time", "relevance"}})

(* A preferred time near midnight; the next day's ride fits better.  And a  *)
(* target time with rides around it.                                        *)
Times == Family(2,
  {[Ride EXCEPT !.from = p[1], !.to = p[2], !.time = t, !.past = x[1], !.usual = x[2], !.booked = x[3], !.price = x[4]] :
     p \in {<<Home, Onward>>, <<Edge, Off>>, <<Near, Door>>}, t \in {2 * Day - 30, 2 * Day + 20},
     x \in {<<10, TRUE, 0, 100>>, <<0, FALSE, 2, 400>>}},
  {[Query EXCEPT !.from = Home, !.to = Goal, !.date = 1, !.clock = 1410, !.toName = <<"chennai">>,
                 !.maxPrice = 200, !.sort = "relevance"],
   [Query EXCEPT !.from = Home, !.to = Goal, !.date = 1, !.clock = 1410, !.toName = Airport, !.minSeats = 1]})

Targets == Family(3,
  {[Ride EXCEPT !.from = Near, !.to = p, !.time = t] :
     p \in {Door, Far}, t \in {Day + 800, Day + 785, Day + 815, Day + 710, Day + 890}},
  {[Query EXCEPT !.from = Home, !.to = Goal, !.target = Day + 800, !.limit = 3],
   [Query EXCEPT !.target = Day + 800, !.limit = 3]})

(* What the chips are about. *)
Chips ==
  {{[Ride EXCEPT !.from = p[1], !.to = p[2], !.time = t, !.past = n, !.usual = u, !.age = a, !.booked = b, !.price = c]} :
     p \in {<<Near, Door>>, <<Home, Far>>, <<NoPoint, NoPoint>>}, t \in {Now + 70, Day + 100, 4 * Day}, n \in {0, 3, 10},
     u \in BOOLEAN, a \in {59, 60}, b \in {0, 2}, c \in {200, 400, 401}}
  \X
  {[Query EXCEPT !.maxPrice = 400, !.from = e[1], !.to = e[2], !.date = d] :
     e \in {<<Home, Goal>>, <<NoPoint, NoPoint>>}, d \in {None, 1}}

(* Open and taken seats, rides under way, rides already asked for. *)
Strict == Family(3,
  {[Ride EXCEPT !.from = Near, !.to = Side, !.time = x[1], !.booked = x[2], !.accepted = x[3], !.ongoing = x[4],
                !.requested = x[5], !.host = x[6]] :
     x \in {<<Now + 60, 1, 1, 0, FALSE, "h">>, <<Now - 60, 1, 1, 0, FALSE, "h">>, <<Now + 100, 1, 1, 1, FALSE, "h">>,
            <<Now + 300, 3, 3, 0, FALSE, "h">>, <<Now + 70, 3, 2, 0, FALSE, "h">>, <<Now + 80, 1, 1, 0, TRUE, "h">>,
            <<Now + 50, 0, 0, 0, FALSE, "v">>}}
   \cup {[Ride EXCEPT !.from = p, !.to = Goal, !.time = Now + 90] : p \in {Edge, Past, Zero, NoPoint}},
  {[Query EXCEPT !.from = Home, !.to = Goal, !.limit = 2, !.radius = d] : d \in {0, 100, 2000}})

(* For behaviours of the other part. *)
Plain == {<<{Ride}, Query>>}

MCCases == Plain \cup Places \cup Board \cup Names \cup Times \cup Targets \cup Chips \cup Strict

MCFailures == {{}, {"candidates"}, {"text"}, {"text", "fallback"}, {"hosts", "routes"}}
MCSkews == {-4, 0, 4}

(* The database fails while one page of a search is made, or never. *)
OneBadPage == Cardinality({k \in DOMAIN pages : pages[k].failed # {}}) <= 1

MCInit ==
  /\ part \in {"rides", "feed"} /\ Init /\ FeedInit
  /\ part = "feed" => rides = {Ride} /\ query = Query /\ skew = 0

MCNext ==
  \/ part = "rides" /\ Next /\ OneBadPage' /\ UNCHANGED <<part, feedVars>>
  \/ part = "feed" /\ FeedNext /\ UNCHANGED <<part, vars>>

MCSpec == MCInit /\ [][MCNext]_<<part, vars, feedVars>> /\ FeedFairness
=============================================================================
