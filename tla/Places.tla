------------------------------- MODULE Places -------------------------------
(***************************************************************************)
(* Suggesting places: the curated list, the places of past rides and, when *)
(* those are too few, OpenStreetMap's, scored, merged by name, sorted, cut *)
(* and kept for ten minutes.                                               *)
(*                                                                         *)
(* One search that is asked again and again: the entries of the cache do   *)
(* not interact.  Places lie on a line, in km.  A text score is a given of *)
(* the query and the name; names that differ after their first comma, or   *)
(* by case, are the same to the merge, and those without a Latin letter or *)
(* a digit are no names to it.                                             *)
(***************************************************************************)
EXTENDS Integers, SequencesExt, FiniteSetsExt

CONSTANTS
  Searches,   \* [query, limit, user, include]: what may be asked
  Curated,    \* curatedLocations, a sequence of [name, at, priority]
  Trips,      \* [name, at]: ends of rides that may be posted
  Canonical,  \* name |-> CanonicalLocationCoords, or Nowhere
  Plain,      \* name |-> canonicalLocationName
  Order,      \* name |-> its place in the alphabet
  TextFit,    \* query |-> name |-> scoreName
  Remote,     \* sequences of [name, at]: what Nominatim may answer
  Here,       \* names the user's own position may get
  Ttl, MaxTrips, MaxTime  \* ten minutes, in ticks; bounds

Nowhere == -10000   \* no coordinates
Empty   == ""
Long(q) == q \notin {Empty, "ab"}   \* three letters or more

PlaceNames ==
  {Curated[i].name : i \in DOMAIN Curated} \cup {t.name : t \in Trips} \cup Here
    \cup UNION {{rs[i].name : i \in DOMAIN rs} : rs \in Remote}

ASSUME PlacesAssumption ==
  /\ Ttl \in Nat /\ MaxTrips \in Nat /\ MaxTime \in Nat
  /\ \A x \in Searches :
       /\ x.limit \in Nat \ {0} /\ x.user \in Int /\ x.include \in BOOLEAN
       /\ x.query # Empty => \A n \in PlaceNames : TextFit[x.query][n] \in Nat
  /\ \A n \in PlaceNames : Order[n] \in Int
  /\ \A t \in Trips : t.at \in Int /\ Canonical[t.name] \in Int
  /\ \A rs \in Remote : rs \in Seq([name : PlaceNames, at : Int \ {Nowhere}])

(* The curated places have names of their own, and priorities that leave    *)
(* them below the place of the user.                                        *)
ASSUME CuratedAssumption ==
  /\ Curated \in Seq([name : PlaceNames, at : Int, priority : 0..900])
  /\ \A i \in DOMAIN Curated : Plain[Curated[i].name] # Empty
  /\ \A i, j \in DOMAIN Curated : i # j => Plain[Curated[i].name] # Plain[Curated[j].name]

VARIABLES
  search,   \* the search of this behaviour
  trips,    \* ends of rides, the one seen last first
  time,
  entry,    \* of the cache: [results, made], or NoEntry
  answer    \* what was answered last, and history: the results before Nominatim's

placesVars == <<search, trips, time, entry, answer>>

NoEntry == [made |-> -1]

PlacesInit ==
  /\ search \in Searches
  /\ trips = <<>> /\ time = 0
  /\ entry = NoEntry /\ answer = NoEntry

-----------------------------------------------------------------------------
(* Lists. *)

(* The elements of S in the order in which before[i] are those before i.    *)
InOrder(S, before) == [k \in 1..Cardinality(S) |-> CHOOSE i \in S : Cardinality(before[i]) = k - 1]

(* The elements of s that are in K. *)
Kept(s, K) ==
  LET hits  == {i \in DOMAIN s : s[i] \in K}
      order == InOrder(hits, [i \in hits |-> {j \in hits : j < i}])
  IN  [k \in DOMAIN order |-> s[order[k]]]

-----------------------------------------------------------------------------
(* Scores. *)

Distance(x, y) == IF x < y THEN y - x ELSE x - y

NearbyBoost(d) == IF d <= 2 THEN 45 ELSE IF d <= 10 THEN 35 ELSE IF d <= 50 THEN 20
                  ELSE IF d <= 150 THEN 10 ELSE 0

BoostAt(at) == IF search.user = Nowhere \/ at = Nowhere THEN 0 ELSE NearbyBoost(Distance(search.user, at))

(* Without a query, who has a position gets only what is around it. *)
ScoreCandidate(name, priority, at) ==
  IF search.query = Empty
  THEN IF search.user = Nowhere THEN priority
       ELSE IF at = Nowhere THEN 0
       ELSE IF Distance(search.user, at) > 150 THEN 0 ELSE priority + BoostAt(at)
  ELSE IF TextFit[search.query][name] = 0 THEN 0
       ELSE priority + TextFit[search.query][name] + BoostAt(at)

Result(name, source, at, score) == [name |-> name, source |-> source, at |-> at, score |-> score]

(* Results without a score are left out when they are merged. *)
CuratedResults ==
  [i \in DOMAIN Curated |->
     LET c == Curated[i] IN Result(c.name, "curated", c.at, ScoreCandidate(c.name, c.priority, c.at))]

(* The names that contain the query, twice twice the limit of them at most. *)
RideLocationCandidates ==
  LET hits == Kept(trips, {t \in Trips : search.query = Empty \/ TextFit[search.query][t.name] >= 75})
  IN  SubSeq(hits, 1, Min({Len(hits), 4 * search.limit}))

RideResults ==
  LET rows == RideLocationCandidates
  IN  [i \in DOMAIN rows |->
         LET t  == rows[i]
             at == IF Canonical[t.name] # Nowhere THEN Canonical[t.name] ELSE t.at
         IN  Result(t.name, "ride_history", at,
                    ScoreCandidate(t.name, IF at = Nowhere THEN 45 ELSE 80, at))]

RemoteResults(rs) ==
  [i \in DOMAIN rs |-> Result(rs[i].name, "osm", rs[i].at,
                              TextFit[search.query][rs[i].name] + 20 + BoostAt(rs[i].at))]

-----------------------------------------------------------------------------
(* Merging. *)

(* Of the same name, and curated, or without a position, or 10 km apart.    *)
Duplicate(a, b) ==
  /\ Plain[a.name] = Plain[b.name]
  /\ \/ "curated" \in {a.source, b.source}
     \/ Nowhere \in {a.at, b.at}
     \/ Distance(a.at, b.at) <= 10

(* Mutant: the score decides. *)
BetterByScore(a, b) == IF a.score >= b.score THEN a ELSE b

(* Of equals the one with the shorter name; here the first.                 *)
Better(a, b) ==
  IF a.source = "current" THEN a ELSE IF b.source = "current" THEN b
  ELSE IF a.source = "curated" THEN a ELSE IF b.source = "curated" THEN b
  ELSE IF a.score >= b.score THEN a ELSE b

Counts(r) == r.score > 0 /\ Plain[r.name] # Empty

MergeInto(out, r) ==
  LET same == {i \in DOMAIN out : Duplicate(out[i], r)}
  IN  IF ~Counts(r) THEN out
      ELSE IF same = {} THEN Append(out, r)
      ELSE [out EXCEPT ![Min(same)] = Better(@, r)]

Merged(rs) ==
  LET out[n \in 0..Len(rs)] == IF n = 0 THEN <<>> ELSE MergeInto(out[n - 1], rs[n])
  IN  out[Len(rs)]

Before(rs, i, j) ==
  \/ rs[i].score > rs[j].score
  \/ rs[i].score = rs[j].score /\ Order[rs[i].name] < Order[rs[j].name]
  \/ rs[i].score = rs[j].score /\ Order[rs[i].name] = Order[rs[j].name] /\ i < j

DedupeAndSort(rs) ==
  LET out   == Merged(rs)
      order == InOrder(DOMAIN out, [i \in DOMAIN out |-> {j \in DOMAIN out : Before(out, j, i)}])
  IN  [k \in 1..Min({Len(out), search.limit}) |-> out[order[k]]]

MergeAndRank == DedupeAndSort(CuratedResults \o RideResults)

-----------------------------------------------------------------------------
PostTrip(t) ==
  /\ Len(trips) < MaxTrips \/ t \in ToSet(trips)
  /\ trips' = <<t>> \o Kept(trips, Trips \ {t})
  /\ UNCHANGED <<search, time, entry, answer>>

TimePassesBy ==
  /\ time < MaxTime
  /\ time' = time + 1
  /\ UNCHANGED <<search, trips, entry, answer>>

Cached == entry # NoEntry /\ time <= entry.made + Ttl

AskCached ==
  /\ Cached
  /\ answer' = entry
  /\ UNCHANGED <<search, trips, time, entry>>

WithCurrent(name, ranked) ==
  IF search.query = Empty /\ search.user # Nowhere /\ search.include
  THEN DedupeAndSort(<<Result(name, "current", search.user, 1000)>> \o ranked)
  ELSE ranked

(* A failure of Nominatim is an answer without results, and cached like any *)
(* other.                                                                   *)
SearchLocations ==
  /\ ~Cached
  /\ LET ranked == MergeAndRank IN
     \E name \in Here, remote \in Remote :
       LET local == WithCurrent(name, ranked)
           asks  == Len(local) < search.limit /\ Long(search.query)
           few   == SubSeq(remote, 1, Min({Len(remote), search.limit - Len(local)}))
       IN  entry' = [results |-> IF asks THEN DedupeAndSort(local \o RemoteResults(few)) ELSE local,
                     made |-> time, full |-> Len(ranked) = search.limit, local |-> local,
                     known |-> {c \in ToSet(CuratedResults) : c.score > 0}]
  /\ answer' = entry'
  /\ UNCHANGED <<search, trips, time>>

PlacesNext ==
  \/ \E t \in Trips : PostTrip(t)
  \/ TimePassesBy \/ AskCached \/ SearchLocations

PlacesSpec == PlacesInit /\ [][PlacesNext]_placesVars

-----------------------------------------------------------------------------
PlacesTypeOK ==
  /\ search \in Searches
  /\ trips \in Seq(Trips) /\ Len(trips) <= MaxTrips
  /\ time \in 0..MaxTime
  /\ entry.made \in -1..MaxTime /\ answer.made \in -1..MaxTime

Shown(r) == \E i \in DOMAIN answer.results : Plain[answer.results[i].name] = Plain[r.name]

(* search.go:78-164, 278-395: a curated place that fits is suggested with   *)
(* its own position, unless it is where the user is or enough places fit    *)
(* better (one of which the user's own may then replace); a name that is    *)
(* suggested twice is of two places that are neither curated nor without a  *)
(* position; and what Nominatim adds makes no local place disappear.        *)
CuratedWins ==
  answer # NoEntry =>
    LET rs == answer.results IN
    /\ \A c \in answer.known :
         \/ \E i \in DOMAIN rs : Plain[rs[i].name] = Plain[c.name] /\ (rs[i] = c \/ rs[i].source = "current")
         \/ answer.full /\ \A i \in DOMAIN rs : rs[i].score >= c.score
    /\ \A i, j \in DOMAIN rs : i # j /\ Plain[rs[i].name] = Plain[rs[j].name] =>
         rs[i].source # "curated" /\ rs[i].at # Nowhere
    /\ \A i \in DOMAIN answer.local : Shown(answer.local[i])
=============================================================================
