--------------------------- MODULE AuthCacheProof ---------------------------
(***************************************************************************)
(* Machine-checked theorems about AuthCache: for any number of requests    *)
(* and writers and any TTL, how long an overwritten row of users can be    *)
(* served from the cache.                                                  *)
(***************************************************************************)
EXTENDS AuthCache, FiniteSetTheorems, TLAPS

Served == {w \in Writers : wr[w].pc # "ready"}
Purged == {w \in Writers : wr[w].pc = "done"}

(* Every version but the first is one writer's. *)
VersionsCounted == ver = Cardinality(Served)

TypeInv == TypeOK /\ VersionsCounted

FlightPlaces == {"check", "query", "store", "end"}
Places       == {"out", "load", "wait", "got", "served", "refused"}
Request      == [pc : Places, ver : 0..ver, age : 0..Grace]

LEMMA TypedParts ==
  ASSUME TypeOK
  PROVE  /\ TTL \in Nat /\ Grace \in Nat \ {0} /\ Grace < TTL
         /\ Cardinality(Writers) \in Nat /\ Horizon \in Nat
         /\ ver \in Nat /\ ver <= Cardinality(Writers) /\ live \in BOOLEAN
         /\ since \in [Versions -> Nat]
         /\ cache # NoEntry => /\ cache = [ver |-> cache.ver, left |-> cache.left]
                               /\ cache.ver \in 0..ver /\ cache.left \in 0..TTL
         /\ flight # NoFlight =>
              /\ flight = [pc |-> flight.pc, ver |-> flight.ver]
              /\ flight.pc \in FlightPlaces /\ flight.ver \in 0..ver
         /\ 0 \in 0..ver /\ 0 \in 0..Grace /\ ver \in 0..ver
<1>1. Cardinality(Writers) \in Nat
  BY WritersAssumption, FS_CardinalityType
<1>2. Horizon \in Nat
  BY <1>1, TimeAssumption DEF Horizon
<1>3. since \in [Versions -> Nat] /\ ver \in Nat /\ ver <= Cardinality(Writers)
  BY <1>1, <1>2 DEF TypeOK, Versions
<1>4. QED BY <1>1, <1>2, <1>3, TimeAssumption DEF TypeOK, FlightPlaces

(* A lookup and an entry are never mistaken for nothing. *)
LEMMA FlightMade ==
  ASSUME TypeOK, NEW place \in FlightPlaces, NEW v \in 0..ver
  PROVE  /\ [pc |-> place, ver |-> v] # NoFlight
         /\ [pc |-> place, ver |-> v] \in [pc : FlightPlaces, ver : 0..ver]
BY TypedParts, NothingAssumption DEF FlightPlaces

LEMMA EntryMade ==
  ASSUME TypeOK, NEW v \in 0..ver, NEW l \in Nat
  PROVE  [ver |-> v, left |-> l] # NoEntry
<1>1. v \in Nat BY TypedParts
<1>2. [ver |-> v, left |-> l] \in [ver : Nat, left : Nat]
  BY <1>1
<1>3. QED BY <1>2, NothingAssumption

LEMMA RequestMade ==
  ASSUME TypeOK, NEW place \in Places, NEW v \in 0..ver, NEW a \in 0..Grace
  PROVE  [pc |-> place, ver |-> v, age |-> a] \in Request
BY DEF Request

LEMMA RequestParts ==
  ASSUME TypeOK, NEW p \in Procs
  PROVE  /\ req[p] = [pc |-> req[p].pc, ver |-> req[p].ver, age |-> req[p].age]
         /\ req[p].pc \in Places /\ req[p].ver \in 0..ver
         /\ req[p].age \in 0..Grace /\ req[p].age \in Nat
         /\ DOMAIN req = Procs /\ req[p] \in Request
<1>1. req \in [Procs -> Request]
  BY DEF TypeOK, Request, Places
<1>2. DOMAIN req = Procs /\ req[p] \in Request
  BY <1>1
<1>3. QED BY <1>2, TimeAssumption DEF Request

(* Serving a writer adds one version. *)
LEMMA CommitCounts ==
  ASSUME TypeInv, NEW w \in Writers, Commit(w)
  PROVE  VersionsCounted' /\ ver + 1 <= Cardinality(Writers)
<1>1. Served' = Served \cup {w} /\ w \notin Served
  BY DEF TypeInv, TypeOK, Commit, Served
<1>2. IsFiniteSet(Served) /\ Served' \in SUBSET Writers
  BY WritersAssumption, FS_Subset DEF Served
<1>3. Cardinality(Served') = Cardinality(Served) + 1
  BY <1>1, <1>2, FS_AddElement
<1>4. Cardinality(Served') <= Cardinality(Writers)
  BY <1>2, WritersAssumption, FS_Subset
<1>5. QED BY <1>3, <1>4 DEF TypeInv, VersionsCounted, Commit

(* The other steps serve no writer. *)
LEMMA CountKept ==
  ASSUME VersionsCounted, Served' = Served, ver' = ver
  PROVE  VersionsCounted'
BY DEF VersionsCounted

(* One request moves on, to a place where it does not wait. *)
LEMMA OneMoves ==
  ASSUME TypeOK, NEW p \in Procs, NEW r, req' = [req EXCEPT ![p] = r], r \in Request, r.pc # "wait",
         req[p].pc # "wait", ver' = ver
  PROVE  /\ req' \in [Procs -> Request'] /\ Waiting' = Waiting
<1>1. \A q \in Procs : req'[q] = IF q = p THEN r ELSE req[q]
  BY DEF TypeOK
<1>2. DOMAIN req' = Procs /\ req' = [q \in Procs |-> req'[q]]
  BY DEF TypeOK
<1>3. \A q \in Procs : req'[q] \in Request
  BY <1>1, RequestParts
<1>4. req' \in [Procs -> Request']
  BY <1>2, <1>3 DEF Request
<1>5. QED BY <1>1, <1>4 DEF Waiting

LEMMA RequestTyped ==
  ASSUME TypeInv, NEW p \in Procs, Arrive(p) \/ Load(p) \/ Got(p) \/ Leave(p)
  PROVE  TypeInv'
<1>1. TypeOK BY DEF TypeInv
<1>2. UNCHANGED <<dbVars, wr>> /\ (cache' = cache \/ cache' = NoEntry \/ Got(p))
  BY DEF Arrive, Load, Got, Leave, Touch, Miss
<1>3. cache' = NoEntry \/ cache' \in [ver : 0..ver, left : 0..TTL]
  BY <1>1, <1>2, TypedParts, RequestParts DEF TypeOK, Got, Store
<1>4. VersionsCounted' /\ ver' = ver
  BY <1>2 DEF TypeInv, VersionsCounted, dbVars, Served
<1>5. ASSUME flight' = flight, Waiting' = Waiting, req' \in [Procs -> Request'] PROVE TypeInv'
  BY <1>1, <1>2, <1>3, <1>4, <1>5 DEF TypeInv, TypeOK, dbVars, Request, Places
<1>6. ASSUME NEW r \in Request, r.pc # "wait", req[p].pc # "wait", req' = [req EXCEPT ![p] = r],
             flight' = flight
      PROVE  TypeInv'
  BY <1>1, <1>4, <1>5, <1>6, OneMoves
<1>7. CASE Arrive(p)
  <2>1. req[p].pc # "wait" /\ flight' = flight
    BY <1>7 DEF Arrive
  <2>2. CASE Hit /\ req' = [req EXCEPT ![p] = [pc |-> "served", ver |-> cache.ver, age |-> 0]]
    <3>1. [pc |-> "served", ver |-> cache.ver, age |-> 0] \in Request
      BY <1>1, <2>2, TypedParts, RequestMade DEF Hit, Places
    <3>2. QED BY <2>1, <2>2, <3>1, <1>6
  <2>3. CASE req' = [req EXCEPT ![p] = [pc |-> "load", ver |-> 0, age |-> 0]]
    <3>1. [pc |-> "load", ver |-> 0, age |-> 0] \in Request
      BY <1>1, TypedParts, RequestMade DEF Places
    <3>2. QED BY <2>1, <2>3, <3>1, <1>6
  <2>4. QED BY <1>7, <2>2, <2>3 DEF Arrive
<1>8. CASE Load(p) /\ Hit
  <2>1. At(p, "got", cache.ver) \in Request
    BY <1>1, <1>8, TypedParts, RequestMade, RequestParts DEF At, Hit, Places
  <2>2. req' = [req EXCEPT ![p] = At(p, "got", cache.ver)] /\ req[p].pc # "wait" /\ flight' = flight
    BY <1>8 DEF Load, Miss
  <2>3. At(p, "got", cache.ver).pc # "wait"
    BY DEF At
  <2>4. QED BY <1>6, <2>1, <2>2, <2>3
<1>9. CASE Load(p) /\ ~Hit
  <2>1. /\ req' = [req EXCEPT ![p] = At(p, "wait", 0)]
        /\ flight' = IF flight = NoFlight THEN [pc |-> "check", ver |-> 0] ELSE flight
    BY <1>9 DEF Load, Miss
  <2>2. At(p, "wait", 0) \in Request
    BY <1>1, TypedParts, RequestMade, RequestParts DEF At, Places
  <2>3. req' \in [Procs -> Request'] /\ p \in Waiting'
    <3>1. \A q \in Procs : req'[q] = IF q = p THEN At(p, "wait", 0) ELSE req[q]
      BY <1>1, <2>1, RequestParts
    <3>2. DOMAIN req' = Procs /\ req' = [q \in Procs |-> req'[q]]
      BY <1>1, <2>1, <3>1 DEF TypeOK
    <3>3. \A q \in Procs : req'[q] \in Request
      BY <1>1, <2>2, <3>1, RequestParts
    <3>4. req'[p].pc = "wait"
      BY <3>1 DEF At
    <3>5. QED BY <1>4, <3>2, <3>3, <3>4 DEF Waiting, Request
  <2>4. flight' # NoFlight /\ flight' \in [pc : FlightPlaces, ver : 0..ver]
    <3>1. CASE flight = NoFlight
      BY <1>1, <2>1, <3>1, TypedParts, FlightMade DEF FlightPlaces
    <3>2. CASE flight # NoFlight
      BY <1>1, <2>1, <3>2 DEF TypeOK, FlightPlaces
    <3>3. QED BY <3>1, <3>2
  <2>5. QED BY <1>1, <1>2, <1>3, <1>4, <2>3, <2>4
            DEF TypeInv, TypeOK, dbVars, Request, Places, FlightPlaces
<1>10. CASE Got(p)
  <2>1. [pc |-> "served", ver |-> req[p].ver, age |-> 0] \in Request
    BY <1>1, TypedParts, RequestParts, RequestMade DEF Places
  <2>2. req' = [req EXCEPT ![p] = [pc |-> "served", ver |-> req[p].ver, age |-> 0]]
        /\ req[p].pc # "wait" /\ flight' = flight
    BY <1>10 DEF Got
  <2>3. QED BY <1>6, <2>1, <2>2
<1>11. CASE Leave(p)
  <2>1. Out \in Request /\ Out.pc # "wait"
    BY <1>1, TypedParts, RequestMade DEF Out, Places
  <2>2. QED BY <1>6, <1>11, <2>1 DEF Leave
<1>12. QED BY <1>7, <1>8, <1>9, <1>10, <1>11

(* Every waiter gets the result of the lookup, and nobody waits. *)
LEMMA Delivered ==
  ASSUME TypeOK, NEW to \in {"got", "load", "refused"}, NEW v \in 0..ver, ver' = ver,
         Deliver([p \in Procs |-> At(p, to, v)])
  PROVE  /\ Waiting' = {} /\ req' \in [Procs -> Request']
         /\ \A p \in Procs : req'[p] = IF p \in Waiting THEN At(p, to, v) ELSE req[p]
<1>1. \A p \in Procs : req'[p] = IF p \in Waiting THEN At(p, to, v) ELSE req[p]
  BY DEF Deliver
<1>2. DOMAIN req' = Procs /\ req' = [p \in Procs |-> req'[p]]
  BY <1>1 DEF Deliver
<1>3. \A p \in Procs : At(p, to, v) \in Request
  BY RequestParts, RequestMade DEF At, Places
<1>4. \A p \in Procs : req'[p] \in Request
  BY <1>1, <1>3, RequestParts
<1>5. \A p \in Procs : At(p, to, v).pc # "wait"
  BY DEF At
<1>6. Waiting' = {}
  BY <1>1, <1>5 DEF Waiting
<1>7. req' \in [Procs -> Request']
  BY <1>2, <1>4 DEF Request
<1>8. QED BY <1>1, <1>6, <1>7

LEMMA FlightTyped ==
  ASSUME TypeInv, FlightCheck \/ FlightQuery \/ FlightStore \/ FlightEnd \/ FlightFail
  PROVE  TypeInv'
<1>1. TypeOK BY DEF TypeInv
<1>2. UNCHANGED <<dbVars, wr>>
  BY DEF FlightCheck, FlightQuery, FlightStore, FlightEnd, FlightFail
<1>3. ver' = ver /\ since' = since /\ live' = live /\ wr' = wr
  BY <1>2 DEF dbVars
<1>4. VersionsCounted'
  BY <1>2 DEF TypeInv, VersionsCounted, dbVars, Served
<1>5. ASSUME flight # NoFlight, req' = req, cache' = NoEntry \/ cache' \in [ver : 0..ver, left : 0..TTL],
             NEW place \in FlightPlaces, NEW v \in 0..ver, flight' = [pc |-> place, ver |-> v]
      PROVE  TypeInv'
  <2>1. flight' # NoFlight /\ flight' \in [pc : FlightPlaces, ver : 0..ver]
    BY <1>1, <1>5, FlightMade
  <2>2. QED BY <1>1, <1>3, <1>4, <1>5, <2>1 DEF TypeInv, TypeOK, Waiting, FlightPlaces
<1>6. CASE FlightCheck
  <2>1. cache' = NoEntry \/ cache' \in [ver : 0..ver, left : 0..TTL]
    BY <1>1, <1>6 DEF FlightCheck, Touch, Miss, TypeOK
  <2>2. \E place \in FlightPlaces, v \in 0..ver : flight' = [pc |-> place, ver |-> v]
    <3>1. CASE flight' = [pc |-> "end", ver |-> cache.ver] /\ Hit
      BY <1>1, <3>1, TypedParts DEF Hit, FlightPlaces
    <3>2. CASE flight' = [flight EXCEPT !.pc = "query"]
      <4>1. flight' = [pc |-> "query", ver |-> flight.ver] /\ flight.ver \in 0..ver
        BY <1>1, <1>6, <3>2, TypedParts DEF FlightCheck
      <4>2. QED BY <4>1 DEF FlightPlaces
    <3>3. QED BY <1>6, <3>1, <3>2 DEF FlightCheck
  <2>3. flight # NoFlight /\ req' = req
    BY <1>6 DEF FlightCheck
  <2>4. QED BY <1>5, <2>1, <2>2, <2>3
<1>7. CASE FlightQuery
  <2>1. flight # NoFlight /\ req' = req /\ cache' = cache /\ flight' = [pc |-> "store", ver |-> ver]
    BY <1>7 DEF FlightQuery
  <2>2. QED BY <1>1, <1>5, <2>1, TypedParts DEF FlightPlaces, TypeOK
<1>8. CASE FlightStore
  <2>1. flight' = [pc |-> "end", ver |-> flight.ver] /\ flight # NoFlight /\ req' = req
    BY <1>1, <1>8, TypedParts DEF FlightStore
  <2>2. cache' \in [ver : 0..ver, left : 0..TTL]
    BY <1>1, <1>8, TypedParts DEF FlightStore, Store
  <2>3. QED BY <1>1, <1>5, <2>1, <2>2, TypedParts DEF FlightPlaces
<1>9. CASE FlightEnd \/ FlightFail
  <2>1. /\ flight' = NoFlight /\ cache' = cache
        /\ \E to \in {"got", "load", "refused"}, v \in 0..ver : Deliver([p \in Procs |-> At(p, to, v)])
    BY <1>1, <1>9, TypedParts DEF FlightEnd, FlightFail
  <2>2. Waiting' = {} /\ req' \in [Procs -> Request']
    BY <1>1, <1>3, <2>1, Delivered
  <2>3. QED BY <1>1, <1>3, <1>4, <2>1, <2>2 DEF TypeInv, TypeOK, Request, Places
<1>10. QED BY <1>6, <1>7, <1>8, <1>9

LEMMA WriterTyped ==
  ASSUME TypeInv, NEW w \in Writers, Commit(w) \/ Invalidate(w)
  PROVE  TypeInv'
<1>1. TypeOK BY DEF TypeInv
<1>2. CASE Commit(w)
  <2>1. VersionsCounted' /\ ver + 1 <= Cardinality(Writers)
    BY <1>2, CommitCounts
  <2>2. 0..ver \subseteq 0..ver' /\ ver' \in Versions /\ ver' \in 0..ver'
    BY <1>1, <1>2, <2>1, TypedParts DEF Commit, Versions
  <2>3. QED BY <1>1, <1>2, <2>1, <2>2 DEF Commit, TypeInv, TypeOK, Waiting
<1>3. CASE Invalidate(w)
  <2>1. Served' = Served
    BY <1>1, <1>3 DEF Invalidate, Served, TypeOK
  <2>2. VersionsCounted'
    BY <1>3, <2>1, CountKept DEF TypeInv, Invalidate
  <2>3. QED BY <1>1, <1>3, <2>2 DEF Invalidate, TypeInv, TypeOK, Waiting
<1>4. QED BY <1>2, <1>3

LEMMA TickTyped ==
  ASSUME TypeInv, Tick
  PROVE  TypeInv'
<1>1. TypeOK BY DEF TypeInv
<1>2. VersionsCounted'
  BY DEF Tick, TypeInv, VersionsCounted, Served
<1>3. since' \in [Versions -> 0..Horizon]
  BY <1>1, TypedParts DEF Tick, TypeOK
<1>4. cache' = NoEntry \/ cache' \in [ver : 0..ver', left : 0..TTL]
  BY <1>1, TypedParts DEF Tick, TypeOK, Hit
<1>5. /\ req' \in [Procs -> [pc : {"out", "load", "wait", "got", "served", "refused"},
                              ver : 0..ver', age : 0..Grace]]
      /\ \A p \in Procs : req'[p].pc = req[p].pc
  BY <1>1, TypedParts DEF Tick, TypeOK, Hurried
<1>6. QED BY <1>1, <1>2, <1>3, <1>4, <1>5 DEF Tick, TypeInv, TypeOK, Waiting

LEMMA TypeStep == TypeInv /\ [Next]_vars => TypeInv'
<1>1. SUFFICES ASSUME TypeInv, [Next]_vars PROVE TypeInv'
  OBVIOUS
<1>2. CASE UNCHANGED vars
  BY <1>1, <1>2 DEF vars, dbVars, TypeInv, TypeOK, VersionsCounted, Served, Waiting
<1>3. QED BY <1>1, <1>2, RequestTyped, FlightTyped, WriterTyped, TickTyped DEF Next

LEMMA TypeInit == Init => TypeInv
<1>1. SUFFICES ASSUME Init PROVE TypeInv
  OBVIOUS
<1>2. Served = {} /\ Cardinality({}) = 0
  BY <1>1, FS_EmptySet DEF Init, Served
<1>3. Cardinality(Writers) \in Nat /\ Horizon \in Nat
  BY WritersAssumption, FS_CardinalityType, TimeAssumption DEF Horizon
<1>4. QED BY <1>1, <1>2, <1>3, TimeAssumption DEF Init, TypeInv, TypeOK, VersionsCounted, Waiting, Out, Versions

(* The row's versions, the cache, the shared lookup and every request stay *)
(* well formed, and a request waits only for a lookup that is under way:   *)
(* loadAuthUserByEmail leaves nobody waiting.                              *)
THEOREM AuthTypeCorrect == Spec => []TypeOK
<1>1. TypeInv => TypeOK
  BY DEF TypeInv
<1>2. QED BY <1>1, TypeInit, TypeStep, PTL DEF Spec

-----------------------------------------------------------------------------
(* How old a version may be when a request, the lookup or the cache still  *)
(* has it. Only a request that was under way at an invalidation can bring  *)
(* a version from before it back; it has Rem(p) ticks left to do so. Y     *)
(* bounds what requests bring back when nothing is cached, X what is       *)
(* cached or can be copied from the cache, Z what a lookup that is about   *)
(* to end hands to requests that joined it late.                           *)

Hurry  == {p \in Procs : Hurried(p)}
Rem(p) == Grace - req[p].age
Purges == Cardinality(Purged)

Y(k) == IF k = 0 THEN Grace ELSE (2 * k) * Grace
X(k) == Y(k) + Grace
Z(k) == Y(k) - Grace

HasGot(p, v)     == req[p].pc = "got" /\ req[p].ver = v
FlightAt(pcs, v) == flight # NoFlight /\ flight.pc \in pcs /\ flight.ver = v
Carried(v) ==
  \/ Hit /\ cache.ver = v
  \/ \E p \in Procs : HasGot(p, v)
  \/ FlightAt({"store", "end"}, v)

(* An entry outlives the requests that saw it: it never expires under one. *)
Fresh == Hit => \A p \in Hurry : cache.left + req[p].age >= TTL

(* Only overwritten versions age. *)
Young == \A v \in Versions : v >= ver => since[v] = 0

CachedAges ==
  Hit => /\ \A v \in Versions : Carried(v) => \A p \in Hurry : since[v] + Rem(p) <= X(Purges)
         /\ since[cache.ver] + cache.left <= TTL + X(Purges)

UncachedAges ==
  ~Hit => \A v \in Versions :
    /\ \A p \in Procs : HasGot(p, v) => since[v] + Rem(p) <= Y(Purges)
    /\ FlightAt({"store"}, v) => \E q \in Waiting : since[v] + Rem(q) <= Y(Purges)
    /\ FlightAt({"end"}, v) => \E q \in Waiting : since[v] + Rem(q) <= Z(Purges)

(* Before the first invalidation. *)
NeverPurged ==
  Purges = 0 =>
    /\ \A v \in Versions : FlightAt({"store", "end"}, v) => \E q \in Waiting : since[v] + Rem(q) <= Grace
    /\ Hit /\ flight # NoFlight => flight.pc = "end"
    /\ ~Hit => (\A p \in Procs : req[p].pc # "got") /\ (flight = NoFlight \/ flight.pc # "end")

AgeInv == Fresh /\ Young /\ CachedAges /\ UncachedAges /\ NeverPurged

LEMMA Allowances ==
  ASSUME NEW k \in Nat
  PROVE  /\ Y(k) \in Nat /\ Y(k) >= Grace /\ X(k) \in Nat /\ Z(k) \in Nat /\ Grace \in Nat
         /\ Y(k) <= Y(k + 1) /\ X(k) <= Y(k + 1) /\ Z(k) <= Z(k + 1) /\ Grace <= Z(k + 1)
         /\ k # 0 => X(k) <= Z(k + 1)
         /\ X(k) = Y(k) + Grace /\ Y(k) = Z(k) + Grace
<1>1. Grace \in Nat BY TimeAssumption
<1>2. k * Grace \in Nat /\ (2 * k) * Grace = 2 * (k * Grace)
  BY <1>1
<1>3. (2 * (k + 1)) * Grace = 2 * (k * Grace) + 2 * Grace
  BY <1>1
<1>4. k # 0 => k * Grace >= Grace
  <2>1. SUFFICES ASSUME k # 0 PROVE k * Grace >= Grace
    OBVIOUS
  <2>2. PICK j \in Nat : k = j + 1
    BY <2>1
  <2>3. k * Grace = j * Grace + Grace /\ j * Grace \in Nat
    BY <1>1, <2>2
  <2>4. QED BY <1>1, <2>3
<1>5. Y(k) = IF k = 0 THEN Grace ELSE 2 * (k * Grace)
  BY <1>2 DEF Y
<1>6. Y(k + 1) = 2 * (k * Grace) + 2 * Grace
  BY <1>3 DEF Y
<1>7. k = 0 => k * Grace = 0
  BY <1>1
<1>8. QED BY <1>1, <1>2, <1>4, <1>5, <1>6, <1>7 DEF X, Z

LEMMA PurgesTyped == Purges \in Nat /\ Purges <= Cardinality(Writers)
BY WritersAssumption, FS_Subset, FS_CardinalityType DEF Purges, Purged

(* What the conditions are about is a natural number. *)
LEMMA AgesTyped ==
  ASSUME TypeOK
  PROVE  /\ \A p \in Procs : Rem(p) \in Nat /\ Rem(p) <= Grace
         /\ \A v \in Versions : since[v] \in Nat
         /\ Grace \in Nat /\ TTL \in Nat /\ Grace < TTL
         /\ Hit => cache.left \in Nat /\ cache.ver \in Versions /\ cache.left <= TTL
         /\ flight # NoFlight => flight.ver \in Versions
         /\ \A p \in Procs : req[p].ver \in Versions
         /\ 0..ver \subseteq Versions
<1>1. 0..ver \subseteq Versions
  BY TypedParts DEF Versions
<1>2. ASSUME NEW p \in Procs PROVE Rem(p) \in Nat /\ Rem(p) <= Grace /\ req[p].ver \in Versions
  <2>1. req[p].ver \in 0..ver /\ req[p].age \in 0..Grace /\ Grace \in Nat
    BY RequestParts, TimeAssumption
  <2>2. QED BY <1>1, <2>1 DEF Rem
<1>3. QED BY <1>1, <1>2, TypedParts DEF Hit

(* With nothing cached, what is carried is no older than Y. *)
LEMMA CarriedAge ==
  ASSUME TypeOK, AgeInv, NEW v \in Versions, Carried(v)
  PROVE  /\ \A p \in Hurry : since[v] + Rem(p) <= X(Purges)
         /\ ~Hit => since[v] <= Y(Purges)
<1>1. CASE Hit
  BY <1>1 DEF AgeInv, CachedAges
<1>2. CASE ~Hit
  <2>1. \E q \in Procs : since[v] + Rem(q) <= Y(Purges)
    <3>1. CASE \E p \in Procs : HasGot(p, v)
      BY <1>2, <3>1 DEF AgeInv, UncachedAges
    <3>2. CASE FlightAt({"store"}, v)
      BY <1>2, <3>2 DEF AgeInv, UncachedAges, Waiting
    <3>3. CASE FlightAt({"end"}, v)
      <4>1. PICK q \in Waiting : since[v] + Rem(q) <= Z(Purges)
        BY <1>2, <3>3 DEF AgeInv, UncachedAges
      <4>2. q \in Procs BY DEF Waiting
      <4>3. QED BY <4>1, <4>2, AgesTyped, PurgesTyped, Allowances
    <3>4. QED BY <1>2, <3>1, <3>2, <3>3 DEF Carried, FlightAt
  <2>2. since[v] <= Y(Purges)
    BY <2>1, AgesTyped, PurgesTyped, Allowances
  <2>3. QED BY <2>2, AgesTyped, PurgesTyped, Allowances DEF Hurry
<1>3. QED BY <1>1, <1>2

-----------------------------------------------------------------------------
(* Steps that bring nothing into the cache and nobody an older version.    *)
LEMMA CalmStep ==
  ASSUME TypeOK, AgeInv, ver' = ver, since' = since, Purged' = Purged,
         Hit' <=> Hit, Hit => cache' = cache,
         Hit => \A q \in Procs : req'[q].pc = "got" => req'[q].ver \in Versions /\ Carried(req'[q].ver),
         ~Hit => \A q \in Procs : req'[q].pc = "got" => req'[q] = req[q],
         Hit => \A q \in Procs : Hurried(q)' => Hurried(q) /\ req'[q].age = req[q].age,
         \/ flight' = flight /\ \A q \in Waiting : req'[q] = req[q]
         \/ flight' = NoFlight
         \/ ~Hit /\ flight'.pc \notin {"store", "end"}
         \/ Hit /\ flight # NoFlight /\ flight.pc # "end" /\ flight'.pc = "end"
                /\ flight'.ver = cache.ver
  PROVE  AgeInv'
<1>1. Purges' = Purges /\ Versions' = Versions
  BY DEF Purges, Versions
<1>2. \A q \in Procs : req'[q] = req[q] => Rem(q)' = Rem(q)
  BY DEF Rem
<1>3. ASSUME flight' = flight, \A q \in Waiting : req'[q] = req[q], NEW q \in Waiting
      PROVE  q \in Waiting' /\ Rem(q)' = Rem(q)
  BY <1>2, <1>3 DEF Waiting
<1>4. Fresh' /\ CachedAges'
  <2>1. CASE ~Hit
    BY <2>1 DEF Fresh, CachedAges
  <2>2. CASE Hit
    <3>1. \A v \in Versions : Carried(v)' => Carried(v)
      <4>1. SUFFICES ASSUME NEW v \in Versions, Carried(v)' PROVE Carried(v)
        OBVIOUS
      <4>2. CASE Hit' /\ cache'.ver = v
        BY <2>2, <4>2 DEF Carried
      <4>3. CASE \E p \in Procs : HasGot(p, v)'
        BY <2>2, <4>3 DEF HasGot
      <4>4. CASE FlightAt({"store", "end"}, v)'
        BY <2>2, <4>4 DEF FlightAt, Carried
      <4>5. QED BY <4>1, <4>2, <4>3, <4>4 DEF Carried
    <3>2. \A p \in Hurry' : p \in Hurry /\ Rem(p)' = Rem(p) /\ req'[p].age = req[p].age
      BY <2>2 DEF Hurry, Rem
    <3>3. QED BY <1>1, <2>2, <3>1, <3>2 DEF AgeInv, Fresh, CachedAges
  <2>3. QED BY <2>1, <2>2
<1>5. UncachedAges'
  <2>1. SUFFICES ASSUME ~Hit PROVE UncachedAges'
    BY DEF UncachedAges
  <2>2. \A v \in Versions, p \in Procs : HasGot(p, v)' => HasGot(p, v) /\ Rem(p)' = Rem(p)
    BY <1>2, <2>1 DEF HasGot
  <2>3. \A v \in Versions, pcs \in {{"store"}, {"end"}} : FlightAt(pcs, v)' =>
          FlightAt(pcs, v) /\ flight' = flight /\ \A q \in Waiting : req'[q] = req[q]
    BY <2>1 DEF FlightAt
  <2>4. QED BY <1>1, <1>3, <2>1, <2>2, <2>3 DEF AgeInv, UncachedAges
<1>6. NeverPurged'
  <2>1. SUFFICES ASSUME Purges = 0 PROVE NeverPurged'
    BY <1>1 DEF NeverPurged
  <2>2. Hit /\ flight # NoFlight => flight.pc = "end"
    BY <2>1 DEF AgeInv, NeverPurged
  <2>3. \A v \in Versions : FlightAt({"store", "end"}, v)' =>
          FlightAt({"store", "end"}, v) /\ flight' = flight /\ \A q \in Waiting : req'[q] = req[q]
    BY <2>2 DEF FlightAt
  <2>4. \A v \in Versions : FlightAt({"store", "end"}, v)' => \E q \in Waiting' : since[v] + Rem(q)' <= Grace
    BY <1>3, <2>1, <2>3 DEF AgeInv, NeverPurged
  <2>5. ~Hit => /\ \A p \in Procs : req'[p].pc # "got"
                /\ flight' = NoFlight \/ flight'.pc # "end"
    BY <2>1 DEF AgeInv, NeverPurged
  <2>6. QED BY <1>1, <2>1, <2>2, <2>4, <2>5 DEF NeverPurged
<1>7. Young'
  BY <1>1 DEF AgeInv, Young
<1>8. QED BY <1>4, <1>5, <1>6, <1>7 DEF AgeInv

(* Storing what a request or the lookup has, with a new expiry. *)
LEMMA StoreStep ==
  ASSUME TypeOK, TypeOK', AgeInv, NEW v \in Versions, Carried(v), Store(v), Hurry # {},
         ver' = ver, since' = since, Purged' = Purged, flight' # NoFlight => flight'.pc = "end" \/ Purges # 0,
         \A q \in Procs : Hurried(q)' => req'[q] = req[q],
         \A q \in Waiting : req'[q] = req[q],
         \A w : FlightAt({"store", "end"}, w)' => FlightAt({"store", "end"}, w)
  PROVE  AgeInv'
<1>1. Purges' = Purges /\ Versions' = Versions
  BY DEF Purges, Versions
<1>2. Hit' /\ cache'.ver = v /\ cache'.left = TTL
  <2>1. cache' # NoEntry
    BY AgesTyped, NothingAssumption DEF Store, Versions
  <2>2. QED BY <2>1, TimeAssumption DEF Store, Hit
<1>3. \A p \in Hurry' : p \in Hurry /\ Rem(p)' = Rem(p) /\ req'[p] = req[p]
  BY DEF Hurry, Hurried, Rem
<1>4. \A w \in Versions : Carried(w)' => Carried(w)
  <2>1. \A w \in Versions, p \in Procs : HasGot(p, w)' => HasGot(p, w)
    BY DEF HasGot, Hurried
  <2>2. QED BY <1>2, <2>1 DEF Carried
<1>5. Fresh'
  <2>1. \A p \in Procs : req'[p].age \in Nat
    BY RequestParts, TypeOK' DEF TypeOK
  <2>2. QED BY <1>2, <2>1, TimeAssumption DEF Fresh, Hurry
<1>6. since[v] <= X(Purges)
  <2>1. PICK p \in Hurry : TRUE
    OBVIOUS
  <2>2. p \in Procs /\ since[v] + Rem(p) <= X(Purges)
    BY <2>1, CarriedAge DEF Hurry
  <2>3. QED BY <2>2, AgesTyped, PurgesTyped, Allowances
<1>7. CachedAges'
  <2>1. \A w \in Versions : Carried(w)' => \A p \in Hurry' : since'[w] + Rem(p)' <= X(Purges)'
    BY <1>1, <1>3, <1>4, CarriedAge
  <2>2. since'[v] + cache'.left <= TTL + X(Purges)
    BY <1>2, <1>6, AgesTyped, PurgesTyped, Allowances
  <2>3. QED BY <1>1, <1>2, <2>1, <2>2 DEF CachedAges
<1>8. UncachedAges'
  BY <1>2 DEF UncachedAges
<1>9. NeverPurged'
  <2>1. \A q \in Waiting : q \in Waiting' /\ Rem(q)' = Rem(q)
    BY DEF Waiting, Rem
  <2>2. QED BY <1>1, <1>2, <2>1 DEF AgeInv, NeverPurged
<1>10. QED BY <1>1, <1>5, <1>7, <1>8, <1>9 DEF AgeInv, Young

LEMMA AtParts ==
  ASSUME NEW p, NEW place, NEW v
  PROVE  At(p, place, v).pc = place /\ At(p, place, v).ver = v /\ At(p, place, v).age = req[p].age
BY DEF At

LEMMA RequestAges ==
  ASSUME TypeOK, TypeOK', AgeInv, NEW p \in Procs, Arrive(p) \/ Load(p) \/ Got(p) \/ Leave(p)
  PROVE  AgeInv'
<1>0. ver' = ver /\ since' = since /\ Purged' = Purged
  BY DEF Arrive, Load, Got, Leave, dbVars, Purged
<1>1. ASSUME NEW r, req' = [req EXCEPT ![p] = r] PROVE \A q \in Procs : req'[q] = IF q = p THEN r ELSE req[q]
  BY <1>1, RequestParts
<1>2. p \notin Waiting \/ ~(Arrive(p) \/ Got(p) \/ Leave(p))
  BY DEF Waiting, Arrive, Got, Leave
<1>3. CASE Arrive(p)
  <2>1. flight' = flight /\ Waiting \subseteq Procs
    BY <1>3 DEF Arrive, Waiting
  <2>2. CASE Hit /\ req' = [req EXCEPT ![p] = [pc |-> "served", ver |-> cache.ver, age |-> 0]] /\ Touch
    BY <1>0, <1>1, <1>2, <1>3, <2>1, <2>2, CalmStep, AgesTyped DEF Hit, Touch, Hurried, Carried, HasGot
  <2>3. CASE Miss /\ req' = [req EXCEPT ![p] = [pc |-> "load", ver |-> 0, age |-> 0]]
    BY <1>0, <1>1, <1>2, <1>3, <2>1, <2>3, CalmStep DEF Hit, Miss
  <2>4. QED BY <1>3, <2>2, <2>3 DEF Arrive
<1>4. CASE Load(p)
  <2>1. p \notin Waiting /\ Waiting \subseteq Procs /\ Hurried(p)
    BY <1>4 DEF Load, Waiting, Hurried
  <2>2. CASE Hit /\ req' = [req EXCEPT ![p] = At(p, "got", cache.ver)] /\ Touch /\ flight' = flight
    <3>1. \A q \in Procs : req'[q].pc = "got" => req'[q].ver \in Versions /\ Carried(req'[q].ver)
      BY <1>1, <2>2, AgesTyped DEF Carried, HasGot, At
    <3>2. \A q \in Procs : req'[q].age = req[q].age /\ (Hurried(q)' => Hurried(q))
      BY <1>1, <2>1, <2>2 DEF At, Hurried
    <3>3. Hit' /\ cache' = cache
      BY <2>2 DEF Hit, Touch
    <3>4. QED BY <1>0, <1>1, <2>1, <2>2, <3>1, <3>2, <3>3, CalmStep
  <2>3. CASE /\ Miss /\ req' = [req EXCEPT ![p] = At(p, "wait", 0)]
             /\ flight' = IF flight = NoFlight THEN [pc |-> "check", ver |-> 0] ELSE flight
    <3>1. ~Hit /\ ~Hit'
      BY <2>3 DEF Hit, Miss
    <3>2. \A q \in Procs : req'[q].pc = "got" => req'[q] = req[q]
      BY <1>1, <2>3 DEF At
    <3>3. \A q \in Waiting : req'[q] = req[q]
      BY <1>1, <2>1, <2>3
    <3>4. flight' = flight \/ flight'.pc \notin {"store", "end"}
      BY <2>3
    <3>5. QED BY <1>0, <3>1, <3>2, <3>3, <3>4, CalmStep
  <2>4. QED BY <1>4, <2>2, <2>3 DEF Load
<1>5. CASE Got(p) /\ UNCHANGED cache
  <2>1. req' = [req EXCEPT ![p] = [pc |-> "served", ver |-> req[p].ver, age |-> 0]] /\ flight' = flight
        /\ Waiting \subseteq Procs
    BY <1>5 DEF Got, Waiting
  <2>2. QED BY <1>0, <1>1, <1>2, <1>5, <2>1, CalmStep, AgesTyped DEF Hit, Hurried, Carried, HasGot
<1>6. CASE Got(p) /\ Store(req[p].ver)
  <2>1. req' = [req EXCEPT ![p] = [pc |-> "served", ver |-> req[p].ver, age |-> 0]] /\ flight' = flight
        /\ Waiting \subseteq Procs
    BY <1>6 DEF Got, Waiting
  <2>2. req[p].ver \in Versions /\ Carried(req[p].ver) /\ p \in Hurry
    BY <1>6, AgesTyped DEF Got, Carried, HasGot, Hurry, Hurried
  <2>3. flight' # NoFlight => flight'.pc = "end" \/ Purges # 0
    BY <1>6, <2>1 DEF AgeInv, NeverPurged, Got
  <2>4. \A q \in Procs : Hurried(q)' => req'[q] = req[q]
    BY <1>1, <2>1 DEF Hurried
  <2>5. QED BY <1>0, <1>1, <1>2, <1>6, <2>1, <2>2, <2>3, <2>4, StoreStep DEF FlightAt
<1>7. CASE Leave(p)
  <2>1. req' = [req EXCEPT ![p] = Out] /\ flight' = flight /\ cache' = cache /\ Waiting \subseteq Procs
    BY <1>7 DEF Leave, Waiting
  <2>2. QED BY <1>0, <1>1, <1>2, <1>7, <2>1, CalmStep, AgesTyped DEF Hit, Hurried, Carried, HasGot, Out
<1>8. QED BY <1>3, <1>4, <1>5, <1>6, <1>7 DEF Got

LEMMA FlightAges ==
  ASSUME TypeOK, TypeOK', AgeInv, FlightCheck \/ FlightQuery \/ FlightStore \/ FlightEnd \/ FlightFail
  PROVE  AgeInv'
<1>0. ver' = ver /\ since' = since /\ Purged' = Purged /\ Purges' = Purges /\ Versions' = Versions
  BY DEF FlightCheck, FlightQuery, FlightStore, FlightEnd, FlightFail, dbVars, Purged, Purges, Versions
<1>1. flight # NoFlight /\ \E q \in Waiting : q \in Procs
  BY DEF FlightCheck, FlightQuery, FlightStore, FlightEnd, FlightFail, TypeOK, Waiting
<1>2. Waiting \subseteq Hurry /\ Hurry \subseteq Procs
  BY DEF Waiting, Hurry, Hurried
<1>3. CASE FlightCheck
  <2>1. req' = req /\ flight.pc = "check"
    BY <1>3 DEF FlightCheck
  <2>2. CASE Hit /\ flight' = [pc |-> "end", ver |-> cache.ver] /\ Touch
    <3>1. Hit' /\ cache' = cache
      BY <2>2 DEF Hit, Touch
    <3>2. QED BY <1>0, <1>1, <2>1, <2>2, <3>1, CalmStep, AgesTyped DEF Hurried, Carried, HasGot
  <2>3. CASE Miss /\ flight' = [flight EXCEPT !.pc = "query"]
    <3>1. ~Hit /\ ~Hit'
      BY <2>3 DEF Hit, Miss
    <3>2. flight'.pc = "query"
      BY <1>1, <2>3, TypedParts
    <3>3. QED BY <1>0, <2>1, <3>1, <3>2, CalmStep
  <2>4. QED BY <1>3, <2>2, <2>3 DEF FlightCheck
<1>4. CASE FlightQuery
  <2>1. req' = req /\ cache' = cache /\ flight' = [pc |-> "store", ver |-> ver] /\ flight.pc = "query"
    BY <1>4 DEF FlightQuery
  <2>2. ver \in Versions /\ since[ver] = 0
    BY TypedParts, AgesTyped DEF AgeInv, Young, TypeOK
  <2>3. \A p \in Procs : Rem(p)' = Rem(p) /\ since[ver] + Rem(p) <= Grace
    BY <2>1, <2>2, AgesTyped DEF Rem
  <2>4. Hit' = Hit /\ Hurry' = Hurry /\ Waiting' = Waiting
    BY <2>1 DEF Hit, Hurry, Hurried, Waiting
  <2>5. \A w \in Versions : Carried(w)' => Carried(w) \/ w = ver
    BY <2>1, <2>4 DEF Carried, HasGot, FlightAt
  <2>6. Fresh' /\ Young'
    BY <1>0, <2>1, <2>4 DEF AgeInv, Fresh, Young
  <2>7. \A w \in Versions : Carried(w)' => \A p \in Hurry : since[w] + Rem(p) <= X(Purges)
    <3>1. \A p \in Hurry : since[ver] + Rem(p) <= X(Purges)
      BY <1>2, <2>2, <2>3, AgesTyped, PurgesTyped, Allowances
    <3>2. QED BY <2>5, <3>1, CarriedAge
  <2>8. CachedAges'
    BY <1>0, <1>2, <2>1, <2>3, <2>4, <2>7 DEF AgeInv, CachedAges
  <2>9. PICK q \in Waiting : q \in Procs
    BY <1>1
  <2>10. UncachedAges'
    <3>1. \A w \in Versions : \A p \in Procs : HasGot(p, w)' => HasGot(p, w)
      BY <2>1 DEF HasGot
    <3>2. \A w \in Versions : FlightAt({"store"}, w)' => w = ver
      BY <2>1 DEF FlightAt
    <3>3. \A w \in Versions : ~FlightAt({"end"}, w)'
      BY <2>1 DEF FlightAt
    <3>4. since[ver] + Rem(q) <= Y(Purges)
      BY <2>2, <2>3, <2>9, AgesTyped, PurgesTyped, Allowances
    <3>5. QED BY <1>0, <2>3, <2>4, <2>9, <3>1, <3>2, <3>3, <3>4 DEF AgeInv, UncachedAges
  <2>11. NeverPurged'
    <3>1. SUFFICES ASSUME Purges = 0 PROVE NeverPurged'
      BY <1>0 DEF NeverPurged
    <3>2. ~Hit
      BY <1>1, <2>1, <3>1 DEF AgeInv, NeverPurged
    <3>3. \A w \in Versions : FlightAt({"store", "end"}, w)' => w = ver
      BY <2>1 DEF FlightAt
    <3>4. \A p \in Procs : req'[p].pc # "got"
      BY <2>1, <3>1, <3>2 DEF AgeInv, NeverPurged
    <3>5. QED BY <1>0, <2>1, <2>3, <2>4, <2>9, <3>2, <3>3, <3>4 DEF NeverPurged
  <2>12. QED BY <2>6, <2>8, <2>10, <2>11 DEF AgeInv
<1>5. CASE FlightStore
  <2>1. req' = req /\ flight' = [pc |-> "end", ver |-> flight.ver] /\ flight.pc = "store" /\ Store(flight.ver)
    BY <1>1, <1>5, TypedParts DEF FlightStore
  <2>2. Carried(flight.ver) /\ flight.ver \in Versions
    BY <1>1, <2>1, AgesTyped DEF Carried, FlightAt
  <2>3. \A w : FlightAt({"store", "end"}, w)' => FlightAt({"store", "end"}, w)
    BY <1>1, <2>1 DEF FlightAt
  <2>4. QED BY <1>0, <1>1, <1>2, <2>1, <2>2, <2>3, StoreStep
<1>6. CASE FlightEnd
  <2>1. /\ flight.pc = "end" /\ flight' = NoFlight /\ cache' = cache /\ (Hit' <=> Hit)
        /\ Deliver([p \in Procs |-> At(p, "got", flight.ver)])
    BY <1>6 DEF FlightEnd, Hit
  <2>2. flight.ver \in Versions /\ flight.ver \in 0..ver /\ FlightAt({"end"}, flight.ver) /\ Carried(flight.ver)
    BY <1>1, <2>1, AgesTyped, TypedParts DEF FlightAt, Carried
  <2>3. \A p \in Procs : req'[p] = IF p \in Waiting THEN At(p, "got", flight.ver) ELSE req[p]
    BY <1>0, <2>1, <2>2, Delivered
  <2>4. \A p \in Procs : req'[p].age = req[p].age /\ Rem(p)' = Rem(p)
    BY <2>3, AtParts DEF Rem
  <2>5. CASE Hit
    <3>1. \A p \in Procs : req'[p].pc = "got" => req'[p].ver \in Versions /\ Carried(req'[p].ver)
      BY <2>2, <2>3, AgesTyped, AtParts DEF Carried, HasGot
    <3>2. \A p \in Procs : Hurried(p)' => Hurried(p)
      BY <2>3 DEF Hurried, Waiting
    <3>3. QED BY <1>0, <2>1, <2>4, <2>5, <3>1, <3>2, CalmStep
  <2>6. CASE ~Hit
    <3>1. Purges # 0
      BY <1>1, <2>1, <2>6 DEF AgeInv, NeverPurged
    <3>2. \A p \in Procs : since[flight.ver] + Rem(p) <= Y(Purges)
      <4>1. PICK q \in Waiting : since[flight.ver] + Rem(q) <= Z(Purges)
        BY <2>2, <2>6 DEF AgeInv, UncachedAges
      <4>2. q \in Procs BY DEF Waiting
      <4>3. QED BY <2>2, <4>1, <4>2, AgesTyped, PurgesTyped, Allowances
    <3>3. \A v \in Versions, p \in Procs : HasGot(p, v)' => HasGot(p, v) \/ v = flight.ver
      BY <2>3, AtParts DEF HasGot
    <3>4. \A v \in Versions, p \in Procs : HasGot(p, v)' => since[v] + Rem(p) <= Y(Purges)
      BY <2>6, <3>2, <3>3 DEF AgeInv, UncachedAges
    <3>5. UncachedAges'
      BY <1>0, <2>1, <2>4, <3>4 DEF UncachedAges, FlightAt
    <3>6. QED BY <1>0, <2>1, <2>6, <3>1, <3>5 DEF AgeInv, Fresh, Young, CachedAges, NeverPurged
  <2>7. QED BY <2>5, <2>6
<1>7. CASE FlightFail
  <2>1. /\ flight' = NoFlight /\ cache' = cache /\ (Hit' <=> Hit)
        /\ \E to \in {"load", "refused"} : Deliver([p \in Procs |-> At(p, to, 0)])
    BY <1>7 DEF FlightFail, Hit
  <2>2. PICK to \in {"load", "refused"} : \A p \in Procs : req'[p] = IF p \in Waiting THEN At(p, to, 0) ELSE req[p]
    BY <1>0, <2>1, Delivered, TypedParts
  <2>3. \A p \in Procs : req'[p].pc = "got" => req'[p] = req[p] /\ req[p].ver \in Versions /\ Carried(req[p].ver)
    BY <2>2, AgesTyped, AtParts DEF Carried, HasGot
  <2>4. \A p \in Procs : req'[p].age = req[p].age /\ (Hurried(p)' => Hurried(p))
    BY <2>2, AtParts DEF Hurried, Waiting
  <2>5. QED BY <1>0, <2>1, <2>3, <2>4, CalmStep
<1>8. QED BY <1>3, <1>4, <1>5, <1>6, <1>7

LEMMA CommitAges ==
  ASSUME TypeOK, AgeInv, NEW w \in Writers, Commit(w)
  PROVE  AgeInv'
<1>1. UNCHANGED <<since, cache, flight, req>> /\ ver' = ver + 1
  BY DEF Commit
<1>2. Purged' = Purged /\ Purges' = Purges /\ Versions' = Versions
  BY DEF Commit, Purged, Purges, Versions, TypeOK
<1>3. \A p \in Procs : Rem(p)' = Rem(p)
  BY <1>1 DEF Rem
<1>4. Hit' = Hit /\ Hurry' = Hurry /\ Waiting' = Waiting /\ Hurry \subseteq Procs /\ Waiting \subseteq Procs
  BY <1>1 DEF Hit, Hurry, Hurried, Waiting
<1>5. \A v \in Versions : Carried(v)' = Carried(v)
  BY <1>1, <1>4 DEF Carried, HasGot, FlightAt
<1>6. Young'
  BY <1>1, <1>2, TypedParts DEF AgeInv, Young, Versions
<1>7. Fresh' /\ CachedAges'
  BY <1>1, <1>2, <1>3, <1>4, <1>5 DEF AgeInv, Fresh, CachedAges
<1>8. UncachedAges'
  BY <1>1, <1>2, <1>3, <1>4 DEF AgeInv, UncachedAges, HasGot, FlightAt
<1>9. NeverPurged'
  BY <1>1, <1>2, <1>3, <1>4 DEF AgeInv, NeverPurged, FlightAt
<1>10. QED BY <1>6, <1>7, <1>8, <1>9 DEF AgeInv

(* An invalidation grants whoever is under way two more request times. *)
LEMMA InvalidateAges ==
  ASSUME TypeOK, AgeInv, NEW w \in Writers, Invalidate(w)
  PROVE  AgeInv'
<1>1. UNCHANGED <<ver, since, flight, req>> /\ cache' = NoEntry /\ Versions' = Versions
  BY DEF Invalidate, Versions
<1>2. Purges' = Purges + 1
  <2>1. Purged' = Purged \cup {w} /\ w \notin Purged
    BY DEF Invalidate, Purged, TypeOK
  <2>2. IsFiniteSet(Purged)
    BY WritersAssumption, FS_Subset DEF Purged
  <2>3. QED BY <2>1, <2>2, FS_AddElement DEF Purges
<1>3. \A p \in Procs : Rem(p)' = Rem(p)
  BY <1>1 DEF Rem
<1>4. ~Hit' /\ Waiting' = Waiting /\ Waiting \subseteq Hurry /\ Hurry \subseteq Procs
  BY <1>1 DEF Hit, Waiting, Hurry, Hurried
<1>5. flight # NoFlight => \E q \in Waiting : TRUE
  BY DEF TypeOK
<1>6. \A v \in Versions, p \in Procs : HasGot(p, v)' => since[v] + Rem(p) <= Y(Purges + 1)
  <2>1. SUFFICES ASSUME NEW v \in Versions, NEW p \in Procs, HasGot(p, v) PROVE since[v] + Rem(p) <= Y(Purges + 1)
    BY <1>1 DEF HasGot
  <2>2. Carried(v) /\ p \in Hurry
    BY <2>1 DEF Carried, HasGot, Hurry, Hurried
  <2>3. QED BY <2>2, CarriedAge, AgesTyped, PurgesTyped, Allowances
<1>7. \A v \in Versions : FlightAt({"store"}, v)' => \E q \in Waiting : since[v] + Rem(q) <= Y(Purges + 1)
  <2>1. SUFFICES ASSUME NEW v \in Versions, FlightAt({"store"}, v)
                 PROVE  \E q \in Waiting : since[v] + Rem(q) <= Y(Purges + 1)
    BY <1>1 DEF FlightAt
  <2>2. Carried(v)
    BY <2>1 DEF Carried, FlightAt
  <2>3. PICK q \in Waiting : q \in Hurry /\ q \in Procs
    BY <1>4, <1>5, <2>1 DEF FlightAt
  <2>4. since[v] + Rem(q) <= X(Purges)
    BY <2>2, <2>3, CarriedAge
  <2>5. QED BY <2>3, <2>4, AgesTyped, PurgesTyped, Allowances
<1>8. \A v \in Versions : FlightAt({"end"}, v)' => \E q \in Waiting : since[v] + Rem(q) <= Z(Purges + 1)
  <2>1. SUFFICES ASSUME NEW v \in Versions, FlightAt({"end"}, v)
                 PROVE  \E q \in Waiting : since[v] + Rem(q) <= Z(Purges + 1)
    BY <1>1 DEF FlightAt
  <2>2. CASE Purges = 0
    <3>1. PICK q \in Waiting : since[v] + Rem(q) <= Grace
      BY <2>1, <2>2 DEF AgeInv, NeverPurged, FlightAt
    <3>2. QED BY <1>4, <3>1, AgesTyped, PurgesTyped, Allowances
  <2>3. CASE Purges # 0 /\ Hit
    <3>1. Carried(v)
      BY <2>1 DEF Carried, FlightAt
    <3>2. PICK q \in Waiting : q \in Hurry /\ q \in Procs
      BY <1>4, <1>5, <2>1 DEF FlightAt
    <3>3. since[v] + Rem(q) <= X(Purges)
      BY <3>1, <3>2, CarriedAge
    <3>4. QED BY <2>3, <3>2, <3>3, AgesTyped, PurgesTyped, Allowances
  <2>4. CASE ~Hit
    <3>1. PICK q \in Waiting : since[v] + Rem(q) <= Z(Purges)
      BY <2>1, <2>4 DEF AgeInv, UncachedAges
    <3>2. QED BY <1>4, <3>1, AgesTyped, PurgesTyped, Allowances
  <2>5. QED BY <2>2, <2>3, <2>4
<1>9. UncachedAges'
  BY <1>1, <1>2, <1>3, <1>4, <1>6, <1>7, <1>8 DEF UncachedAges
<1>10. NeverPurged'
  BY <1>2, PurgesTyped DEF NeverPurged
<1>11. QED BY <1>1, <1>4, <1>9, <1>10 DEF AgeInv, Fresh, Young, CachedAges

(* A tick: versions age as fast as requests run out of time. *)
LEMMA TickAges ==
  ASSUME TypeOK, TypeOK', AgeInv, Tick
  PROVE  AgeInv'
<1>1. ver' = ver /\ flight' = flight /\ Purges' = Purges /\ Versions' = Versions
  BY DEF Tick, Purges, Purged, Versions
<1>2. \A v \in Versions : since'[v] \in Nat /\ since'[v] <= since[v] + 1 /\ (v >= ver => since'[v] = since[v])
  BY AgesTyped, TypedParts DEF Tick, Versions
<1>3. ASSUME NEW p \in Procs
      PROVE  /\ req'[p].pc = req[p].pc /\ req'[p].ver = req[p].ver
             /\ Hurried(p) => /\ req'[p].age = req[p].age + 1 /\ req[p].age < Grace
                              /\ Rem(p)' = Rem(p) - 1 /\ Rem(p)' \in Nat
  <2>1. req'[p] = IF Hurried(p) THEN [req[p] EXCEPT !.age = @ + 1] ELSE req[p]
    BY DEF Tick
  <2>2. Hurried(p) => req[p].age < Grace
    BY DEF Tick
  <2>3. Hurried(p) => /\ req'[p].pc = req[p].pc /\ req'[p].ver = req[p].ver
                      /\ req'[p].age = req[p].age + 1
    BY <2>1, RequestParts
  <2>4. ~Hurried(p) => req'[p] = req[p]
    BY <2>1
  <2>5. Hurried(p) => Rem(p)' = Rem(p) - 1 /\ Rem(p)' \in Nat
    <3>1. req[p].age \in Nat /\ Grace \in Nat
      BY RequestParts, TimeAssumption
    <3>2. QED BY <2>2, <2>3, <3>1 DEF Rem
  <2>6. QED BY <2>2, <2>3, <2>4, <2>5
<1>4. Hurry' = Hurry /\ Waiting' = Waiting /\ Hurry \subseteq Procs /\ Waiting \subseteq Hurry
  BY <1>3 DEF Hurry, Hurried, Waiting
<1>5. \A v \in Versions, p \in Hurry, b \in Nat :
        since[v] + Rem(p) <= b => since'[v] + Rem(p)' <= b
  BY <1>2, <1>3, AgesTyped DEF Hurry
<1>6. \A v \in Versions, p \in Procs : HasGot(p, v)' => HasGot(p, v) /\ p \in Hurry
  BY <1>3 DEF HasGot, Hurry, Hurried
<1>7. \A v \in Versions, pcs \in SUBSET STRING : FlightAt(pcs, v)' = FlightAt(pcs, v)
  BY <1>1 DEF FlightAt
<1>8. Young'
  BY <1>1, <1>2 DEF AgeInv, Young
<1>9. CASE Hit /\ Hit'
  <2>1. /\ cache'.ver = cache.ver /\ cache'.left = cache.left - 1 /\ cache'.left \in Nat
        /\ cache.ver \in Versions /\ cache.left \in Nat
    BY <1>9, TypedParts, AgesTyped DEF Tick, Hit
  <2>2. \A v \in Versions : Carried(v)' => Carried(v)
    BY <1>1, <1>6, <1>9, <2>1 DEF Carried, FlightAt
  <2>3. Fresh'
    <3>1. \A p \in Hurry : cache.left + req[p].age >= TTL /\ req[p].age \in Nat /\ req'[p].age = req[p].age + 1
      BY <1>3, <1>4, <1>9, RequestParts DEF AgeInv, Fresh, Hurry
    <3>2. QED BY <1>4, <2>1, <3>1, AgesTyped DEF Fresh
  <2>4. CachedAges'
    <3>1. \A v \in Versions : Carried(v)' => \A p \in Hurry : since'[v] + Rem(p)' <= X(Purges)
      BY <1>5, <1>9, <2>2, PurgesTyped, Allowances DEF AgeInv, CachedAges
    <3>2. since[cache.ver] + cache.left <= TTL + X(Purges)
      BY <1>9 DEF AgeInv, CachedAges
    <3>3. since'[cache'.ver] + cache'.left <= TTL + X(Purges)
      <4>1. since'[cache.ver] <= since[cache.ver] + 1 /\ since'[cache.ver] \in Nat /\ since[cache.ver] \in Nat
        BY <1>2, <2>1, AgesTyped
      <4>2. X(Purges) \in Nat /\ TTL \in Nat
        BY AgesTyped, PurgesTyped, Allowances
      <4>3. QED BY <2>1, <3>2, <4>1, <4>2
    <3>4. QED BY <1>1, <1>4, <3>1, <3>3 DEF CachedAges
  <2>5. UncachedAges'
    BY <1>9 DEF UncachedAges
  <2>6. NeverPurged'
    <3>1. SUFFICES ASSUME Purges = 0 PROVE NeverPurged'
      BY <1>1 DEF NeverPurged
    <3>2. \A v \in Versions : FlightAt({"store", "end"}, v)' => \E q \in Waiting : since'[v] + Rem(q)' <= Grace
      BY <1>1, <1>4, <1>5, <3>1, AgesTyped DEF AgeInv, NeverPurged, FlightAt
    <3>3. flight # NoFlight => flight.pc = "end"
      BY <1>9, <3>1 DEF AgeInv, NeverPurged
    <3>4. QED BY <1>1, <1>4, <1>9, <3>2, <3>3 DEF NeverPurged
  <2>7. QED BY <1>8, <2>3, <2>4, <2>5, <2>6 DEF AgeInv
<1>10. CASE ~Hit
  <2>1. ~Hit'
    BY <1>10 DEF Tick, Hit
  <2>2. UncachedAges'
    <3>1. \A v \in Versions, p \in Procs : HasGot(p, v)' => since'[v] + Rem(p)' <= Y(Purges)
      BY <1>5, <1>6, <1>10, PurgesTyped, Allowances DEF AgeInv, UncachedAges
    <3>2. \A v \in Versions : FlightAt({"store"}, v)' => \E q \in Waiting : since'[v] + Rem(q)' <= Y(Purges)
      BY <1>1, <1>4, <1>5, <1>10, PurgesTyped, Allowances DEF AgeInv, UncachedAges, FlightAt
    <3>3. \A v \in Versions : FlightAt({"end"}, v)' => \E q \in Waiting : since'[v] + Rem(q)' <= Z(Purges)
      BY <1>1, <1>4, <1>5, <1>10, PurgesTyped, Allowances DEF AgeInv, UncachedAges, FlightAt
    <3>4. QED BY <1>1, <1>4, <3>1, <3>2, <3>3 DEF UncachedAges
  <2>3. NeverPurged'
    <3>1. SUFFICES ASSUME Purges = 0 PROVE NeverPurged'
      BY <1>1 DEF NeverPurged
    <3>2. \A v \in Versions : FlightAt({"store", "end"}, v)' => \E q \in Waiting : since'[v] + Rem(q)' <= Grace
      BY <1>1, <1>4, <1>5, <3>1, AgesTyped DEF AgeInv, NeverPurged, FlightAt
    <3>3. (\A p \in Procs : req'[p].pc # "got") /\ (flight' = NoFlight \/ flight'.pc # "end")
      BY <1>1, <1>3, <1>10, <3>1 DEF AgeInv, NeverPurged
    <3>4. QED BY <1>1, <1>4, <2>1, <3>2, <3>3 DEF NeverPurged
  <2>4. QED BY <1>8, <2>1, <2>2, <2>3 DEF AgeInv, Fresh, CachedAges
<1>11. CASE Hit /\ ~Hit'
  <2>1. cache.left = 1
    <3>1. cache' = [ver |-> cache.ver, left |-> cache.left - 1] /\ cache.left \in Nat /\ cache.left > 0
          /\ cache.ver \in 0..ver
      BY <1>11, TypedParts, AgesTyped DEF Tick, Hit
    <3>2. cache' # NoEntry /\ cache'.left = cache.left - 1
      BY <3>1, EntryMade
    <3>3. QED BY <1>11, <3>1, <3>2 DEF Hit
  <2>2. Hurry = {}
    <3>1. SUFFICES ASSUME NEW p \in Hurry PROVE FALSE
      OBVIOUS
    <3>2. 1 + req[p].age >= TTL /\ req[p].age \in Nat /\ req[p].age < Grace
      BY <1>3, <1>4, <1>11, <2>1, RequestParts DEF AgeInv, Fresh, Hurry
    <3>3. QED BY <3>2, AgesTyped
  <2>3. flight' = NoFlight /\ \A p \in Procs : req'[p].pc # "got"
    BY <1>1, <1>3, <1>4, <2>2 DEF TypeOK, Hurry, Hurried
  <2>4. QED BY <1>8, <1>11, <2>3 DEF AgeInv, Fresh, CachedAges, UncachedAges, NeverPurged, HasGot, FlightAt
<1>12. QED BY <1>9, <1>10, <1>11

LEMMA AgeStep == TypeInv /\ AgeInv /\ [Next]_vars => AgeInv'
<1>1. SUFFICES ASSUME TypeInv, AgeInv, [Next]_vars PROVE AgeInv'
  OBVIOUS
<1>2. TypeOK /\ TypeOK'
  BY <1>1, TypeStep DEF TypeInv
<1>3. CASE UNCHANGED vars
  <2>1. UNCHANGED <<ver, since, cache, flight, req, wr>>
    BY <1>3 DEF vars, dbVars
  <2>2. Purges' = Purges /\ Versions' = Versions /\ Hit' = Hit /\ Hurry' = Hurry /\ Waiting' = Waiting
    BY <2>1 DEF Purges, Purged, Versions, Hit, Hurry, Hurried, Waiting
  <2>3. \A v : Carried(v)' = Carried(v)
    BY <2>1 DEF Carried, Hit, HasGot, FlightAt
  <2>4. Fresh' /\ Young' /\ CachedAges'
    BY <1>1, <2>1, <2>2, <2>3 DEF AgeInv, Fresh, Young, CachedAges, Rem
  <2>5. UncachedAges' /\ NeverPurged'
    BY <1>1, <2>1, <2>2 DEF AgeInv, UncachedAges, NeverPurged, Rem, HasGot, FlightAt
  <2>6. QED BY <2>4, <2>5 DEF AgeInv
<1>4. QED BY <1>1, <1>2, <1>3, RequestAges, FlightAges, CommitAges, InvalidateAges, TickAges DEF Next

LEMMA AgeInit == Init => AgeInv
<1>1. SUFFICES ASSUME Init PROVE AgeInv
  OBVIOUS
<1>2. \A p \in Procs : req[p].pc = "out"
  BY <1>1 DEF Init, Out
<1>3. QED BY <1>1, <1>2 DEF Init, AgeInv, Fresh, Young, CachedAges, UncachedAges, NeverPurged, Hit, HasGot, FlightAt

LEMMA AgesBound == TypeOK /\ AgeInv => StaleBounded
<1>1. SUFFICES ASSUME TypeOK, AgeInv, Hit PROVE since[cache.ver] < Horizon
  BY DEF StaleBounded
<1>2. /\ since[cache.ver] \in Nat /\ cache.left \in Nat /\ cache.left > 0
      /\ since[cache.ver] + cache.left <= TTL + X(Purges)
  BY <1>1, AgesTyped DEF AgeInv, CachedAges, Hit
<1>3. CASE Cardinality(Writers) = 0
  <2>1. ver = 0 /\ cache.ver = 0 /\ 0 \in Versions
    BY <1>1, <1>3, TypedParts DEF Hit, Versions
  <2>2. since[cache.ver] = 0
    BY <1>1, <2>1 DEF AgeInv, Young
  <2>3. Horizon = TTL + Grace
    BY <1>3, TimeAssumption DEF Horizon
  <2>4. QED BY <2>2, <2>3, TimeAssumption
<1>4. CASE Cardinality(Writers) # 0
  <2>1. PICK n \in Nat : Cardinality(Writers) = n + 1
    <3>1. Cardinality(Writers) \in Nat
      BY <1>1, TypedParts
    <3>2. Cardinality(Writers) - 1 \in Nat /\ Cardinality(Writers) = (Cardinality(Writers) - 1) + 1
      BY <1>4, <3>1
    <3>3. QED BY <3>2
  <2>2. Horizon = TTL + 2 * (n * Grace) + 3 * Grace /\ n * Grace \in Nat
    BY <2>1, TimeAssumption DEF Horizon
  <2>3. X(Purges) <= 2 * (n * Grace) + 3 * Grace
    <3>1. CASE Purges = 0
      BY <2>2, <3>1, TimeAssumption DEF X, Y
    <3>2. CASE Purges # 0
      <4>1. PICK j \in Nat : Purges = j + 1
        BY <3>2, PurgesTyped
      <4>2. PICK d \in Nat : n = j + d
        BY <2>1, <4>1, PurgesTyped
      <4>3. X(Purges) = 2 * (j * Grace) + 3 * Grace
        BY <4>1, TimeAssumption DEF X, Y
      <4>4. n * Grace = j * Grace + d * Grace /\ d * Grace \in Nat /\ j * Grace \in Nat
        BY <4>2, TimeAssumption
      <4>5. QED BY <4>3, <4>4, TimeAssumption
    <3>3. QED BY <3>1, <3>2
  <2>4. X(Purges) \in Nat
    BY PurgesTyped, Allowances
  <2>5. QED BY <1>2, <2>2, <2>3, <2>4, TimeAssumption
<1>5. QED BY <1>3, <1>4

(* Whatever lookups, second stores and invalidations race, an overwritten  *)
(* row of users is out of the cache TTL, one request time and two more for *)
(* each writer after it was overwritten.                                   *)
THEOREM StaleForAWhile == Spec => []StaleBounded
<1>1. TypeInv /\ AgeInv => StaleBounded
  BY AgesBound DEF TypeInv
<1>2. Init => TypeInv /\ AgeInv
  BY TypeInit, AgeInit
<1>3. TypeInv /\ AgeInv /\ [Next]_vars => (TypeInv /\ AgeInv)'
  BY TypeStep, AgeStep
<1>4. QED BY <1>1, <1>2, <1>3, PTL DEF Spec

=============================================================================
