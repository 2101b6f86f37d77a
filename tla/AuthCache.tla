----------------------------- MODULE AuthCache -----------------------------
(***************************************************************************)
(* The cache of authenticated users of the auth middleware, at one e-mail  *)
(* address: requests look the user up, concurrent lookups share one        *)
(* database query (singleflight), and a handler that writes the user's row *)
(* deletes the cached copy after its commit.                               *)
(*                                                                         *)
(* Versions number the states of the row in users; a row may be missing.   *)
(* Time is counted in ticks, and only relative to what it is compared with.*)
(***************************************************************************)
EXTENDS Naturals, FiniteSets

CONSTANTS
  Procs,       \* requests being authenticated at the same time
  Writers,     \* handlers that write the user's row, each once
  TTL,         \* authUserCacheTTL, in ticks
  Grace,       \* ticks that the authentication of one request may take
  NoEntry,     \* nothing cached
  NoFlight     \* no lookup under way

(* A lookup (5 s) is short beside the TTL (5 min). *)
ASSUME TimeAssumption    == TTL \in Nat /\ Grace \in Nat \ {0} /\ Grace < TTL
ASSUME WritersAssumption == IsFiniteSet(Writers)
ASSUME NothingAssumption == /\ NoEntry \notin [ver : Nat, left : Nat]
                            /\ NoFlight \notin [pc : {"check", "query", "store", "end"}, ver : Nat]

Versions == 0..Cardinality(Writers)

(* How long a version may outlive its overwriting (StaleBounded): ages are  *)
(* not told apart beyond that.                                              *)
Horizon == TTL + (2 * Cardinality(Writers) + 1) * Grace

VARIABLES
  ver, live,   \* the user's row: its version, and whether there is one
  since,       \* ticks since each version was overwritten, up to Horizon
  cache,       \* authUserCache.byEmail[key]: a version and the ticks left
  flight,      \* the shared lookup: its next step, and the version it has
  req,         \* each request: next step, version, age
  wr           \* each writer: "ready", "invalidate" or "done"; its version

dbVars == <<ver, live, since>>
vars   == <<dbVars, cache, flight, req, wr>>

Out     == [pc |-> "out", ver |-> 0, age |-> 0]
At(p, place, v) == [pc |-> place, ver |-> v, age |-> req[p].age]
Waiting == {p \in Procs : req[p].pc = "wait"}

Init ==
  /\ ver = 0
  /\ live \in BOOLEAN
  /\ since  = [v \in Versions |-> 0]
  /\ cache  = NoEntry
  /\ flight = NoFlight
  /\ req    = [p \in Procs |-> Out]
  /\ wr     = [w \in Writers |-> [pc |-> "ready", ver |-> 0]]

-----------------------------------------------------------------------------
(* The cache.                                                              *)

(* cachedAuthUser finds an entry that has not expired; an expired one is    *)
(* deleted on the way.                                                      *)
Hit  == cache # NoEntry /\ cache.left > 0
Miss == ~Hit /\ cache' = NoEntry

Store(v) == cache' = [ver |-> v, left |-> TTL]

(* Mutant: a hit renews the entry. *)
TouchRenewing == Store(cache.ver)

(* A hit leaves the entry and its expiry alone. *)
Touch == UNCHANGED cache

-----------------------------------------------------------------------------
(* Requests.                                                               *)

(* Authenticate asks the cache. *)
Arrive(p) ==
  /\ req[p].pc = "out"
  /\ \/ /\ Hit
        /\ req' = [req EXCEPT ![p] = [pc |-> "served", ver |-> cache.ver, age |-> 0]]
        /\ Touch
     \/ /\ Miss
        /\ req' = [req EXCEPT ![p] = [pc |-> "load", ver |-> 0, age |-> 0]]
  /\ UNCHANGED <<dbVars, flight, wr>>

(* loadAuthUserByEmail asks the cache, then joins or starts the lookup. *)
Load(p) ==
  /\ req[p].pc = "load"
  /\ \/ /\ Hit
        /\ req' = [req EXCEPT ![p] = At(p, "got", cache.ver)]
        /\ Touch
        /\ UNCHANGED flight
     \/ /\ Miss
        /\ req'    = [req EXCEPT ![p] = At(p, "wait", 0)]
        /\ flight' = IF flight = NoFlight THEN [pc |-> "check", ver |-> 0] ELSE flight
  /\ UNCHANGED <<dbVars, wr>>

(* Authenticate stores what it got once more; the other callers             *)
(* (OptionalAuthenticate, the websocket's UserFromBearerToken) do not.      *)
Got(p) ==
  /\ req[p].pc = "got"
  /\ Store(req[p].ver) \/ UNCHANGED cache
  /\ req' = [req EXCEPT ![p] = [pc |-> "served", ver |-> req[p].ver, age |-> 0]]
  /\ UNCHANGED <<dbVars, flight, wr>>

(* The handler is done with c.Locals("user"), or the new user is told so. *)
Leave(p) ==
  /\ req[p].pc \in {"served", "refused"}
  /\ req' = [req EXCEPT ![p] = Out]
  /\ UNCHANGED <<dbVars, cache, flight, wr>>

-----------------------------------------------------------------------------
(* The shared lookup; every waiter gets its result.                        *)

Deliver(result) ==
  req' = [p \in Procs |-> IF p \in Waiting THEN result[p] ELSE req[p]]

FlightCheck ==
  /\ flight # NoFlight /\ flight.pc = "check"
  /\ \/ Hit /\ flight' = [pc |-> "end", ver |-> cache.ver] /\ Touch
     \/ Miss /\ flight' = [flight EXCEPT !.pc = "query"]
  /\ UNCHANGED <<dbVars, req, wr>>

FlightQuery ==
  /\ flight # NoFlight /\ flight.pc = "query"
  /\ live
  /\ flight' = [pc |-> "store", ver |-> ver]
  /\ UNCHANGED <<dbVars, cache, req, wr>>

FlightStore ==
  /\ flight # NoFlight /\ flight.pc = "store"
  /\ Store(flight.ver)
  /\ flight' = [flight EXCEPT !.pc = "end"]
  /\ UNCHANGED <<dbVars, req, wr>>

FlightEnd ==
  /\ flight # NoFlight /\ flight.pc = "end"
  /\ Deliver([p \in Procs |-> At(p, "got", flight.ver)])
  /\ flight' = NoFlight
  /\ UNCHANGED <<dbVars, cache, wr>>

(* No row (the request goes on as a new user), or the database is late: the *)
(* waiters retry or give up.                                                *)
FlightFail ==
  /\ flight # NoFlight /\ flight.pc = "query"
  /\ \E next \in {"load", "refused"} :
       Deliver([p \in Procs |-> At(p, next, 0)])
  /\ flight' = NoFlight
  /\ UNCHANGED <<dbVars, cache, wr>>

-----------------------------------------------------------------------------
(* Writers: UpdateProfile, SetDefaultAddress, ConfirmEmailVerification,     *)
(* CreateOrUpdateUser and DeleteUser commit, then invalidate.               *)

Commit(w) ==
  /\ wr[w].pc = "ready"
  /\ ver' = ver + 1
  /\ live' \in BOOLEAN
  /\ wr' = [wr EXCEPT ![w] = [pc |-> "invalidate", ver |-> ver']]
  /\ UNCHANGED <<since, cache, flight, req>>

Invalidate(w) ==
  /\ wr[w].pc = "invalidate"
  /\ cache'   = NoEntry
  /\ wr' = [wr EXCEPT ![w].pc = "done"]
  /\ UNCHANGED <<ver, live, since, flight, req>>

(* Authenticating a request takes at most Grace. *)
Hurried(p) == req[p].pc \in {"load", "wait", "got"}

Tick ==
  /\ \A p \in Procs : Hurried(p) => req[p].age < Grace
  /\ req'   = [p \in Procs |-> IF Hurried(p) THEN [req[p] EXCEPT !.age = @ + 1] ELSE req[p]]
  /\ since' = [v \in Versions |-> IF v < ver /\ since[v] < Horizon THEN since[v] + 1
                                  ELSE since[v]]
  /\ cache' = IF Hit THEN [cache EXCEPT !.left = @ - 1] ELSE cache
  /\ UNCHANGED <<ver, live, flight, wr>>

Next ==
  \/ \E p \in Procs : Arrive(p) \/ Load(p) \/ Got(p) \/ Leave(p)
  \/ FlightCheck \/ FlightQuery \/ FlightStore \/ FlightEnd \/ FlightFail
  \/ \E w \in Writers : Commit(w) \/ Invalidate(w)
  \/ Tick

Spec == Init /\ [][Next]_vars

-----------------------------------------------------------------------------
(* Types; and a request waits only for a lookup that is under way, which a  *)
(* waiter of it started: nobody waits for an answer that will not come.     *)
TypeOK ==
  /\ ver \in Versions /\ live \in BOOLEAN
  /\ since \in [Versions -> 0..Horizon]
  /\ cache = NoEntry \/ cache \in [ver : 0..ver, left : 0..TTL]
  /\ flight = NoFlight \/ flight \in [pc : {"check", "query", "store", "end"}, ver : 0..ver]
  /\ req \in [Procs -> [pc : {"out", "load", "wait", "got", "served", "refused"},
                        ver : 0..ver, age : 0..Grace]]
  /\ wr \in [Writers -> [pc : {"ready", "invalidate", "done"}, ver : 0..ver]]
  /\ flight = NoFlight <=> Waiting = {}

(* A user's old row (name, e-mail verification, or the account itself) is   *)
(* not served for ever: whatever the races between lookups and writers, and *)
(* although Authenticate stores the entry a second time with a new expiry,  *)
(* a version is out of the cache TTL after it was overwritten, plus the     *)
(* time of one request, and of two more for each invalidation: one that     *)
(* joined the lookup that has read it before the invalidation, and one that *)
(* missed before the first stored it again.                                 *)
StaleBounded == Hit => since[cache.ver] < Horizon

=============================================================================
