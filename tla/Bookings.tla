------------------------------ MODULE Bookings ------------------------------
(***************************************************************************)
(* The booking lifecycle of the ride-sharing backend: the rides and        *)
(* bookings tables, and the HTTP handlers that write them.  Every handler  *)
(* runs as its own process and is split at each database statement, so     *)
(* that what it read may be stale when it writes.                          *)
(*                                                                         *)
(* A transaction's writes become visible when it commits; until then the   *)
(* rows it wrote are locked and another writer of the same row waits.      *)
(* CockroachDB runs transactions SERIALIZABLE: one commits only if what it *)
(* read is still what the tables hold.  Serializable = FALSE drops that    *)
(* check (READ COMMITTED), to tell what the SQL guards alone achieve from  *)
(* what only the isolation level achieves.                                 *)
(***************************************************************************)
EXTENDS Seats, FiniteSets

CONSTANTS
  Users, Rides,    \* row ids; a ride id is used for one row only
  Procs,           \* requests that can be in flight at the same time
  NoProc,          \* "nobody holds this row lock"
  NoTarget,        \* the locals of a process that serves no request
  Female,          \* users whose profile says "female"
  Routes,          \* the write routes that clients call
  CreateSeats,     \* total_seats sent to /ride/create
  CreateBooked,    \* booked_seats sent to /ride/create
  EditSeats,       \* total_seats sent to /ride/update
  EditBooked,      \* booked_seats sent to /ride/update, 0 when left out
  EditHosts,       \* host_user_id sent to /ride/update
  MaxGen,          \* bound: bookings of one user on one ride, over time
  Serializable     \* isolation level of the database

AllRoutes == {"create_ride", "request", "accept", "reject", "delete_booking",
              "remove_participant", "delete_ride", "update_ride",
              "create_booking", "update_booking"}

ASSUME UsersAssumption  == IsFiniteSet(Users) /\ Female \subseteq Users
ASSUME ProcAssumption   == NoProc \notin Procs
ASSUME RouteAssumption  == Routes \subseteq AllRoutes /\ Serializable \in BOOLEAN
ASSUME SeatsAssumption  == CreateSeats \subseteq Nat /\ CreateBooked \subseteq Nat
ASSUME EditAssumption   == /\ EditSeats \subseteq Nat /\ EditBooked \subseteq Nat
                           /\ EditHosts \subseteq Users
ASSUME GenAssumption    == MaxGen \in Nat

VARIABLES
  row,       \* rides: "unborn", "live", or "gone" (deletes are hard deletes)
  host, total, booked, women,    \* rides: columns
  started,   \* rides whose start_time has passed
  st,        \* bookings: request_status by (ride, passenger), "none" = no row
  gen,       \* bookings: which booking of this pair the row is (its id)
  lockR, lockB,                  \* row locks held by open transactions
  pc, tgt    \* each process: its next statement, and what it has read

rideVars == <<row, host, total, booked, women, started>>
bkgVars  == <<st, gen>>
lockVars == <<lockR, lockB>>
procVars == <<pc, tgt>>
vars == <<rideVars, bkgVars, lockVars, procVars>>

Status   == {"pending", "accepted", "rejected"}
NoRow    == "none"
Target   == [ride : Rides, pass : Users, host : Users, gen : Nat,
             seen : Status \cup {NoRow}]

Stages   == {"idle", "rq_insert", "ac_seat", "ac_book", "ac_commit", "rj_book",
             "rj_commit", "rp_book", "dl_row", "dl_seat", "dl_commit", "dr_delete",
             "ur_write", "cb_insert", "ub_write"}

Deciding == {"ac_seat", "ac_book", "ac_commit", "rj_book", "rj_commit"}
Leaving  == {"dl_row", "dl_seat", "dl_commit"}

Accepted(r) == {u \in Users : st[r][u] = "accepted"}
Pending(r)  == {u \in Users : st[r][u] = "pending"}

(* The row a process is working on, and whether the booking it read exists. *)
R(p) == tgt[p].ride
U(p) == tgt[p].pass
SameRow(p) == st[R(p)][U(p)] # NoRow /\ gen[R(p)][U(p)] = tgt[p].gen

(* What the transaction of p read is still what the tables hold. *)
ReadsCurrent(p) ==
  /\ row[R(p)] = "live"
  /\ host[R(p)] = tgt[p].host
  /\ SameRow(p)
  /\ st[R(p)][U(p)] = tgt[p].seen

(* Mutant: the database does not validate reads. *)
NoReadValidation(p) == p \in Procs

MayCommit(p) == Serializable => ReadsCurrent(p)

Init ==
  /\ row     = [r \in Rides |-> "unborn"]
  /\ host    \in [Rides -> Users]
  /\ total   = [r \in Rides |-> 0]
  /\ booked  = [r \in Rides |-> 0]
  /\ women   = [r \in Rides |-> FALSE]
  /\ started = {}
  /\ st      = [r \in Rides |-> [u \in Users |-> NoRow]]
  /\ gen     = [r \in Rides |-> [u \in Users |-> 0]]
  /\ lockR   = [r \in Rides |-> NoProc]
  /\ lockB   = [r \in Rides |-> [u \in Users |-> NoProc]]
  /\ pc      = [p \in Procs |-> "idle"]
  /\ tgt     = [p \in Procs |-> NoTarget]

-----------------------------------------------------------------------------
(* Serving a request. *)

Begin(p, route, next, r, u) ==
  /\ route \in Routes
  /\ pc[p] = "idle"
  /\ pc'  = [pc EXCEPT ![p] = next]
  /\ tgt' = [tgt EXCEPT ![p] = [ride |-> r, pass |-> u, host |-> host[r],
                                gen |-> gen[r][u], seen |-> st[r][u]]]

Goto(p, next) == pc' = [pc EXCEPT ![p] = next] /\ UNCHANGED tgt

(* Commit, rollback or plain return: the process is idle, its locks are free. *)
Finish(p) ==
  /\ pc'    = [pc EXCEPT ![p] = "idle"]
  /\ tgt'   = [tgt EXCEPT ![p] = NoTarget]
  /\ lockR' = [r \in Rides |-> IF lockR[r] = p THEN NoProc ELSE lockR[r]]
  /\ lockB' = [r \in Rides |-> [u \in Users |->
                 IF lockB[r][u] = p THEN NoProc ELSE lockB[r][u]]]

LockRide(p)    == lockR' = [lockR EXCEPT ![R(p)] = p]
LockBooking(p) == lockB' = [lockB EXCEPT ![R(p)][U(p)] = p]
RideFree(p)    == lockR[R(p)] = NoProc
BookingFree(p) == lockB[R(p)][U(p)] = NoProc

InsertBooking(r, u, s) ==
  /\ st'  = [st EXCEPT ![r][u] = s]
  /\ gen' = [gen EXCEPT ![r][u] = @ + 1]

-----------------------------------------------------------------------------
(* POST /ride/create.  One INSERT; the ride's time lies in the future. *)
CreateRide ==
  /\ "create_ride" \in Routes
  /\ \E r \in Rides, h \in Users, t \in CreateSeats, b \in CreateBooked, w \in BOOLEAN :
       /\ row[r] = "unborn"
       /\ t >= MinTotalSeats
       /\ b <= PassengerCapacity(t)
       /\ w => h \in Female
       /\ row'    = [row EXCEPT ![r] = "live"]
       /\ host'   = [host EXCEPT ![r] = h]
       /\ total'  = [total EXCEPT ![r] = t]
       /\ booked' = [booked EXCEPT ![r] = b]
       /\ women'  = [women EXCEPT ![r] = w]
  /\ UNCHANGED <<started, bkgVars, lockVars, procVars>>

(* Time passes the ride's start_time. *)
StartTimePasses ==
  /\ \E r \in Rides : row[r] = "live" /\ r \notin started /\ started' = started \cup {r}
  /\ UNCHANGED <<row, host, total, booked, women, bkgVars, lockVars, procVars>>

-----------------------------------------------------------------------------
(* POST /bookings/request: a preflight query, then the INSERT.  The        *)
(* preflight counts accepted bookings; it does not read booked_seats.      *)
RequestPreflight(p) ==
  /\ \E r \in Rides, u \in Users :
       /\ row[r] = "live"
       /\ st[r][u] = NoRow
       /\ host[r] # u
       /\ r \notin started
       /\ CanAcceptAnotherPassenger(total[r], Cardinality(Accepted(r)))
       /\ women[r] => u \in Female
       /\ gen[r][u] < MaxGen
       /\ Begin(p, "request", "rq_insert", r, u)
  /\ UNCHANGED <<rideVars, bkgVars, lockVars>>

(* Mutant: an upsert instead of an insert. *)
BookingUpsert(p, s) ==
  /\ BookingFree(p)
  /\ IF row[R(p)] = "live" THEN InsertBooking(R(p), U(p), s) ELSE UNCHANGED bkgVars
  /\ Finish(p)
  /\ UNCHANGED <<rideVars>>

(* The unique index on (ride, passenger) and the foreign key to the ride   *)
(* turn a late INSERT into an error; it waits for an uncommitted delete.   *)
BookingInsert(p, s) ==
  /\ BookingFree(p)
  /\ IF row[R(p)] = "live" /\ st[R(p)][U(p)] = NoRow
       THEN InsertBooking(R(p), U(p), s)
       ELSE UNCHANGED bkgVars
  /\ Finish(p)
  /\ UNCHANGED <<rideVars>>

RequestInsert(p) == pc[p] = "rq_insert" /\ BookingInsert(p, "pending")

-----------------------------------------------------------------------------
(* PUT /bookings/accept/:id, one transaction: read the booking with its    *)
(* ride, take a seat, mark the booking, commit.                            *)
AcceptRead(p) ==
  /\ \E r \in Rides, u \in Users :
       /\ row[r] = "live"
       /\ st[r][u] = "pending"
       /\ Begin(p, "accept", "ac_seat", r, u)
  /\ UNCHANGED <<rideVars, bkgVars, lockVars>>

(* Mutant: the host's own seat is offered, too. *)
SeatAvailableWithHost(r) == row[r] = "live" /\ booked[r] < total[r]

SeatAvailable(r) == row[r] = "live" /\ PassengerSeatsLeftPredicate(total[r], booked[r])

AcceptSeat(p) ==
  /\ pc[p] = "ac_seat"
  /\ RideFree(p)
  /\ IF SeatAvailable(R(p))
       THEN LockRide(p) /\ Goto(p, "ac_book") /\ UNCHANGED lockB
       ELSE Finish(p)
  /\ UNCHANGED <<rideVars, bkgVars>>

(* Mutant: the UPDATE does not ask for a pending row. *)
StillThere(p) == SameRow(p)

StillPending(p) == SameRow(p) /\ st[R(p)][U(p)] = "pending"

(* Mutant: the early return forgets the rollback, and keeps the locks. *)
AcceptBookingNoRollback(p) ==
  /\ pc[p] = "ac_book"
  /\ BookingFree(p)
  /\ IF StillPending(p)
       THEN LockBooking(p) /\ Goto(p, "ac_commit") /\ UNCHANGED lockR
       ELSE /\ pc'  = [pc EXCEPT ![p] = "idle"]
            /\ tgt' = [tgt EXCEPT ![p] = NoTarget]
            /\ UNCHANGED lockVars
  /\ UNCHANGED <<rideVars, bkgVars>>

AcceptBooking(p) ==
  /\ pc[p] = "ac_book"
  /\ BookingFree(p)
  /\ IF StillPending(p)
       THEN LockBooking(p) /\ Goto(p, "ac_commit") /\ UNCHANGED lockR
       ELSE Finish(p)
  /\ UNCHANGED <<rideVars, bkgVars>>

AcceptCommit(p) ==
  /\ pc[p] = "ac_commit"
  /\ IF MayCommit(p)
       THEN /\ booked' = [booked EXCEPT ![R(p)] = @ + 1]
            /\ st'     = [st EXCEPT ![R(p)][U(p)] = "accepted"]
       ELSE UNCHANGED <<booked, st>>
  /\ Finish(p)
  /\ UNCHANGED <<row, host, total, women, started, gen>>

-----------------------------------------------------------------------------
(* PUT /bookings/reject/:id, one transaction. *)
RejectRead(p) ==
  /\ \E r \in Rides, u \in Users :
       /\ row[r] = "live"
       /\ st[r][u] = "pending"
       /\ Begin(p, "reject", "rj_book", r, u)
  /\ UNCHANGED <<rideVars, bkgVars, lockVars>>

RejectBooking(p) ==
  /\ pc[p] = "rj_book"
  /\ BookingFree(p)
  /\ IF StillPending(p)
       THEN LockBooking(p) /\ Goto(p, "rj_commit") /\ UNCHANGED lockR
       ELSE Finish(p)
  /\ UNCHANGED <<rideVars, bkgVars>>

RejectCommit(p) ==
  /\ pc[p] = "rj_commit"
  /\ st' = IF MayCommit(p) THEN [st EXCEPT ![R(p)][U(p)] = "rejected"] ELSE st
  /\ Finish(p)
  /\ UNCHANGED <<rideVars, gen>>

-----------------------------------------------------------------------------
(* DELETE /booking/delete/:id by the host or the passenger, and            *)
(* DELETE /rides/:ride_id/participants/:user_id, which reads the ride and  *)
(* the booking in two statements.  Then both delete the booking row and,   *)
(* if the status they READ was "accepted", give the seat back.  Neither    *)
(* looks at how many rows its DELETE removed.                              *)
DeleteBookingRead(p) ==
  /\ \E r \in Rides, u \in Users :
       /\ row[r] = "live"
       /\ st[r][u] # NoRow
       /\ Begin(p, "delete_booking", "dl_row", r, u)
  /\ UNCHANGED <<rideVars, bkgVars, lockVars>>

RemoveReadRide(p) ==
  /\ \E r \in Rides, u \in Users :
       /\ row[r] = "live"
       /\ u # host[r]
       /\ Begin(p, "remove_participant", "rp_book", r, u)
  /\ UNCHANGED <<rideVars, bkgVars, lockVars>>

RemoveReadBooking(p) ==
  /\ pc[p] = "rp_book"
  /\ IF st[R(p)][U(p)] # NoRow
       THEN /\ pc'  = [pc EXCEPT ![p] = "dl_row"]
            /\ tgt' = [tgt EXCEPT ![p].gen = gen[R(p)][U(p)], ![p].seen = st[R(p)][U(p)]]
            /\ UNCHANGED lockVars
       ELSE Finish(p)
  /\ UNCHANGED <<rideVars, bkgVars>>

DeleteBookingRow(p) ==
  /\ pc[p] = "dl_row"
  /\ BookingFree(p)
  /\ IF SameRow(p) THEN LockBooking(p) ELSE UNCHANGED lockB
  /\ Goto(p, IF tgt[p].seen = "accepted" THEN "dl_seat" ELSE "dl_commit")
  /\ UNCHANGED <<rideVars, bkgVars, lockR>>

(* Mutant: the decrement is not guarded by booked_seats > 0. *)
DeleteBookingSeatUnguarded(p) ==
  /\ pc[p] = "dl_seat"
  /\ RideFree(p)
  /\ IF row[R(p)] = "live" THEN LockRide(p) ELSE UNCHANGED lockR
  /\ Goto(p, "dl_commit")
  /\ UNCHANGED <<rideVars, bkgVars, lockB>>

(* UPDATE ... SET booked_seats - 1 WHERE booked_seats > 0. *)
DeleteBookingSeat(p) ==
  /\ pc[p] = "dl_seat"
  /\ RideFree(p)
  /\ IF row[R(p)] = "live" /\ booked[R(p)] > 0 THEN LockRide(p) ELSE UNCHANGED lockR
  /\ Goto(p, "dl_commit")
  /\ UNCHANGED <<rideVars, bkgVars, lockB>>

DeleteBookingCommit(p) ==
  /\ pc[p] = "dl_commit"
  /\ IF MayCommit(p)
       THEN /\ st' = IF lockB[R(p)][U(p)] = p
                       THEN [st EXCEPT ![R(p)][U(p)] = NoRow] ELSE st
            /\ booked' = IF lockR[R(p)] = p
                           THEN [booked EXCEPT ![R(p)] = @ - 1] ELSE booked
       ELSE UNCHANGED <<st, booked>>
  /\ Finish(p)
  /\ UNCHANGED <<row, host, total, women, started, gen>>

-----------------------------------------------------------------------------
(* DELETE /ride/delete/:id: refuse if a booking is accepted, then delete   *)
(* the row (its bookings cascade); no transaction spans the two.  The list *)
(* of pending requesters read in between only feeds a notification.        *)
DeleteRideCheck(p) ==
  /\ \E r \in Rides :
       /\ row[r] = "live"
       /\ Accepted(r) = {}
       /\ Begin(p, "delete_ride", "dr_delete", r, host[r])
  /\ UNCHANGED <<rideVars, bkgVars, lockVars>>

(* Mutant: the bookings do not cascade. *)
DeleteRideRowOnly(p) ==
  /\ pc[p] = "dr_delete"
  /\ RideFree(p)
  /\ \A u \in Users : lockB[R(p)][u] = NoProc
  /\ row' = [row EXCEPT ![R(p)] = "gone"]
  /\ Finish(p)
  /\ UNCHANGED <<st, host, total, booked, women, started, gen>>

DeleteRideRow(p) ==
  /\ pc[p] = "dr_delete"
  /\ RideFree(p)
  /\ \A u \in Users : lockB[R(p)][u] = NoProc
  /\ row' = [row EXCEPT ![R(p)] = "gone"]
  /\ st'  = [st EXCEPT ![R(p)] = [u \in Users |-> NoRow]]
  /\ Finish(p)
  /\ UNCHANGED <<host, total, booked, women, started, gen>>

-----------------------------------------------------------------------------
(* PUT /ride/update/:id: read the row, check the BODY's own numbers, write *)
(* every non-zero field of the body over the row.                          *)
UpdateRideRead(p) ==
  /\ \E r \in Rides : row[r] = "live" /\ Begin(p, "update_ride", "ur_write", r, host[r])
  /\ UNCHANGED <<rideVars, bkgVars, lockVars>>

(* Mutant: fields the body leaves out are written as zero. *)
UpdateRideSave(p) ==
  /\ pc[p] = "ur_write"
  /\ RideFree(p)
  /\ IF row[R(p)] = "live"
       THEN \E t \in EditSeats, b \in EditBooked, h \in EditHosts, w \in BOOLEAN :
              /\ t > b
              /\ total'   = [total EXCEPT ![R(p)] = t]
              /\ booked'  = [booked EXCEPT ![R(p)] = b]
              /\ host'    = [host EXCEPT ![R(p)] = h]
              /\ women'   = [women EXCEPT ![R(p)] = w]
              /\ started' = started \ {R(p)}
       ELSE UNCHANGED <<total, booked, host, women, started>>
  /\ Finish(p)
  /\ UNCHANGED <<row, bkgVars>>

UpdateRideWrite(p) ==
  /\ pc[p] = "ur_write"
  /\ RideFree(p)
  /\ IF row[R(p)] = "live"
       THEN \E t \in EditSeats, b \in EditBooked, h \in EditHosts, w \in BOOLEAN :
              /\ t > b
              /\ total'   = [total EXCEPT ![R(p)] = t]
              /\ booked'  = IF b = 0 THEN booked ELSE [booked EXCEPT ![R(p)] = b]
              /\ host'    = [host EXCEPT ![R(p)] = h]
              /\ women'   = [women EXCEPT ![R(p)] = @ \/ w]
              /\ started' = started \ {R(p)}
       ELSE UNCHANGED <<total, booked, host, women, started>>
  /\ Finish(p)
  /\ UNCHANGED <<row, bkgVars>>

-----------------------------------------------------------------------------
(* POST /booking/create: ride, passenger and status all come from the body. *)
CreateBookingCheck(p) ==
  /\ \E r \in Rides, u \in Users, s \in Status :
       /\ row[r] # "unborn"
       /\ st[r][u] = NoRow
       /\ gen[r][u] < MaxGen
       /\ "create_booking" \in Routes
       /\ pc[p] = "idle"
       /\ pc'  = [pc EXCEPT ![p] = "cb_insert"]
       /\ tgt' = [tgt EXCEPT ![p] = [ride |-> r, pass |-> u, host |-> host[r],
                                     gen |-> gen[r][u], seen |-> s]]
  /\ UNCHANGED <<rideVars, bkgVars, lockVars>>

CreateBookingInsert(p) == pc[p] = "cb_insert" /\ BookingInsert(p, tgt[p].seen)

(* PATCH /booking/update/:id: read the booking, then write the status the  *)
(* body names; two statements, no transaction, and no seat is counted.     *)
UpdateBookingRead(p) ==
  /\ \E r \in Rides, u \in Users :
       /\ row[r] = "live"
       /\ st[r][u] # NoRow
       /\ Begin(p, "update_booking", "ub_write", r, u)
  /\ UNCHANGED <<rideVars, bkgVars, lockVars>>

UpdateBookingWrite(p) ==
  /\ pc[p] = "ub_write"
  /\ BookingFree(p)
  /\ \E s \in Status \ {tgt[p].seen} :
       st' = IF SameRow(p) THEN [st EXCEPT ![R(p)][U(p)] = s] ELSE st
  /\ Finish(p)
  /\ UNCHANGED <<rideVars, gen>>

-----------------------------------------------------------------------------
(* A statement fails, or the caller's connection dies: the open            *)
(* transaction is rolled back and the handler returns an error.            *)
Fail(p) ==
  /\ pc[p] # "idle"
  /\ Finish(p)
  /\ UNCHANGED <<rideVars, bkgVars>>

(* Accept locks the ride and then the booking; delete locks them the other *)
(* way round.  The database breaks the cycle by failing one of the two.    *)
WaitsFor(p, q) ==
  \/ pc[p] \in {"ac_seat", "dl_seat"} /\ lockR[R(p)] = q
  \/ pc[p] \in {"ac_book", "rj_book", "dl_row"} /\ lockB[R(p)][U(p)] = q

DeadlockVictim(p) ==
  /\ \E q \in Procs : WaitsFor(p, q) /\ WaitsFor(q, p)
  /\ Fail(p)

(* The next statement of a request that is under way. *)
Step(p) ==
  \/ RequestInsert(p)
  \/ AcceptSeat(p) \/ AcceptBooking(p) \/ AcceptCommit(p)
  \/ RejectBooking(p) \/ RejectCommit(p)
  \/ RemoveReadBooking(p)
  \/ DeleteBookingRow(p) \/ DeleteBookingSeat(p) \/ DeleteBookingCommit(p)
  \/ DeleteRideRow(p)
  \/ UpdateRideWrite(p)
  \/ CreateBookingInsert(p) \/ UpdateBookingWrite(p)

Arrive(p) ==
  \/ RequestPreflight(p) \/ AcceptRead(p) \/ RejectRead(p)
  \/ DeleteBookingRead(p) \/ RemoveReadRide(p)
  \/ DeleteRideCheck(p) \/ UpdateRideRead(p)
  \/ CreateBookingCheck(p) \/ UpdateBookingRead(p)

Next ==
  \/ CreateRide
  \/ StartTimePasses
  \/ \E p \in Procs : Arrive(p) \/ Step(p) \/ Fail(p) \/ DeadlockVictim(p)

Spec == Init /\ [][Next]_vars

(* Row locks are granted in the order they were asked for, so a waiting    *)
(* statement that can run again and again does run; the deadlock detector  *)
(* always acts.  Nobody is obliged to send requests.                       *)
FairSpec == Spec /\ \A p \in Procs : SF_vars(Step(p)) /\ WF_vars(DeadlockVictim(p))

-----------------------------------------------------------------------------
(* Properties. *)

(* Every variable keeps the shape of its columns, locks and locals.        *)
TypeOK ==
  /\ row \in [Rides -> {"unborn", "live", "gone"}]
  /\ host \in [Rides -> Users]
  /\ total \in [Rides -> Nat]
  /\ booked \in [Rides -> Int]
  /\ women \in [Rides -> BOOLEAN]
  /\ started \subseteq Rides
  /\ st \in [Rides -> [Users -> Status \cup {NoRow}]]
  /\ gen \in [Rides -> [Users -> Nat]]
  /\ lockR \in [Rides -> Procs \cup {NoProc}]
  /\ lockB \in [Rides -> [Users -> Procs \cup {NoProc}]]
  /\ pc \in [Procs -> Stages]
  /\ tgt \in [Procs -> Target \cup {NoTarget}]
  /\ \A p \in Procs : pc[p] # "idle" => tgt[p] \in Target

(* booked_seats is a hand-kept count of the accepted bookings: whatever    *)
(* accepts, rejections, withdrawals, removals and failures interleave, the *)
(* column and the rows agree (helpers/seats.go, "confirmed passenger       *)
(* bookings only").                                                        *)
SeatsMatchBookings ==
  \A r \in Rides : row[r] = "live" => booked[r] = Cardinality(Accepted(r))

(* Concurrent accepts never seat more passengers than the car takes        *)
(* besides its host (Accept.go, "cannot overbook the ride").               *)
NoOverbooking ==
  \A r \in Rides :
    row[r] = "live" => Cardinality(Accepted(r)) <= PassengerCapacity(total[r])

(* The counter itself stays between zero and the capacity even on rides    *)
(* whose bookings were written by the CRUD routes, which count no seat.    *)
BookedInBounds ==
  \A r \in Rides : row[r] = "live" => booked[r] \in 0 .. PassengerCapacity(total[r])

(* A request racing the deletion of its ride leaves no booking behind for  *)
(* a ride that is gone.                                                    *)
NoOrphanBookings ==
  \A r \in Rides : row[r] # "live" => \A u \in Users : st[r][u] = NoRow

(* A booking is decided once: an accept and a reject racing for the same   *)
(* pending row cannot both win, and a decided row changes only by going.   *)
DecisionsFinal ==
  [][\A r \in Rides, u \in Users :
       st[r][u] \in {"accepted", "rejected"} => st'[r][u] \in {st[r][u], NoRow}]_vars

(* The handler of p relies on what it read: a decision read "pending";     *)
(* row numbers only grow; an accepted row it is to delete is still         *)
(* accepted or is gone; and from its DELETE to its commit it holds the     *)
(* locks of the rows it is about to write, and only then.                  *)
HandlerSound(p) ==
  /\ pc[p] \in Deciding => tgt[p].seen = "pending"
  /\ pc[p] # "idle" => tgt[p].gen <= gen[R(p)][U(p)]
  /\ pc[p] = "dl_seat" => tgt[p].seen = "accepted"
  /\ pc[p] \in Leaving /\ tgt[p].seen = "accepted" /\ SameRow(p)
       => st[R(p)][U(p)] = "accepted"
  /\ pc[p] \in {"dl_seat", "dl_commit"} /\ SameRow(p) => lockB[R(p)][U(p)] = p
  /\ pc[p] = "dl_commit" /\ tgt[p].seen = "accepted" /\ SameRow(p) => lockR[R(p)] = p
  /\ \A r \in Rides : lockR[r] = p =>
       \/ pc[p] \in {"ac_book", "ac_commit"}
       \/ pc[p] = "dl_commit" /\ tgt[p].seen = "accepted"

(* What makes SeatsMatchBookings inductive: no handler commits on a stale  *)
(* row (deleteBooking.go and participants.go never look at RowsAffected).  *)
HandlersSound == \A p \in Procs : HandlerSound(p)

(* From the seat UPDATE to the commit the ride row is locked, so the guard *)
(* it passed ("booked_seats < total_seats - 1", "booked_seats > 0") still  *)
(* holds when the new count becomes visible.                               *)
SeatLock(p) ==
  /\ pc[p] \in {"ac_book", "ac_commit"} => lockR[R(p)] = p /\ SeatAvailable(R(p))
  /\ pc[p] = "dl_commit" /\ lockR[R(p)] = p => row[R(p)] = "live" /\ booked[R(p)] > 0
  /\ \A r \in Rides : lockR[r] = p => pc[p] \in {"ac_book", "ac_commit", "dl_commit"}

SeatLocks == \A p \in Procs : SeatLock(p)

(* Every request that started is answered, though accept and delete take   *)
(* the two row locks in opposite orders.                                   *)
RequestsFinish == \A p \in Procs : pc[p] # "idle" ~> pc[p] = "idle"

(* A ride's seats are kept as the ledger of SeatLedger promises. *)
Ledger == INSTANCE SeatLedger WITH
            open     <- {r \in Rides : row[r] = "live"},
            capacity <- [r \in Rides |-> PassengerCapacity(total[r])],
            riders   <- [r \in Rides |-> Accepted(r)]

(* Accepting, leaving and closing implement the seat ledger step by step:  *)
(* a passenger boards only while the ride has a free seat.                 *)
LedgerSpec == Ledger!Spec

-----------------------------------------------------------------------------
(* What the source says of the routes, checked against what they do.       *)

(* A ride with accepted passengers is not deleted (RideCRUDRoutes.go, "You *)
(* can't delete this ride").                                               *)
AcceptedRidesStay ==
  [][\A r \in Rides : row'[r] = "gone" /\ row[r] = "live" => Accepted(r) = {}]_vars
=============================================================================
