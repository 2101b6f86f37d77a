----------------------------- MODULE SeatsProof -----------------------------
(***************************************************************************)
(* booked_seats stays within the car and counts exactly the accepted       *)
(* bookings, decisions are final, and the booking flow implements the seat *)
(* ledger: the proofs, for any number of rides, users and concurrent       *)
(* requests, of what Bookings' runs check on small instances.              *)
(***************************************************************************)
EXTENDS Bookings, FiniteSetTheorems, TLAPS

(* The Go gate that /bookings/request uses and the SQL fragment that       *)
(* /bookings/accept uses are the same predicate on unsigned columns        *)
(* (helpers/seats.go).                                                     *)
THEOREM SeatGatesAgree ==
  ASSUME NEW t \in Nat, NEW b \in Nat
  PROVE  CanAcceptAnotherPassenger(t, b) <=> PassengerSeatsLeftPredicate(t, b)
BY DEF CanAcceptAnotherPassenger, PassengerSeatsLeft, PassengerCapacity,
       PassengerSeatsLeftPredicate

-----------------------------------------------------------------------------
(* Typing. *)

(* Writing one cell of a table changes that cell and nothing else. *)
LEMMA CellWrite ==
  ASSUME NEW A, NEW B, NEW V, NEW f \in [A -> [B -> V]], NEW a \in A, NEW b \in B, NEW v \in V
  PROVE  /\ [f EXCEPT ![a][b] = v] \in [A -> [B -> V]]
         /\ \A c \in A, d \in B :
              [f EXCEPT ![a][b] = v][c][d] = IF c = a /\ d = b THEN v ELSE f[c][d]
OBVIOUS

(* Ending a request keeps locks and locals typed. *)
LEMMA FinishTyped ==
  ASSUME TypeOK, NEW p \in Procs, Finish(p)
  PROVE  /\ lockR' \in [Rides -> Procs \cup {NoProc}]
         /\ lockB' \in [Rides -> [Users -> Procs \cup {NoProc}]]
         /\ pc' \in [Procs -> Stages]
         /\ tgt' \in [Procs -> Target \cup {NoTarget}]
         /\ \A q \in Procs : pc'[q] # "idle" => tgt'[q] \in Target
BY DEF TypeOK, Finish, Stages

(* Starting one gives the process a typed target. *)
LEMMA BeginTyped ==
  ASSUME TypeOK, NEW p \in Procs, NEW r \in Rides, NEW u \in Users,
         NEW route, NEW next \in Stages, Begin(p, route, next, r, u)
  PROVE  /\ pc' \in [Procs -> Stages]
         /\ tgt' \in [Procs -> Target \cup {NoTarget}]
         /\ \A q \in Procs : pc'[q] # "idle" => tgt'[q] \in Target
<1>1. [ride |-> r, pass |-> u, host |-> host[r], gen |-> gen[r][u],
       seen |-> st[r][u]] \in Target
  BY DEF TypeOK, Target
<1>2. QED BY <1>1 DEF TypeOK, Begin

(* Moving on to the next statement keeps the target. *)
LEMMA GotoTyped ==
  ASSUME TypeOK, NEW p \in Procs, NEW next \in Stages, Goto(p, next), pc[p] # "idle"
  PROVE  /\ pc' \in [Procs -> Stages]
         /\ tgt' \in [Procs -> Target \cup {NoTarget}]
         /\ \A q \in Procs : pc'[q] # "idle" => tgt'[q] \in Target
BY DEF TypeOK, Goto

(* The row a busy process works on exists as an index of the tables. *)
LEMMA TargetTyped ==
  ASSUME TypeOK, NEW p \in Procs, pc[p] # "idle"
  PROVE  /\ R(p) \in Rides /\ U(p) \in Users
         /\ tgt[p].gen \in Nat /\ tgt[p].seen \in Status \cup {NoRow}
BY DEF TypeOK, Target, R, U

(* A new booking row: its status and its number, and nothing else.          *)
LEMMA InsertEffect ==
  ASSUME TypeOK, NEW r \in Rides, NEW u \in Users, NEW s \in Status \cup {NoRow},
         InsertBooking(r, u, s)
  PROVE  /\ st' \in [Rides -> [Users -> Status \cup {NoRow}]]
         /\ gen' \in [Rides -> [Users -> Nat]]
BY DEF TypeOK, InsertBooking

(* The two inserting routes. *)
LEMMA InsertTyped ==
  ASSUME TypeOK, NEW p \in Procs, pc[p] # "idle", NEW s \in Status \cup {NoRow},
         BookingInsert(p, s)
  PROVE  TypeOK'
<1>1. R(p) \in Rides /\ U(p) \in Users
  BY TargetTyped
<1>2. st' \in [Rides -> [Users -> Status \cup {NoRow}]] /\ gen' \in [Rides -> [Users -> Nat]]
  <2>1. CASE InsertBooking(R(p), U(p), s)
    BY <1>1, <2>1, InsertEffect
  <2>2. CASE UNCHANGED bkgVars
    BY <2>2 DEF TypeOK, bkgVars
  <2>3. QED BY <2>1, <2>2 DEF BookingInsert
<1>3. QED BY <1>2, FinishTyped DEF TypeOK, BookingInsert, rideVars

(* Requests arrive. *)
LEMMA ArriveTyped ==
  ASSUME TypeOK, NEW p \in Procs, Arrive(p)
  PROVE  TypeOK'
<1> USE DEF TypeOK, rideVars, bkgVars, lockVars
<1>1. CASE RequestPreflight(p)
  BY <1>1, BeginTyped DEF RequestPreflight, Stages
<1>2. CASE AcceptRead(p)
  BY <1>2, BeginTyped DEF AcceptRead, Stages
<1>3. CASE RejectRead(p)
  BY <1>3, BeginTyped DEF RejectRead, Stages
<1>4. CASE DeleteBookingRead(p)
  BY <1>4, BeginTyped DEF DeleteBookingRead, Stages
<1>5. CASE RemoveReadRide(p)
  BY <1>5, BeginTyped DEF RemoveReadRide, Stages
<1>6. CASE DeleteRideCheck(p)
  BY <1>6, BeginTyped DEF DeleteRideCheck, Stages
<1>7. CASE UpdateRideRead(p)
  BY <1>7, BeginTyped DEF UpdateRideRead, Stages
<1>8. CASE CreateBookingCheck(p)
  <2>1. PICK r \in Rides, u \in Users, s \in Status :
          /\ pc' = [pc EXCEPT ![p] = "cb_insert"]
          /\ tgt' = [tgt EXCEPT ![p] = [ride |-> r, pass |-> u, host |-> host[r],
                                        gen |-> gen[r][u], seen |-> s]]
    BY <1>8 DEF CreateBookingCheck
  <2>2. [ride |-> r, pass |-> u, host |-> host[r], gen |-> gen[r][u],
         seen |-> s] \in Target
    BY DEF Target
  <2>3. QED BY <1>8, <2>1, <2>2 DEF CreateBookingCheck, Stages
<1>9. CASE UpdateBookingRead(p)
  BY <1>9, BeginTyped DEF UpdateBookingRead, Stages
<1>10. QED
  BY <1>1, <1>2, <1>3, <1>4, <1>5, <1>6, <1>7, <1>8, <1>9 DEF Arrive

(* Taking a row lock. *)
LEMMA LockTyped ==
  ASSUME TypeOK, NEW p \in Procs, pc[p] # "idle"
  PROVE  /\ LockRide(p) => lockR' \in [Rides -> Procs \cup {NoProc}]
         /\ LockBooking(p) => lockB' \in [Rides -> [Users -> Procs \cup {NoProc}]]
<1>1. R(p) \in Rides /\ U(p) \in Users
  BY TargetTyped
<1>2. p \in Procs \cup {NoProc}
  OBVIOUS
<1>3. LockRide(p) => lockR' \in [Rides -> Procs \cup {NoProc}]
  BY <1>1 DEF TypeOK, LockRide
<1>4. LockBooking(p) => lockB' \in [Rides -> [Users -> Procs \cup {NoProc}]]
  BY <1>1, <1>2, CellWrite DEF TypeOK, LockBooking
<1>5. QED BY <1>3, <1>4

(* Writing the status of the process's own row. *)
LEMMA StatusTyped ==
  ASSUME TypeOK, NEW p \in Procs, pc[p] # "idle", NEW s \in Status \cup {NoRow}
  PROVE  [st EXCEPT ![R(p)][U(p)] = s] \in [Rides -> [Users -> Status \cup {NoRow}]]
<1>1. R(p) \in Rides /\ U(p) \in Users
  BY TargetTyped
<1>2. st \in [Rides -> [Users -> Status \cup {NoRow}]]
  BY DEF TypeOK
<1>3. QED BY <1>1, <1>2, CellWrite

(* Requests under way take their next statement. *)
LEMMA StepTyped ==
  ASSUME TypeOK, NEW p \in Procs, Step(p)
  PROVE  TypeOK'
<1>0. pc[p] # "idle"
  BY DEF Step, RequestInsert, AcceptSeat, AcceptBooking, AcceptCommit, RejectBooking,
         RejectCommit, RemoveReadBooking, DeleteBookingRow, DeleteBookingSeat,
         DeleteBookingCommit, DeleteRideRow, UpdateRideWrite,
         CreateBookingInsert, UpdateBookingWrite
<1>t. R(p) \in Rides /\ U(p) \in Users /\ tgt[p] \in Target
  BY <1>0, TargetTyped DEF TypeOK
<1>1. CASE RequestInsert(p)
  BY <1>0, <1>1, InsertTyped DEF RequestInsert, Status
<1>2. CASE CreateBookingInsert(p)
  BY <1>0, <1>2, InsertTyped, TargetTyped DEF CreateBookingInsert
<1>3. CASE AcceptSeat(p)
  <2>1. CASE SeatAvailable(R(p))
    BY <1>0, <1>3, <2>1, LockTyped, GotoTyped
       DEF AcceptSeat, TypeOK, Stages, rideVars, bkgVars
  <2>2. CASE ~SeatAvailable(R(p))
    BY <1>3, <2>2, FinishTyped DEF AcceptSeat, TypeOK, rideVars, bkgVars
  <2>3. QED BY <2>1, <2>2
<1>4. CASE AcceptCommit(p)
  <2>1. st' \in [Rides -> [Users -> Status \cup {NoRow}]] /\ booked' \in [Rides -> Int]
    <3>1. CASE MayCommit(p)
      <4>1. "accepted" \in Status \cup {NoRow}
        BY DEF Status
      <4>2. [st EXCEPT ![R(p)][U(p)] = "accepted"]
              \in [Rides -> [Users -> Status \cup {NoRow}]]
        BY <1>0, <4>1, StatusTyped
      <4>3. st' = [st EXCEPT ![R(p)][U(p)] = "accepted"]
        BY <1>4, <3>1 DEF AcceptCommit
      <4>4. booked' = [booked EXCEPT ![R(p)] = @ + 1]
        BY <1>4, <3>1 DEF AcceptCommit
      <4>5. booked' \in [Rides -> Int]
        BY <1>t, <4>4 DEF TypeOK
      <4>6. QED BY <4>2, <4>3, <4>5
    <3>2. CASE ~MayCommit(p)
      BY <1>4, <3>2 DEF AcceptCommit, TypeOK
    <3>3. QED BY <3>1, <3>2
  <2>2. QED BY <1>4, <2>1, FinishTyped DEF TypeOK, AcceptCommit
<1>5. CASE AcceptBooking(p) \/ RejectBooking(p)
  <2>1. CASE StillPending(p)
    BY <1>0, <1>5, <2>1, LockTyped, GotoTyped
       DEF AcceptBooking, RejectBooking, TypeOK, Stages, rideVars, bkgVars
  <2>2. CASE ~StillPending(p)
    BY <1>5, <2>2, FinishTyped
       DEF AcceptBooking, RejectBooking, TypeOK, rideVars, bkgVars
  <2>3. QED BY <2>1, <2>2
<1>6. CASE RejectCommit(p)
  BY <1>t, <1>6, FinishTyped DEF TypeOK, RejectCommit, Status, rideVars
<1>7. CASE RemoveReadBooking(p)
  <2>1. CASE st[R(p)][U(p)] # NoRow
    <3>1. [tgt[p] EXCEPT !.gen = gen[R(p)][U(p)], !.seen = st[R(p)][U(p)]] \in Target
      <4>1. gen[R(p)][U(p)] \in Nat /\ st[R(p)][U(p)] \in Status \cup {NoRow}
        BY <1>t DEF TypeOK
      <4>2. QED BY <1>t, <4>1 DEF Target
    <3>2. tgt' = [tgt EXCEPT ![p] = [tgt[p] EXCEPT !.gen = gen[R(p)][U(p)],
                                                   !.seen = st[R(p)][U(p)]]]
      BY <1>7, <2>1 DEF RemoveReadBooking, TypeOK
    <3>3. QED
      BY <1>7, <2>1, <3>1, <3>2
         DEF RemoveReadBooking, TypeOK, Stages, rideVars, bkgVars, lockVars
  <2>2. CASE st[R(p)][U(p)] = NoRow
    BY <1>7, <2>2, FinishTyped DEF RemoveReadBooking, TypeOK, rideVars, bkgVars
  <2>3. QED BY <2>1, <2>2
<1>8. CASE DeleteBookingRow(p) \/ DeleteBookingSeat(p)
  <2>1. PICK next \in Stages : Goto(p, next)
    BY <1>8 DEF DeleteBookingRow, DeleteBookingSeat, Stages
  <2>2. /\ lockR' \in [Rides -> Procs \cup {NoProc}]
        /\ lockB' \in [Rides -> [Users -> Procs \cup {NoProc}]]
    BY <1>0, <1>8, LockTyped DEF DeleteBookingRow, DeleteBookingSeat, TypeOK
  <2>3. QED
    BY <1>0, <1>8, <2>1, <2>2, GotoTyped
       DEF DeleteBookingRow, DeleteBookingSeat, TypeOK, rideVars, bkgVars
<1>9. CASE DeleteBookingCommit(p)
  <2>1. st' \in [Rides -> [Users -> Status \cup {NoRow}]] /\ booked' \in [Rides -> Int]
    <3>1. CASE MayCommit(p)
      <4>1. st' = [st EXCEPT ![R(p)][U(p)] = NoRow] \/ st' = st
        BY <1>9, <3>1 DEF DeleteBookingCommit
      <4>2. booked' = [booked EXCEPT ![R(p)] = @ - 1] \/ booked' = booked
        BY <1>9, <3>1 DEF DeleteBookingCommit
      <4>3. st' \in [Rides -> [Users -> Status \cup {NoRow}]]
        <5>1. [st EXCEPT ![R(p)][U(p)] = NoRow] \in [Rides -> [Users -> Status \cup {NoRow}]]
          BY <1>0, StatusTyped
        <5>2. QED BY <4>1, <5>1 DEF TypeOK
      <4>4. booked' \in [Rides -> Int]
        BY <1>t, <4>2 DEF TypeOK
      <4>5. QED BY <4>3, <4>4
    <3>2. CASE ~MayCommit(p)
      BY <1>9, <3>2 DEF DeleteBookingCommit, TypeOK
    <3>3. QED BY <3>1, <3>2
  <2>2. QED BY <1>9, <2>1, FinishTyped DEF TypeOK, DeleteBookingCommit
<1>11. CASE DeleteRideRow(p)
  BY <1>t, <1>11, FinishTyped DEF TypeOK, DeleteRideRow
<1>12. CASE UpdateRideWrite(p)
  <2>1. /\ total' \in [Rides -> Nat] /\ booked' \in [Rides -> Int]
        /\ host' \in [Rides -> Users] /\ women' \in [Rides -> BOOLEAN]
        /\ started' \subseteq Rides
    <3>1. CASE row[R(p)] = "live"
      <4>1. PICK t \in EditSeats, b \in EditBooked, h \in EditHosts, w \in BOOLEAN :
              /\ total'   = [total EXCEPT ![R(p)] = t]
              /\ booked'  = IF b = 0 THEN booked ELSE [booked EXCEPT ![R(p)] = b]
              /\ host'    = [host EXCEPT ![R(p)] = h]
              /\ women'   = [women EXCEPT ![R(p)] = @ \/ w]
              /\ started' = started \ {R(p)}
        BY <1>12, <3>1 DEF UpdateRideWrite
      <4>2. t \in Nat /\ b \in Nat /\ h \in Users
        BY EditAssumption
      <4>3. women' \in [Rides -> BOOLEAN]
        BY <1>t, <4>1, Zenon DEF TypeOK
      <4>4. QED BY <1>t, <4>1, <4>2, <4>3 DEF TypeOK
    <3>2. CASE row[R(p)] # "live"
      BY <1>12, <3>2 DEF UpdateRideWrite, TypeOK
    <3>3. QED BY <3>1, <3>2
  <2>2. QED BY <1>12, <2>1, FinishTyped DEF TypeOK, UpdateRideWrite, bkgVars
<1>13. CASE UpdateBookingWrite(p)
  BY <1>t, <1>13, FinishTyped DEF TypeOK, UpdateBookingWrite, rideVars
<1>14. QED
  BY <1>1, <1>2, <1>3, <1>4, <1>5, <1>6, <1>7, <1>8, <1>9, <1>11, <1>12, <1>13
     DEF Step

LEMMA InitTyped == Init => TypeOK
BY DEF Init, TypeOK, Stages

LEMMA NextTyped == TypeOK /\ [Next]_vars => TypeOK'
<1> SUFFICES ASSUME TypeOK, [Next]_vars PROVE TypeOK'
  OBVIOUS
<1>1. CASE CreateRide
  BY <1>1, SeatsAssumption DEF CreateRide, TypeOK, bkgVars, lockVars, procVars
<1>2. CASE StartTimePasses
  BY <1>2 DEF StartTimePasses, TypeOK, bkgVars, lockVars, procVars
<1>3. ASSUME NEW p \in Procs, Fail(p) PROVE TypeOK'
  BY <1>3, FinishTyped DEF Fail, TypeOK, rideVars, bkgVars
<1>4. CASE UNCHANGED vars
  BY <1>4 DEF TypeOK, vars, rideVars, bkgVars, lockVars, procVars
<1>5. QED
  BY <1>1, <1>2, <1>3, <1>4, ArriveTyped, StepTyped DEF Next, DeadlockVictim

(* The tables, the locks and the handlers' locals stay well-formed. *)
THEOREM TypeCorrect == Spec => []TypeOK
BY InitTyped, NextTyped, PTL DEF Spec

-----------------------------------------------------------------------------
(* What the booking flow promises.                                         *)

(* Clients that only use the booking flow of the app and the ride editor,  *)
(* which leaves booked_seats out, on a SERIALIZABLE database.              *)
FlowOnly ==
  /\ Serializable
  /\ Routes \cap {"create_booking", "update_booking"} = {}
  /\ CreateBooked \subseteq {0}
  /\ EditBooked \subseteq {0}

(* Nobody edits a ride's seats once it exists. *)
NoSeatEdits == "update_ride" \notin Routes

(* A request is under way only on a route that clients call. *)
RoutesServed ==
  \A p \in Procs :
    /\ pc[p] = "ur_write" => "update_ride" \in Routes
    /\ pc[p] = "cb_insert" => "create_booking" \in Routes
    /\ pc[p] = "ub_write" => "update_booking" \in Routes

BoundsInv == TypeOK /\ RoutesServed /\ BookedInBounds /\ SeatLocks
CountInv  == TypeOK /\ RoutesServed /\ SeatsMatchBookings /\ NoOrphanBookings /\ HandlersSound

-----------------------------------------------------------------------------
(* Locks: what the step of one process leaves to the others. *)

LocksKept(q) ==
  \A r \in Rides :
    /\ lockR'[r] = q <=> lockR[r] = q
    /\ \A u \in Users : lockB'[r][u] = q <=> lockB[r][u] = q

LEMMA FinishKeepsLocks ==
  ASSUME TypeOK, NEW p \in Procs, Finish(p), NEW q \in Procs \ {p}
  PROVE  LocksKept(q)
BY ProcAssumption DEF LocksKept, Finish, TypeOK

LEMMA FinishFreesLocks ==
  ASSUME TypeOK, NEW p \in Procs, Finish(p), NEW r \in Rides
  PROVE  lockR'[r] # p
BY ProcAssumption DEF Finish, TypeOK

LEMMA LockRideKeepsLocks ==
  ASSUME TypeOK, NEW p \in Procs, pc[p] # "idle", RideFree(p), LockRide(p), UNCHANGED lockB,
         NEW q \in Procs \ {p}
  PROVE  LocksKept(q)
BY ProcAssumption, TargetTyped DEF LocksKept, LockRide, RideFree, TypeOK

LEMMA LockBookingEffect ==
  ASSUME TypeOK, NEW p \in Procs, pc[p] # "idle", LockBooking(p)
  PROVE  \A r \in Rides, u \in Users :
           lockB'[r][u] = IF r = R(p) /\ u = U(p) THEN p ELSE lockB[r][u]
<1>1. R(p) \in Rides /\ U(p) \in Users
  BY TargetTyped
<1>2. p \in Procs \cup {NoProc} /\ lockB \in [Rides -> [Users -> Procs \cup {NoProc}]]
  BY DEF TypeOK
<1>3. QED BY <1>1, <1>2, CellWrite DEF LockBooking

LEMMA LockBookingKeepsLocks ==
  ASSUME TypeOK, NEW p \in Procs, pc[p] # "idle", BookingFree(p), LockBooking(p),
         UNCHANGED lockR, NEW q \in Procs \ {p}
  PROVE  LocksKept(q)
<1>1. lockB[R(p)][U(p)] # q /\ p # q
  BY ProcAssumption DEF BookingFree
<1>2. \A r \in Rides, u \in Users : lockB'[r][u] = q <=> lockB[r][u] = q
  BY <1>1, LockBookingEffect
<1>3. QED BY <1>2 DEF LocksKept

(* Every step of a process keeps the locks of the others, and only its     *)
(* own program counter and locals move.                                    *)
LEMMA StepIsLocal ==
  ASSUME TypeOK, NEW p \in Procs, Arrive(p) \/ Step(p) \/ Fail(p), NEW q \in Procs \ {p}
  PROVE  LocksKept(q) /\ pc'[q] = pc[q] /\ tgt'[q] = tgt[q]
<1>a. CASE Arrive(p)
  <2>1. UNCHANGED lockVars
    BY <1>a DEF Arrive, RequestPreflight, AcceptRead, RejectRead, DeleteBookingRead,
       RemoveReadRide, DeleteRideCheck, UpdateRideRead, CreateBookingCheck, UpdateBookingRead
  <2>2. pc'[q] = pc[q] /\ tgt'[q] = tgt[q]
    BY <1>a DEF TypeOK, Begin, Arrive, RequestPreflight, AcceptRead, RejectRead,
       DeleteBookingRead, RemoveReadRide, DeleteRideCheck, UpdateRideRead,
       CreateBookingCheck, UpdateBookingRead
  <2>3. QED BY <2>1, <2>2 DEF LocksKept, lockVars
<1>f. CASE Finish(p)
  BY <1>f, FinishKeepsLocks DEF Finish, TypeOK
<1>g. ASSUME NEW next \in Stages, Goto(p, next), pc[p] # "idle",
             \/ UNCHANGED lockVars
             \/ RideFree(p) /\ LockRide(p) /\ UNCHANGED lockB
             \/ BookingFree(p) /\ LockBooking(p) /\ UNCHANGED lockR
      PROVE  LocksKept(q) /\ pc'[q] = pc[q] /\ tgt'[q] = tgt[q]
  <2>1. pc'[q] = pc[q] /\ tgt'[q] = tgt[q]
    BY <1>g DEF Goto, TypeOK
  <2>2. CASE UNCHANGED lockVars
    BY <2>1, <2>2 DEF LocksKept, lockVars
  <2>3. QED BY <1>g, <2>1, <2>2, LockRideKeepsLocks, LockBookingKeepsLocks
<1>1. CASE AcceptSeat(p)
  BY <1>1, <1>f, <1>g DEF AcceptSeat, Stages
<1>2. CASE AcceptBooking(p)
  BY <1>2, <1>f, <1>g DEF AcceptBooking, Stages
<1>3. CASE RejectBooking(p)
  BY <1>3, <1>f, <1>g DEF RejectBooking, Stages
<1>4. CASE DeleteBookingRow(p)
  BY <1>4, <1>g DEF DeleteBookingRow, Stages, lockVars
<1>5. CASE DeleteBookingSeat(p)
  BY <1>5, <1>g DEF DeleteBookingSeat, Stages, lockVars
<1>6. CASE RemoveReadBooking(p)
  <2>1. CASE st[R(p)][U(p)] # NoRow
    BY <1>6, <2>1 DEF RemoveReadBooking, LocksKept, lockVars, TypeOK
  <2>2. CASE st[R(p)][U(p)] = NoRow
    BY <1>6, <2>2, <1>f DEF RemoveReadBooking
  <2>3. QED BY <2>1, <2>2
<1>8. QED
  BY <1>a, <1>f, <1>1, <1>2, <1>3, <1>4, <1>5, <1>6
     DEF Step, Fail, RequestInsert, BookingInsert, AcceptCommit, RejectCommit,
         DeleteBookingCommit, DeleteRideRow, UpdateRideWrite, CreateBookingInsert,
         UpdateBookingWrite

-----------------------------------------------------------------------------
(* booked_seats within the car. *)

(* The step leaves alone the rides that processes other than p have locked. *)
RidesKept(p) ==
  \A r \in Rides : lockR[r] \in Procs \ {p} =>
    row'[r] = row[r] /\ total'[r] = total[r] /\ booked'[r] = booked[r]

(* Then the others still hold what they hold. *)
LEMMA OthersHold ==
  ASSUME TypeOK, SeatLocks, NEW p, RidesKept(p), NEW q \in Procs \ {p},
         LocksKept(q), pc'[q] = pc[q], tgt'[q] = tgt[q]
  PROVE  SeatLock(q)'
<1>1. CASE pc[q] = "idle"
  BY <1>1 DEF SeatLock, SeatLocks, LocksKept
<1>2. CASE pc[q] # "idle"
  <2>1. R(q) \in Rides /\ R(q)' = R(q)
    BY <1>2, TargetTyped DEF R
  <2>2. lockR'[R(q)] = q <=> lockR[R(q)] = q
    BY <2>1 DEF LocksKept
  <2>3. lockR[R(q)] = q => /\ row'[R(q)] = row[R(q)] /\ total'[R(q)] = total[R(q)]
                           /\ booked'[R(q)] = booked[R(q)]
    BY <2>1 DEF RidesKept
  <2>4. QED
    BY <2>1, <2>2, <2>3
       DEF SeatLocks, SeatLock, SeatAvailable, PassengerSeatsLeftPredicate, LocksKept
<1>3. QED BY <1>1, <1>2

(* A process that is done holds nothing. *)
LEMMA FinishHolds ==
  ASSUME TypeOK, NEW p \in Procs, Finish(p)
  PROVE  SeatLock(p)'
BY FinishFreesLocks DEF Finish, SeatLock, TypeOK

(* Routes nobody calls are not under way. *)
LEMMA ServedStep ==
  ASSUME TypeOK, RoutesServed, [Next]_vars
  PROVE  RoutesServed'
<1>1. CASE UNCHANGED procVars
  BY <1>1 DEF RoutesServed, procVars
<1>2. ASSUME NEW p \in Procs, Finish(p) PROVE RoutesServed'
  BY <1>2 DEF RoutesServed, Finish, TypeOK
<1>3. ASSUME NEW p \in Procs, NEW next \in Stages, Goto(p, next),
             next \notin {"ur_write", "cb_insert", "ub_write"}
      PROVE  RoutesServed'
  BY <1>3 DEF RoutesServed, Goto, TypeOK
<1>4. ASSUME NEW p \in Procs, Arrive(p) PROVE RoutesServed'
  BY <1>4 DEF RoutesServed, TypeOK, Begin, Arrive, RequestPreflight, AcceptRead, RejectRead,
     DeleteBookingRead, RemoveReadRide, DeleteRideCheck, UpdateRideRead,
     CreateBookingCheck, UpdateBookingRead
<1>5. ASSUME NEW p \in Procs, RemoveReadBooking(p) PROVE RoutesServed'
  <2>1. CASE st[R(p)][U(p)] # NoRow
    BY <1>5, <2>1 DEF RemoveReadBooking, RoutesServed, TypeOK
  <2>2. QED BY <1>2, <1>5, <2>1 DEF RemoveReadBooking
<1>7. ASSUME NEW p \in Procs, Step(p) \/ Fail(p) PROVE RoutesServed'
  <2>1. CASE AcceptSeat(p) \/ AcceptBooking(p) \/ RejectBooking(p)
    BY <1>2, <1>3, <2>1 DEF AcceptSeat, AcceptBooking, RejectBooking, Stages
  <2>2. CASE DeleteBookingRow(p) \/ DeleteBookingSeat(p)
    BY <1>3, <2>2 DEF DeleteBookingRow, DeleteBookingSeat, Stages
  <2>3. QED
    BY <1>2, <1>5, <1>7, <2>1, <2>2
       DEF Step, Fail, RequestInsert, BookingInsert, AcceptCommit, RejectCommit,
           DeleteBookingCommit, DeleteRideRow, UpdateRideWrite, CreateBookingInsert,
           UpdateBookingWrite
<1>8. CASE CreateRide \/ StartTimePasses \/ UNCHANGED vars
  BY <1>1, <1>8 DEF CreateRide, StartTimePasses, vars
<1>9. QED BY <1>4, <1>7, <1>8 DEF Next, DeadlockVictim

(* Steps that write no seat column: the locks taken come with their guard. *)
LEMMA LockingBounds ==
  ASSUME BoundsInv, NEW p \in Procs, Arrive(p) \/ Step(p) \/ Fail(p),
         UNCHANGED <<row, total, booked>>
  PROVE  BookedInBounds' /\ SeatLocks'
<1>1. BookedInBounds'
  BY DEF BoundsInv, BookedInBounds
<1>2. RidesKept(p)
  BY DEF RidesKept
<1>t. pc[p] # "idle" => R(p) \in Rides
  BY TargetTyped DEF BoundsInv
<1>h. \A r \in Rides : lockR[r] = p => pc[p] \in {"ac_book", "ac_commit", "dl_commit"}
  BY DEF BoundsInv, SeatLocks, SeatLock
<1>3. SeatLock(p)'
  <2>s. ASSUME pc[p] \notin {"ac_book", "ac_commit", "dl_commit"}, lockR' = lockR,
               pc'[p] \notin {"ac_book", "ac_commit"},
               pc'[p] = "dl_commit" => R(p)' = R(p) /\ pc[p] # "idle"
        PROVE  SeatLock(p)'
    <3>1. \A r \in Rides : lockR'[r] # p
      BY <1>h, <2>s
    <3>2. pc'[p] = "dl_commit" => R(p)' \in Rides
      BY <1>t, <2>s
    <3>3. QED BY <2>s, <3>1, <3>2 DEF SeatLock
  <2>f. CASE Finish(p)
    BY <2>f, FinishHolds DEF BoundsInv
  <2>1. CASE Arrive(p)
    BY <2>s, <2>1 DEF Begin, BoundsInv, TypeOK, lockVars, Arrive, RequestPreflight,
       AcceptRead, RejectRead, DeleteBookingRead, RemoveReadRide, DeleteRideCheck,
       UpdateRideRead, CreateBookingCheck, UpdateBookingRead
  <2>2. CASE AcceptSeat(p)
    <3>1. CASE SeatAvailable(R(p))
      <4>1. pc'[p] = "ac_book" /\ R(p)' = R(p) /\ lockR'[R(p)] = p
        BY <1>t, <2>2, <3>1 DEF AcceptSeat, Goto, LockRide, R, BoundsInv, TypeOK
      <4>2. SeatAvailable(R(p))'
        BY <3>1, <4>1 DEF SeatAvailable, PassengerSeatsLeftPredicate
      <4>3. QED BY <4>1, <4>2 DEF SeatLock
    <3>2. QED BY <2>2, <2>f, <3>1 DEF AcceptSeat
  <2>3. CASE AcceptBooking(p)
    <3>1. CASE StillPending(p)
      <4>1. pc'[p] = "ac_commit" /\ R(p)' = R(p) /\ lockR' = lockR /\ pc[p] = "ac_book"
        BY <2>3, <3>1 DEF AcceptBooking, Goto, R, BoundsInv, TypeOK
      <4>2. lockR[R(p)] = p /\ SeatAvailable(R(p))
        BY <4>1 DEF BoundsInv, SeatLocks, SeatLock
      <4>3. QED
        BY <4>1, <4>2 DEF SeatLock, SeatAvailable, PassengerSeatsLeftPredicate
    <3>2. QED BY <2>3, <2>f, <3>1 DEF AcceptBooking
  <2>4. CASE RejectBooking(p)
    <3>1. CASE StillPending(p)
      BY <2>4, <2>s, <3>1 DEF RejectBooking, Goto, BoundsInv, TypeOK
    <3>2. QED BY <2>4, <2>f, <3>1 DEF RejectBooking
  <2>5. CASE RemoveReadBooking(p)
    <3>1. CASE st[R(p)][U(p)] # NoRow
      BY <2>5, <2>s, <3>1 DEF RemoveReadBooking, lockVars, BoundsInv, TypeOK
    <3>2. QED BY <2>5, <2>f, <3>1 DEF RemoveReadBooking
  <2>6. CASE DeleteBookingRow(p)
    BY <2>6, <2>s DEF DeleteBookingRow, Goto, R, BoundsInv, TypeOK
  <2>7. CASE DeleteBookingSeat(p)
    <3>1. pc[p] = "dl_seat" /\ pc'[p] = "dl_commit" /\ R(p)' = R(p)
      BY <2>7 DEF DeleteBookingSeat, Goto, R, BoundsInv, TypeOK
    <3>2. CASE row[R(p)] = "live" /\ booked[R(p)] > 0
      BY <3>1, <3>2 DEF SeatLock
    <3>3. CASE ~(row[R(p)] = "live" /\ booked[R(p)] > 0)
      BY <2>7, <2>s, <3>1, <3>3 DEF DeleteBookingSeat
    <3>4. QED BY <3>2, <3>3
  <2>9. QED
    BY <2>f, <2>1, <2>2, <2>3, <2>4, <2>5, <2>6, <2>7
       DEF Step, Fail, RequestInsert, BookingInsert, AcceptCommit, RejectCommit,
           DeleteBookingCommit, DeleteRideRow, UpdateRideWrite, CreateBookingInsert,
           UpdateBookingWrite
<1>4. QED BY <1>1, <1>2, <1>3, StepIsLocal, OthersHold DEF SeatLocks, BoundsInv

(* Steps that write the tables. *)
LEMMA WritingBounds ==
  ASSUME BoundsInv, NoSeatEdits, NEW p \in Procs, Step(p), Finish(p),
         \/ AcceptCommit(p) \/ DeleteBookingCommit(p) \/ DeleteRideRow(p)
  PROVE  BookedInBounds' /\ SeatLocks'
<1>0. R(p) \in Rides
  BY TargetTyped DEF BoundsInv, AcceptCommit, DeleteBookingCommit, DeleteRideRow
<1>t. /\ booked \in [Rides -> Int] /\ total \in [Rides -> Nat] /\ row \in [Rides -> {"unborn", "live", "gone"}]
      /\ TypeOK /\ SeatLocks /\ SeatLock(p)
  BY DEF BoundsInv, TypeOK, SeatLocks
<1>1. BookedInBounds' /\ RidesKept(p)
  <2>1. CASE AcceptCommit(p)
    <3>1. lockR[R(p)] = p /\ SeatAvailable(R(p))
      BY <1>t, <2>1 DEF AcceptCommit, SeatLock
    <3>2. booked' = [booked EXCEPT ![R(p)] = @ + 1] \/ booked' = booked
      BY <2>1 DEF AcceptCommit
    <3>3. QED
      BY <1>0, <1>t, <2>1, <3>1, <3>2
         DEF AcceptCommit, BoundsInv, BookedInBounds, RidesKept, SeatAvailable,
             PassengerSeatsLeftPredicate, PassengerCapacity
  <2>2. CASE DeleteBookingCommit(p)
    <3>1. \/ booked' = booked
          \/ lockR[R(p)] = p /\ booked' = [booked EXCEPT ![R(p)] = @ - 1]
      BY <2>2 DEF DeleteBookingCommit
    <3>2. lockR[R(p)] = p => row[R(p)] = "live" /\ booked[R(p)] > 0
      BY <1>t, <2>2 DEF DeleteBookingCommit, SeatLock
    <3>3. QED
      BY <1>0, <1>t, <2>2, <3>1, <3>2
         DEF DeleteBookingCommit, BoundsInv, BookedInBounds, RidesKept, PassengerCapacity
  <2>3. CASE DeleteRideRow(p)
    BY <1>0, <1>t, <2>3, ProcAssumption
       DEF DeleteRideRow, RideFree, BoundsInv, BookedInBounds, RidesKept
  <2>4. QED BY <2>1, <2>2, <2>3
<1>2. QED BY <1>t, <1>1, StepIsLocal, OthersHold, FinishHolds DEF SeatLocks

LEMMA BoundsInit == Init => BoundsInv
<1> SUFFICES ASSUME Init PROVE BoundsInv
  OBVIOUS
<1>1. SeatLocks
  BY ProcAssumption DEF Init, SeatLocks, SeatLock
<1>2. RoutesServed /\ BookedInBounds
  BY DEF Init, RoutesServed, BookedInBounds
<1>3. QED BY <1>1, <1>2, InitTyped DEF BoundsInv

LEMMA BoundsNext == BoundsInv /\ NoSeatEdits /\ [Next]_vars => BoundsInv'
<1> SUFFICES ASSUME BoundsInv, NoSeatEdits, [Next]_vars PROVE BookedInBounds' /\ SeatLocks'
  BY NextTyped, ServedStep DEF BoundsInv
<1>1. CASE CreateRide
  <2>1. PICK r \in Rides, t \in CreateSeats, b \in CreateBooked :
          /\ row[r] = "unborn" /\ b <= PassengerCapacity(t)
          /\ row'    = [row EXCEPT ![r] = "live"]
          /\ total'  = [total EXCEPT ![r] = t]
          /\ booked' = [booked EXCEPT ![r] = b]
    BY <1>1 DEF CreateRide
  <2>2. t \in Nat /\ b \in Nat
    BY SeatsAssumption
  <2>3. BookedInBounds'
    BY <2>1, <2>2 DEF BoundsInv, TypeOK, BookedInBounds, PassengerCapacity
  <2>4. ASSUME NEW q \in Procs PROVE SeatLock(q)'
    <3>1. CASE pc[q] = "idle"
      BY <1>1, <3>1 DEF CreateRide, SeatLock, procVars, lockVars, BoundsInv, SeatLocks
    <3>2. CASE pc[q] # "idle"
      <4>1. R(q) \in Rides /\ R(q)' = R(q) /\ pc' = pc /\ lockR' = lockR
        BY <1>1, <3>2, TargetTyped DEF CreateRide, procVars, lockVars, R, BoundsInv
      <4>2. row[R(q)] = "live" => /\ row'[R(q)] = "live" /\ total'[R(q)] = total[R(q)]
                                  /\ booked'[R(q)] = booked[R(q)]
        BY <2>1, <4>1 DEF BoundsInv, TypeOK
      <4>3. SeatLock(q)
        BY DEF BoundsInv, SeatLocks
      <4>4. QED
        BY <4>1, <4>2, <4>3 DEF SeatLock, SeatAvailable, PassengerSeatsLeftPredicate
    <3>3. QED BY <3>1, <3>2
  <2>5. QED BY <2>3, <2>4 DEF SeatLocks
<1>2. CASE StartTimePasses \/ UNCHANGED vars
  <2>1. UNCHANGED <<row, total, booked, lockR, pc, tgt>>
    BY <1>2 DEF StartTimePasses, vars, rideVars, lockVars, procVars
  <2>2. QED
    BY <2>1 DEF BoundsInv, BookedInBounds, SeatLocks, SeatLock, SeatAvailable,
       PassengerSeatsLeftPredicate, R
<1>3. ASSUME NEW p \in Procs, Arrive(p) \/ Step(p) \/ Fail(p)
      PROVE  BookedInBounds' /\ SeatLocks'
  <2>1. CASE AcceptCommit(p) \/ DeleteBookingCommit(p) \/ DeleteRideRow(p)
    BY <2>1, WritingBounds DEF AcceptCommit, DeleteBookingCommit, DeleteRideRow, Step
  <2>2. CASE UpdateRideWrite(p)
    BY <2>2 DEF UpdateRideWrite, BoundsInv, RoutesServed, NoSeatEdits
  <2>3. CASE Arrive(p) \/ Fail(p)
    BY <2>3, LockingBounds
       DEF Fail, rideVars, Arrive, RequestPreflight, AcceptRead, RejectRead,
           DeleteBookingRead, RemoveReadRide, DeleteRideCheck, UpdateRideRead,
           CreateBookingCheck, UpdateBookingRead
  <2>4. CASE /\ Step(p)
             /\ ~(AcceptCommit(p) \/ DeleteBookingCommit(p) \/ DeleteRideRow(p))
             /\ ~UpdateRideWrite(p)
    <3>1. UNCHANGED <<row, total, booked>>
      BY <2>4 DEF Step, RequestInsert, BookingInsert, AcceptSeat, AcceptBooking,
         RejectBooking, RejectCommit, RemoveReadBooking, DeleteBookingRow,
         DeleteBookingSeat, CreateBookingInsert, UpdateBookingWrite,
         rideVars
    <3>2. QED BY <2>4, <3>1, LockingBounds
  <2>5. QED BY <1>3, <2>1, <2>2, <2>3, <2>4
<1>4. QED BY <1>1, <1>2, <1>3 DEF Next, DeadlockVictim

(* booked_seats never leaves 0 .. total_seats - 1, whatever routes are     *)
(* called and whatever the isolation level, as long as rides are not       *)
(* edited: the guards on the two seat UPDATEs suffice.                     *)
THEOREM BookedBounded ==
  ASSUME NoSeatEdits
  PROVE  Spec => []BookedInBounds
<1>1. BoundsInv /\ [Next]_vars => BoundsInv'
  BY BoundsNext
<1>2. BoundsInv => BookedInBounds
  BY DEF BoundsInv
<1>3. QED BY <1>1, <1>2, BoundsInit, PTL DEF Spec

-----------------------------------------------------------------------------
(* booked_seats counts the accepted bookings. *)

(* A step keeps the rows others rely on: no row comes back under the       *)
(* number it had, and an accepted row stays accepted as long as it exists. *)
RowsKept ==
  \A r \in Rides, u \in Users :
    /\ gen'[r][u] >= gen[r][u]
    /\ gen'[r][u] = gen[r][u] /\ st'[r][u] # NoRow =>
         /\ st[r][u] # NoRow
         /\ st[r][u] = "accepted" => st'[r][u] = "accepted"

(* Then every handler the step does not belong to can still rely on what   *)
(* it read.                                                                *)
LEMMA OthersSound ==
  ASSUME TypeOK, HandlersSound, RowsKept, gen' \in [Rides -> [Users -> Nat]],
         NEW q \in Procs, LocksKept(q), pc'[q] = pc[q], tgt'[q] = tgt[q]
  PROVE  HandlerSound(q)'
<1>h. HandlerSound(q)
  BY DEF HandlersSound
<1>1. CASE pc[q] = "idle"
  BY <1>1, <1>h DEF HandlerSound, LocksKept, Deciding, Leaving
<1>2. CASE pc[q] # "idle"
  <2>1. /\ R(q) \in Rides /\ U(q) \in Users /\ R(q)' = R(q) /\ U(q)' = U(q)
        /\ tgt[q].gen \in Nat
    BY <1>2, TargetTyped DEF R, U
  <2>2. gen[R(q)][U(q)] \in Nat /\ gen'[R(q)][U(q)] \in Nat
    BY <2>1 DEF TypeOK
  <2>3. tgt[q].gen <= gen'[R(q)][U(q)]
    <3>1. gen'[R(q)][U(q)] >= gen[R(q)][U(q)]
      BY <2>1 DEF RowsKept
    <3>2. tgt[q].gen <= gen[R(q)][U(q)]
      BY <1>2, <1>h DEF HandlerSound
    <3>3. QED BY <2>1, <2>2, <3>1, <3>2
  <2>4. SameRow(q)' => SameRow(q) /\ (st[R(q)][U(q)] = "accepted" => st'[R(q)][U(q)] = "accepted")
    <3>1. SUFFICES ASSUME SameRow(q)'
                   PROVE  /\ SameRow(q)
                          /\ st[R(q)][U(q)] = "accepted" => st'[R(q)][U(q)] = "accepted"
      OBVIOUS
    <3>2. st'[R(q)][U(q)] # NoRow /\ gen'[R(q)][U(q)] = tgt[q].gen
      BY <2>1, <3>1 DEF SameRow
    <3>3. gen[R(q)][U(q)] = tgt[q].gen
      <4>1. gen'[R(q)][U(q)] >= gen[R(q)][U(q)]
        BY <2>1 DEF RowsKept
      <4>2. tgt[q].gen <= gen[R(q)][U(q)]
        BY <1>2, <1>h DEF HandlerSound
      <4>3. \A a, b, c \in Nat : b >= a /\ c <= a /\ b = c => a = c
        OBVIOUS
      <4>4. QED BY <2>1, <2>2, <3>2, <4>1, <4>2, <4>3
    <3>4. QED BY <2>1, <3>2, <3>3 DEF SameRow, RowsKept
  <2>5. lockR'[R(q)] = q <=> lockR[R(q)] = q
    BY <2>1 DEF LocksKept
  <2>6. lockB'[R(q)][U(q)] = q <=> lockB[R(q)][U(q)] = q
    BY <2>1 DEF LocksKept
  <2>7. \A r \in Rides : lockR'[r] = q => lockR[r] = q
    BY DEF LocksKept
  <2>8. QED BY <1>h, <2>1, <2>3, <2>4, <2>5, <2>6, <2>7 DEF HandlerSound
<1>3. QED BY <1>1, <1>2

(* A handler that is done relies on nothing. *)
LEMMA FinishSound ==
  ASSUME TypeOK, NEW p \in Procs, Finish(p)
  PROVE  HandlerSound(p)'
<1>1. pc'[p] = "idle"
  BY DEF Finish, TypeOK
<1>2. \A r \in Rides : lockR'[r] # p
  BY FinishFreesLocks
<1>3. QED BY <1>1, <1>2 DEF HandlerSound, Deciding, Leaving

(* Steps that write no row. *)
LEMMA QuietRows ==
  ASSUME TypeOK, UNCHANGED bkgVars
  PROVE  RowsKept /\ gen' \in [Rides -> [Users -> Nat]]
BY DEF RowsKept, bkgVars, TypeOK

(* A handler that starts: what it read is what the tables hold. *)
LEMMA BeginSound ==
  ASSUME TypeOK, HandlersSound, NEW p \in Procs, NEW r \in Rides, NEW u \in Users,
         NEW route, NEW next \in Stages \ {"dl_seat", "dl_commit"},
         Begin(p, route, next, r, u), UNCHANGED <<bkgVars, lockVars>>,
         next \in Deciding => st[r][u] = "pending"
  PROVE  HandlerSound(p)'
<1>1. /\ pc[p] = "idle" /\ pc'[p] = next /\ R(p)' = r /\ U(p)' = u
      /\ tgt'[p].gen = gen[r][u] /\ tgt'[p].seen = st[r][u]
  BY DEF Begin, R, U, TypeOK
<1>2. \A q \in Rides : lockR'[q] # p
  BY <1>1 DEF HandlersSound, HandlerSound, lockVars
<1>3. st' = st /\ gen' = gen /\ gen[r][u] \in Nat
  BY DEF bkgVars, TypeOK
<1>4. QED BY <1>1, <1>2, <1>3 DEF HandlerSound

(* Requests that arrive, and statements that only read or lock. *)
LEMMA ReadingSound ==
  ASSUME CountInv, FlowOnly, NEW p \in Procs, Arrive(p) \/ Step(p) \/ Fail(p),
         UNCHANGED bkgVars
  PROVE  HandlersSound'
<1>t. TypeOK /\ HandlersSound /\ HandlerSound(p)
  BY DEF CountInv, HandlersSound
<1>0. pc[p] # "idle" => R(p) \in Rides /\ U(p) \in Users /\ tgt[p] \in Target
  BY <1>t, TargetTyped DEF TypeOK
<1>1. HandlerSound(p)'
  <2>f. CASE Finish(p)
    BY <1>t, <2>f, FinishSound
  <2>1. CASE Arrive(p)
    <3>1. CASE RequestPreflight(p)
      BY <1>t, <3>1, BeginSound DEF RequestPreflight, Stages, Deciding
    <3>2. CASE AcceptRead(p) \/ RejectRead(p)
      BY <1>t, <3>2, BeginSound DEF AcceptRead, RejectRead, Stages
    <3>3. CASE DeleteBookingRead(p) \/ RemoveReadRide(p)
      BY <1>t, <3>3, BeginSound DEF DeleteBookingRead, RemoveReadRide, Stages, Deciding
    <3>4. CASE DeleteRideCheck(p) \/ UpdateRideRead(p)
      <4>1. PICK r \in Rides, next \in {"dr_delete", "ur_write"}, route \in AllRoutes :
              Begin(p, route, next, r, host[r])
        BY <3>4 DEF DeleteRideCheck, UpdateRideRead, AllRoutes
      <4>2. host[r] \in Users
        BY <1>t DEF TypeOK
      <4>3. UNCHANGED lockVars
        BY <3>4 DEF DeleteRideCheck, UpdateRideRead
      <4>4. QED BY <1>t, <4>1, <4>2, <4>3, BeginSound DEF Stages, Deciding
    <3>5. CASE CreateBookingCheck(p) \/ UpdateBookingRead(p)
      BY <3>5 DEF CreateBookingCheck, UpdateBookingRead, Begin, FlowOnly
    <3>6. QED BY <2>1, <3>1, <3>2, <3>3, <3>4, <3>5 DEF Arrive
  <2>g. ASSUME NEW next \in Stages, Goto(p, next), pc[p] # "idle"
        PROVE  /\ pc'[p] = next /\ R(p)' = R(p) /\ U(p)' = U(p) /\ tgt'[p] = tgt[p]
               /\ SameRow(p)' <=> SameRow(p)
    BY <1>t, <2>g DEF Goto, TypeOK, R, U, SameRow, bkgVars
  <2>2. CASE AcceptSeat(p)
    <3>1. CASE SeatAvailable(R(p))
      BY <1>t, <1>0, <2>2, <2>g, <3>1
         DEF AcceptSeat, LockRide, HandlerSound, Stages, Deciding, Leaving, bkgVars
    <3>2. QED BY <2>2, <2>f, <3>1 DEF AcceptSeat
  <2>3. CASE AcceptBooking(p)
    <3>1. CASE StillPending(p)
      BY <1>t, <1>0, <2>3, <2>g, <3>1
         DEF AcceptBooking, HandlerSound, Stages, Deciding, Leaving, bkgVars
    <3>2. QED BY <2>3, <2>f, <3>1 DEF AcceptBooking
  <2>4. CASE RejectBooking(p)
    <3>1. CASE StillPending(p)
      BY <1>t, <1>0, <2>4, <2>g, <3>1
         DEF RejectBooking, HandlerSound, Stages, Deciding, Leaving, bkgVars
    <3>2. QED BY <2>4, <2>f, <3>1 DEF RejectBooking
  <2>5. CASE RemoveReadBooking(p)
    <3>1. CASE st[R(p)][U(p)] # NoRow
      <4>1. /\ pc'[p] = "dl_row" /\ R(p)' = R(p) /\ U(p)' = U(p)
            /\ tgt'[p].gen = gen[R(p)][U(p)] /\ tgt'[p].seen = st[R(p)][U(p)]
        BY <1>t, <1>0, <2>5, <3>1 DEF RemoveReadBooking, TypeOK, R, U, Target
      <4>2. \A r \in Rides : lockR'[r] # p
        BY <1>t, <2>5, <3>1 DEF RemoveReadBooking, HandlerSound, lockVars
      <4>3. st' = st /\ gen' = gen /\ gen[R(p)][U(p)] \in Nat
        BY <1>t, <1>0, <2>5 DEF RemoveReadBooking, bkgVars, TypeOK
      <4>4. QED BY <4>1, <4>2, <4>3 DEF HandlerSound, Deciding
    <3>2. QED BY <2>5, <2>f, <3>1 DEF RemoveReadBooking
  <2>6. CASE DeleteBookingRow(p)
    <3>1. PICK next \in {"dl_seat", "dl_commit"} :
            Goto(p, next) /\ (next = "dl_seat" <=> tgt[p].seen = "accepted")
      BY <2>6 DEF DeleteBookingRow
    <3>2. SameRow(p) => lockB'[R(p)][U(p)] = p
      BY <1>t, <1>0, <2>6, LockBookingEffect DEF DeleteBookingRow
    <3>3. QED
      BY <1>t, <1>0, <2>6, <2>g, <3>1, <3>2
         DEF DeleteBookingRow, HandlerSound, Stages, Deciding, Leaving, bkgVars
  <2>7. CASE DeleteBookingSeat(p)
    <3>1. /\ pc[p] = "dl_seat" /\ Goto(p, "dl_commit") /\ lockB' = lockB
          /\ tgt[p].seen = "accepted"
      BY <1>t, <2>7 DEF DeleteBookingSeat, HandlerSound
    <3>2. SameRow(p) => lockR'[R(p)] = p
      <4>1. SUFFICES ASSUME SameRow(p) PROVE lockR'[R(p)] = p
        OBVIOUS
      <4>2. U(p) \in Accepted(R(p))
        BY <1>t, <1>0, <3>1, <4>1 DEF HandlerSound, Leaving, Accepted
      <4>3. IsFiniteSet(Accepted(R(p)))
        BY UsersAssumption, FS_Subset DEF Accepted
      <4>4. Cardinality(Accepted(R(p))) \in Nat /\ Cardinality(Accepted(R(p))) # 0
        BY <4>2, <4>3, FS_CardinalityType, FS_EmptySet
      <4>5. row[R(p)] = "live"
        BY <1>0, <3>1, <4>1 DEF SameRow, CountInv, NoOrphanBookings
      <4>6. booked[R(p)] > 0
        BY <1>0, <3>1, <4>4, <4>5 DEF CountInv, SeatsMatchBookings
      <4>7. QED
        BY <1>t, <1>0, <2>7, <3>1, <4>5, <4>6 DEF DeleteBookingSeat, LockRide, TypeOK
    <3>3. QED
      BY <1>t, <1>0, <2>g, <3>1, <3>2
         DEF HandlerSound, Stages, Deciding, Leaving, bkgVars
  <2>9. QED
    BY <2>f, <2>1, <2>2, <2>3, <2>4, <2>5, <2>6, <2>7
       DEF Step, Fail, RequestInsert, BookingInsert, AcceptCommit, RejectCommit,
           DeleteBookingCommit, DeleteRideRow, UpdateRideWrite, CreateBookingInsert,
           UpdateBookingWrite
<1>2. ASSUME NEW q \in Procs \ {p} PROVE HandlerSound(q)'
  BY <1>t, StepIsLocal, QuietRows, OthersSound
<1>3. QED BY <1>1, <1>2 DEF HandlersSound

(* The acting handler is done when it writes, so it is enough that the     *)
(* rows are kept.                                                          *)
LEMMA WritingSound ==
  ASSUME CountInv, NEW p \in Procs, Step(p), Finish(p), RowsKept,
         gen' \in [Rides -> [Users -> Nat]]
  PROVE  HandlersSound'
BY StepIsLocal, OthersSound, FinishSound DEF CountInv, HandlersSound

(* A ride whose accepted bookings and counter both stay, keeps its count.  *)
LEMMA CountKept ==
  ASSUME CountInv, NEW r \in Rides, row'[r] = row[r], booked'[r] = booked[r],
         \A u \in Users : st'[r][u] = "accepted" <=> st[r][u] = "accepted"
  PROVE  row'[r] = "live" => booked'[r] = Cardinality(Accepted(r)')
<1>1. Accepted(r)' = Accepted(r)
  BY DEF Accepted
<1>2. QED BY <1>1 DEF CountInv, SeatsMatchBookings

LEMMA AcceptedFinite == \A r : IsFiniteSet(Accepted(r))
BY UsersAssumption, FS_Subset DEF Accepted

(* Writing the status of the process's own row, cell by cell. *)
LEMMA StatusEffect ==
  ASSUME TypeOK, NEW p \in Procs, pc[p] # "idle", NEW s \in Status \cup {NoRow},
         st' = [st EXCEPT ![R(p)][U(p)] = s]
  PROVE  \A r \in Rides, u \in Users :
           st'[r][u] = IF r = R(p) /\ u = U(p) THEN s ELSE st[r][u]
<1>1. R(p) \in Rides /\ U(p) \in Users
  BY TargetTyped
<1>2. st \in [Rides -> [Users -> Status \cup {NoRow}]]
  BY DEF TypeOK
<1>3. QED BY <1>1, <1>2, CellWrite

(* An accept that commits takes one seat for one new accepted booking. *)
LEMMA AcceptCommitCounts ==
  ASSUME CountInv, FlowOnly, NEW p \in Procs, AcceptCommit(p)
  PROVE  SeatsMatchBookings' /\ NoOrphanBookings' /\ HandlersSound'
<1>t. TypeOK /\ HandlerSound(p) /\ pc[p] = "ac_commit" /\ Finish(p) /\ Step(p)
  BY DEF CountInv, HandlersSound, AcceptCommit, Step
<1>0. R(p) \in Rides /\ U(p) \in Users
  BY <1>t, TargetTyped
<1>1. CASE ~MayCommit(p)
  <2>1. UNCHANGED <<row, booked, st, gen>>
    BY <1>1 DEF AcceptCommit
  <2>2. SeatsMatchBookings' /\ NoOrphanBookings'
    BY <2>1 DEF CountInv, SeatsMatchBookings, NoOrphanBookings, Accepted
  <2>3. RowsKept /\ gen' \in [Rides -> [Users -> Nat]]
    BY <1>t, <2>1, QuietRows DEF bkgVars
  <2>4. QED BY <1>t, <2>2, <2>3, WritingSound
<1>2. CASE MayCommit(p)
  <2>1. /\ row[R(p)] = "live" /\ SameRow(p) /\ st[R(p)][U(p)] = "pending"
    BY <1>t, <1>2 DEF MayCommit, FlowOnly, ReadsCurrent, HandlerSound, Deciding
  <2>2. /\ booked' = [booked EXCEPT ![R(p)] = @ + 1] /\ row' = row /\ gen' = gen
        /\ st' = [st EXCEPT ![R(p)][U(p)] = "accepted"]
    BY <1>2 DEF AcceptCommit
  <2>3. \A r \in Rides, u \in Users :
          st'[r][u] = IF r = R(p) /\ u = U(p) THEN "accepted" ELSE st[r][u]
    <3>1. "accepted" \in Status \cup {NoRow} /\ pc[p] # "idle"
      BY <1>t DEF Status
    <3>2. st' = [st EXCEPT ![R(p)][U(p)] = "accepted"]
      BY <2>2
    <3>3. QED BY <1>t, <3>1, <3>2, StatusEffect
  <2>4. RowsKept /\ gen' \in [Rides -> [Users -> Nat]]
    BY <1>t, <1>0, <2>1, <2>2, <2>3 DEF RowsKept, TypeOK, NoRow
  <2>5. NoOrphanBookings'
    BY <1>0, <2>1, <2>2, <2>3 DEF CountInv, NoOrphanBookings
  <2>6. ASSUME NEW r \in Rides PROVE row'[r] = "live" => booked'[r] = Cardinality(Accepted(r)')
    <3>1. CASE r # R(p)
      BY <1>t, <1>0, <2>2, <2>3, <3>1, CountKept DEF TypeOK
    <3>2. CASE r = R(p)
      <4>1. Accepted(r)' = Accepted(r) \cup {U(p)} /\ U(p) \notin Accepted(r)
        BY <1>0, <2>1, <2>3, <3>2 DEF Accepted
      <4>2. Cardinality(Accepted(r)') = Cardinality(Accepted(r)) + 1
        BY <4>1, AcceptedFinite, FS_AddElement
      <4>3. booked'[r] = booked[r] + 1
        BY <1>t, <1>0, <2>2, <3>2 DEF TypeOK
      <4>4. QED BY <2>1, <3>2, <4>2, <4>3 DEF CountInv, SeatsMatchBookings
    <3>3. QED BY <3>1, <3>2
  <2>7. QED BY <1>t, <2>4, <2>5, <2>6, WritingSound DEF SeatsMatchBookings
<1>3. QED BY <1>1, <1>2

(* A removal that commits gives back one seat for one accepted booking, or *)
(* removes a booking that held none.                                       *)
LEMMA DeleteCommitCounts ==
  ASSUME CountInv, FlowOnly, NEW p \in Procs, DeleteBookingCommit(p)
  PROVE  SeatsMatchBookings' /\ NoOrphanBookings' /\ HandlersSound'
<1>t. TypeOK /\ HandlerSound(p) /\ pc[p] = "dl_commit" /\ Finish(p) /\ Step(p)
  BY DEF CountInv, HandlersSound, DeleteBookingCommit, Step
<1>0. R(p) \in Rides /\ U(p) \in Users
  BY <1>t, TargetTyped
<1>1. CASE ~MayCommit(p)
  <2>1. UNCHANGED <<row, booked, st, gen>>
    BY <1>1 DEF DeleteBookingCommit
  <2>2. SeatsMatchBookings' /\ NoOrphanBookings'
    BY <2>1 DEF CountInv, SeatsMatchBookings, NoOrphanBookings, Accepted
  <2>3. RowsKept /\ gen' \in [Rides -> [Users -> Nat]]
    BY <1>t, <2>1, QuietRows DEF bkgVars
  <2>4. QED BY <1>t, <2>2, <2>3, WritingSound
<1>2. CASE MayCommit(p)
  <2>1. /\ row[R(p)] = "live" /\ SameRow(p) /\ st[R(p)][U(p)] = tgt[p].seen
        /\ lockB[R(p)][U(p)] = p
        /\ tgt[p].seen = "accepted" <=> lockR[R(p)] = p
    BY <1>t, <1>0, <1>2 DEF MayCommit, FlowOnly, ReadsCurrent, HandlerSound
  <2>2. /\ st' = [st EXCEPT ![R(p)][U(p)] = NoRow] /\ row' = row /\ gen' = gen
        /\ booked' = IF tgt[p].seen = "accepted"
                       THEN [booked EXCEPT ![R(p)] = @ - 1] ELSE booked
    BY <1>2, <2>1 DEF DeleteBookingCommit
  <2>3. \A r \in Rides, u \in Users :
          st'[r][u] = IF r = R(p) /\ u = U(p) THEN NoRow ELSE st[r][u]
    <3>1. st' = [st EXCEPT ![R(p)][U(p)] = NoRow] /\ pc[p] # "idle"
      BY <1>t, <2>2
    <3>2. NoRow \in Status \cup {NoRow}
      OBVIOUS
    <3>3. QED BY <1>t, <3>1, <3>2, StatusEffect
  <2>4. RowsKept /\ gen' \in [Rides -> [Users -> Nat]]
    BY <1>t, <1>0, <2>2, <2>3 DEF RowsKept, TypeOK
  <2>5. NoOrphanBookings'
    BY <1>0, <2>2, <2>3 DEF CountInv, NoOrphanBookings
  <2>6. ASSUME NEW r \in Rides PROVE row'[r] = "live" => booked'[r] = Cardinality(Accepted(r)')
    <3>1. CASE r # R(p)
      BY <1>t, <1>0, <2>2, <2>3, <3>1, CountKept DEF TypeOK
    <3>2. CASE r = R(p) /\ tgt[p].seen = "accepted"
      <4>1. Accepted(r)' = Accepted(r) \ {U(p)} /\ U(p) \in Accepted(r)
        BY <1>0, <2>1, <2>3, <3>2 DEF Accepted, NoRow
      <4>2. Cardinality(Accepted(r)') = Cardinality(Accepted(r)) - 1
        BY <4>1, AcceptedFinite, FS_RemoveElement
      <4>3. booked'[r] = booked[r] - 1
        BY <1>t, <1>0, <2>2, <3>2 DEF TypeOK
      <4>4. QED BY <2>1, <3>2, <4>2, <4>3 DEF CountInv, SeatsMatchBookings
    <3>3. CASE r = R(p) /\ tgt[p].seen # "accepted"
      BY <1>0, <2>1, <2>2, <2>3, <3>3, CountKept DEF NoRow
    <3>4. QED BY <3>1, <3>2, <3>3
  <2>7. QED BY <1>t, <2>4, <2>5, <2>6, WritingSound DEF SeatsMatchBookings
<1>3. QED BY <1>1, <1>2

(* No other step writes booked_seats, or a status that is or was accepted. *)
LEMMA OtherWritesCount ==
  ASSUME CountInv, FlowOnly, NEW p \in Procs, Step(p),
         \/ RequestInsert(p) \/ RejectCommit(p) \/ DeleteRideRow(p) \/ UpdateRideWrite(p)
  PROVE  SeatsMatchBookings' /\ NoOrphanBookings' /\ HandlersSound'
<1>t. TypeOK /\ HandlerSound(p) /\ pc[p] # "idle" /\ Finish(p)
  BY DEF CountInv, HandlersSound, RequestInsert, BookingInsert, RejectCommit,
     DeleteRideRow, UpdateRideWrite
<1>0. R(p) \in Rides /\ U(p) \in Users
  BY <1>t, TargetTyped
<1>1. CASE RequestInsert(p)
  <2>1. CASE ~(row[R(p)] = "live" /\ st[R(p)][U(p)] = NoRow)
    <3>1. UNCHANGED <<row, booked, st, gen>>
      BY <1>1, <2>1 DEF RequestInsert, BookingInsert, bkgVars, rideVars
    <3>2. SeatsMatchBookings' /\ NoOrphanBookings'
      BY <3>1 DEF CountInv, SeatsMatchBookings, NoOrphanBookings, Accepted
    <3>3. QED BY <1>t, <3>1, <3>2, QuietRows, WritingSound DEF bkgVars
  <2>2. CASE row[R(p)] = "live" /\ st[R(p)][U(p)] = NoRow
    <3>1. /\ st' = [st EXCEPT ![R(p)][U(p)] = "pending"]
          /\ gen' = [gen EXCEPT ![R(p)][U(p)] = @ + 1]
          /\ row' = row /\ booked' = booked
      BY <1>1, <2>2 DEF RequestInsert, BookingInsert, InsertBooking, rideVars
    <3>2. \A r \in Rides, u \in Users :
            st'[r][u] = IF r = R(p) /\ u = U(p) THEN "pending" ELSE st[r][u]
      <4>1. "pending" \in Status \cup {NoRow}
        BY DEF Status
      <4>2. st' = [st EXCEPT ![R(p)][U(p)] = "pending"]
        BY <3>1
      <4>3. QED BY <1>t, <4>1, <4>2, StatusEffect
    <3>3. /\ gen' \in [Rides -> [Users -> Nat]]
          /\ \A r \in Rides, u \in Users :
               gen'[r][u] = IF r = R(p) /\ u = U(p) THEN gen[r][u] + 1 ELSE gen[r][u]
      <4>1. gen[R(p)][U(p)] + 1 \in Nat /\ gen \in [Rides -> [Users -> Nat]]
        BY <1>t, <1>0 DEF TypeOK
      <4>2. gen' = [gen EXCEPT ![R(p)][U(p)] = gen[R(p)][U(p)] + 1]
        BY <3>1
      <4>3. QED BY <1>0, <4>1, <4>2, CellWrite
    <3>4. RowsKept
      <4>1. \A r \in Rides, u \in Users : gen[r][u] \in Nat
        BY <1>t DEF TypeOK
      <4>2. QED BY <3>2, <3>3, <4>1 DEF RowsKept
    <3>5. NoOrphanBookings'
      BY <2>2, <3>1, <3>2 DEF CountInv, NoOrphanBookings
    <3>6. SeatsMatchBookings'
      BY <2>2, <3>1, <3>2, CountKept DEF SeatsMatchBookings, NoRow
    <3>7. QED BY <1>t, <3>3, <3>4, <3>5, <3>6, WritingSound
  <2>3. QED BY <2>1, <2>2
<1>2. CASE RejectCommit(p)
  <2>1. CASE ~MayCommit(p)
    <3>1. UNCHANGED <<row, booked, st, gen>>
      BY <1>2, <2>1 DEF RejectCommit, rideVars
    <3>2. SeatsMatchBookings' /\ NoOrphanBookings'
      BY <3>1 DEF CountInv, SeatsMatchBookings, NoOrphanBookings, Accepted
    <3>3. QED BY <1>t, <3>1, <3>2, QuietRows, WritingSound DEF bkgVars
  <2>2. CASE MayCommit(p)
    <3>1. /\ st' = [st EXCEPT ![R(p)][U(p)] = "rejected"]
          /\ row' = row /\ booked' = booked /\ gen' = gen
      BY <1>2, <2>2 DEF RejectCommit, rideVars
    <3>2. row[R(p)] = "live" /\ st[R(p)][U(p)] = "pending"
      BY <1>t, <1>2, <2>2
         DEF RejectCommit, MayCommit, FlowOnly, ReadsCurrent, HandlerSound, Deciding
    <3>3. \A r \in Rides, u \in Users :
            st'[r][u] = IF r = R(p) /\ u = U(p) THEN "rejected" ELSE st[r][u]
      <4>1. "rejected" \in Status \cup {NoRow}
        BY DEF Status
      <4>2. st' = [st EXCEPT ![R(p)][U(p)] = "rejected"]
        BY <3>1
      <4>3. QED BY <1>t, <4>1, <4>2, StatusEffect
    <3>4. RowsKept /\ gen' \in [Rides -> [Users -> Nat]]
      BY <1>t, <3>1, <3>2, <3>3 DEF RowsKept, TypeOK, NoRow
    <3>5. NoOrphanBookings'
      BY <3>1, <3>2, <3>3 DEF CountInv, NoOrphanBookings
    <3>6. SeatsMatchBookings'
      BY <3>1, <3>2, <3>3, CountKept DEF SeatsMatchBookings
    <3>7. QED BY <1>t, <3>4, <3>5, <3>6, WritingSound
  <2>3. QED BY <2>1, <2>2
<1>3. CASE DeleteRideRow(p)
  <2>1. /\ row' = [row EXCEPT ![R(p)] = "gone"] /\ booked' = booked /\ gen' = gen
        /\ st' = [st EXCEPT ![R(p)] = [u \in Users |-> NoRow]]
    BY <1>3 DEF DeleteRideRow
  <2>2. \A r \in Rides, u \in Users : st'[r][u] = IF r = R(p) THEN NoRow ELSE st[r][u]
    BY <1>t, <1>0, <2>1 DEF TypeOK
  <2>3. \A r \in Rides : row'[r] = IF r = R(p) THEN "gone" ELSE row[r]
    BY <1>t, <1>0, <2>1 DEF TypeOK
  <2>4. RowsKept /\ gen' \in [Rides -> [Users -> Nat]]
    BY <1>t, <2>1, <2>2 DEF RowsKept, TypeOK
  <2>5. NoOrphanBookings'
    BY <2>2, <2>3 DEF CountInv, NoOrphanBookings
  <2>6. SeatsMatchBookings'
    BY <2>1, <2>2, <2>3, CountKept DEF SeatsMatchBookings
  <2>7. QED BY <1>t, <2>4, <2>5, <2>6, WritingSound
<1>4. CASE UpdateRideWrite(p)
  <2>1. row' = row /\ st' = st /\ gen' = gen /\ UNCHANGED bkgVars
    BY <1>4 DEF UpdateRideWrite, bkgVars
  <2>2. booked' = booked
    BY <1>4 DEF UpdateRideWrite, FlowOnly
  <2>3. SeatsMatchBookings' /\ NoOrphanBookings'
    BY <2>1, <2>2 DEF CountInv, SeatsMatchBookings, NoOrphanBookings, Accepted
  <2>4. QED BY <1>t, <2>1, <2>3, QuietRows, WritingSound
<1>5. QED BY <1>1, <1>2, <1>3, <1>4

(* A new ride has no bookings, and is offered with no seat taken. *)
LEMMA CreateRideCounts ==
  ASSUME CountInv, FlowOnly, CreateRide
  PROVE  SeatsMatchBookings' /\ NoOrphanBookings' /\ HandlersSound'
<1>t. TypeOK
  BY DEF CountInv
<1>1. PICK r \in Rides, b \in CreateBooked :
        /\ row[r] = "unborn"
        /\ row'    = [row EXCEPT ![r] = "live"]
        /\ booked' = [booked EXCEPT ![r] = b]
  BY DEF CreateRide
<1>2. b = 0 /\ UNCHANGED <<st, gen, lockR, lockB, pc, tgt>>
  BY DEF FlowOnly, CreateRide, bkgVars, lockVars, procVars
<1>3. NoOrphanBookings'
  BY <1>t, <1>1, <1>2 DEF CountInv, NoOrphanBookings, TypeOK
<1>4. ASSUME NEW q \in Rides PROVE row'[q] = "live" => booked'[q] = Cardinality(Accepted(q)')
  <2>1. CASE q # r
    BY <1>t, <1>1, <1>2, <2>1, CountKept DEF TypeOK
  <2>2. CASE q = r
    <3>1. Accepted(q)' = {}
      BY <1>1, <1>2, <2>2 DEF CountInv, NoOrphanBookings, Accepted, NoRow
    <3>2. booked'[q] = 0
      BY <1>t, <1>1, <1>2, <2>2 DEF TypeOK
    <3>3. QED BY <3>1, <3>2, FS_EmptySet
  <2>3. QED BY <2>1, <2>2
<1>5. HandlersSound'
  <2>1. RowsKept /\ gen' \in [Rides -> [Users -> Nat]]
    BY <1>t, <1>2, QuietRows DEF bkgVars
  <2>2. \A q \in Procs : LocksKept(q)
    BY <1>2 DEF LocksKept
  <2>3. QED BY <1>t, <1>2, <2>1, <2>2, OthersSound DEF CountInv, HandlersSound
<1>6. QED BY <1>3, <1>4, <1>5 DEF SeatsMatchBookings

LEMMA CountInit == Init => CountInv
<1> SUFFICES ASSUME Init PROVE CountInv
  OBVIOUS
<1>1. HandlersSound
  BY ProcAssumption DEF Init, HandlersSound, HandlerSound, Deciding, Leaving
<1>2. RoutesServed /\ SeatsMatchBookings /\ NoOrphanBookings
  BY DEF Init, RoutesServed, SeatsMatchBookings, NoOrphanBookings
<1>3. QED BY <1>1, <1>2, InitTyped DEF CountInv

LEMMA CountNext ==
  ASSUME CountInv, FlowOnly, [Next]_vars
  PROVE  CountInv'
<1> SUFFICES SeatsMatchBookings' /\ NoOrphanBookings' /\ HandlersSound'
  BY NextTyped, ServedStep DEF CountInv
<1>t. TypeOK /\ HandlersSound
  BY DEF CountInv
<1>1. CASE CreateRide
  BY <1>1, CreateRideCounts
<1>q. ASSUME UNCHANGED <<row, booked, st>> PROVE SeatsMatchBookings' /\ NoOrphanBookings'
  BY <1>q DEF CountInv, SeatsMatchBookings, NoOrphanBookings, Accepted
<1>2. CASE StartTimePasses \/ UNCHANGED vars
  <2>1. UNCHANGED <<row, booked, st, gen, lockR, lockB, pc, tgt>>
    BY <1>2 DEF StartTimePasses, vars, rideVars, bkgVars, lockVars, procVars
  <2>2. HandlersSound'
    BY <1>t, <2>1, QuietRows, OthersSound DEF HandlersSound, LocksKept, bkgVars
  <2>3. QED BY <1>q, <2>1, <2>2
<1>3. ASSUME NEW p \in Procs, Arrive(p) \/ Step(p) \/ Fail(p)
      PROVE  SeatsMatchBookings' /\ NoOrphanBookings' /\ HandlersSound'
  <2>1. CASE AcceptCommit(p)
    BY <2>1, AcceptCommitCounts
  <2>2. CASE DeleteBookingCommit(p)
    BY <2>2, DeleteCommitCounts
  <2>3. CASE RequestInsert(p) \/ RejectCommit(p) \/ DeleteRideRow(p) \/ UpdateRideWrite(p)
    BY <2>3, OtherWritesCount DEF Step
  <2>4. CASE CreateBookingInsert(p) \/ UpdateBookingWrite(p)
    BY <2>4 DEF CreateBookingInsert, UpdateBookingWrite, CountInv, RoutesServed, FlowOnly
  <2>5. CASE Arrive(p) \/ Fail(p)
    <3>1. UNCHANGED <<rideVars, bkgVars>>
      BY <2>5 DEF Fail, Arrive, RequestPreflight, AcceptRead, RejectRead,
         DeleteBookingRead, RemoveReadRide, DeleteRideCheck, UpdateRideRead,
         CreateBookingCheck, UpdateBookingRead
    <3>2. QED BY <1>q, <2>5, <3>1, ReadingSound DEF rideVars, bkgVars
  <2>6. CASE \/ AcceptSeat(p) \/ AcceptBooking(p) \/ RejectBooking(p)
             \/ RemoveReadBooking(p) \/ DeleteBookingRow(p) \/ DeleteBookingSeat(p)
    <3>1. UNCHANGED <<rideVars, bkgVars>>
      BY <2>6 DEF AcceptSeat, AcceptBooking, RejectBooking, RemoveReadBooking,
         DeleteBookingRow, DeleteBookingSeat
    <3>2. Step(p)
      BY <2>6 DEF Step
    <3>3. QED BY <1>q, <3>1, <3>2, ReadingSound DEF rideVars, bkgVars
  <2>7. QED BY <1>3, <2>1, <2>2, <2>3, <2>4, <2>5, <2>6 DEF Step
<1>4. QED BY <1>1, <1>2, <1>3 DEF Next, DeadlockVictim

(* On a SERIALIZABLE database, the booking flow keeps booked_seats equal   *)
(* to the number of accepted bookings, for any number of rides, users and  *)
(* requests in flight, whatever fails or is rolled back.                   *)
THEOREM SeatsCounted ==
  ASSUME FlowOnly
  PROVE  Spec => []SeatsMatchBookings
<1>1. CountInv /\ [Next]_vars => CountInv'
  BY CountNext
<1>2. CountInv => SeatsMatchBookings
  BY DEF CountInv
<1>3. QED BY <1>1, <1>2, CountInit, PTL DEF Spec

(* So no ride ever seats more passengers than it has room for, as long as  *)
(* its host does not edit it (Accept.go, "concurrent accepts cannot        *)
(* overbook the ride").                                                    *)
THEOREM NeverOverbooked ==
  ASSUME FlowOnly, NoSeatEdits
  PROVE  Spec => []NoOverbooking
<1>1. SeatsMatchBookings /\ BookedInBounds => NoOverbooking
  BY DEF SeatsMatchBookings, BookedInBounds, NoOverbooking
<1>2. Spec => []SeatsMatchBookings
  BY SeatsCounted
<1>3. Spec => []BookedInBounds
  BY BookedBounded
<1>4. QED BY <1>1, <1>2, <1>3, PTL

-----------------------------------------------------------------------------
(* What becomes of the bookings. *)

(* The process' own booking, and no other, moves on to status s. *)
Moves(p, s) ==
  /\ UNCHANGED <<row, total>>
  /\ \A r \in Rides, u \in Users : st'[r][u] = IF r = R(p) /\ u = U(p) THEN s ELSE st[r][u]

(* A statement asks for a booking, decides a pending one, removes one, or   *)
(* deletes a ride; or it leaves the bookings alone.                         *)
LEMMA BookingMoves ==
  ASSUME CountInv, FlowOnly, NEW p \in Procs, Step(p)
  PROVE  \/ UNCHANGED <<row, total, st>>
         \/ UpdateRideWrite(p) /\ UNCHANGED <<row, st>>
         \/ Moves(p, "pending") /\ st[R(p)][U(p)] = NoRow
         \/ Moves(p, "rejected") /\ st[R(p)][U(p)] = "pending"
         \/ /\ Moves(p, "accepted") /\ st[R(p)][U(p)] = "pending"
            /\ pc[p] = "ac_commit" /\ row[R(p)] = "live"
         \/ Moves(p, NoRow)
         \/ /\ DeleteRideRow(p) /\ UNCHANGED total
            /\ \A r \in Rides, u \in Users : st'[r][u] = IF r = R(p) THEN NoRow ELSE st[r][u]
            /\ \A r \in Rides : row'[r] = IF r = R(p) THEN "gone" ELSE row[r]
<1>t. TypeOK /\ HandlerSound(p)
  BY DEF CountInv, HandlersSound
<1>1. CASE RequestInsert(p)
  <2>1. CASE row[R(p)] = "live" /\ st[R(p)][U(p)] = NoRow
    <3>1. st' = [st EXCEPT ![R(p)][U(p)] = "pending"] /\ UNCHANGED <<row, total>> /\ pc[p] # "idle"
      BY <1>1, <2>1 DEF RequestInsert, BookingInsert, InsertBooking, rideVars
    <3>2. QED BY <1>t, <2>1, <3>1, StatusEffect DEF Moves, Status
  <2>2. QED BY <1>1, <2>1 DEF RequestInsert, BookingInsert, bkgVars, rideVars
<1>2. CASE AcceptCommit(p)
  <2>1. CASE MayCommit(p)
    <3>1. row[R(p)] = "live" /\ st[R(p)][U(p)] = "pending" /\ pc[p] = "ac_commit"
      BY <1>t, <1>2, <2>1 DEF AcceptCommit, MayCommit, FlowOnly, ReadsCurrent, HandlerSound, Deciding
    <3>2. st' = [st EXCEPT ![R(p)][U(p)] = "accepted"] /\ UNCHANGED <<row, total>>
      BY <1>2, <2>1 DEF AcceptCommit
    <3>3. "accepted" \in Status \cup {NoRow} /\ pc[p] # "idle"
      BY <3>1 DEF Status
    <3>4. Moves(p, "accepted")
      BY <1>t, <3>2, <3>3, StatusEffect DEF Moves
    <3>5. QED BY <3>1, <3>4
  <2>2. CASE ~MayCommit(p)
    BY <1>2, <2>2 DEF AcceptCommit
  <2>3. QED BY <2>1, <2>2
<1>3. CASE RejectCommit(p)
  <2>1. CASE MayCommit(p)
    <3>1. st[R(p)][U(p)] = "pending" /\ pc[p] # "idle"
      BY <1>t, <1>3, <2>1 DEF RejectCommit, MayCommit, FlowOnly, ReadsCurrent, HandlerSound, Deciding
    <3>2. st' = [st EXCEPT ![R(p)][U(p)] = "rejected"] /\ UNCHANGED <<row, total>>
      BY <1>3, <2>1 DEF RejectCommit, rideVars
    <3>3. "rejected" \in Status \cup {NoRow} /\ pc[p] # "idle"
      BY <3>1 DEF Status
    <3>4. Moves(p, "rejected")
      BY <1>t, <3>2, <3>3, StatusEffect DEF Moves
    <3>5. QED BY <3>1, <3>4
  <2>2. CASE ~MayCommit(p)
    BY <1>3, <2>2 DEF RejectCommit, rideVars
  <2>3. QED BY <2>1, <2>2
<1>4. CASE DeleteBookingCommit(p)
  <2>1. CASE MayCommit(p) /\ lockB[R(p)][U(p)] = p
    <3>1. st' = [st EXCEPT ![R(p)][U(p)] = NoRow] /\ UNCHANGED <<row, total>> /\ pc[p] # "idle"
      BY <1>4, <2>1 DEF DeleteBookingCommit
    <3>2. NoRow \in Status \cup {NoRow}
      OBVIOUS
    <3>3. QED BY <1>t, <3>1, <3>2, StatusEffect DEF Moves
  <2>2. QED BY <1>4, <2>1 DEF DeleteBookingCommit
<1>5. CASE DeleteRideRow(p)
  <2>1. /\ row' = [row EXCEPT ![R(p)] = "gone"] /\ UNCHANGED total
        /\ st' = [st EXCEPT ![R(p)] = [u \in Users |-> NoRow]] /\ R(p) \in Rides
    BY <1>t, <1>5, TargetTyped DEF DeleteRideRow
  <2>2. QED BY <1>t, <1>5, <2>1 DEF TypeOK
<1>6. CASE CreateBookingInsert(p) \/ UpdateBookingWrite(p)
  BY <1>6 DEF CreateBookingInsert, UpdateBookingWrite, CountInv, RoutesServed, FlowOnly
<1>7. CASE UpdateRideWrite(p)
  BY <1>7 DEF UpdateRideWrite, bkgVars
<1>8. CASE \/ AcceptSeat(p) \/ AcceptBooking(p) \/ RejectBooking(p)
           \/ RemoveReadBooking(p) \/ DeleteBookingRow(p) \/ DeleteBookingSeat(p)
  BY <1>8 DEF AcceptSeat, AcceptBooking, RejectBooking, RemoveReadBooking,
     DeleteBookingRow, DeleteBookingSeat, rideVars, bkgVars
<1>9. QED BY <1>1, <1>2, <1>3, <1>4, <1>5, <1>6, <1>7, <1>8 DEF Step

(* Every other step leaves the bookings and the rides that exist alone. *)
LEMMA OtherSteps ==
  ASSUME [Next]_vars
  PROVE  \/ UNCHANGED <<row, total, st>>
         \/ CreateRide /\ UNCHANGED st
         \/ \E p \in Procs : Step(p)
<1>1. ASSUME NEW p \in Procs, Arrive(p) \/ Fail(p) PROVE UNCHANGED <<row, total, st>>
  BY <1>1 DEF Fail, Arrive, RequestPreflight, AcceptRead, RejectRead,
     DeleteBookingRead, RemoveReadRide, DeleteRideCheck, UpdateRideRead,
     CreateBookingCheck, UpdateBookingRead, rideVars, bkgVars
<1>2. CASE CreateRide \/ StartTimePasses \/ UNCHANGED vars
  BY <1>2 DEF CreateRide, StartTimePasses, vars, rideVars, bkgVars
<1>3. QED BY <1>1, <1>2 DEF Next, DeadlockVictim

(* A booking is decided once, whatever requests race for it: an accepted or *)
(* rejected one only goes (Accept.go, Reject.go, "pending" in their WHERE). *)
THEOREM DecidedOnce ==
  ASSUME FlowOnly
  PROVE  Spec => DecisionsFinal
<1> DEFINE Final(r, u) == st[r][u] \in {"accepted", "rejected"} => st'[r][u] \in {st[r][u], NoRow}
<1>1. ASSUME CountInv, [Next]_vars, NEW r \in Rides, NEW u \in Users PROVE Final(r, u)
  <2>1. CASE UNCHANGED <<row, total, st>> \/ (CreateRide /\ UNCHANGED st)
    BY <2>1
  <2>2. ASSUME NEW p \in Procs, Step(p) PROVE Final(r, u)
    BY <1>1, <2>2, BookingMoves DEF Moves, NoRow
  <2>3. QED BY <1>1, <2>1, <2>2, OtherSteps
<1>2. CountInv /\ [Next]_vars => [\A r \in Rides, u \in Users : Final(r, u)]_vars
  BY <1>1
<1>3. CountInv /\ [Next]_vars => CountInv'
  BY CountNext
<1>4. QED BY <1>2, <1>3, CountInit, PTL DEF Spec, DecisionsFinal

-----------------------------------------------------------------------------
(* The seat ledger. *)

LEMMA LedgerCounts == \A S : Ledger!Cardinality(S) = Cardinality(S)
BY DEF Ledger!Cardinality, Cardinality

(* Capacities are natural numbers. *)
LEMMA CapacityTyped == \A t \in Nat : PassengerCapacity(t) \in Nat
BY DEF PassengerCapacity

(* A step that keeps rides, seats and riders is a stutter of the ledger. *)
LEMMA LedgerStutters ==
  ASSUME TypeOK,
         \A r \in Rides : (row'[r] = "live" <=> row[r] = "live") /\ total'[r] = total[r] /\ Accepted(r)' = Accepted(r)
  PROVE  UNCHANGED Ledger!vars
BY DEF Ledger!vars

(* A booking that moves on changes the riders of its ride.                  *)
LEMMA LedgerMoves ==
  ASSUME TypeOK, UNCHANGED <<row, total>>, NEW r \in Rides, NEW u \in Users, NEW s \in Status \cup {NoRow},
         \A q \in Rides, v \in Users : st'[q][v] = IF q = r /\ v = u THEN s ELSE st[q][v],
         s = "accepted" => /\ row[r] = "live" /\ st[r][u] # "accepted"
                           /\ Cardinality(Accepted(r)) < PassengerCapacity(total[r])
  PROVE  [Ledger!Next]_(Ledger!vars)
<1>1. \A q \in Rides \ {r} : Accepted(q)' = Accepted(q)
  BY DEF Accepted
<1> DEFINE riders == [q \in Rides |-> Accepted(q)]
<1>2. CASE s = "accepted"
  <2>1. Accepted(r)' = Accepted(r) \cup {u} /\ u \notin Accepted(r)
    BY <1>2 DEF Accepted
  <2>2. riders' = [riders EXCEPT ![r] = riders[r] \cup {u}]
    BY <1>1, <2>1
  <2>3. Ledger!Board(r, u)
    BY <1>2, <2>1, <2>2, LedgerCounts DEF Ledger!Board
  <2>4. QED BY <2>3 DEF Ledger!Next
<1>3. CASE s # "accepted" /\ u \in Accepted(r)
  <2>1. Accepted(r)' = Accepted(r) \ {u}
    BY <1>3 DEF Accepted
  <2>2. riders' = [riders EXCEPT ![r] = riders[r] \ {u}]
    BY <1>1, <2>1
  <2>3. Ledger!Leave(r, u)
    BY <1>3, <2>2 DEF Ledger!Leave
  <2>4. QED BY <2>3 DEF Ledger!Next
<1>4. CASE s # "accepted" /\ u \notin Accepted(r)
  <2>1. Accepted(r)' = Accepted(r)
    BY <1>4 DEF Accepted
  <2>2. \A q \in Rides : Accepted(q)' = Accepted(q)
    BY <1>1, <2>1
  <2>3. QED BY <2>2, LedgerStutters
<1>5. QED BY <1>2, <1>3, <1>4

(* A ride that is deleted closes; one that was deleted before stays so. *)
LEMMA LedgerCloses ==
  ASSUME CountInv, UNCHANGED total, NEW r \in Rides,
         \A q \in Rides, v \in Users : st'[q][v] = IF q = r THEN NoRow ELSE st[q][v],
         \A q \in Rides : row'[q] = IF q = r THEN "gone" ELSE row[q]
  PROVE  [Ledger!Next]_(Ledger!vars)
<1>1. \A q \in Rides \ {r} : Accepted(q)' = Accepted(q)
  BY DEF Accepted
<1>2. Accepted(r)' = {}
  BY DEF Accepted, NoRow
<1> DEFINE riders == [q \in Rides |-> Accepted(q)]
           open   == {q \in Rides : row[q] = "live"}
<1>3. CASE row[r] = "live"
  <2>1. riders' = [riders EXCEPT ![r] = {}]
    BY <1>1, <1>2
  <2>2. open' = open \ {r} /\ r \in open
    BY <1>3
  <2>3. Ledger!Close(r)
    BY <2>1, <2>2 DEF Ledger!Close
  <2>4. QED BY <2>3 DEF Ledger!Next
<1>4. CASE row[r] # "live"
  <2>1. Accepted(r) = {}
    BY <1>4 DEF CountInv, NoOrphanBookings, Accepted, NoRow
  <2>2. \A q \in Rides : (row'[q] = "live" <=> row[q] = "live") /\ Accepted(q)' = Accepted(q)
    BY <1>1, <1>2, <1>4, <2>1
  <2>3. QED BY <2>2, LedgerStutters DEF CountInv
<1>5. QED BY <1>3, <1>4

(* A ride that is created opens. *)
LEMMA LedgerOpens ==
  ASSUME TypeOK, CreateRide, UNCHANGED st
  PROVE  [Ledger!Next]_(Ledger!vars)
<1>1. PICK r \in Rides, t \in CreateSeats :
        row[r] = "unborn" /\ row' = [row EXCEPT ![r] = "live"] /\ total' = [total EXCEPT ![r] = t]
  BY DEF CreateRide
<1> DEFINE open     == {q \in Rides : row[q] = "live"}
           capacity == [q \in Rides |-> PassengerCapacity(total[q])]
           riders   == [q \in Rides |-> Accepted(q)]
<1>2. t \in Nat
  BY SeatsAssumption
<1>3. open' = open \cup {r} /\ r \notin open
  BY <1>1 DEF TypeOK
<1>4. total' \in [Rides -> Nat] /\ \A q \in Rides \ {r} : total'[q] = total[q]
  BY <1>1, <1>2 DEF TypeOK
<1>5. capacity' \in [Rides -> Nat] /\ \A q \in Rides \ {r} : capacity'[q] = capacity[q]
  BY <1>4, CapacityTyped
<1>6. riders' = riders
  BY DEF Accepted
<1>7. Ledger!Open(r)
  BY <1>3, <1>5, <1>6 DEF Ledger!Open
<1>8. QED BY <1>7 DEF Ledger!Next

LEMMA LedgerNext ==
  ASSUME CountInv, BoundsInv, FlowOnly, NoSeatEdits, [Next]_vars
  PROVE  [Ledger!Next]_(Ledger!vars)
<1>t. TypeOK /\ SeatLocks /\ SeatsMatchBookings /\ RoutesServed
  BY DEF CountInv, BoundsInv
<1>1. CASE UNCHANGED <<row, total, st>>
  <2>1. \A r \in Rides : Accepted(r)' = Accepted(r)
    BY <1>1 DEF Accepted
  <2>2. QED BY <1>t, <1>1, <2>1, LedgerStutters
<1>2. CASE CreateRide /\ UNCHANGED st
  BY <1>t, <1>2, LedgerOpens
<1>3. ASSUME NEW p \in Procs, Step(p) PROVE [Ledger!Next]_(Ledger!vars)
  <2>1. PICK r, u : r = R(p) /\ u = U(p)
    OBVIOUS
  <2>2. pc[p] # "idle"
    BY <1>3 DEF Step, RequestInsert, AcceptSeat, AcceptBooking, AcceptCommit, RejectBooking, RejectCommit,
       RemoveReadBooking, DeleteBookingRow, DeleteBookingSeat, DeleteBookingCommit, DeleteRideRow,
       UpdateRideWrite, CreateBookingInsert, UpdateBookingWrite
  <2>3. r \in Rides /\ u \in Users
    BY <1>t, <2>1, <2>2, TargetTyped
  <2>4. ~UpdateRideWrite(p)
    BY <1>t DEF UpdateRideWrite, RoutesServed, NoSeatEdits
  <2>5. ASSUME NEW s \in Status \cup {NoRow}, Moves(p, s),
               s = "accepted" => /\ row[r] = "live" /\ st[r][u] # "accepted"
                                 /\ Cardinality(Accepted(r)) < PassengerCapacity(total[r])
        PROVE  [Ledger!Next]_(Ledger!vars)
    BY <1>t, <2>1, <2>3, <2>5, LedgerMoves DEF Moves
  <2>6. CASE /\ Moves(p, "accepted") /\ st[R(p)][U(p)] = "pending"
             /\ pc[p] = "ac_commit" /\ row[R(p)] = "live"
    <3>1. booked[r] < total[r] - 1 /\ booked[r] = Cardinality(Accepted(r)) /\ total[r] \in Nat /\ booked[r] \in Int
      BY <1>t, <2>1, <2>3, <2>6
         DEF SeatLocks, SeatLock, SeatAvailable, PassengerSeatsLeftPredicate, SeatsMatchBookings, TypeOK
    <3>2. Cardinality(Accepted(r)) \in Nat
      BY AcceptedFinite, FS_CardinalityType
    <3>3. Cardinality(Accepted(r)) < PassengerCapacity(total[r])
      BY <3>1, <3>2 DEF PassengerCapacity
    <3>4. QED BY <2>1, <2>5, <2>6, <3>3 DEF Status
  <2>7. CASE Moves(p, "pending") \/ Moves(p, "rejected") \/ Moves(p, NoRow)
    BY <2>5, <2>7 DEF Status, NoRow
  <2>8. CASE /\ DeleteRideRow(p) /\ UNCHANGED total
             /\ \A q \in Rides, v \in Users : st'[q][v] = IF q = R(p) THEN NoRow ELSE st[q][v]
             /\ \A q \in Rides : row'[q] = IF q = R(p) THEN "gone" ELSE row[q]
    BY <2>1, <2>3, <2>8, LedgerCloses
  <2>9. QED BY <1>1, <1>3, <2>4, <2>6, <2>7, <2>8, BookingMoves
<1>4. QED BY <1>1, <1>2, <1>3, OtherSteps

(* The booking flow implements the seat ledger: on a SERIALIZABLE database  *)
(* and while no ride is edited, every statement of every handler takes one  *)
(* free seat for one passenger, gives one back, opens or closes a ride, or  *)
(* does nothing that the ledger sees.                                       *)
THEOREM LedgerImplemented ==
  ASSUME FlowOnly, NoSeatEdits
  PROVE  Spec => LedgerSpec
<1>1. Init => Ledger!Init
  <2>1. Init => \A r \in Rides : Accepted(r) = {} /\ PassengerCapacity(total[r]) = 0 /\ row[r] # "live"
    BY DEF Init, Accepted, NoRow, PassengerCapacity
  <2>2. QED BY <2>1 DEF Ledger!Init
<1>2. CountInv /\ BoundsInv /\ [Next]_vars => [Ledger!Next]_(Ledger!vars)
  BY LedgerNext
<1>3. CountInv /\ [Next]_vars => CountInv'
  BY CountNext
<1>4. BoundsInv /\ [Next]_vars => BoundsInv'
  BY BoundsNext
<1>5. QED BY <1>1, <1>2, <1>3, <1>4, CountInit, BoundsInit, PTL DEF Spec, LedgerSpec, Ledger!Spec

=============================================================================
