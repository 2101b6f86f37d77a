----------------------------- MODULE Accounts -----------------------------
(***************************************************************************)
(* Deleting an account: one transaction hands the rides it hosts to their  *)
(* first accepted passengers, drops its bookings, keeps its messages under *)
(* another name, and deletes the user, whose rides and bookings cascade.   *)
(*                                                                         *)
(* Every request is one step here: the transaction is serializable, and    *)
(* the steps of the booking routes are the subject of Bookings.            *)
(***************************************************************************)
EXTENDS Seats, FiniteSets

CONSTANTS
  People,
  Hosts,    \* ride |-> who posted it
  Total     \* ride |-> total_seats, the host's among them

Rides == DOMAIN Hosts

NoRide   == "gone"
Silent   == "silent"
Nameless == "Deleted User"

ASSUME AccountsAssumption ==
  /\ IsFiniteSet(People) /\ People \cap {NoRide, Silent, Nameless} = {}
  /\ Hosts \in [Rides -> People]
  /\ Total \in [Rides -> Nat]

VARIABLES
  users,     \* rows of users
  host,      \* host_user_id, NoRide once the row is gone
  due,       \* departure: "later", "soon" (within 24 h) or "past"
  ongoing,   \* is_ongoing
  booking,   \* request_status of each user's booking of a ride, "none" without a row
  dead,      \* whose booking of a ride has deleted_at set
  older,     \* <<v, u>>: v's booking of a ride was created before u's
  booked,    \* booked_seats
  author,    \* whose name a message by each person bears
  ghosts,    \* history: seats still counted for people who have left or host now
  handed,    \* history: rides that were handed over
  lost       \* history: accepted bookings of people still there that went with a ride

bookingRows  == <<booking, dead, older>>
historyOfRides == <<ghosts, handed, lost>>
accountsVars == <<users, host, due, ongoing, bookingRows, booked, author, historyOfRides>>

NoBookings == [u \in People |-> "none"]

AccountsInit ==
  /\ users = People
  /\ host = Hosts
  /\ due = [r \in Rides |-> "later"]
  /\ ongoing = [r \in Rides |-> FALSE]
  /\ booking = [r \in Rides |-> NoBookings]
  /\ dead = [r \in Rides |-> {}] /\ older = [r \in Rides |-> {}]
  /\ booked = [r \in Rides |-> 0]
  /\ author = [u \in People |-> Silent]
  /\ ghosts = [r \in Rides |-> 0]
  /\ handed = {} /\ lost = {}

There(r)    == host[r] # NoRide
Booked(r)   == {u \in People : booking[r][u] # "none"}
Accepted(r) == {u \in People : booking[r][u] = "accepted"}
Riders(r)   == Accepted(r) \ dead[r]

(* The order of created_at once u's booking is gone. *)
OlderWithout(r, u) == {x \in older[r] : x[1] # u /\ x[2] # u}

-----------------------------------------------------------------------------
(* The booking flow, in short. *)

(* The unique index on ride and passenger also holds for dead rows.         *)
RequestSeat(r, u) ==
  /\ There(r) /\ u \in users \ {host[r]}
  /\ booking[r][u] = "none"
  /\ ~ongoing[r] /\ due[r] # "past"
  /\ CanAcceptAnotherPassenger(Total[r], Cardinality(Riders(r)))
  /\ booking' = [booking EXCEPT ![r][u] = "pending"]
  /\ older' = [older EXCEPT ![r] = @ \cup (Booked(r) \X {u})]
  /\ UNCHANGED <<users, host, due, ongoing, dead, booked, author, historyOfRides>>

AcceptPassenger(r, u) ==
  /\ booking[r][u] = "pending" /\ u \notin dead[r]
  /\ PassengerSeatsLeftPredicate(Total[r], booked[r])
  /\ booking' = [booking EXCEPT ![r][u] = "accepted"]
  /\ booked' = [booked EXCEPT ![r] = @ + 1]
  /\ UNCHANGED <<users, host, due, ongoing, dead, older, author, historyOfRides>>

(* DeleteBooking and RemoveRideParticipant. *)
GiveUpSeat(r, u) ==
  /\ u \in Booked(r) \ dead[r]
  /\ booking' = [booking EXCEPT ![r][u] = "none"]
  /\ older' = [older EXCEPT ![r] = OlderWithout(r, u)]
  /\ booked' = [booked EXCEPT ![r] = IF u \in Riders(r) /\ @ > 0 THEN @ - 1 ELSE @]
  /\ UNCHANGED <<users, host, due, ongoing, dead, author, historyOfRides>>

(* Accepted rows are counted, dead ones too. *)
MayDeleteRide(r) == Accepted(r) = {}

DeleteHostedRide(r) ==
  /\ There(r) /\ MayDeleteRide(r)
  /\ host' = [host EXCEPT ![r] = NoRide]
  /\ booking' = [booking EXCEPT ![r] = NoBookings]
  /\ dead' = [dead EXCEPT ![r] = {}]
  /\ older' = [older EXCEPT ![r] = {}]
  /\ UNCHANGED <<users, due, ongoing, booked, author, historyOfRides>>

(* The host's edit of is_ongoing; a zero is not written. *)
StartRide(r) ==
  /\ There(r) /\ ~ongoing[r] /\ due[r] # "past"
  /\ ongoing' = [ongoing EXCEPT ![r] = TRUE]
  /\ UNCHANGED <<users, host, due, bookingRows, booked, author, historyOfRides>>

TimePasses(r) ==
  /\ There(r) /\ due[r] # "past"
  /\ due' = [due EXCEPT ![r] = IF @ = "later" THEN "soon" ELSE "past"]
  /\ UNCHANGED <<users, host, ongoing, bookingRows, booked, author, historyOfRides>>

Write(u) ==
  /\ u \in users /\ author[u] = Silent
  /\ author' = [author EXCEPT ![u] = u]
  /\ UNCHANGED <<users, host, due, ongoing, bookingRows, booked, historyOfRides>>

-----------------------------------------------------------------------------
(* Deleting the account u. *)

HostedBy(u) == {r \in Rides : host[r] = u}

(* handleHostedRides: the oldest accepted row, dead or not. *)
FirstAccepted(r) == CHOOSE u \in Accepted(r) : \A v \in Accepted(r) : <<v, u>> \notin older[r]

(* Mutant: only the oldest row is looked at. *)
TransferredIfFirst(u) ==
  {r \in HostedBy(u) : \E x \in Accepted(r) : \A v \in Booked(r) : <<v, x>> \notin older[r]}

Transferred(u) == {r \in HostedBy(u) : Accepted(r) # {}}

(* Mutant: the new host keeps the booking. *)
PromoteKeeping(r) == dead[r]

(* batchDeletePromotedBookings. *)
Promote(r) == dead[r] \cup {FirstAccepted(r)}

(* handlePassengerBookings refuses who is confirmed on a ride within 24 h.  *)
StartsSoon(u) == \E r \in Rides : There(r) /\ u \in Riders(r) /\ due[r] = "soon" /\ ~ongoing[r]

(* What is left of a ride when u is deleted: rides handed to nobody else    *)
(* are deleted, if only by the cascade.                                     *)
HostAfter(r, u) == IF host[r] # u THEN host[r]
                   ELSE IF r \in Transferred(u) /\ FirstAccepted(r) # u THEN FirstAccepted(r)
                   ELSE NoRide

DeadAfter(r, u) == (IF r \in Transferred(u) THEN Promote(r) ELSE dead[r]) \ {u}

HandedOver(u) == {r \in Rides : HostAfter(r, u) \notin {host[r], NoRide}}

(* handleUserMessages. *)
AuthorAfter(x, u) == IF author[x] = u THEN Nameless ELSE author[x]

DeleteUser(u) ==
  /\ u \in users
  /\ \A r \in HostedBy(u) : ~ongoing[r]
  /\ ~StartsSoon(u)
  /\ users' = users \ {u}
  /\ LET left(r) == HostAfter(r, u) # NoRide
     IN  /\ host'    = [r \in Rides |-> HostAfter(r, u)]
         /\ booking' = [r \in Rides |-> IF left(r) THEN [booking[r] EXCEPT ![u] = "none"] ELSE NoBookings]
         /\ dead'    = [r \in Rides |-> IF left(r) THEN DeadAfter(r, u) ELSE {}]
         /\ older'   = [r \in Rides |-> IF left(r) THEN OlderWithout(r, u) ELSE {}]
         /\ lost'    = lost \cup {x \in HostedBy(u) \X users : ~left(x[1]) /\ x[2] \in Riders(x[1]) \ {u}}
  /\ author' = [x \in People |-> AuthorAfter(x, u)]
  /\ ghosts' = [r \in Rides |-> IF u \in Riders(r) \/ r \in HandedOver(u) THEN ghosts[r] + 1 ELSE ghosts[r]]
  /\ handed' = handed \cup HandedOver(u)
  /\ UNCHANGED <<due, ongoing, booked>>

AccountsNext ==
  \/ \E r \in Rides : \/ \E u \in People : RequestSeat(r, u) \/ AcceptPassenger(r, u) \/ GiveUpSeat(r, u)
                      \/ DeleteHostedRide(r) \/ StartRide(r) \/ TimePasses(r)
  \/ \E u \in People : Write(u) \/ DeleteUser(u)

AccountsSpec == AccountsInit /\ [][AccountsNext]_accountsVars

-----------------------------------------------------------------------------
AccountsTypeOK ==
  /\ users \subseteq People
  /\ host \in [Rides -> People \cup {NoRide}]
  /\ due \in [Rides -> {"later", "soon", "past"}] /\ ongoing \in [Rides -> BOOLEAN]
  /\ booking \in [Rides -> [People -> {"none", "pending", "accepted"}]]
  /\ dead \in [Rides -> SUBSET People] /\ older \in [Rides -> SUBSET (People \X People)]
  /\ booked \in [Rides -> Nat] /\ ghosts \in [Rides -> Nat]
  /\ author \in [People -> People \cup {Silent, Nameless}]
  /\ handed \subseteq Rides /\ lost \subseteq Rides \X People

(* DeleteUser.go:99-244: no ride is overbooked or left to somebody who is   *)
(* not there or rides in it as a passenger, whatever accounts are deleted;  *)
(* and the seat counter exceeds the passengers by exactly those who left    *)
(* with a seat or became the host, whose seats nobody gets again.           *)
SeatsOutliveAccounts ==
  \A r \in Rides : There(r) =>
    /\ booked[r] = Cardinality(Riders(r)) + ghosts[r]
    /\ booked[r] <= PassengerCapacity(Total[r])
    /\ host[r] \in users /\ Booked(r) \subseteq users
    /\ host[r] \notin Booked(r) \ dead[r]
    /\ \A u \in People \ users : author[u] \in {Silent, Nameless}

(* DeleteUser.go:122-171: an accepted passenger keeps the ride when its     *)
(* host's account is deleted, by the handover; save when the ride had been  *)
(* handed over before: then the leaving host's own dead booking is found    *)
(* first, and the ride goes with the account.  And only rides that were     *)
(* handed over refuse to be deleted for passengers they do not have.        *)
RidesOutliveHosts ==
  /\ \A x \in lost : x[1] \in handed
  /\ \A r \in Rides : There(r) /\ Riders(r) = {} /\ ~MayDeleteRide(r) => r \in handed
=============================================================================
