------------------------------ MODULE Surfaces ------------------------------
(***************************************************************************)
(* What the screens of the app offer to a user, and what the endpoints     *)
(* behind them accept, for the ride of AfterTrip.  Some twenty handlers    *)
(* derive "who is this user to this ride" from SQL of their own.  Each is  *)
(* an operator over the tables; the properties say that they agree in      *)
(* every state that the ride reaches.                                      *)
(*                                                                         *)
(* g: the host has flagged the ride as ongoing (is_ongoing = 1), which any *)
(*    edit may do at any time and none undoes; t: total_seats.             *)
(***************************************************************************)
EXTENDS AfterTrip, Seats

Started == phase >= 2
Past    == phase >= 4      \* it started more than 24h ago

(* The request_status of u's booking, as queries see it that leave          *)
(* soft-deleted rows out.                                                   *)
Booking(u) == IF u \in promoted THEN "none" ELSE bk[u]
Requested(u) == Booking(u) # "none"
Riding(u)    == Booking(u) = "accepted"
Confirmed    == {u \in Users : Riding(u)}

(* The column, as accepting and removing keep it: the booking of a          *)
(* passenger who became the host is still counted.                          *)
BookedSeats == Cardinality(AcceptedRows)

(* The cars that the ride's passengers fit in (Bookings!NoOverbooking),     *)
(* without or with one seat left; more seats make no difference.            *)
Sizes == {BookedSeats + 1, BookedSeats + 2} \ {1}

-----------------------------------------------------------------------------
(* The chat of the ride, and direct messages. *)

RideViewerRole(u) == IF u = Host THEN "host" ELSE Booking(u)

Members == {"host", "accepted"}

RidePosters == {u \in Users : RideViewerRole(u) \in Members}

RideSockets == {u \in Users : RideViewerRole(u) \in Members}

RideMarkers == {u \in Users : RideViewerRole(u) \in Members \cup {"pending"}}

(* The page query resolves membership by itself. *)
RideReaders == {u \in Users : u = Host \/ Riding(u)}

(* Whom a message of s is pushed to: soft-deleted bookings are not left out. *)
RidePushed(s) == ({Host} \cup AcceptedRows) \ {s}

(* "One of them must host a ride that the other has requested." *)
Related(u, v) == \/ u = Host /\ Requested(v)
                 \/ v = Host /\ Requested(u)

CanAccessDMRoom(u, v) == u # v /\ Related(u, v)

(* GetDMMessages has its own copy of the gate. *)
MayReadDM(u, v) ==
  /\ u # v
  /\ \/ v = Host /\ Requested(u)
     \/ u = Host /\ Requested(v)

(* Mutant: whatever the status of the request is. *)
ChatListAnyStatus(u, g) == (g \/ ~Past) /\ (u = Host \/ Requested(u))

(* GetUserChats: the rows of u's chat list. *)
InChatList(u, g) ==
  /\ g \/ ~Past
  /\ u = Host \/ Booking(u) \in {"accepted", "pending"}

(* pendingRequestRowsForHost: a thread for each requester, host only. *)
PendingRequests(u, g) ==
  {v \in Users : u = Host /\ InChatList(u, g) /\ Booking(v) = "pending"}

-----------------------------------------------------------------------------
(* Lists of rides and of people. *)

InInvolvedRides(u, g) == (g \/ ~Past) /\ (u = Host \/ Requested(u))

Scopes == {"upcoming", "past", "all"}

InUserRides(u, scope) ==
  /\ u = Host \/ Requested(u)
  /\ scope = "upcoming" => ~Past
  /\ scope = "past" => Past

(* GetAllPassengers. *)
Acquaintances(u) ==
  {v \in Users \ {u} : \/ u = Host /\ Riding(v)
                       \/ Requested(u) /\ v = Host}

(* GetPassengers: whom u has completed the trip with. *)
Companions(u, g) ==
  IF ~g /\ Started /\ (u = Host \/ Riding(u))
  THEN ({Host} \cup Confirmed) \ {u} ELSE {}

-----------------------------------------------------------------------------
(* viewer_state and actions. *)

Context(state, actions) == [state |-> state, actions |-> actions]

SeatContext(seats, t) ==
  IF CanAcceptAnotherPassenger(t, seats) THEN Context("available", {"request_seat"})
                                         ELSE Context("full", {})

BookingContext(booking, g) ==
  CASE booking = "accepted" ->
         Context("confirmed_passenger", {"open_chat"} \cup IF g THEN {} ELSE {"cancel_booking"})
    [] booking = "pending"  -> Context("pending_passenger", {"cancel_booking"})
    [] booking = "rejected" -> Context("rejected_passenger", {})

ResolveViewerState(u, booking, seats, g, t) ==
  IF Past THEN Context("past", {"open_chat"})
  ELSE IF u = Host
  THEN Context("host", {"accept_passengers", "open_chat"} \cup IF g THEN {} ELSE {"cancel_ride"})
  ELSE IF booking # "none" THEN BookingContext(booking, g)
  ELSE SeatContext(seats, t)

WithRating(u, context) ==
  IF context.state = "past" /\ PendingRatings(u) # {}
  THEN [context EXCEPT !.actions = @ \cup {"rate"}] ELSE context

(* Mutant: the detail page trusts the column. *)
SeatsByColumn == BookedSeats

(* GetRideDetailsComplete counts the accepted bookings itself, and skips    *)
(* the host's.                                                              *)
SeatsOnDetails == Cardinality(Confirmed \ {Host})

DetailsContext(u, g, t) ==
  LET booking == IF u = Host THEN "none" ELSE Booking(u)
  IN  WithRating(u, ResolveViewerState(u, booking, SeatsOnDetails, g, t))

(* BuildUserRides takes the column; "upcoming" asks for no ratings. *)
ListContext(u, scope, g, t) ==
  LET context == ResolveViewerState(u, Booking(u), BookedSeats, g, t)
  IN  IF scope = "upcoming" THEN context ELSE WithRating(u, context)

-----------------------------------------------------------------------------
(* What the endpoints accept. *)

(* Of a ride that is not reserved for women. *)
RequestAccepted(u, g, t) ==
  /\ ~Requested(u)
  /\ u # Host
  /\ ~g /\ ~Started
  /\ CanAcceptAnotherPassenger(t, Cardinality(Confirmed))

DeleteAccepted(u, v) == Requested(v) /\ u \in {Host, v}

(* It counts soft-deleted bookings too: a passenger who became the host     *)
(* cannot delete the ride.                                                  *)
DeleteRideAccepted(u) == u = Host /\ AcceptedRows = {}

(* What must hold for an offered action not to be refused.  A seat may be   *)
(* offered when the ride has started or is under way, a chat to anybody     *)
(* when it is past, and the host is offered to cancel a ride with           *)
(* passengers or as a passenger who became the host: the endpoints refuse   *)
(* all of these.                                                            *)
Honoured(u, action, g, t) ==
  CASE action = "request_seat"      -> Started \/ g \/ RequestAccepted(u, g, t)
    [] action = "cancel_booking"    -> DeleteAccepted(u, u)
    [] action = "cancel_ride"       -> promoted # {} \/ Confirmed # {} \/ DeleteRideAccepted(u)
    [] action = "accept_passengers" -> u = Host
    [] action = "open_chat"         -> Past \/ u \in RideReaders \cap RideSockets
    [] action = "rate"              -> MaySubmit(u) # {}

-----------------------------------------------------------------------------
(* Reading, posting and listening on the ride's chat are open to the same   *)
(* people, whoever posts reaches all the others by push, and a direct       *)
(* thread is open from both ends or from none, although page query, send,   *)
(* socket and push each derive membership by themselves.                    *)
ChatGatesAgree ==
  /\ RideReaders = RidePosters /\ RideReaders = RideSockets
  /\ \A s \in RidePosters : RidePushed(s) = RideReaders \ {s}
  /\ \A u, v \in Users : /\ CanAccessDMRoom(u, v) = CanAccessDMRoom(v, u)
                         /\ CanAccessDMRoom(u, v) = MayReadDM(u, v)

(* No row of a list is a dead end: a chat in the chat list opens, or, while *)
(* the request is pending, the thread with the host does, and its badge can *)
(* be cleared; the host can write to every requester listed; people listed  *)
(* as acquaintances can be written to; and the lists nest: a ride with a    *)
(* chat is among the involved rides, and those among the user's rides.      *)
ListsLeadSomewhere ==
  \A u \in Users, g \in BOOLEAN :
    /\ InChatList(u, g) => /\ u \in RideMarkers
                           /\ u \in RideReaders \/ CanAccessDMRoom(u, Host)
                           /\ InInvolvedRides(u, g)
    /\ InInvolvedRides(u, g) => InUserRides(u, IF Past THEN "past" ELSE "upcoming")
    /\ \A v \in PendingRequests(u, g) \cup Acquaintances(u) :
         CanAccessDMRoom(u, v) /\ MayReadDM(v, u)

(* Who belongs to a ride is derived the same way wherever the app asks.     *)
MembershipAgrees == ChatGatesAgree /\ ListsLeadSomewhere

(* The detail page and the list of trips show one user one state of one     *)
(* ride, and offer the same actions (viewerState.go: "consistency across    *)
(* every screen"), although one counts the bookings and skips the host's    *)
(* and the other reads the column.                                          *)
ScreensAgree ==
  \A u \in Users, g \in BOOLEAN, t \in Sizes :
    LET details == DetailsContext(u, g, t)
    IN  \A scope \in Scopes : InUserRides(u, scope) => ListContext(u, scope, g, t) = details

(* What the detail page offers, its endpoint accepts, apart from the cases  *)
(* that Honoured names; and before the start it offers a seat to everybody  *)
(* whose request would be accepted, also when the column booked_seats       *)
(* counts a passenger who has become the host.                              *)
OffersHonoured ==
  \A u \in Users, g \in BOOLEAN, t \in Sizes :
    LET offered == DetailsContext(u, g, t).actions
    IN  /\ \A action \in offered : Honoured(u, action, g, t)
        /\ RequestAccepted(u, g, t) => "request_seat" \in offered

(* What a screen shows of a ride is what the other screen shows, and what   *)
(* the endpoints behind it accept.                                          *)
ScreensHonest == ScreensAgree /\ OffersHonoured

(* Everybody whom one may rate is shown among the people one has travelled  *)
(* with, and to have travelled together is mutual (GetPassengers.go, "has   *)
(* completed trips with").                                                  *)
CompanionsAgree ==
  \A u, v \in Users, g \in BOOLEAN :
    /\ v \in Companions(u, g) => u \in Companions(v, g)
    /\ ~g /\ v \in MaySubmit(u) => v \in Companions(u, g)

(* Prompt, rating screen, submission and list of companions agree on who    *)
(* has travelled with whom.                                                 *)
TravellersAgree == RatingSurfacesAgree /\ CompanionsAgree
=============================================================================
