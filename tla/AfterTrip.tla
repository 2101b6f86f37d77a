----------------------------- MODULE AfterTrip -----------------------------
(***************************************************************************)
(* What happens to a ride's bookings once the trip is over: the passenger  *)
(* dismisses the trip card (and may say that the seat is paid), the host   *)
(* acknowledges the payment, and host and passengers rate each other.      *)
(* One ride; a request is split at each database statement.                *)
(*                                                                         *)
(* Only the phases of time that the code tells apart are kept.             *)
(***************************************************************************)
EXTENDS Naturals, FiniteSets

CONSTANTS
  Users,     \* everyone who may hold a booking on the ride
  Host,      \* rides.host_user_id
  Active,    \* bound: the users who send requests; the others just travel
  Procs,     \* requests that can be in flight at the same time
  Idle       \* the locals of a process that serves no request

ASSUME HostAssumption  == Host \in Users /\ Active \subseteq Users
ASSUME UsersAssumption == IsFiniteSet(Users)

(* 1: before the start, 2: under 12h after it, 3: 12h..24h, 4: 24h..7d,     *)
(* 5: 7d..30d, 6: later                                                     *)
Phases  == 1..6
Status  == {"pending", "accepted", "rejected"}
Signals == {"paid", "other"}      \* "no_show" and "cancelled" are treated alike
Acks    == {"received", "missing"}
NoSignal == ""

(* What a handler carries from one statement to the next. *)
Tasks ==
  [pc : {"claim", "rewrite", "marker"}, user : Users, signal : Signals]
    \cup [pc : {"ack"}, user : Users, status : {"confirmed", "disputed"}]
    \cup [pc : {"rate"}, user : Users, items : SUBSET Users]

ASSUME IdleAssumption == Idle \notin Tasks

VARIABLES
  phase,
  bk,         \* request_status of each user's booking, "none" = no row
  promoted,   \* bookings soft-deleted when their passenger became the host
  signal,     \* dismissal_signal; dismissed_at is set with it
  pay,        \* payment_status
  stamped,    \* payment_confirmed_at is set
  markers,    \* payment_marker messages posted for a booking
  rated,      \* ride_ratings: <<rater, rated>>
  travelled,  \* users whose booking was ever accepted
  loc         \* each process: its next statement and what it works on

bookingVars == <<bk, promoted, travelled>>
payVars     == <<signal, pay, stamped, markers>>
vars        == <<phase, bookingVars, payVars, rated, loc>>

Init ==
  /\ phase = 1
  /\ bk \in [Users -> Status \cup {"none"}]
  /\ bk[Host] \in {"none", "accepted"}
  /\ promoted  = {Host} \cap {u \in Users : bk[u] = "accepted"}
  /\ travelled = {u \in Users : bk[u] = "accepted"}
  /\ signal  = [u \in Users |-> NoSignal]
  /\ pay     = [u \in Users |-> "none"]
  /\ stamped = {}
  /\ markers = [u \in Users |-> 0]
  /\ rated   = {}
  /\ loc     = [p \in Procs |-> Idle]

Goto(p, l) == loc' = [loc EXCEPT ![p] = l]
Return(p)  == Goto(p, Idle)
At(p, pc)  == loc[p] # Idle /\ loc[p].pc = pc

(* The row an UPDATE of process p would match. *)
Row(p) == bk[loc[p].user] # "none"

-----------------------------------------------------------------------------
(* The rest of the system: time, and the booking routes (see Bookings).     *)

Tick == phase < 6 /\ phase' = phase + 1 /\ UNCHANGED <<bookingVars, payVars, rated, loc>>

Accept(u) ==
  /\ bk[u] = "pending"
  /\ bk' = [bk EXCEPT ![u] = "accepted"]
  /\ travelled' = travelled \cup {u}
  /\ UNCHANGED <<phase, promoted, payVars, rated, loc>>

Reject(u) ==
  /\ bk[u] = "pending"
  /\ bk' = [bk EXCEPT ![u] = "rejected"]
  /\ UNCHANGED <<phase, promoted, payVars, rated, travelled, loc>>

(* The booking's row is deleted, and its payment columns with it. *)
Remove(u) ==
  /\ bk[u] # "none" /\ u \notin promoted
  /\ bk'      = [bk EXCEPT ![u] = "none"]
  /\ signal'  = [signal EXCEPT ![u] = NoSignal]
  /\ pay'     = [pay EXCEPT ![u] = "none"]
  /\ stamped' = stamped \ {u}
  /\ UNCHANGED <<phase, promoted, markers, rated, travelled, loc>>

-----------------------------------------------------------------------------
(* POST /trip-card/dismiss, by the passenger, at any time.                  *)

DismissRead(p, u, s) ==
  /\ loc[p] = Idle
  /\ bk[u] # "none" /\ u \notin promoted
  /\ Goto(p, [pc |-> "claim", user |-> u, signal |-> s])
  /\ UNCHANGED <<phase, bookingVars, payVars, rated>>

(* The UPDATE that both dismissing statements share. *)
Record(u, s) ==
  /\ signal' = [signal EXCEPT ![u] = s]
  /\ pay'    = IF s = "paid" THEN [pay EXCEPT ![u] = "pending"] ELSE pay

(* Mutant: dismissed_at IS NULL is forgotten. *)
FirstWhenever(p) == Row(p)

FirstDismiss(p) == Row(p) /\ signal[loc[p].user] = NoSignal

(* UPDATE ... WHERE dismissed_at IS NULL: only the first dismissal of a     *)
(* booking posts the marker.                                                *)
DismissClaim(p) ==
  /\ At(p, "claim")
  /\ \/ /\ FirstDismiss(p)
        /\ Record(loc[p].user, loc[p].signal)
        /\ IF loc[p].signal = "paid" THEN Goto(p, [loc[p] EXCEPT !.pc = "marker"])
                                     ELSE Return(p)
     \/ /\ ~FirstDismiss(p)
        /\ Goto(p, [loc[p] EXCEPT !.pc = "rewrite"])
        /\ UNCHANGED <<signal, pay>>
  /\ UNCHANGED <<phase, bookingVars, stamped, markers, rated>>

(* A later dismissal overwrites, whatever the host has said since. *)
DismissRewrite(p) ==
  /\ At(p, "rewrite")
  /\ IF Row(p) THEN Record(loc[p].user, loc[p].signal) ELSE UNCHANGED <<signal, pay>>
  /\ Return(p)
  /\ UNCHANGED <<phase, bookingVars, stamped, markers, rated>>

(* The insert of the marker may fail: best effort. *)
PostMarker(p) ==
  /\ At(p, "marker")
  /\ \E n \in {0, 1} : markers' = [markers EXCEPT ![loc[p].user] = @ + n]
  /\ Return(p)
  /\ UNCHANGED <<phase, bookingVars, signal, pay, stamped, rated>>

-----------------------------------------------------------------------------
(* POST /booking/:id/payment-ack, by the host.                              *)

PaymentAckRead(p, u, ack) ==
  /\ loc[p] = Idle
  /\ bk[u] # "none" /\ u \notin promoted
  /\ Goto(p, [pc |-> "ack", user |-> u,
              status |-> IF ack = "received" THEN "confirmed" ELSE "disputed"])
  /\ UNCHANGED <<phase, bookingVars, payVars, rated>>

(* The UPDATE asks for the booking's id only, not for a pending payment. *)
PaymentAckWrite(p) ==
  /\ At(p, "ack")
  /\ IF Row(p)
     THEN /\ pay'     = [pay EXCEPT ![loc[p].user] = loc[p].status]
          /\ stamped' = stamped \cup {loc[p].user}
     ELSE UNCHANGED <<pay, stamped>>
  /\ Return(p)
  /\ UNCHANGED <<phase, bookingVars, signal, markers, rated>>

-----------------------------------------------------------------------------
(* Ratings.  Three handlers compute whom a user may rate.                   *)

AcceptedRows == {u \in Users : bk[u] = "accepted"}

(* Mutant: the prompt counts soft-deleted bookings too. *)
PromptRowsWithDeleted == AcceptedRows

PromptRows == AcceptedRows \ promoted

(* SubmitRideRating: bookings are not filtered by deleted_at, the host is   *)
(* taken out by hand.                                                       *)
AllowedTargets(u) ==
  IF u = Host THEN AcceptedRows \ {Host}
  ELSE IF u \in AcceptedRows THEN {Host} ELSE {}

MaySubmit(u) == IF phase \in 3..5 THEN AllowedTargets(u) ELSE {}

(* GetRideRatingEligibility. *)
EligibleTargets(u) ==
  {v \in AllowedTargets(u) : phase \in 3..5 /\ <<u, v>> \notin rated}

(* BuildPendingRatings: what the home screen prompts for. *)
PendingRatings(u) ==
  {v \in Users : /\ phase \in 3..4
                 /\ \/ u = Host /\ v \in PromptRows
                    \/ u # Host /\ u \in PromptRows /\ v = Host
                 /\ <<u, v>> \notin rated}

(* Mutant: everyone with a booking may be rated. *)
AnyBooked(u) == {v \in Users \ {u} : u = Host /\ bk[v] # "none"}

SubmitTargets(u) == MaySubmit(u)

(* SubmitRideRating: the checks, then the upsert of the whole batch. *)
SubmitRatingRead(p, u) ==
  /\ loc[p] = Idle
  /\ SubmitTargets(u) # {}
  /\ \E items \in SUBSET SubmitTargets(u) \ {{}} :
       Goto(p, [pc |-> "rate", user |-> u, items |-> items])
  /\ UNCHANGED <<phase, bookingVars, payVars, rated>>

SubmitRatingUpsert(p) ==
  /\ At(p, "rate")
  /\ rated' = rated \cup ({loc[p].user} \X loc[p].items)
  /\ Return(p)
  /\ UNCHANGED <<phase, bookingVars, payVars>>

-----------------------------------------------------------------------------
Next ==
  \/ Tick
  \/ \E u \in Users : Accept(u) \/ Reject(u) \/ Remove(u)
  \/ \E p \in Procs :
       \/ \E u \in Active : \/ \E s \in Signals : DismissRead(p, u, s)
                            \/ \E a \in Acks : PaymentAckRead(p, u, a)
                            \/ SubmitRatingRead(p, u)
       \/ DismissClaim(p) \/ DismissRewrite(p) \/ PostMarker(p)
       \/ PaymentAckWrite(p) \/ SubmitRatingUpsert(p)

Spec == Init /\ [][Next]_vars

-----------------------------------------------------------------------------
(* The columns and messages are well formed; a row that is gone has no      *)
(* dismissal and no payment left.                                           *)
TypeOK ==
  /\ phase \in Phases
  /\ bk \in [Users -> Status \cup {"none"}]
  /\ promoted \subseteq {Host} /\ travelled \subseteq Users
  /\ signal \in [Users -> Signals \cup {NoSignal}]
  /\ pay \in [Users -> {"none", "pending", "confirmed", "disputed"}]
  /\ stamped \subseteq Users
  /\ \A u \in Users : bk[u] = "none" => pay[u] = "none" /\ u \notin stamped
  /\ markers \in [Users -> Nat]
  /\ rated \subseteq Users \X Users
  /\ loc \in [Procs -> Tasks \cup {Idle}]

(* The host's chat shows at most one payment card per booking, however many *)
(* times and however concurrently the passenger's app sends "paid"          *)
(* (DismissTripCard: "Fire only on the first paid dismissal").              *)
MarkerOnce == \A u \in Users : markers[u] <= 1

(* Every rating joins the host with somebody who was accepted on the ride,  *)
(* although the check and the upsert are two statements and bookings move   *)
(* in between; nobody rates himself.                                        *)
RatingsBetweenTravellers ==
  \A pair \in rated : \E u \in travelled \ {Host} : pair \in {<<Host, u>>, <<u, Host>>}

(* The rating prompt of the home screen, the rating screen and the submit   *)
(* endpoint agree on who is left to rate, also after a passenger has become *)
(* the host: no prompt leads to a screen with nobody on it or to a rating   *)
(* that is refused.                                                         *)
RatingSurfacesAgree ==
  \A u \in Users :
    /\ phase \in 3..4 => PendingRatings(u) = EligibleTargets(u)
    /\ PendingRatings(u) \cup EligibleTargets(u) \subseteq MaySubmit(u)

=============================================================================
