----------------------------- MODULE MCBookings -----------------------------
(***************************************************************************)
(* Small instances of Bookings for TLC.  A set of routes says which part   *)
(* of the API the clients of a run use.                                    *)
(***************************************************************************)
EXTENDS Bookings, TLC

(* The booking flow of the app. *)
LifecycleRoutes == {"create_ride", "request", "accept", "reject", "delete_booking",
                    "remove_participant", "delete_ride"}

(* The transactions: what can wait for a row lock while holding one. *)
LockingRoutes == {"create_ride", "request", "accept", "reject", "delete_booking"}

(* Bookings written by the CRUD routes only. *)
BareCrudRoutes == {"create_ride", "create_booking", "update_booking"}

(* Deleting a ride while its bookings move. *)
DeleteRoutes == {"create_ride", "request", "accept", "delete_ride"}

(* Requests are interchangeable. *)
ProcSymmetry == Permutations(Procs)

(* Requests are interchangeable, and so are users where Female = {} and    *)
(* nobody edits rides (EditHosts then plays no part).                      *)
Symmetry == Permutations(Users) \cup Permutations(Procs)
=============================================================================
