------------------------------- MODULE Seats -------------------------------
(***************************************************************************)
(* The seat arithmetic every booking path shares (helpers/seats.go).       *)
(* total_seats counts everybody in the car, the host included;             *)
(* booked_seats counts confirmed passengers only.  The Go helpers work on  *)
(* unsigned integers and clamp at zero; the SQL fragments work on signed   *)
(* INT8 columns and do not.                                                *)
(***************************************************************************)
EXTENDS Integers

MinTotalSeats == 2
MaxTotalSeats == 20

PassengerCapacity(totalSeats) ==
  IF totalSeats = 0 THEN 0 ELSE totalSeats - 1

PassengerSeatsLeft(totalSeats, bookedSeats) ==
  LET cap == PassengerCapacity(totalSeats)
  IN  IF bookedSeats >= cap THEN 0 ELSE cap - bookedSeats

CanAcceptAnotherPassenger(totalSeats, bookedSeats) ==
  PassengerSeatsLeft(totalSeats, bookedSeats) > 0

(* The WHERE fragment of the accept transaction. *)
PassengerSeatsLeftPredicate(totalSeats, bookedSeats) ==
  bookedSeats < totalSeats - 1

(* The WHERE fragment of the search filter `min_seats`. *)
MinSeatsLeftPredicate(totalSeats, bookedSeats, wanted) ==
  totalSeats - 1 - bookedSeats >= wanted
=============================================================================
