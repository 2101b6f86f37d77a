----------------------------- MODULE SeatLedger -----------------------------
(***************************************************************************)
(* What the booking routes promise about the seats of a ride, with no      *)
(* counter, no status and no transaction: a set of riders that never       *)
(* outgrows the capacity the ride was opened with.                         *)
(***************************************************************************)
EXTENDS Naturals, FiniteSets

CONSTANTS Rides, Users

VARIABLES open, capacity, riders

vars == <<open, capacity, riders>>

Init ==
  /\ open     = {}
  /\ capacity = [r \in Rides |-> 0]
  /\ riders   = [r \in Rides |-> {}]

(* A host offers a ride; its capacity is fixed from then on. *)
Open(r) ==
  /\ r \notin open
  /\ open' = open \cup {r}
  /\ capacity' \in [Rides -> Nat]
  /\ \A q \in Rides \ {r} : capacity'[q] = capacity[q]
  /\ UNCHANGED riders

(* One passenger takes one free seat. *)
Board(r, u) ==
  /\ r \in open
  /\ u \notin riders[r]
  /\ Cardinality(riders[r]) < capacity[r]
  /\ riders' = [riders EXCEPT ![r] = @ \cup {u}]
  /\ UNCHANGED <<open, capacity>>

(* One passenger gives the seat back. *)
Leave(r, u) ==
  /\ u \in riders[r]
  /\ riders' = [riders EXCEPT ![r] = @ \ {u}]
  /\ UNCHANGED <<open, capacity>>

(* The host withdraws the ride; nobody rides any more. *)
Close(r) ==
  /\ r \in open
  /\ open' = open \ {r}
  /\ riders' = [riders EXCEPT ![r] = {}]
  /\ UNCHANGED capacity

Next == \E r \in Rides : Open(r) \/ Close(r) \/ \E u \in Users : Board(r, u) \/ Leave(r, u)

Spec == Init /\ [][Next]_vars
=============================================================================
