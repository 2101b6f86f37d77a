---------------------------- MODULE MCAfterTrip ----------------------------
(***************************************************************************)
(* A host, two passengers, and two requests in flight, for TLC.            *)
(***************************************************************************)
EXTENDS Surfaces, TLC

(* Requests are interchangeable. *)
Symmetry == Permutations(Procs)
=============================================================================
