--------------------------- MODULE MCVerification ---------------------------
(***************************************************************************)
(* Verification for TLC: requests are interchangeable, and so are rows.    *)
(***************************************************************************)
EXTENDS Verification, TLC

Symmetry == Permutations(Rows) \cup Permutations(Procs)
=============================================================================
