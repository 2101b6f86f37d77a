---------------------------- MODULE MCAuthCache ----------------------------
(***************************************************************************)
(* Small instances of AuthCache for TLC.                                   *)
(***************************************************************************)
EXTENDS AuthCache, TLC

(* Requests and writers are interchangeable. *)
Symmetry == Permutations(Procs) \cup Permutations(Writers)
=============================================================================
