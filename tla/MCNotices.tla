----------------------------- MODULE MCNotices -----------------------------
(***************************************************************************)
(* A host and a passenger for TLC.                                         *)
(***************************************************************************)
EXTENDS Notices
=============================================================================
