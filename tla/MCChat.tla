------------------------------- MODULE MCChat -------------------------------
(***************************************************************************)
(* Small chat rooms for TLC: user ua has two connections (two devices, or  *)
(* a reconnect before the old connection is noticed to be dead), user ub   *)
(* one or none.                                                            *)
(***************************************************************************)
EXTENDS ChatHub, TLC

CONSTANTS ua, ub, b1

MCOwner == [c \in Conns |-> IF c = b1 THEN ub ELSE ua]
=============================================================================
