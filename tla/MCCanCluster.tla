---------------------------- MODULE MCCanCluster ----------------------------
(* A small instance of CanCluster: two boards, a third that has gone but   *)
(* may still be registered, and two slots.                                 *)
EXTENDS CanCluster

CONSTANTS b1, b2, b3

MCBoards == {b1, b2, b3}
MCAbsent == {b3}
MCSlots  == {1, 2}
Patient  == {"off", "away"}
=============================================================================
