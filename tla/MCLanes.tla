------------------------------ MODULE MCLanes ------------------------------
(* Small instances of Lanes for TLC. *)
EXTENDS Lanes
=============================================================================
