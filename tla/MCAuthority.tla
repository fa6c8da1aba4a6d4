---------------------------- MODULE MCAuthority ----------------------------
(* Small instances of Authority for TLC. *)
EXTENDS Authority

CONSTANTS p1, p2
=============================================================================
