---------------------------- MODULE MCSendQueue ----------------------------
(* Small instances of SendQueue for TLC. *)
EXTENDS SendQueue
=============================================================================
