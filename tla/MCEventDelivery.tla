--------------------------- MODULE MCEventDelivery ---------------------------
(* Small instances of EventDelivery for TLC. *)
EXTENDS EventDelivery

CONSTANTS c1, c2
=============================================================================
