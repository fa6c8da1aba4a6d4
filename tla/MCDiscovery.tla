----------------------------- MODULE MCDiscovery -----------------------------
(* Small instances of Discovery for TLC. *)
EXTENDS Discovery

\* Two addresses of one device.
OneDevice == [a \in Address |-> "eth0"]

\* The attributes of the first advertisement do not fit into a reply.
FirstTooLarge == [v \in 0 .. MaxVersion |-> IF v = 1 THEN 3 ELSE 1]
=============================================================================
