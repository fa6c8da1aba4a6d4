----------------------- MODULE MCConnectionLifecycle -----------------------
(* Small instances of ConnectionLifecycle for TLC. *)
EXTENDS ConnectionLifecycle
=============================================================================
