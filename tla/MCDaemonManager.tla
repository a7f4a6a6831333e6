--------------------------- MODULE MCDaemonManager ---------------------------
(* TLC instances of DaemonManager. *)
EXTENDS DaemonManager
=============================================================================
