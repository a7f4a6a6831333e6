------------------------------ MODULE MCDaemon ------------------------------
(* TLC instances of Daemon. *)
EXTENDS Daemon, TLC

Symmetry == Permutations(Clients)
=============================================================================
