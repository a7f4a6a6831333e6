-------------------------- MODULE MCConnectionPool --------------------------
(* TLC instance of ConnectionPool: two handlers, four dials.  No symmetry: *)
(* the run has a liveness property.                                        *)
EXTENDS ConnectionPool
=============================================================================
