----------------------------- MODULE MCResampler -----------------------------
(* TLC instances of Resampler. *)
EXTENDS Resampler
=============================================================================
