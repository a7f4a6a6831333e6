---------------------------- MODULE MCRecognition ----------------------------
(* TLC instances of Recognition. *)
EXTENDS Recognition
=============================================================================
