----------------------------- MODULE MCAudioPath -----------------------------
(* TLC instances of AudioPath. *)
EXTENDS AudioPath
=============================================================================
