----------------------------- MODULE MCDictation -----------------------------
(* TLC instances of Dictation. *)
EXTENDS Dictation, TLC

Symmetry == Permutations(ICs)
=============================================================================
