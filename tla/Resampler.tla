------------------------------ MODULE Resampler ------------------------------
(***************************************************************************)
(* StreamingResampler of audio.rs: the positions it reads, not the values. *)
(* A position in the merged samples is kept in units of 1/OutRate, so that *)
(* pos = p / OutRate and the step InRate / OutRate adds InRate; the code's *)
(* f64 rounds where this is exact.                                         *)
(***************************************************************************)
EXTENDS Integers

CONSTANTS
  InRate,   (* rate of the device                                          *)
  OutRate,  (* rate of the ASR service, 16000 in the code                  *)
  MaxFed    (* bound on the samples ever fed                               *)

(* With equal rates process passes its input through (audio.rs:177-179). *)
ASSUME RateAssumption ==
  /\ InRate \in Nat \ {0} /\ OutRate \in Nat \ {0} /\ InRate # OutRate
  /\ MaxFed \in Nat

VARIABLES
  p,         (* pos, in units of 1/OutRate                                 *)
  merged,    (* how many samples merged holds; between calls, tail         *)
  busy,      (* inside process                                             *)
  panicked,  (* the slice merged[keep_from..] was out of range             *)
  fed,       (* history: samples fed in all                                *)
  dropped,   (* history: samples given up before the tail                  *)
  out        (* history: samples produced in all                           *)

vars == <<p, merged, busy, panicked, fed, dropped, out>>

Init ==
  /\ p = 0 /\ merged = 0
  /\ busy = FALSE /\ panicked = FALSE
  /\ fed = 0 /\ dropped = 0 /\ out = 0

I0 == p \div OutRate

(* process is entered with n samples. *)
Feed(n) ==
  /\ ~busy /\ ~panicked
  /\ fed + n <= MaxFed
  /\ merged' = merged + n
  /\ fed' = fed + n
  /\ busy' = TRUE
  /\ UNCHANGED <<p, panicked, dropped, out>>

(* Variant: one of the two neighbours is enough. *)
EmitEager ==
  /\ busy
  /\ I0 < merged
  /\ p' = p + InRate
  /\ out' = out + 1
  /\ UNCHANGED <<merged, busy, panicked, fed, dropped>>

(* One turn of the loop: both neighbours of pos are there. *)
Emit ==
  /\ busy
  /\ I0 + 1 < merged
  /\ p' = p + InRate
  /\ out' = out + 1
  /\ UNCHANGED <<merged, busy, panicked, fed, dropped>>

(* base.saturating_sub(1) *)
KeepFrom == IF I0 = 0 THEN 0 ELSE I0 - 1

(* Variant: the tail begins at base, but pos is set back as before. *)
TrimBase ==
  /\ busy
  /\ I0 + 1 >= merged
  /\ busy' = FALSE
  /\ IF I0 > merged
       THEN panicked' = TRUE /\ UNCHANGED <<p, merged, dropped>>
       ELSE /\ merged' = merged - I0
            /\ p' = p - KeepFrom * OutRate
            /\ dropped' = dropped + I0
            /\ UNCHANGED panicked
  /\ UNCHANGED <<fed, out>>

(* Variant: pos is not set back by what goes. *)
TrimKeepsPos ==
  /\ busy
  /\ I0 + 1 >= merged
  /\ busy' = FALSE
  /\ IF KeepFrom > merged
       THEN panicked' = TRUE /\ UNCHANGED <<merged, dropped>>
       ELSE /\ merged' = merged - KeepFrom
            /\ dropped' = dropped + KeepFrom
            /\ UNCHANGED panicked
  /\ UNCHANGED <<p, fed, out>>

(* The loop is over: what is no longer needed goes.  keep_from past the    *)
(* end of merged is a panic.                                               *)
Trim ==
  /\ busy
  /\ I0 + 1 >= merged
  /\ busy' = FALSE
  /\ IF KeepFrom > merged
       THEN panicked' = TRUE /\ UNCHANGED <<p, merged, dropped>>
       ELSE /\ merged' = merged - KeepFrom
            /\ p' = p - KeepFrom * OutRate
            /\ dropped' = dropped + KeepFrom
            /\ UNCHANGED panicked
  /\ UNCHANGED <<fed, out>>

Next == (\E n \in 1 .. MaxFed : Feed(n)) \/ Emit \/ Trim

Spec == Init /\ [][Next]_vars

-----------------------------------------------------------------------------
TypeOK ==
  /\ p \in Nat /\ merged \in Nat
  /\ busy \in BOOLEAN /\ panicked \in BOOLEAN
  /\ fed \in 0 .. MaxFed /\ dropped \in Nat /\ out \in Nat

(* No slice is out of range (audio.rs:206). *)
NeverPanics == ~panicked

(* The k-th sample out, from 0, is taken at the input position             *)
(* k * InRate / OutRate, wherever the calls cut the input (audio.rs:201,   *)
(* 204-207): no drift, and no sample lost between the calls.               *)
PhaseLocked ==
  /\ out * InRate = dropped * OutRate + p
  /\ fed = dropped + merged

(* Between calls, all the output the input allows has been produced, and   *)
(* none of it without its right neighbour (audio.rs:189-202).              *)
EmitsAllDue ==
  /\ ~busy /\ ~panicked => (out * InRate) \div OutRate + 1 >= fed
  /\ out > 0 => ((out - 1) * InRate) \div OutRate + 1 < fed

(* The tail never holds more than the call needs again.                    *)
TailBounded == ~busy => merged <= 2

ResamplerInv == TypeOK /\ PhaseLocked /\ EmitsAllDue

=============================================================================
