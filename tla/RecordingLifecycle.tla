------------------------- MODULE RecordingLifecycle -------------------------
(***************************************************************************)
(* What the daemon promises about recordings, with no handler, channel or  *)
(* task in sight: a recording starts once, has the microphone until it     *)
(* loses it, never gets it back, and ends once; no two have it at a time.  *)
(***************************************************************************)
CONSTANT Sessions

VARIABLE life

Init == life = [s \in Sessions |-> "fresh"]

(* A fresh recording gets the microphone; one that had it drains. *)
Start(s) ==
  /\ life[s] = "fresh"
  /\ life' = [t \in Sessions |->
                IF t = s THEN "recording"
                ELSE IF life[t] = "recording" THEN "draining" ELSE life[t]]

Release(s) ==
  /\ life[s] = "recording"
  /\ life' = [life EXCEPT ![s] = "draining"]

End(s) ==
  /\ life[s] \in {"recording", "draining"}
  /\ life' = [life EXCEPT ![s] = "over"]

Next == \E s \in Sessions : Start(s) \/ Release(s) \/ End(s)

Spec == Init /\ [][Next]_life

=============================================================================
