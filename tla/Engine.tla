------------------------------- MODULE Engine -------------------------------
(***************************************************************************)
(* The input method engine of addon.cpp: what a key press, a message of    *)
(* the daemon and a change of focus do to its state.  Everything here runs *)
(* on fcitx's main thread, one handler at a time; the daemon is another    *)
(* module, and a key press names the line it sends.                        *)
(*                                                                         *)
(* ignore_next_commit_ is never set to true in the code, and last_text_ is *)
(* never read: neither is kept.                                            *)
(***************************************************************************)
EXTENDS Naturals

CONSTANTS
  ICs,       (* input contexts: the text fields of the desktop             *)
  NoIC,      (* a null InputContext pointer                                *)
  Sessions   (* where texts come from; the code does not see it            *)

VARIABLES
  recording,  (* recording_                                                *)
  current,    (* current_state_                                            *)
  active,     (* active_ic_                                                *)
  focused,    (* lastFocusedInputContext()                                 *)
  preedit,    (* input contexts that show a partial text                   *)
  committed   (* for a session, the input contexts that got a final of it  *)

engineVars == <<recording, current, active, focused, preedit, committed>>

States == {"idle", "connecting", "connected", "recording"}

Init ==
  /\ recording = FALSE
  /\ current = "idle"
  /\ active = NoIC
  /\ focused = NoIC
  /\ preedit = {}
  /\ committed = [s \in Sessions |-> {}]

(* getStatusLabel: the label of the status area. *)
Label ==
  CASE recording -> "REC"
    [] ~recording /\ current = "connecting" -> "..."
    [] ~recording /\ current = "connected" -> "RDY"
    [] OTHER -> "AT"

(* Variant: a new state leaves recording_ alone unless it is "recording". *)
SetStatusSticky(st) ==
  /\ current' = st
  /\ recording' = (recording \/ st = "recording")
  /\ active' = IF st = "idle" THEN NoIC ELSE active

(* setStatus: "idle" also forgets the input context of the dictation;      *)
(* "connecting" leaves recording_ as it is.                                *)
SetStatus(st) ==
  /\ current' = st
  /\ recording' = CASE st = "recording" -> TRUE
                    [] st \in {"idle", "connected"} -> FALSE
                    [] OTHER -> recording
  /\ active' = IF st = "idle" THEN NoIC ELSE active

(* F2 or the media key while not recording: "start" is sent. *)
StartDictation ==
  /\ focused # NoIC /\ ~recording
  /\ active' = focused
  /\ current' = IF current = "connected" THEN current ELSE "connecting"
  /\ UNCHANGED <<recording, focused, preedit, committed>>

(* Enter, F2 or the media key while recording: "stop" is sent, and the     *)
(* engine is idle without waiting for an answer.                           *)
StopDictation ==
  /\ focused # NoIC /\ recording
  /\ SetStatus("idle")
  /\ UNCHANGED <<focused, preedit, committed>>

(* Where a text goes: the input context of the dictation while it has the  *)
(* focus, and whichever has the focus when there is none.                  *)
Destination ==
  IF active = NoIC THEN focused
  ELSE IF active = focused THEN active ELSE NoIC

UpdatePreedit ==
  /\ preedit' = preedit \cup ({Destination} \ {NoIC})
  /\ UNCHANGED <<recording, current, active, focused, committed>>

CommitText(s) ==
  /\ committed' = [committed EXCEPT ![s] = @ \cup ({Destination} \ {NoIC})]
  /\ preedit' = preedit \ {Destination}
  /\ UNCHANGED <<recording, current, active, focused>>

(* A message of the daemon, dispatched to the main thread; errors are not  *)
(* looked at.                                                              *)
Receive(m) ==
  \/ m.kind = "partial" /\ UpdatePreedit
  \/ m.kind = "final" /\ CommitText(m.from)
  \/ m.kind \in States /\ SetStatus(m.kind) /\ UNCHANGED <<focused, preedit, committed>>
  \/ m.kind = "error" /\ UNCHANGED engineVars

(* deactivate: the dictation loses its input context. *)
Deactivate ==
  /\ focused # NoIC
  /\ active = focused
  /\ active' = NoIC
  /\ UNCHANGED <<recording, current, focused, preedit, committed>>

(* Variant: deactivate leaves active_ic_ as it is. *)
FocusInKeepsActive(ic) ==
  /\ ic # focused
  /\ focused' = ic
  /\ preedit' = preedit \ {focused}
  /\ UNCHANGED <<recording, current, active, committed>>

(* Another input context gets the focus, and the old one is deactivated;   *)
(* fcitx clears the preedit of a text field that loses the focus.          *)
FocusIn(ic) ==
  /\ ic # focused
  /\ focused' = ic
  /\ active' = IF active = focused THEN NoIC ELSE active
  /\ preedit' = preedit \ {focused}
  /\ UNCHANGED <<recording, current, committed>>

TypeOK ==
  /\ recording \in BOOLEAN
  /\ current \in States
  /\ active \in ICs \cup {NoIC}
  /\ focused \in ICs \cup {NoIC}
  /\ preedit \subseteq ICs
  /\ committed \in [Sessions -> SUBSET ICs]

=============================================================================
