------------------------------ MODULE Dictation ------------------------------
(***************************************************************************)
(* The whole of a dictation: the user at the engine, the connection to the *)
(* daemon, and the daemon with its sessions.  The connection stays up; the *)
(* receive thread of ipc_client.cpp and the event dispatcher hand the      *)
(* daemon's messages to the engine one by one, in order, so that the       *)
(* outbox of the handler stands for all of that way.                       *)
(***************************************************************************)
EXTENDS Daemon

CONSTANTS
  ICs, NoIC,  (* of Engine                                                 *)
  Me          (* the connection of the engine, the only one                *)

ASSUME DictationAssumption ==
  /\ Clients = {Me} /\ {"start", "stop"} \subseteq Lines
  /\ NoIC \notin ICs

VARIABLES recording, current, active, focused, preedit, committed  (* of Engine *)

E == INSTANCE Engine

engineVars == <<recording, current, active, focused, preedit, committed>>

DictationInit == Init /\ E!Init

(* The user is patient: a key is pressed when nothing is under way.        *)
MayPress == Quiet(Me)

PressStart ==
  /\ MayPress
  /\ E!StartDictation
  /\ ClientSends(Me, "start")

(* Enter, or F2 again: both send "stop". *)
PressStop ==
  /\ MayPress
  /\ E!StopDictation
  /\ ClientSends(Me, "stop")

(* A message of the daemon reaches the engine. *)
Deliver ==
  /\ ClientReads(Me)
  /\ E!Receive(Head(outbox[Me]))

Focus ==
  /\ E!Deactivate \/ \E ic \in ICs : E!FocusIn(ic)
  /\ UNCHANGED vars

(* The daemon and the ASR server go on. *)
Internal ==
  /\ Handler(Me) \/ Refill \/ \E s \in Sessions : Task(s)
  /\ UNCHANGED engineVars

DictationNext == PressStart \/ PressStop \/ Deliver \/ Focus \/ Internal

DictationSpec == DictationInit /\ [][DictationNext]_<<vars, engineVars>>

-----------------------------------------------------------------------------
Records == session[Me] # NoSession /\ Live(session[Me]) /\ target = session[Me]

(* Engine and daemon agree on whether a dictation is on, whenever nothing  *)
(* is under way: recording_ of addon.cpp against the session, its task and *)
(* the audio target of the daemon.                                         *)
LabelsAgree == Quiet(Me) => (recording <=> Records)

(* Whatever has the focus gets the text.  The comparison of active_ic_     *)
(* with the focused input context (addon.cpp:211, 229) never holds a text  *)
(* back, because deactivate has cleared active_ic_ by then (addon.cpp:146):*)
(* a dictation that began elsewhere goes on in the new text field.         *)
TextFollowsFocus == E!Destination = focused

=============================================================================
