------------------------------ MODULE Protocol ------------------------------
(***************************************************************************)
(* The frames of the ASR service, as protocol.rs builds and reads them.  A *)
(* frame is a record of the fields its bytes encode; "len" is the number   *)
(* of bytes that arrived, "size" the size of the body its sender wrote.    *)
(***************************************************************************)
EXTENDS Naturals, Sequences

ProtoVersion == 1
HeaderSize4B == 1

FullClientRequest == 1
AudioOnlyRequest == 2
FullServerResponse == 9
ErrorResponse == 15

NoSequence == 0
LastNoSequence == 2

(* Each field of the header is four bits wide. *)
BuildHeader(type, flags) ==
  [version |-> ProtoVersion, headerSize |-> HeaderSize4B, type |-> type % 16, flags |-> flags % 16]

BuildFullClientRequest(json) ==
  [header |-> BuildHeader(FullClientRequest, NoSequence), body |-> json]

(* Variant: the last frame looks like the others. *)
BuildAudioOnlyRequestUnmarked(pcm, last) ==
  [header |-> BuildHeader(AudioOnlyRequest, NoSequence), body |-> pcm]

BuildAudioOnlyRequest(pcm, last) ==
  [header |-> BuildHeader(AudioOnlyRequest, IF last THEN LastNoSequence ELSE NoSequence),
   body |-> pcm]

(* What a frame of the server is taken for.  A response and an error have  *)
(* twelve bytes before the body: the code expects a sequence number (or an *)
(* error code) whatever the flags say.                                     *)
ParseServerMessage(d) ==
  LET read  == d.len >= 4 /\ d.header.version = ProtoVersion /\ d.header.headerSize = HeaderSize4B
      whole == d.len >= 12 /\ d.len >= 12 + d.size
      kind  == IF read /\ whole /\ d.header.type = FullServerResponse THEN "response"
               ELSE IF read /\ whole /\ d.header.type = ErrorResponse THEN "error"
               ELSE "unknown"
  IN  [kind |-> kind, flags |-> IF read THEN d.header.flags ELSE 0]

=============================================================================
