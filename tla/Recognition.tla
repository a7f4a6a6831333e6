---------------------------- MODULE Recognition ----------------------------
(***************************************************************************)
(* What one session says and hears: the frames run_session sends, the      *)
(* responses of the ASR service, and what parse_asr_texts makes of each of *)
(* them, up to the text the engine shows and commits.  The session's life  *)
(* among others is in Daemon; here it is alone.                            *)
(*                                                                         *)
(* A text is a sequence of words, Blank standing for white space.  Every   *)
(* response of the service reports the whole audio so far, either as its   *)
(* utterances or as one text; utterances become definite in their order.   *)
(***************************************************************************)
EXTENDS Integers, Protocol, SequencesExt

CONSTANTS
  Modes,          (* values of ANYTALK_MODE                                *)
  Unset,          (* it is not in the environment                          *)
  MaxUtterances,  (* bound on the utterances spoken                        *)
  MaxResponses    (* bound on the responses before the final one           *)

ASSUME RecognitionAssumption == MaxUtterances \in Nat /\ MaxResponses \in Nat

VARIABLES
  mode,       (* cfg.mode                                                  *)
  phase,      (* of the session: opening, loop, over or failed             *)
  mic,        (* audio_active; once it is false, whether the last frame is *)
              (* out or a send has failed                                  *)
  lastEnd,    (* last_committed_end_time                                   *)
  lastFull,   (* last_full_text                                            *)
  (* the service *)
  form,       (* whether its results have utterances or only a text        *)
  upstream,   (* the header of the last frame it received                  *)
  utterances, (* what it heard                                             *)
  responses,  (* responses sent before the final one                       *)
  (* the engine *)
  finals,     (* texts committed                                           *)
  shown,      (* the preedit                                               *)
  (* history *)
  reported,   (* utterances that were definite in a response understood    *)
  grew        (* each text began with the text before it                   *)

sessionVars == <<mode, phase, mic, lastEnd, lastFull>>
serviceVars == <<form, upstream, utterances, responses>>
engineVars  == <<finals, shown>>
historyVars == <<reported, grew>>
vars == <<sessionVars, serviceVars, engineVars, historyVars>>

Blank == 0
OneIf(cond, x) == IF cond THEN <<x>> ELSE <<>>
NoBlanks(t) == FlattenSeq([i \in DOMAIN t |-> OneIf(t[i] # Blank, t[i])])

(* str::trim *)
Trim(t) ==
  LET words == {i \in DOMAIN t : t[i] # Blank}
  IN  IF words = {} THEN <<>> ELSE SubSeq(t, Min(words), Max(words))

Said(u) == Trim(u.text)

WholeText == FlattenSeq([i \in DOMAIN utterances |-> utterances[i].text])

(* Variant: an utterance that ends where the last one ended is new again.  *)
IsNewAgain(u, last) == u.definite /\ u.end >= last /\ Said(u) # <<>>

(* Variant: an utterance of blanks is a final, too. *)
IsNewBlank(u, last) == u.definite /\ u.end > last

IsNew(u, last) == u.definite /\ u.end > last /\ Said(u) # <<>>

(* The definite utterances that end after the last one committed; scan[i]  *)
(* is what the loop has after utterance i.                                 *)
NewFinals(us, last) ==
  LET scan[i \in 0 .. Len(us)] ==
        IF i = 0 THEN [texts |-> <<>>, last |-> last]
        ELSE IF IsNew(us[i], scan[i - 1].last)
          THEN [texts |-> Append(scan[i - 1].texts, Said(us[i])), last |-> us[i].end]
          ELSE scan[i - 1]
  IN  scan[Len(us)]

(* The last indefinite utterance with a text; <<>> is None. *)
Partial(us) ==
  LET open == {i \in DOMAIN us : ~us[i].definite /\ Said(us[i]) # <<>>}
  IN  IF open = {} THEN <<>> ELSE Said(us[Max(open)])

(* Variant: the text before is not skipped. *)
TextFinalsWhole(full) ==
  OneIf(full # lastFull, full)

(* A result without utterances: what follows the text before, or all of it *)
(* when it does not begin with that; in the mode bidi_async all of it.     *)
TextFinals(full) ==
  LET rest == Trim(SubSeq(full, Len(lastFull) + 1, Len(full)))
  IN  IF mode = "bidi_async" THEN <<full>>
      ELSE IF lastFull # <<>> /\ IsPrefix(lastFull, full) THEN OneIf(rest # <<>>, rest)
      ELSE OneIf(full # lastFull, full)

(* parse_asr_texts. *)
ParseAsrTexts(result) ==
  LET new  == NewFinals(result.utterances, lastEnd)
      full == Trim(result.text)
  IN  IF result.form = "utterances" THEN
        [partial |-> Partial(result.utterances), finals |-> new.texts,
         lastEnd |-> new.last, lastFull |-> lastFull]
      ELSE IF result.form = "text" /\ full # <<>> THEN
        [partial |-> IF mode = "bidi_async" THEN full ELSE <<>>,
         finals |-> TextFinals(full), lastEnd |-> lastEnd, lastFull |-> full]
      ELSE
        [partial |-> <<>>, finals |-> <<>>, lastEnd |-> lastEnd, lastFull |-> lastFull]

-----------------------------------------------------------------------------
(* ANYTALK_MODE, when it is set. *)
ConfiguredMode(m) == IF m = Unset THEN "bidi_async" ELSE m

Init ==
  /\ mode \in {ConfiguredMode(m) : m \in Modes}
  /\ phase = "opening"
  /\ mic = "open"
  /\ lastEnd = -1
  /\ lastFull = <<>>
  /\ form \in {"utterances", "text"}
  /\ upstream = BuildHeader(0, 0)
  /\ utterances = <<>>
  /\ responses = 0
  /\ finals = <<>>
  /\ shown = <<>>
  /\ reported = 0
  /\ grew = TRUE

(* The set-up request is the first frame; the session fails without it. *)
SendSetup ==
  /\ phase = "opening"
  /\ \/ phase' = "loop" /\ upstream' = BuildFullClientRequest("request").header
     \/ phase' = "failed" /\ UNCHANGED upstream
  /\ UNCHANGED <<mode, mic, lastEnd, lastFull, form, utterances, responses,
                 engineVars, historyVars>>

(* A frame is sent; when that fails no more are, and nobody is told. *)
SendFrame(pcm, last, after) ==
  /\ phase = "loop" /\ mic = "open"
  /\ \/ upstream' = BuildAudioOnlyRequest(pcm, last).header /\ mic' = after
     \/ mic' = "broken" /\ UNCHANGED upstream
  /\ UNCHANGED <<mode, phase, lastEnd, lastFull, form, utterances, responses,
                 engineVars, historyVars>>

SendAudio == SendFrame(<<"pcm">>, FALSE, "open")

(* The audio channel ended: an empty last frame. *)
SendLast == SendFrame(<<>>, TRUE, "ended")

(* Variant: the finals go out before the partial. *)
ShowLater(p) ==
  shown' = IF p.partial # <<>> THEN p.partial ELSE IF p.finals # <<>> THEN <<>> ELSE shown

(* The partial goes out before the finals, and each final that is          *)
(* committed clears the preedit.                                           *)
Show(p) ==
  shown' = IF p.finals # <<>> THEN <<>> ELSE IF p.partial # <<>> THEN p.partial ELSE shown

(* Variant: any frame with a sequence number is taken for the final one. *)
IsFinalEarly(flags) == flags % 2 = 1

IsFinal(flags) == flags = 3

(* A frame of the service: only a response that arrived whole is looked    *)
(* at, and an error ends the session.                                      *)
Receive(frame) ==
  \E m \in {ParseServerMessage(frame)}, p \in {ParseAsrTexts(frame.body)} :
    /\ phase = "loop"
    /\ phase' = IF m.kind = "error" THEN "failed"
                ELSE IF m.kind = "response" /\ IsFinal(m.flags) THEN "over"
                ELSE phase
    /\ IF m.kind = "response"
         THEN /\ finals' = finals \o p.finals
              /\ Show(p)
              /\ lastEnd' = p.lastEnd /\ lastFull' = p.lastFull
              /\ reported' = IF frame.body.form = "none" THEN reported
                             ELSE Cardinality({i \in DOMAIN utterances : utterances[i].definite})
              /\ grew' = (grew /\ IsPrefix(lastFull, p.lastFull))
         ELSE UNCHANGED <<engineVars, lastEnd, lastFull, historyVars>>
    /\ UNCHANGED <<mode, mic, form, upstream, utterances>>

-----------------------------------------------------------------------------
(* The service. *)

Result(f) == [form |-> f, utterances |-> utterances, text |-> WholeText]

Frame(len, type, flags, body) ==
  [len |-> len, size |-> 4, body |-> body,
   header |-> [version |-> ProtoVersion, headerSize |-> HeaderSize4B, type |-> type, flags |-> flags]]

(* A response, whole or cut short, with a result or without. *)
Respond ==
  /\ upstream.type = AudioOnlyRequest
  /\ responses < MaxResponses
  /\ responses' = responses + 1
  /\ \E len \in {15, 16}, f \in {form, "none"} :
       Receive(Frame(len, FullServerResponse, 1, Result(f)))

RespondFinally ==
  /\ upstream.type = AudioOnlyRequest /\ upstream.flags = LastNoSequence
  /\ \A i \in DOMAIN utterances : utterances[i].definite
  /\ Receive(Frame(16, FullServerResponse, 3, Result(form)))
  /\ UNCHANGED responses

Fail ==
  /\ Receive(Frame(16, ErrorResponse, 0, Result("none")))
  /\ UNCHANGED responses

(* A close frame, an error or the end of the stream. *)
Close ==
  /\ phase = "loop"
  /\ phase' = "failed"
  /\ UNCHANGED <<mode, mic, lastEnd, lastFull, serviceVars, engineVars, historyVars>>

Hear(us) ==
  /\ phase = "loop" /\ upstream.type = AudioOnlyRequest
  /\ utterances' = us
  /\ UNCHANGED <<sessionVars, form, upstream, responses, engineVars, historyVars>>

(* What utterance n may sound like: nothing, a word, or after second       *)
(* thoughts another one.                                                   *)
Hearings(n) == {<<Blank>>, <<n>>, <<Blank, MaxUtterances + n>>}

Open(i) == ~utterances[i].definite

NextUtterance ==
  /\ upstream.flags # LastNoSequence
  /\ Len(utterances) < MaxUtterances
  /\ LET n == Len(utterances) + 1
     IN  \E t \in Hearings(n) :
           Hear(Append(utterances, [text |-> t, end |-> n, definite |-> FALSE]))

SecondThoughts ==
  \E i \in DOMAIN utterances : \E t \in Hearings(i) \ {utterances[i].text} :
    Open(i) /\ Hear([utterances EXCEPT ![i].text = t])

Settle ==
  \E i \in DOMAIN utterances :
    /\ Open(i) /\ \A j \in 1 .. i - 1 : ~Open(j)
    /\ Hear([utterances EXCEPT ![i].definite = TRUE])

Next ==
  \/ SendSetup \/ SendAudio \/ SendLast
  \/ Respond \/ RespondFinally \/ Fail \/ Close
  \/ NextUtterance \/ SecondThoughts \/ Settle

(* Once it has the last frame, the service settles what it heard and       *)
(* answers; the session's own steps run on tokio.                          *)
Fairness == WF_vars(SendSetup) /\ WF_vars(Settle) /\ WF_vars(RespondFinally)

Spec == Init /\ [][Next]_vars /\ Fairness

-----------------------------------------------------------------------------
Texts == Seq(0 .. 2 * MaxUtterances)

TypeOK ==
  /\ mode \in {ConfiguredMode(m) : m \in Modes}
  /\ phase \in {"opening", "loop", "over", "failed"}
  /\ mic \in {"open", "ended", "broken"}
  /\ lastEnd \in -1 .. MaxUtterances
  /\ lastFull \in Texts
  /\ responses \in 0 .. MaxResponses
  /\ \A i \in DOMAIN finals : finals[i] \in Texts \ {<<>>}
  /\ shown \in Texts
  /\ reported \in 0 .. MaxUtterances

Transcript(us) == FlattenSeq([i \in DOMAIN us |-> OneIf(Said(us[i]) # <<>>, Said(us[i]))])

(* Every utterance that was reported as definite is committed once and in  *)
(* order, however often responses repeat it and whichever of them are cut  *)
(* or empty (asr.rs:269-292).                                              *)
CommittedOnceInOrder ==
  form = "utterances" => finals = Transcript(SubSeq(utterances, 1, reported))

(* Results without utterances, outside the mode bidi_async: as long as     *)
(* each text extends the one before, the finals spell it out, no word      *)
(* twice and none missing (asr.rs:316-324).                                *)
Spells(t) == NoBlanks(FlattenSeq(finals)) = NoBlanks(t)

TextSpelledOut ==
  form = "text" /\ mode # "bidi_async" /\ grew => Spells(lastFull)

(* The same in every mode, which is what a "text" that doubao语音-api.md:458 *)
(* defines as the text of the whole audio asks for.                        *)
TextOnce == form = "text" /\ grew => Spells(lastFull)

(* A session that ended with the service's final frame has committed all   *)
(* that the service heard, so that the final frame is looked at before the *)
(* session ends and no other frame is taken for it (asr.rs:213-227).       *)
NothingLostAtEnd ==
  phase = "over" =>
    IF form = "utterances" THEN finals = Transcript(utterances)
    ELSE Trim(WholeText) \in {<<>>, lastFull}

(* The preedit never shows a text that was committed, which the user would *)
(* see twice: a response that has both is sent partial first               *)
(* (asr.rs:216-222, addon.cpp:202-236).                                    *)
NoCommittedPreedit == shown # <<>> => shown \notin ToSet(finals)

(* A stopped session ends: its last frame is marked as such, so that the   *)
(* service answers with the final frame (asr.rs:188-197, 224).             *)
EndsAfterStop == mic = "ended" ~> phase # "loop"

=============================================================================
