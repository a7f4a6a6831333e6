------------------------------- MODULE Daemon -------------------------------
(***************************************************************************)
(* The concurrent core of anytalk-daemon: the client handlers of ipc.rs    *)
(* (one per accepted connection), the session tasks they spawn             *)
(* (run_session of asr.rs), the bounded channel through which a session    *)
(* answers its handler, and the one audio target all handlers share        *)
(* (audio.rs, AudioController).                                            *)
(*                                                                         *)
(* A handler is a select loop: a line of the client is handled to the end  *)
(* of its arm before anything else is looked at, and the choice between a  *)
(* waiting line and a waiting answer is random.  A session task runs on    *)
(* its own; abort() only takes effect at an await where the task waits, so *)
(* an aborted task may still act until Cancelled.                          *)
(***************************************************************************)
EXTENDS Naturals, Sequences

CONSTANTS
  Clients,      (* connections the daemon accepts                          *)
  NoClient,     (* the owner of a session that was never spawned           *)
  NoSession,    (* Option::None of a session handle or of the audio target *)
  MaxSessions,  (* bound on the sessions ever spawned                      *)
  MaxLines,     (* bound on the lines each client sends                    *)
  MaxUnread,    (* how many messages the socket's buffer holds             *)
  Lines,        (* the kinds of line the clients send                      *)
  MaxTexts,     (* bound on the text responses of the ASR server           *)
  RespCap       (* capacity of the answer channel (32 in the code)         *)

Sessions == 1 .. MaxSessions

ASSUME SessionAssumption ==
  /\ MaxSessions \in Nat
  /\ NoSession \notin Nat
  /\ NoClient \notin Clients

ASSUME BoundAssumption ==
  /\ MaxLines \in Nat /\ MaxTexts \in Nat
  /\ RespCap \in Nat \ {0} /\ MaxUnread \in Nat

ASSUME LinesAssumption ==
  Lines \subseteq {"start", "stop", "cancel", "other", "garbled"}

VARIABLES
  (* one connection and its handler *)
  hpc,       (* where the handler is                                       *)
  inbox,     (* lines sent by the client and not yet read                  *)
  lines,     (* how many lines the client has sent                         *)
  gone,      (* whether the client closed, and what the read then reports  *)
  outbox,    (* messages written to the client and not yet read; one in    *)
             (* excess of MaxUnread is still in the handler's write_all    *)
  resp,      (* the mpsc channel from the sessions to the handler          *)
  session,   (* handle of the active session                               *)
  draining,  (* handle of the session that was stopped and still finishes  *)
  (* session tasks *)
  spawned,   (* sessions spawned so far                                    *)
  phase,     (* where the task is                                          *)
  owner,     (* the handler whose answer channel the task holds            *)
  aborted,   (* tasks on which abort() was called                          *)
  mic,       (* audio_active, and why it became false                      *)
  outgoing,  (* messages the task has yet to send before it goes on        *)
  said,      (* text responses received from the server                    *)
  (* shared *)
  target,    (* the session that receives the microphone                   *)
  spare      (* whether the connection pool holds a hot spare              *)

handlerVars == <<hpc, inbox, lines, gone, outbox, resp, session, draining>>
taskVars    == <<spawned, phase, owner, aborted, mic, outgoing, said>>
vars        == <<handlerVars, taskVars, target, spare>>

-----------------------------------------------------------------------------
(* Messages.  "from" is the session a message stems from, or NoSession for *)
(* one the handler writes itself; the code does not transmit it.           *)

Kinds  == {"connected", "connecting", "recording", "idle",
           "partial", "final", "error"}

Msgs   == [kind : Kinds, from : Sessions \cup {NoSession}]

Msg(k, s) == [kind |-> k, from |-> s]

(* What one response of the server makes the session send. *)
Answers(s) ==
  { <<Msg("partial", s)>>,
    <<Msg("final", s)>>,
    <<Msg("partial", s), Msg("final", s)>> }

(* write_all to the client; an error on a closed socket is ignored. *)
Write(c, m) ==
  outbox' = IF gone[c] = "no" THEN [outbox EXCEPT ![c] = Append(@, m)] ELSE outbox

(* The socket is full: the handler waits in write_all. *)
Writing(c) == Len(outbox[c]) > MaxUnread

(* The handler is at its select, done with the last line or answer. *)
Selects(c) == hpc[c] = "select" /\ ~Writing(c)

(* Has the handler of c left its loop, so that its channel is closed? *)
Left(c) == hpc[c] \in {"closed", "failed"}

Live(s) == phase[s] \in {"opening", "loop", "ending"}

Handles(c) == {session[c], draining[c]} \ {NoSession}

-----------------------------------------------------------------------------
Init ==
  /\ hpc      = [c \in Clients |-> "absent"]
  /\ inbox    = [c \in Clients |-> <<>>]
  /\ lines    = [c \in Clients |-> 0]
  /\ gone     = [c \in Clients |-> "no"]
  /\ outbox   = [c \in Clients |-> <<>>]
  /\ resp     = [c \in Clients |-> <<>>]
  /\ session  = [c \in Clients |-> NoSession]
  /\ draining = [c \in Clients |-> NoSession]
  /\ spawned  = 0
  /\ phase    = [s \in Sessions |-> "unused"]
  /\ owner    = [s \in Sessions |-> NoClient]
  /\ aborted  = {}
  /\ mic      = [s \in Sessions |-> "open"]
  /\ outgoing = [s \in Sessions |-> <<>>]
  /\ said     = 0
  /\ target   = NoSession
  /\ spare    = FALSE

(***************************************************************************)
(* The handler of one connection                                           *)
(***************************************************************************)

(* The connection is accepted; the client is told when a spare is ready. *)
Accept(c) ==
  /\ hpc[c] = "absent"
  /\ hpc' = [hpc EXCEPT ![c] = "select"]
  /\ IF spare THEN Write(c, Msg("connected", NoSession)) ELSE UNCHANGED outbox
  /\ UNCHANGED <<inbox, lines, gone, resp, session, draining, taskVars, target, spare>>

(* The line at the head of the inbox is taken by the select. *)
Reads(c, line) ==
  /\ Selects(c)
  /\ inbox[c] # <<>>
  /\ Head(inbox[c]) = line
  /\ inbox' = [inbox EXCEPT ![c] = Tail(@)]

(* Variant: the microphone is left with the aborted session. *)
HandleStartKeepsTarget(c) ==
  /\ Reads(c, "start")
  /\ aborted'  = aborted \cup Handles(c)
  /\ session'  = [session EXCEPT ![c] = NoSession]
  /\ draining' = [draining EXCEPT ![c] = NoSession]
  /\ hpc' = [hpc EXCEPT ![c] = "take"]
  /\ UNCHANGED <<lines, gone, outbox, resp, spawned, phase, owner, mic, outgoing, said, target, spare>>

(* Variant: a draining session is left alone. *)
HandleStartKeepsDraining(c) ==
  /\ Reads(c, "start")
  /\ aborted'  = aborted \cup ({session[c]} \ {NoSession})
  /\ session'  = [session EXCEPT ![c] = NoSession]
  /\ target'   = IF session[c] # NoSession THEN NoSession ELSE target
  /\ hpc' = [hpc EXCEPT ![c] = "take"]
  /\ UNCHANGED <<lines, gone, outbox, resp, draining, spawned, phase, owner, mic, outgoing, said, spare>>

(* Variant: the handles are dropped without abort(). *)
HandleStartDetaches(c) ==
  /\ Reads(c, "start")
  /\ session'  = [session EXCEPT ![c] = NoSession]
  /\ draining' = [draining EXCEPT ![c] = NoSession]
  /\ target'   = IF session[c] # NoSession THEN NoSession ELSE target
  /\ hpc' = [hpc EXCEPT ![c] = "take"]
  /\ UNCHANGED <<lines, gone, outbox, resp, spawned, phase, owner, aborted, mic, outgoing, said, spare>>

(* "start", up to the first await: whatever ran for this client is aborted, *)
(* and the microphone is taken from an active session.                      *)
HandleStart(c) ==
  /\ Reads(c, "start")
  /\ aborted'  = aborted \cup Handles(c)
  /\ session'  = [session EXCEPT ![c] = NoSession]
  /\ draining' = [draining EXCEPT ![c] = NoSession]
  /\ target'   = IF session[c] # NoSession THEN NoSession ELSE target
  /\ hpc' = [hpc EXCEPT ![c] = "take"]
  /\ UNCHANGED <<lines, gone, outbox, resp, spawned, phase, owner, mic, outgoing, said, spare>>

(* Variant: set_target is forgotten. *)
BeginSilent(c) ==
  LET s == spawned + 1
  IN  /\ spawned < MaxSessions
      /\ spawned' = s
      /\ phase'   = [phase EXCEPT ![s] = "opening"]
      /\ owner'   = [owner EXCEPT ![s] = c]
      /\ session' = [session EXCEPT ![c] = s]
      /\ hpc'     = [hpc EXCEPT ![c] = "select"]
      /\ Write(c, Msg("recording", NoSession))
      /\ UNCHANGED <<inbox, lines, gone, resp, draining, aborted, mic, outgoing, said, target>>

(* A session is spawned on the stream; it gets the microphone. *)
Begin(c) ==
  LET s == spawned + 1
  IN  /\ spawned < MaxSessions
      /\ spawned' = s
      /\ phase'   = [phase EXCEPT ![s] = "opening"]
      /\ owner'   = [owner EXCEPT ![s] = c]
      /\ session' = [session EXCEPT ![c] = s]
      /\ target'  = s
      /\ hpc'     = [hpc EXCEPT ![c] = "select"]
      /\ Write(c, Msg("recording", NoSession))
      /\ UNCHANGED <<inbox, lines, gone, resp, draining, aborted, mic, outgoing, said>>

(* pool.take(): with a spare the session begins at once. *)
TakeSpare(c) ==
  /\ hpc[c] = "take"
  /\ spare
  /\ spare' = FALSE
  /\ Begin(c)

(* Without a spare the handler announces and dials on demand; no line and *)
(* no answer is looked at meanwhile.                                      *)
NoSpare(c) ==
  /\ hpc[c] = "take"
  /\ ~spare
  /\ hpc' = [hpc EXCEPT ![c] = "dial"]
  /\ Write(c, Msg("connecting", NoSession))
  /\ UNCHANGED <<inbox, lines, gone, resp, session, draining, taskVars, target, spare>>

DialOk(c) ==
  /\ hpc[c] = "dial" /\ ~Writing(c)
  /\ Begin(c)
  /\ UNCHANGED spare

DialFail(c) ==
  /\ hpc[c] = "dial" /\ ~Writing(c)
  /\ hpc' = [hpc EXCEPT ![c] = "select"]
  /\ Write(c, Msg("error", NoSession))
  /\ UNCHANGED <<inbox, lines, gone, resp, session, draining, taskVars, target, spare>>

(* Variant: the handle is looked at but not taken. *)
HandleStopKeepsSession(c) ==
  /\ Reads(c, "stop")
  /\ target' = NoSession
  /\ IF session[c] # NoSession
       THEN UNCHANGED outbox
       ELSE Write(c, Msg("idle", NoSession))
  /\ UNCHANGED <<hpc, lines, gone, resp, session, draining, taskVars, spare>>

(* Variant: the microphone goes on for the draining session. *)
HandleStopKeepsTarget(c) ==
  /\ Reads(c, "stop")
  /\ session' = [session EXCEPT ![c] = NoSession]
  /\ IF session[c] # NoSession
       THEN /\ draining' = [draining EXCEPT ![c] = session[c]]
            /\ aborted' = aborted \cup ({draining[c]} \ {NoSession})
            /\ UNCHANGED outbox
       ELSE /\ Write(c, Msg("idle", NoSession))
            /\ UNCHANGED <<draining, aborted>>
  /\ UNCHANGED <<hpc, lines, gone, resp, spawned, phase, owner, mic, outgoing, said, target, spare>>

(* "stop": the microphone stops first; an active session goes on draining, *)
(* without one the client is answered at once.                             *)
HandleStop(c) ==
  /\ Reads(c, "stop")
  /\ target' = NoSession
  /\ session' = [session EXCEPT ![c] = NoSession]
  /\ IF session[c] # NoSession
       THEN /\ draining' = [draining EXCEPT ![c] = session[c]]
            /\ aborted' = aborted \cup ({draining[c]} \ {NoSession})
            /\ UNCHANGED outbox
       ELSE /\ Write(c, Msg("idle", NoSession))
            /\ UNCHANGED <<draining, aborted>>
  /\ UNCHANGED <<hpc, lines, gone, resp, spawned, phase, owner, mic, outgoing, said, spare>>

HandleCancel(c) ==
  /\ Reads(c, "cancel")
  /\ target'   = NoSession
  /\ aborted'  = aborted \cup Handles(c)
  /\ session'  = [session EXCEPT ![c] = NoSession]
  /\ draining' = [draining EXCEPT ![c] = NoSession]
  /\ Write(c, Msg("idle", NoSession))
  /\ UNCHANGED <<hpc, lines, gone, resp, spawned, phase, owner, mic, outgoing, said, spare>>

HandleOther(c) ==
  /\ Reads(c, "other")
  /\ Write(c, Msg("error", NoSession))
  /\ UNCHANGED <<hpc, lines, gone, resp, session, draining, taskVars, target, spare>>

(* The select takes an answer of a session and passes it on. *)
Forward(c) ==
  /\ Selects(c)
  /\ resp[c] # <<>>
  /\ resp' = [resp EXCEPT ![c] = Tail(@)]
  /\ Write(c, Head(resp[c]))
  /\ UNCHANGED <<hpc, inbox, lines, gone, session, draining, taskVars, target, spare>>

(* The handler returns: the answer channel closes, and the handles are     *)
(* dropped, which detaches the tasks and does not stop them.               *)
Leave(c) ==
  /\ session'  = [session EXCEPT ![c] = NoSession]
  /\ draining' = [draining EXCEPT ![c] = NoSession]
  /\ resp'     = [resp EXCEPT ![c] = <<>>]
  /\ UNCHANGED <<inbox, lines, gone, outbox, taskVars, spare>>

ReadsEnd(c, how) == Selects(c) /\ inbox[c] = <<>> /\ gone[c] = how

(* End of file: the loop is left and the microphone is released. *)
HandleEof(c) ==
  /\ ReadsEnd(c, "eof")
  /\ target' = NoSession
  /\ hpc' = [hpc EXCEPT ![c] = "closed"]
  /\ Leave(c)

(* A reset, or a line that is not UTF-8: `line?` returns from              *)
(* handle_client on the spot.                                              *)
HandleReadError(c) ==
  /\ \/ ReadsEnd(c, "reset")
     \/ Selects(c) /\ inbox[c] # <<>> /\ Head(inbox[c]) = "garbled"
  /\ hpc' = [hpc EXCEPT ![c] = "failed"]
  /\ Leave(c)
  /\ UNCHANGED target

Handler(c) ==
  \/ Accept(c) \/ HandleStart(c) \/ TakeSpare(c) \/ NoSpare(c)
  \/ DialOk(c) \/ DialFail(c) \/ HandleStop(c) \/ HandleCancel(c)
  \/ HandleOther(c) \/ Forward(c) \/ HandleEof(c) \/ HandleReadError(c)

(***************************************************************************)
(* A session task                                                          *)
(***************************************************************************)

(* Inside its loop with nothing left to send: the select of run_session. *)
InLoop(s) == phase[s] = "loop" /\ outgoing[s] = <<>>

(* Variant: the idle status is sent before what is left to say. *)
EndWithIdleFirst(s, msgs) ==
  /\ phase' = [phase EXCEPT ![s] = "ending"]
  /\ outgoing' = [outgoing EXCEPT ![s] = <<Msg("idle", s)>> \o msgs]

(* run_session returns; what is left to send ends with the idle status. *)
EndWith(s, msgs) ==
  /\ phase' = [phase EXCEPT ![s] = "ending"]
  /\ outgoing' = [outgoing EXCEPT ![s] = Append(msgs, Msg("idle", s))]

(* The setup request is sent; a failure ends the session with an error. *)
SendSetup(s) ==
  /\ phase[s] = "opening"
  /\ \/ phase' = [phase EXCEPT ![s] = "loop"] /\ UNCHANGED outgoing
     \/ EndWith(s, <<Msg("error", s)>>)
  /\ UNCHANGED <<handlerVars, spawned, owner, aborted, mic, said, target, spare>>

(* Variant: the last frame is sent while the microphone is still on. *)
MicClosedEarly(s) ==
  /\ InLoop(s)
  /\ mic[s] = "open"
  /\ mic' = [mic EXCEPT ![s] = "ended"]
  /\ UNCHANGED <<handlerVars, spawned, phase, owner, aborted, outgoing, said, target, spare>>

(* The target dropped the sender of this session: the channel ends, and *)
(* the empty last frame is sent.                                        *)
MicClosed(s) ==
  /\ InLoop(s)
  /\ mic[s] = "open"
  /\ target # s
  /\ mic' = [mic EXCEPT ![s] = "ended"]
  /\ UNCHANGED <<handlerVars, spawned, phase, owner, aborted, outgoing, said, target, spare>>

(* Sending a chunk fails: no more audio is read, and no last frame sent. *)
ChunkFails(s) ==
  /\ InLoop(s)
  /\ mic[s] = "open"
  /\ mic' = [mic EXCEPT ![s] = "broken"]
  /\ UNCHANGED <<handlerVars, spawned, phase, owner, aborted, outgoing, said, target, spare>>

(* A response with text that is not the last one. *)
Response(s) ==
  /\ InLoop(s)
  /\ said < MaxTexts
  /\ said' = said + 1
  /\ \E msgs \in Answers(s) : outgoing' = [outgoing EXCEPT ![s] = msgs]
  /\ UNCHANGED <<handlerVars, spawned, phase, owner, aborted, mic, target, spare>>

(* The final response frame, with or without text. *)
FinalResponse(s) ==
  /\ InLoop(s)
  /\ \/ EndWith(s, <<>>) /\ UNCHANGED said
     \/ /\ said < MaxTexts
        /\ said' = said + 1
        /\ \E msgs \in Answers(s) : EndWith(s, msgs)
  /\ UNCHANGED <<handlerVars, spawned, owner, aborted, mic, target, spare>>

(* An error frame of the server, which is reported to the client. *)
ServerError(s) ==
  /\ InLoop(s)
  /\ EndWith(s, <<Msg("error", s)>>)
  /\ UNCHANGED <<handlerVars, spawned, owner, aborted, mic, said, target, spare>>

(* A close frame, a websocket error or the end of the stream. *)
ServerCloses(s) ==
  /\ InLoop(s)
  /\ EndWith(s, <<>>)
  /\ UNCHANGED <<handlerVars, spawned, owner, aborted, mic, said, target, spare>>

(* Variant: a send to a channel whose receiver is gone waits for room. *)
TaskSendWaits(s) ==
  /\ phase[s] \in {"loop", "ending"}
  /\ outgoing[s] # <<>>
  /\ ~Left(owner[s])
  /\ Len(resp[owner[s]]) < RespCap
  /\ resp' = [resp EXCEPT ![owner[s]] = Append(@, Head(outgoing[s]))]
  /\ outgoing' = [outgoing EXCEPT ![s] = Tail(@)]
  /\ phase' = IF phase[s] = "ending" /\ Len(outgoing[s]) = 1
                THEN [phase EXCEPT ![s] = "over"] ELSE phase
  /\ UNCHANGED <<hpc, inbox, lines, gone, outbox, session, draining,
                 spawned, owner, aborted, mic, said, target, spare>>

(* Variant: the answer channel has no bound. *)
TaskSendUnbounded(s) ==
  /\ phase[s] \in {"loop", "ending"}
  /\ outgoing[s] # <<>>
  /\ IF Left(owner[s])
       THEN UNCHANGED resp
       ELSE resp' = [resp EXCEPT ![owner[s]] = Append(@, Head(outgoing[s]))]
  /\ outgoing' = [outgoing EXCEPT ![s] = Tail(@)]
  /\ phase' = IF phase[s] = "ending" /\ Len(outgoing[s]) = 1
                THEN [phase EXCEPT ![s] = "over"] ELSE phase
  /\ UNCHANGED <<hpc, inbox, lines, gone, outbox, session, draining,
                 spawned, owner, aborted, mic, said, target, spare>>

(* One resp_tx.send: it waits for room, and fails at once, unnoticed, when *)
(* the handler is gone.  After the idle status the task is over.           *)
TaskSend(s) ==
  /\ phase[s] \in {"loop", "ending"}
  /\ outgoing[s] # <<>>
  /\ IF Left(owner[s])
       THEN UNCHANGED resp
       ELSE /\ Len(resp[owner[s]]) < RespCap
            /\ resp' = [resp EXCEPT ![owner[s]] = Append(@, Head(outgoing[s]))]
  /\ outgoing' = [outgoing EXCEPT ![s] = Tail(@)]
  /\ phase' = IF phase[s] = "ending" /\ Len(outgoing[s]) = 1
                THEN [phase EXCEPT ![s] = "over"] ELSE phase
  /\ UNCHANGED <<hpc, inbox, lines, gone, outbox, session, draining,
                 spawned, owner, aborted, mic, said, target, spare>>

(* The abort takes effect: the task is dropped where it waits. *)
Cancelled(s) ==
  /\ s \in aborted
  /\ Live(s)
  /\ phase' = [phase EXCEPT ![s] = "cancelled"]
  /\ outgoing' = [outgoing EXCEPT ![s] = <<>>]
  /\ UNCHANGED <<handlerVars, spawned, owner, aborted, mic, said, target, spare>>

Task(s) ==
  \/ SendSetup(s) \/ MicClosed(s) \/ ChunkFails(s) \/ Response(s)
  \/ FinalResponse(s) \/ ServerError(s) \/ ServerCloses(s)
  \/ TaskSend(s) \/ Cancelled(s)

(***************************************************************************)
(* The environment: the pool's maintainer and the clients                  *)
(***************************************************************************)

(* The maintainer of ConnectionPool stores a fresh spare. *)
Refill ==
  /\ ~spare
  /\ spare' = TRUE
  /\ UNCHANGED <<handlerVars, taskVars, target>>

ClientSends(c, line) ==
  /\ gone[c] = "no" /\ ~Left(c)
  /\ lines[c] < MaxLines
  /\ lines' = [lines EXCEPT ![c] = @ + 1]
  /\ inbox' = [inbox EXCEPT ![c] = Append(@, line)]
  /\ UNCHANGED <<hpc, gone, outbox, resp, session, draining, taskVars, target, spare>>

ClientReads(c) ==
  /\ gone[c] = "no"
  /\ outbox[c] # <<>>
  /\ outbox' = [outbox EXCEPT ![c] = Tail(@)]
  /\ UNCHANGED <<hpc, inbox, lines, gone, resp, session, draining, taskVars, target, spare>>

(* The client closes its socket, or dies.  Closing a Unix socket with      *)
(* unread data resets the connection: the peer reads what was sent before, *)
(* then an error instead of an end of file.                                *)
ClientCloses(c) ==
  /\ gone[c] = "no"
  /\ gone' = [gone EXCEPT ![c] = IF outbox[c] = <<>> THEN "eof" ELSE "reset"]
  /\ outbox' = [outbox EXCEPT ![c] = <<>>]
  /\ UNCHANGED <<hpc, inbox, lines, resp, session, draining, taskVars, target, spare>>

Client(c) ==
  \/ \E line \in Lines : ClientSends(c, line)
  \/ ClientReads(c)
  \/ ClientCloses(c)

Next ==
  \/ \E c \in Clients : Handler(c) \/ Client(c)
  \/ \E s \in Sessions : Task(s)
  \/ Refill

Spec == Init /\ [][Next]_vars

(* The handlers and the tasks run on tokio's executor; a dial returns, and *)
(* once a session has sent its last frame or lost its connection the       *)
(* server answers or the connection ends.  A client that stays reads what  *)
(* it is sent (the receive thread of ipc_client.cpp), and owes no line.    *)
ServerEnds(s) ==
  mic[s] # "open" /\ (FinalResponse(s) \/ ServerError(s) \/ ServerCloses(s))

TaskGoesOn(s) ==
  SendSetup(s) \/ MicClosed(s) \/ TaskSend(s) \/ Cancelled(s) \/ ServerEnds(s)

Fairness ==
  /\ \A c \in Clients : WF_vars(Handler(c)) /\ WF_vars(ClientReads(c))
  /\ \A s \in Sessions : WF_vars(TaskGoesOn(s))

FairSpec == Spec /\ Fairness

-----------------------------------------------------------------------------
HandlerTypes ==
  /\ hpc \in [Clients -> {"absent", "select", "take", "dial", "closed", "failed"}]
  /\ inbox \in [Clients -> Seq(Lines)]
  /\ lines \in [Clients -> 0 .. MaxLines]
  /\ gone \in [Clients -> {"no", "eof", "reset"}]
  /\ outbox \in [Clients -> Seq(Msgs)]
  /\ resp \in [Clients -> Seq(Msgs)]
  /\ \A c \in Clients : Len(resp[c]) <= RespCap
  /\ session \in [Clients -> Sessions \cup {NoSession}]
  /\ draining \in [Clients -> Sessions \cup {NoSession}]

TaskTypes ==
  /\ spawned \in 0 .. MaxSessions
  /\ phase \in [Sessions -> {"unused", "opening", "loop", "ending", "over", "cancelled"}]
  /\ owner \in [Sessions -> Clients \cup {NoClient}]
  /\ aborted \subseteq Sessions
  /\ mic \in [Sessions -> {"open", "ended", "broken"}]
  /\ outgoing \in [Sessions -> Seq(Msgs)]
  /\ said \in 0 .. MaxTexts

SharedTypes == target \in Sessions \cup {NoSession} /\ spare \in BOOLEAN

(* The types, and with them the bound of the answer channel. *)
TypeOK == HandlerTypes /\ TaskTypes /\ SharedTypes

(* The microphone goes to a session only while the handler that spawned it *)
(* still has it as its active session, the one exception being a handler   *)
(* that left on a read error (every clear_target of ipc.rs).               *)
MicFollowsSession ==
  target # NoSession =>
    \/ session[owner[target]] = target
    \/ hpc[owner[target]] = "failed"

(* What ipc.rs:179 promises: the audio stops if the client drops           *)
(* unexpectedly, so the microphone never outlives its handler.             *)
AudioStopsWithClient ==
  target # NoSession => ~Left(owner[target])

(* A handler never has an active and a draining session at once; the abort *)
(* of an older draining task in the stop arm (ipc.rs:146-148) is dead.     *)
OneHandleAtATime ==
  \A c \in Clients : session[c] = NoSession \/ draining[c] = NoSession

(* No stray session: a task that can still answer a client is the one its  *)
(* handler holds, or its abort is under way (ipc.rs:81-93, 144-161); else  *)
(* two sessions would mix their texts in one document.                     *)
NoStraySession ==
  \A s \in Sessions :
    Live(s) /\ ~Left(owner[s]) => s \in Handles(owner[s]) \/ s \in aborted

(* The last frame is last: once it is sent, the session never gets the     *)
(* microphone again (asr.rs:188-197 against ipc.rs:120).                   *)
LastFrameIsLast ==
  \A s \in Sessions : mic[s] = "ended" => target # s

(* What the client will hear. *)
Coming(c) == outbox[c] \o resp[c]

(* A client hears only sessions it began, and after the idle of one        *)
(* nothing else of it, though answers wait in two queues while the task    *)
(* behind them ends or is aborted (ipc.rs:118-133, 170-175).               *)
IdleIsLast ==
  \A c \in Clients : \A i \in DOMAIN Coming(c) :
    LET m == Coming(c)[i]
    IN  m.from # NoSession =>
          /\ owner[m.from] = c
          /\ m.kind = "idle" =>
               /\ ~Live(m.from)
               /\ \A j \in i + 1 .. Len(Coming(c)) : Coming(c)[j].from # m.from

(* With one connection, an active session has the microphone: nothing      *)
(* takes it away but the stop, cancel or start of the same client.         *)
ActiveHasMic ==
  \A c \in Clients : session[c] # NoSession => target = session[c]

(* The inductive invariant behind the three above: sessions are spawned in *)
(* order, a handle belongs to the handler that spawned its session, and a  *)
(* handler outside its select holds none.                                  *)
SpawnedInOrder ==
  \A s \in Sessions :
    /\ phase[s] = "unused" <=> s > spawned
    /\ phase[s] = "unused" => mic[s] = "open"
    /\ s <= spawned => owner[s] \in Clients

HandlesOwned ==
  \A c \in Clients : \A s \in Handles(c) : s <= spawned /\ owner[s] = c

HandlesOnlyInSelect ==
  \A c \in Clients :
    hpc[c] # "select" => session[c] = NoSession /\ draining[c] = NoSession

Structure ==
  /\ SpawnedInOrder
  /\ HandlesOwned
  /\ HandlesOnlyInSelect
  /\ target # NoSession => target <= spawned
  /\ MicFollowsSession
  /\ OneHandleAtATime
  /\ NoStraySession
  /\ LastFrameIsLast

DaemonInv == TypeOK /\ Structure

(* A session that lost the microphone, which it never gets back, winds     *)
(* down, whatever lines its client sends and whether it stays and reads or *)
(* is gone (asr.rs:188-245, and the detached task of ipc.rs:179-182).      *)
ReleasedSessionsEnd ==
  \A s \in Sessions : []<>(Live(s) => target = s)

(* Nothing is under way for client c: every line and message has been      *)
(* handled, and the only session left is the active one, with nothing to   *)
(* send.                                                                   *)
Quiet(c) ==
  /\ hpc[c] = "select"
  /\ inbox[c] = <<>> /\ resp[c] = <<>> /\ outbox[c] = <<>>
  /\ \A s \in Sessions :
       owner[s] = c /\ Live(s) =>
         s = session[c] /\ s \notin aborted /\ phase[s] = "loop" /\ outgoing[s] = <<>>

(* Everything settles for a client that stays, whatever lines it sent in   *)
(* whatever order: its lines are handled, its messages delivered and its   *)
(* stopped sessions over (ipc.rs:65-177, asr.rs:169-249), unless one of    *)
(* them was no text.  A handler that waits in take has met the bound on    *)
(* sessions.                                                               *)
Settles ==
  \A c \in Clients :
    []<>(Quiet(c) \/ gone[c] # "no" \/ hpc[c] = "failed"
           \/ (hpc[c] = "take" /\ spawned = MaxSessions))

(* What the daemon promises about recordings, seen from outside: see       *)
(* RecordingLifecycle.                                                     *)
Life == [s \in Sessions |->
  CASE phase[s] = "unused" -> "fresh"
    [] phase[s] \in {"over", "cancelled"} -> "over"
    [] Live(s) /\ target = s -> "recording"
    [] OTHER -> "draining"]

Abstract == INSTANCE RecordingLifecycle WITH life <- Life

ImplementsLifecycle == Abstract!Spec

=============================================================================
