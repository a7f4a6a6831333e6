-------------------------- MODULE DictationProofs --------------------------
(***************************************************************************)
(* Theorems of Dictation, for any text fields, sessions, texts and         *)
(* capacities: a text goes wherever the focus is, and the engine and the   *)
(* daemon agree on whether a dictation is on.                              *)
(***************************************************************************)
EXTENDS Dictation, DaemonProofs, SequenceTheorems

USE DictationAssumption

Has(q, k) == \E i \in 1 .. Len(q) : q[i].kind = k

(* No "recording" after an "idle". *)
IdleLast(q) ==
  \A i, j \in 1 .. Len(q) : i < j /\ q[i].kind = "idle" => q[j].kind # "recording"

(* A session says nothing that turns the label on. *)
FromSession(q) == ~Has(q, "recording") /\ ~Has(q, "connected")

(* The session the handler will answer for is on. *)
Running == session[Me] # NoSession /\ phase[session[Me]] \in {"opening", "loop"}

(* An "idle" is on its way. *)
IdleDue ==
  \/ Has(outbox[Me], "idle") \/ Has(resp[Me], "idle")
  \/ \E s \in Sessions : Live(s) /\ Has(outgoing[s], "idle")

(* Nothing of any dictation is on its way or going on. *)
Clear ==
  /\ ~recording /\ resp[Me] = <<>>
  /\ ~Has(outbox[Me], "recording") /\ ~Has(outbox[Me], "idle")
  /\ \A s \in Sessions : ~Live(s)

(* The connection stays, one line at most is under way, and a session that *)
(* was aborted had ended before.                                           *)
Patient ==
  /\ gone[Me] = "no"
  /\ hpc[Me] \in {"absent", "select", "take", "dial"}
  /\ inbox[Me] \in {<<>>, <<"start">>, <<"stop">>}
  /\ hpc[Me] # "select" => inbox[Me] = <<>>
  /\ \A s \in aborted : s <= spawned /\ ~Live(s)

Said ==
  /\ FromSession(resp[Me])
  /\ \A s \in Sessions :
       FromSession(outgoing[s]) /\ (Has(outgoing[s], "idle") => phase[s] = "ending")
  /\ IdleLast(outbox[Me])
  /\ Has(outbox[Me], "connected") =>
       Clear /\ session[Me] = NoSession /\ inbox[Me] = <<>> /\ hpc[Me] = "select"

(* Before a session begins all is clear; after a stop the label is off and *)
(* stays so; otherwise what is on its way sets the label right.            *)
Course ==
  /\ inbox[Me] = <<"start">> \/ hpc[Me] # "select" => Clear
  /\ inbox[Me] = <<"stop">> => ~recording /\ ~Has(outbox[Me], "recording")
  /\ inbox[Me] = <<>> /\ hpc[Me] = "select" =>
       IF Running THEN ~IdleDue /\ (recording \/ Has(outbox[Me], "recording"))
       ELSE IdleDue \/ (~recording /\ ~Has(outbox[Me], "recording"))

LabelInv == Patient /\ Said /\ Course

-----------------------------------------------------------------------------
(* Where the focus is. *)

(* active_ic_ is null or the input context that has the focus: whatever    *)
(* moves the focus deactivates the old one.                                *)
ActiveFocused == active \in {NoIC, focused}

LEMMA StatusKeepsFocus ==
  ASSUME ActiveFocused, NEW st, E!SetStatus(st), focused' = focused
  PROVE  ActiveFocused'
  BY DEF ActiveFocused, E!SetStatus

LEMMA FocusStep == ActiveFocused /\ [DictationNext]_<<vars, engineVars>> => ActiveFocused'
<1> SUFFICES ASSUME ActiveFocused, [DictationNext]_<<vars, engineVars>> PROVE ActiveFocused'
  OBVIOUS
<1>1. CASE PressStart
  BY <1>1 DEF PressStart, E!StartDictation, ActiveFocused
<1>2. CASE PressStop
  BY <1>2, StatusKeepsFocus DEF PressStop, E!StopDictation
<1>3. CASE Deliver
  <2>1. PICK m : E!Receive(m)
    BY <1>3 DEF Deliver
  <2>2. CASE E!UpdatePreedit \/ E!CommitText(m.from) \/ UNCHANGED engineVars
    BY <2>2 DEF E!UpdatePreedit, E!CommitText, engineVars, ActiveFocused
  <2>3. CASE E!SetStatus(m.kind) /\ UNCHANGED <<focused, preedit, committed>>
    BY <2>3, StatusKeepsFocus
  <2> QED BY <2>1, <2>2, <2>3 DEF E!Receive, E!engineVars, engineVars
<1>4. CASE Focus
  BY <1>4 DEF Focus, E!Deactivate, E!FocusIn, ActiveFocused
<1>5. CASE Internal \/ UNCHANGED <<vars, engineVars>>
  BY <1>5 DEF Internal, engineVars, ActiveFocused
<1> QED BY <1>1, <1>2, <1>3, <1>4, <1>5 DEF DictationNext

(* The text field that has the focus gets every text: the comparison of    *)
(* active_ic_ with the focus never holds one back, and a dictation that    *)
(* began elsewhere goes on in it (addon.cpp:143-148, 202-236).             *)
THEOREM FocusGetsText == DictationSpec => []TextFollowsFocus
<1>1. DictationInit => ActiveFocused
  BY DEF DictationInit, E!Init, ActiveFocused
<1>2. ActiveFocused => TextFollowsFocus
  BY DEF ActiveFocused, TextFollowsFocus, E!Destination
<1> QED BY <1>1, <1>2, FocusStep, PTL DEF DictationSpec

-----------------------------------------------------------------------------
(* Messages in a queue. *)

LEMMA HasEmpty == \A k : ~Has(<<>>, k)
  BY DEF Has

LEMMA HasAppend ==
  ASSUME NEW q \in Seq(Msgs), NEW m \in Msgs, NEW k
  PROVE  Has(Append(q, m), k) <=> Has(q, k) \/ m.kind = k
<1>1. /\ Len(q) \in Nat /\ Len(Append(q, m)) = Len(q) + 1
      /\ Append(q, m)[Len(q) + 1] = m
      /\ \A i \in 1 .. Len(q) : Append(q, m)[i] = q[i]
  OBVIOUS
<1>2. \A i \in 1 .. Len(q) + 1 : i \in 1 .. Len(q) \/ i = Len(q) + 1
  BY <1>1
<1>3. \A i \in 1 .. Len(q) : i \in 1 .. Len(q) + 1
  BY <1>1
<1>4. Len(q) + 1 \in 1 .. Len(q) + 1
  BY <1>1
<1> QED BY <1>1, <1>2, <1>3, <1>4 DEF Has

LEMMA HasTail ==
  ASSUME NEW q \in Seq(Msgs), q # <<>>, NEW k
  PROVE  Has(q, k) <=> Head(q).kind = k \/ Has(Tail(q), k)
<1>1. /\ Len(q) \in Nat \ {0} /\ Len(Tail(q)) = Len(q) - 1 /\ Head(q) = q[1]
      /\ \A i \in 1 .. Len(q) - 1 : Tail(q)[i] = q[i + 1]
  OBVIOUS
<1>2. \A i \in 1 .. Len(q) : i = 1 \/ (i - 1 \in 1 .. Len(q) - 1 /\ (i - 1) + 1 = i)
  BY <1>1
<1>3. \A i \in 1 .. Len(q) - 1 : i + 1 \in 1 .. Len(q)
  BY <1>1
<1>4. 1 \in 1 .. Len(q)
  BY <1>1
<1>5. Has(q, k) => Head(q).kind = k \/ Has(Tail(q), k)
  <2> SUFFICES ASSUME NEW i \in 1 .. Len(q), q[i].kind = k, i # 1 PROVE Has(Tail(q), k)
    BY <1>1 DEF Has
  <2>1. i - 1 \in 1 .. Len(q) - 1 /\ Tail(q)[i - 1] = q[i]
    BY <1>1, <1>2
  <2> QED BY <1>1, <2>1 DEF Has
<1>6. Has(Tail(q), k) => Has(q, k)
  BY <1>1, <1>3 DEF Has
<1>7. Head(q).kind = k => Has(q, k)
  BY <1>1, <1>4 DEF Has
<1> QED BY <1>5, <1>6, <1>7

LEMMA IdleLastAppend ==
  ASSUME NEW q \in Seq(Msgs), NEW m \in Msgs, IdleLast(q),
         m.kind # "recording" \/ ~Has(q, "idle")
  PROVE  IdleLast(Append(q, m))
<1>1. /\ Len(q) \in Nat /\ Len(Append(q, m)) = Len(q) + 1
      /\ Append(q, m)[Len(q) + 1] = m
      /\ \A i \in 1 .. Len(q) : Append(q, m)[i] = q[i]
  OBVIOUS
<1> DEFINE a == Append(q, m)
<1> SUFFICES ASSUME NEW i \in 1 .. Len(q) + 1, NEW j \in 1 .. Len(q) + 1, i < j, a[i].kind = "idle"
             PROVE  a[j].kind # "recording"
  BY <1>1 DEF IdleLast
<1> HIDE DEF a
<1>2. i \in 1 .. Len(q) /\ (j \in 1 .. Len(q) \/ j = Len(q) + 1)
  BY <1>1
<1>3. CASE j \in 1 .. Len(q)
  BY <1>1, <1>2, <1>3 DEF IdleLast, a
<1>4. CASE j = Len(q) + 1
  BY <1>1, <1>2, <1>4 DEF Has, a
<1> QED BY <1>2, <1>3, <1>4

LEMMA IdleLastTail ==
  ASSUME NEW q \in Seq(Msgs), q # <<>>, IdleLast(q)
  PROVE  /\ IdleLast(Tail(q))
         /\ Head(q).kind = "idle" => ~Has(Tail(q), "recording")
<1>1. /\ Len(q) \in Nat \ {0} /\ Len(Tail(q)) = Len(q) - 1 /\ Head(q) = q[1]
      /\ \A i \in 1 .. Len(q) - 1 : Tail(q)[i] = q[i + 1]
  OBVIOUS
<1>2. \A i \in 1 .. Len(q) - 1 : i + 1 \in 1 .. Len(q) /\ 1 < i + 1
  BY <1>1
<1>3. \A i, j \in 1 .. Len(q) - 1 : i < j => i + 1 < j + 1
  BY <1>1
<1>4. 1 \in 1 .. Len(q)
  BY <1>1
<1>5. IdleLast(Tail(q))
  BY <1>1, <1>2, <1>3 DEF IdleLast
<1>6. Head(q).kind = "idle" => ~Has(Tail(q), "recording")
  BY <1>1, <1>2, <1>4 DEF IdleLast, Has
<1> QED BY <1>5, <1>6

-----------------------------------------------------------------------------
(* Session tasks. *)

LEMMA LiveOwner ==
  ASSUME DaemonInv, NEW s \in Sessions, Live(s) PROVE owner[s] = Me
<1>1. CoreTypes /\ Structure
  BY TypesGiveCore DEF DaemonInv
<1>2. s \in Nat /\ spawned \in Nat /\ phase[s] # "unused"
  BY <1>1, SessionAssumption DEF CoreTypes, Live, Sessions
<1>3. s <= spawned
  BY <1>1, <1>2 DEF Structure, SpawnedInOrder
<1> QED BY <1>1, <1>3 DEF Structure, SpawnedInOrder

(* The one session that lives is the one the handler answers for, if any.  *)
LEMMA OneLive ==
  ASSUME DaemonInv, Patient, NEW s \in Sessions, Live(s)
  PROVE  s = session[Me] \/ session[Me] = NoSession
<1>1. CoreTypes /\ Structure
  BY TypesGiveCore DEF DaemonInv
<1>2. owner[s] = Me
  BY LiveOwner
<1>3. s \in Handles(Me)
  BY <1>1, <1>2 DEF Structure, NoStraySession, Patient, Left
<1> QED BY <1>1, <1>3 DEF Structure, OneHandleAtATime, Handles

(* While a session lives, nothing is about to begin. *)
LEMMA LiveIsAmid ==
  ASSUME LabelInv, NEW s \in Sessions, Live(s)
  PROVE  /\ ~Clear /\ hpc[Me] = "select" /\ inbox[Me] # <<"start">>
         /\ ~Has(outbox[Me], "connected")
  BY DEF LabelInv, Course, Said, Clear

(* What a step of a session must respect. *)
LEMMA TaskLabel ==
  ASSUME DaemonInv, LabelInv, NEW s \in Sessions, Live(s),
         UNCHANGED <<hpc, inbox, outbox, gone, session, aborted, spawned, recording>>,
         \A t \in Sessions \ {s} : phase'[t] = phase[t],
         FromSession(resp'[Me]),
         \A t \in Sessions :
           FromSession(outgoing'[t]) /\ (Has(outgoing'[t], "idle") => phase'[t] = "ending"),
         IdleDue => IdleDue', Running' => Running,
         Running /\ Running' /\ IdleDue' => IdleDue,
         Running /\ ~Running' => IdleDue'
  PROVE  LabelInv'
<1>1. ~Clear /\ hpc[Me] = "select" /\ inbox[Me] # <<"start">> /\ ~Has(outbox[Me], "connected")
  BY LiveIsAmid
<1>2. Patient'
  <2>1. ASSUME NEW t \in aborted PROVE t <= spawned /\ ~Live(t)'
    <3>1. t \in Sessions
      BY TypesGiveCore DEF DaemonInv, CoreTypes
    <3>2. t # s /\ t <= spawned /\ ~Live(t)
      BY DEF LabelInv, Patient
    <3> QED BY <3>1, <3>2 DEF Live
  <2> QED BY <2>1 DEF LabelInv, Patient
<1>3. Said'
  <2>1. Has(outbox[Me], "connected")' = Has(outbox[Me], "connected")
    OBVIOUS
  <2> QED BY <1>1, <2>1 DEF LabelInv, Said
<1>4. Course'
  BY <1>1 DEF LabelInv, Course
<1> QED BY <1>2, <1>3, <1>4 DEF LabelInv

(* A step that says nothing and does not end the session. *)
LEMMA TaskQuiet ==
  ASSUME DaemonInv, LabelInv, NEW s \in Sessions, Live(s),
         UNCHANGED <<hpc, inbox, outbox, gone, resp, session, aborted, spawned, recording>>,
         phase' = phase \/ (phase[s] = "opening" /\ phase' = [phase EXCEPT ![s] = "loop"]),
         \A t \in Sessions : \A k \in {"recording", "connected", "idle"} :
           Has(outgoing'[t], k) <=> Has(outgoing[t], k)
  PROVE  LabelInv'
<1>1. CoreTypes
  BY TypesGiveCore DEF DaemonInv
<1>2. \A t \in Sessions : phase'[t] = phase[t] \/ (phase[t] = "opening" /\ phase'[t] = "loop")
  BY <1>1 DEF CoreTypes
<1>3. \A t \in Sessions : Live(t)' <=> Live(t)
  BY <1>2 DEF Live
<1>4. IdleDue' <=> IdleDue
  BY <1>3 DEF IdleDue
<1>5. Running' <=> Running
  BY <1>1, <1>2 DEF Running, CoreTypes
<1>6. \A t \in Sessions \ {s} : phase'[t] = phase[t]
  BY <1>1 DEF CoreTypes
<1>7. FromSession(resp'[Me])
  BY DEF LabelInv, Said
<1>8. \A t \in Sessions :
        FromSession(outgoing'[t]) /\ (Has(outgoing'[t], "idle") => phase'[t] = "ending")
  BY <1>2 DEF LabelInv, Said, FromSession
<1> QED BY <1>4, <1>5, <1>6, <1>7, <1>8, TaskLabel

(* run_session returns. *)
LEMMA TaskEnds ==
  ASSUME DaemonInv, LabelInv, NEW s \in Sessions, Live(s), NEW msgs \in Seq(Msgs),
         phase[s] \in {"opening", "loop"}, EndWith(s, msgs), FromSession(msgs),
         UNCHANGED <<hpc, inbox, outbox, gone, resp, session, aborted, spawned, recording>>
  PROVE  LabelInv'
<1>1. CoreTypes /\ TypeOK
  BY TypesGiveCore DEF DaemonInv
<1>2. Msg("idle", s) \in Msgs /\ Msg("idle", s).kind = "idle"
  BY DEF Msg, Msgs, Kinds
<1>3. \A k : Has(Append(msgs, Msg("idle", s)), k) <=> Has(msgs, k) \/ k = "idle"
  BY <1>2, HasAppend
<1>4. /\ phase'[s] = "ending" /\ outgoing'[s] = Append(msgs, Msg("idle", s))
      /\ \A t \in Sessions \ {s} : phase'[t] = phase[t] /\ outgoing'[t] = outgoing[t]
  BY <1>1 DEF EndWith, CoreTypes, TypeOK, TaskTypes
<1>5. IdleDue'
  BY <1>3, <1>4 DEF IdleDue, Live
<1>6. ~Running'
  <2>1. s = session[Me] \/ session[Me] = NoSession
    BY OneLive DEF LabelInv
  <2> QED BY <1>4, <2>1 DEF Running
<1>7. FromSession(resp'[Me])
  BY DEF LabelInv, Said
<1>8. \A t \in Sessions :
        FromSession(outgoing'[t]) /\ (Has(outgoing'[t], "idle") => phase'[t] = "ending")
  BY <1>3, <1>4 DEF LabelInv, Said, FromSession
<1> QED BY <1>4, <1>5, <1>6, <1>7, <1>8, TaskLabel

LEMMA AnswersFromSession ==
  ASSUME NEW s \in Sessions, NEW msgs \in Answers(s)
  PROVE  /\ msgs \in Seq(Msgs) /\ FromSession(msgs) /\ ~Has(msgs, "idle")
<1>1. /\ Msg("partial", s) \in Msgs /\ Msg("final", s) \in Msgs
      /\ Msg("partial", s).kind = "partial" /\ Msg("final", s).kind = "final"
  BY DEF Msg, Msgs, Kinds
<1>2. msgs \in Seq(Msgs) /\ \A i \in 1 .. Len(msgs) : msgs[i].kind \in {"partial", "final"}
  <2>1. CASE msgs = <<Msg("partial", s)>>
    BY <1>1, <2>1
  <2>2. CASE msgs = <<Msg("final", s)>>
    BY <1>1, <2>2
  <2>3. CASE msgs = <<Msg("partial", s), Msg("final", s)>>
    BY <1>1, <2>3
  <2> QED BY <2>1, <2>2, <2>3 DEF Answers
<1> QED BY <1>2 DEF FromSession, Has

LEMMA ErrorFromSession ==
  ASSUME NEW s \in Sessions
  PROVE  <<Msg("error", s)>> \in Seq(Msgs) /\ FromSession(<<Msg("error", s)>>)
<1>1. Msg("error", s) \in Msgs /\ Msg("error", s).kind = "error"
  BY DEF Msg, Msgs, Kinds
<1>2. <<Msg("error", s)>> \in Seq(Msgs) /\ Len(<<Msg("error", s)>>) = 1 /\ <<Msg("error", s)>>[1] = Msg("error", s)
  BY <1>1
<1> QED BY <1>1, <1>2 DEF FromSession, Has

(* What a session says goes into the answer channel. *)
LEMMA TaskSends ==
  ASSUME DaemonInv, LabelInv, NEW s \in Sessions, TaskSend(s), UNCHANGED recording
  PROVE  LabelInv'
<1> DEFINE q == outgoing[s]
<1>1. CoreTypes /\ TypeOK /\ Structure
  BY TypesGiveCore DEF DaemonInv
<1>2. owner[s] = Me /\ ~Left(Me) /\ Live(s)
  <2>1. Live(s) /\ ~Left(Me)
    BY DEF TaskSend, Live, Left, LabelInv, Patient
  <2> QED BY <2>1, LiveOwner
<1>3. q \in Seq(Msgs) /\ q # <<>> /\ Head(q) \in Msgs /\ Tail(q) \in Seq(Msgs) /\ resp[Me] \in Seq(Msgs)
  <2>1. q \in Seq(Msgs) /\ resp[Me] \in Seq(Msgs)
    BY <1>1 DEF TypeOK, TaskTypes, HandlerTypes
  <2>2. q # <<>>
    BY DEF TaskSend
  <2> HIDE DEF q
  <2> QED BY <2>1, <2>2
<1>4. /\ outgoing'[s] = Tail(q) /\ resp'[Me] = Append(resp[Me], Head(q))
      /\ \A t \in Sessions \ {s} : phase'[t] = phase[t] /\ outgoing'[t] = outgoing[t]
      /\ UNCHANGED <<hpc, inbox, outbox, gone, session, aborted, spawned>>
  BY <1>1, <1>2 DEF TaskSend, TypeOK, TaskTypes, HandlerTypes
<1>5. phase'[s] = phase[s] \/ (phase[s] = "ending" /\ Len(q) = 1 /\ phase'[s] = "over")
  BY <1>1 DEF TaskSend, CoreTypes
<1> HIDE DEF q
<1>6. Len(q) = 1 => \A k : ~Has(Tail(q), k)
  <2>1. Len(q) = 1 => Tail(q) = <<>>
    <3>1. Len(Tail(q)) = Len(q) - 1 /\ Tail(q) \in Seq(Msgs)
      BY <1>3
    <3>2. Tail(q) # <<>> => Len(Tail(q)) \in Nat \ {0}
      BY <3>1, EmptySeq, Zenon
    <3> QED BY ONLY <3>1, <3>2
  <2> QED BY <2>1, HasEmpty
<1>7. \A k : /\ Has(q, k) <=> Head(q).kind = k \/ Has(Tail(q), k)
             /\ Has(resp'[Me], k) <=> Has(resp[Me], k) \/ Head(q).kind = k
  BY <1>3, <1>4, HasTail, HasAppend
<1>8. FromSession(q) /\ (Has(q, "idle") => phase[s] = "ending") /\ FromSession(resp[Me])
  BY DEF LabelInv, Said, q
<1>9. FromSession(resp'[Me])
  BY <1>7, <1>8 DEF FromSession
<1>10. \A t \in Sessions :
         FromSession(outgoing'[t]) /\ (Has(outgoing'[t], "idle") => phase'[t] = "ending")
  <2>1. FromSession(Tail(q)) /\ (Has(Tail(q), "idle") => phase'[s] = "ending")
    BY <1>5, <1>6, <1>7, <1>8 DEF FromSession
  <2> QED BY <1>4, <2>1 DEF LabelInv, Said
<1>11. IdleDue => IdleDue'
  <2>1. Has(resp[Me], "idle") => Has(resp'[Me], "idle")
    BY <1>7
  <2>2. Has(q, "idle") => Has(resp'[Me], "idle") \/ (Live(s)' /\ Has(outgoing'[s], "idle"))
    BY <1>4, <1>5, <1>6, <1>7, <1>8 DEF Live
  <2>3. \A t \in Sessions \ {s} : Live(t) => Live(t)' /\ outgoing'[t] = outgoing[t]
    BY <1>4 DEF Live
  <2> QED BY <1>4, <2>1, <2>2, <2>3 DEF IdleDue, q
<1>12. Running' <=> Running
  BY <1>1, <1>4, <1>5 DEF Running, CoreTypes
<1>13. IdleDue' => IdleDue
  <2>1. Has(resp'[Me], "idle") => Has(resp[Me], "idle") \/ Has(q, "idle")
    BY <1>7
  <2>2. \A t \in Sessions : Live(t)' => Live(t)
    BY <1>4, <1>5 DEF Live
  <2>3. \A t \in Sessions : Has(outgoing'[t], "idle") => Has(outgoing[t], "idle")
    BY <1>4, <1>7 DEF q
  <2> QED BY <1>2, <1>4, <2>1, <2>2, <2>3 DEF IdleDue, q
<1> QED BY <1>2, <1>4, <1>9, <1>10, <1>11, <1>12, <1>13, TaskLabel

LEMMA TaskLabels ==
  ASSUME DaemonInv, LabelInv, NEW s \in Sessions, Task(s), UNCHANGED recording
  PROVE  LabelInv'
<1>1. TypeOK /\ Live(s)
  BY TaskStepMoves DEF DaemonInv, TaskMoves
<1>2. ASSUME UNCHANGED outgoing
      PROVE  \A t \in Sessions : \A k \in {"recording", "connected", "idle"} :
               Has(outgoing'[t], k) <=> Has(outgoing[t], k)
  BY <1>2
<1>3. CASE SendSetup(s)
  <2>1. UNCHANGED <<hpc, inbox, outbox, gone, resp, session, aborted, spawned>> /\ phase[s] = "opening"
    BY <1>3 DEF SendSetup, handlerVars
  <2>2. CASE phase' = [phase EXCEPT ![s] = "loop"] /\ UNCHANGED outgoing
    BY <1>1, <1>2, <2>1, <2>2, TaskQuiet
  <2>3. CASE EndWith(s, <<Msg("error", s)>>)
    BY <1>1, <2>1, <2>3, TaskEnds, ErrorFromSession
  <2> QED BY <1>3, <2>2, <2>3 DEF SendSetup
<1>4. CASE MicClosed(s) \/ ChunkFails(s)
  <2>1. UNCHANGED <<hpc, inbox, outbox, gone, resp, session, aborted, spawned>> /\ UNCHANGED <<phase, outgoing>>
    BY <1>4 DEF MicClosed, ChunkFails, handlerVars
  <2> QED BY <1>1, <1>2, <2>1, TaskQuiet
<1>5. CASE Response(s)
  <2>1. /\ UNCHANGED <<hpc, inbox, outbox, gone, resp, session, aborted, spawned>> /\ phase' = phase
        /\ outgoing[s] = <<>>
    BY <1>5 DEF Response, InLoop, handlerVars
  <2>2. PICK msgs \in Answers(s) : outgoing' = [outgoing EXCEPT ![s] = msgs]
    BY <1>5 DEF Response
  <2>3. outgoing'[s] = msgs /\ \A t \in Sessions \ {s} : outgoing'[t] = outgoing[t]
    BY <1>1, <2>2 DEF TypeOK, TaskTypes
  <2>4. \A k \in {"recording", "connected", "idle"} : ~Has(outgoing'[s], k) /\ ~Has(outgoing[s], k)
    BY <2>1, <2>3, HasEmpty, AnswersFromSession DEF FromSession
  <2> QED BY <1>1, <2>1, <2>3, <2>4, TaskQuiet
<1>6. CASE FinalResponse(s) \/ ServerError(s) \/ ServerCloses(s)
  <2>1. UNCHANGED <<hpc, inbox, outbox, gone, resp, session, aborted, spawned>> /\ phase[s] = "loop"
    BY <1>6 DEF FinalResponse, ServerError, ServerCloses, InLoop, handlerVars
  <2>2. PICK msgs \in {<<>>, <<Msg("error", s)>>} \cup Answers(s) : EndWith(s, msgs)
    BY <1>6 DEF FinalResponse, ServerError, ServerCloses
  <2>3. <<>> \in Seq(Msgs) /\ FromSession(<<>>)
    BY HasEmpty DEF FromSession
  <2>4. msgs \in Seq(Msgs) /\ FromSession(msgs)
    BY <2>3, ErrorFromSession, AnswersFromSession
  <2> QED BY <1>1, <2>1, <2>2, <2>4, TaskEnds
<1>7. CASE TaskSend(s)
  BY <1>7, TaskSends
<1>8. CASE Cancelled(s)
  BY <1>8 DEF Cancelled, LabelInv, Patient
<1> QED BY <1>3, <1>4, <1>5, <1>6, <1>7, <1>8 DEF Task

-----------------------------------------------------------------------------
(* The handler. *)

LEMMA WriteMe ==
  ASSUME TypeOK, Patient, NEW m \in Msgs, Write(Me, m)
  PROVE  /\ outbox'[Me] = Append(outbox[Me], m)
         /\ \A k : Has(outbox'[Me], k) <=> Has(outbox[Me], k) \/ m.kind = k
<1>1. outbox[Me] \in Seq(Msgs) /\ outbox'[Me] = Append(outbox[Me], m)
  BY DEF TypeOK, HandlerTypes, Write, Patient
<1> QED BY <1>1, HasAppend

LEMMA HandlerMsgs ==
  \A k \in Kinds : Msg(k, NoSession) \in Msgs /\ Msg(k, NoSession).kind = k
  BY DEF Msg, Msgs

(* A line is taken: it was the only one. *)
LEMMA ReadsMe ==
  ASSUME TypeOK, LabelInv, NEW line, Reads(Me, line)
  PROVE  /\ inbox[Me] = <<line>> /\ inbox'[Me] = <<>> /\ line \in {"start", "stop"}
         /\ hpc[Me] = "select" /\ ~Has(outbox[Me], "connected")
<1>1. inbox[Me] # <<>> /\ Head(inbox[Me]) = line /\ inbox'[Me] = Tail(inbox[Me]) /\ hpc[Me] = "select"
  BY DEF Reads, Selects, TypeOK, HandlerTypes
<1>2. inbox[Me] = <<"start">> \/ inbox[Me] = <<"stop">>
  BY <1>1 DEF LabelInv, Patient
<1>3. inbox[Me] = <<line>> /\ inbox'[Me] = <<>> /\ line \in {"start", "stop"}
  <2>1. CASE inbox[Me] = <<"start">>
    BY <1>1, <2>1
  <2>2. CASE inbox[Me] = <<"stop">>
    BY <1>1, <2>2
  <2> QED BY <1>2, <2>1, <2>2
<1> QED BY <1>1, <1>3 DEF LabelInv, Said

(* What the sessions are and have yet to say stays as it is. *)
TasksStay == UNCHANGED <<gone, resp, spawned, phase, outgoing, recording>>

LEMMA StartLabel ==
  ASSUME DaemonInv, LabelInv, HandleStart(Me), UNCHANGED recording PROVE LabelInv'
<1>1. TypeOK /\ CoreTypes /\ Structure
  BY TypesGiveCore DEF DaemonInv
<1>2. inbox[Me] = <<"start">> /\ inbox'[Me] = <<>> /\ ~Has(outbox[Me], "connected")
  BY <1>1, ReadsMe DEF HandleStart
<1>3. TasksStay /\ UNCHANGED outbox /\ hpc'[Me] = "take" /\ aborted' = aborted \cup Handles(Me)
  BY <1>1 DEF HandleStart, CoreTypes, TasksStay
<1>4. Clear
  BY <1>2 DEF LabelInv, Course
<1>5. Clear'
  BY <1>3, <1>4 DEF Clear, TasksStay, Live
<1>6. Patient'
  <2>1. ASSUME NEW s \in aborted' PROVE s <= spawned /\ ~Live(s)'
    <3>1. s <= spawned
      BY <1>1, <1>3 DEF LabelInv, Patient, Structure, HandlesOwned
    <3>2. s \in Sessions
      BY <1>1, <1>3 DEF CoreTypes, Handles
    <3> QED BY <1>5, <3>1, <3>2 DEF Clear
  <2> QED BY <1>2, <1>3, <2>1 DEF LabelInv, Patient, TasksStay
<1>7. Said'
  BY <1>2, <1>3 DEF LabelInv, Said, TasksStay
<1>8. Course'
  BY <1>2, <1>3, <1>5 DEF Course
<1> QED BY <1>6, <1>7, <1>8 DEF LabelInv

LEMMA StopLabel ==
  ASSUME DaemonInv, LabelInv, HandleStop(Me), UNCHANGED recording PROVE LabelInv'
<1>1. TypeOK /\ CoreTypes /\ Structure
  BY TypesGiveCore DEF DaemonInv
<1>2. inbox[Me] = <<"stop">> /\ inbox'[Me] = <<>> /\ hpc[Me] = "select" /\ ~Has(outbox[Me], "connected")
  BY <1>1, ReadsMe DEF HandleStop
<1>3. TasksStay /\ hpc'[Me] = "select" /\ session'[Me] = NoSession
  BY <1>1, <1>2 DEF HandleStop, CoreTypes, TasksStay
<1>4. aborted' = aborted
  <2>1. session[Me] # NoSession => draining[Me] = NoSession
    BY <1>1 DEF Structure, OneHandleAtATime
  <2> QED BY <2>1 DEF HandleStop
<1>5. \/ UNCHANGED outbox
      \/ /\ outbox'[Me] = Append(outbox[Me], Msg("idle", NoSession))
         /\ \A k : Has(outbox'[Me], k) <=> Has(outbox[Me], k) \/ "idle" = k
  BY <1>1, WriteMe, HandlerMsgs DEF HandleStop, Kinds, LabelInv
<1>6. Msg("idle", NoSession) \in Msgs /\ Msg("idle", NoSession).kind = "idle" /\ outbox[Me] \in Seq(Msgs)
  BY <1>1, HandlerMsgs DEF Kinds, TypeOK, HandlerTypes
<1>7. ~recording /\ ~Has(outbox[Me], "recording") /\ IdleLast(outbox[Me])
  BY <1>2 DEF LabelInv, Course, Said
<1>8. ~Has(outbox'[Me], "connected") /\ ~Has(outbox'[Me], "recording")
  BY <1>2, <1>5, <1>7
<1>9. IdleLast(outbox'[Me])
  <2>1. IdleLast(Append(outbox[Me], Msg("idle", NoSession)))
    BY <1>6, <1>7, IdleLastAppend
  <2> QED BY <1>5, <1>7, <2>1
<1>10. Patient'
  BY <1>2, <1>3, <1>4 DEF LabelInv, Patient, TasksStay, Live
<1>11. Said'
  BY <1>3, <1>8, <1>9 DEF LabelInv, Said, TasksStay
<1>12. Course'
  BY <1>2, <1>3, <1>7, <1>8 DEF Course, Running, TasksStay
<1> QED BY <1>10, <1>11, <1>12 DEF LabelInv

(* Steps before a session begins that only announce something. *)
LEMMA ClearLabel ==
  ASSUME DaemonInv, LabelInv, Clear, session[Me] = NoSession, TasksStay, UNCHANGED <<aborted, session>>,
         inbox'[Me] = <<>>, hpc'[Me] \in {"select", "take", "dial"},
         NEW m \in Msgs, UNCHANGED outbox \/ Write(Me, m),
         m.kind \in {"connected", "connecting", "error"},
         m.kind = "connected" \/ Has(outbox[Me], "connected") => hpc'[Me] = "select"
  PROVE  LabelInv'
<1>1. TypeOK /\ outbox[Me] \in Seq(Msgs) /\ Patient /\ Said
  BY DEF DaemonInv, TypeOK, HandlerTypes, LabelInv
<1>2. \/ UNCHANGED outbox
      \/ /\ outbox'[Me] = Append(outbox[Me], m)
         /\ \A k : Has(outbox'[Me], k) <=> Has(outbox[Me], k) \/ m.kind = k
  BY <1>1, WriteMe
<1>3. ~Has(outbox'[Me], "recording") /\ ~Has(outbox'[Me], "idle")
  BY <1>2 DEF Clear
<1>4. Clear'
  BY <1>3 DEF Clear, TasksStay, Live
<1>5. IdleLast(outbox'[Me])
  <2>1. IdleLast(Append(outbox[Me], m))
    BY <1>1, IdleLastAppend DEF Said
  <2> QED BY <1>1, <1>2, <2>1 DEF Said
<1>6. Has(outbox'[Me], "connected") => hpc'[Me] = "select"
  BY <1>2
<1>7. Patient'
  BY <1>1 DEF Patient, TasksStay, Live
<1>8. Said'
  BY <1>1, <1>4, <1>5, <1>6 DEF Said, TasksStay
<1>9. Course'
  BY <1>3, <1>4 DEF Course, Running, Clear
<1> QED BY <1>7, <1>8, <1>9 DEF LabelInv

(* A session begins. *)
LEMMA BeginLabel ==
  ASSUME DaemonInv, LabelInv, Begin(Me), hpc[Me] \in {"take", "dial"}, UNCHANGED recording
  PROVE  LabelInv'
<1> DEFINE n == spawned + 1
<1>1. TypeOK /\ CoreTypes /\ Structure
  BY TypesGiveCore DEF DaemonInv
<1>2. n \in Sessions /\ spawned \in Nat /\ spawned' = n /\ n > spawned
  BY <1>1, SessionAssumption DEF Begin, CoreTypes, Sessions
<1>3. phase[n] = "unused"
  BY <1>1, <1>2 DEF Structure, SpawnedInOrder
<1>4. /\ phase'[n] = "opening" /\ session'[Me] = n /\ hpc'[Me] = "select"
      /\ \A s \in Sessions \ {n} : phase'[s] = phase[s]
      /\ UNCHANGED <<inbox, gone, resp, aborted, outgoing>>
  BY <1>1, <1>2 DEF Begin, CoreTypes
<1>5. Clear /\ inbox[Me] = <<>> /\ ~Has(outbox[Me], "connected")
  BY DEF LabelInv, Patient, Said, Course
<1>6. /\ outbox'[Me] = Append(outbox[Me], Msg("recording", NoSession))
      /\ \A k : Has(outbox'[Me], k) <=> Has(outbox[Me], k) \/ "recording" = k
  BY <1>1, WriteMe, HandlerMsgs DEF Begin, Kinds, LabelInv
<1> HIDE DEF n
<1>7. Patient'
  <2>1. ASSUME NEW s \in aborted PROVE s <= n /\ ~Live(s)'
    <3>1. s \in Sessions /\ s <= spawned /\ ~Live(s)
      BY <1>1 DEF CoreTypes, LabelInv, Patient
    <3>2. s # n /\ s <= n
      BY <1>2, <3>1 DEF Sessions, n
    <3> QED BY <1>4, <3>1, <3>2 DEF Live
  <2> QED BY <1>2, <1>4, <1>5, <2>1 DEF LabelInv, Patient
<1>8. ~Has(outgoing[n], "idle")
  BY <1>2, <1>3 DEF LabelInv, Said
<1>9. Said'
  <2>1. IdleLast(outbox'[Me])
    <3>1. outbox[Me] \in Seq(Msgs) /\ Msg("recording", NoSession) \in Msgs
      BY <1>1, HandlerMsgs DEF Kinds, TypeOK, HandlerTypes
    <3> QED BY <1>5, <1>6, <3>1, IdleLastAppend DEF LabelInv, Said, Clear
  <2>2. ~Has(outbox'[Me], "connected")
    BY <1>5, <1>6
  <2>3. ASSUME NEW s \in Sessions
        PROVE  FromSession(outgoing[s]) /\ (Has(outgoing[s], "idle") => phase'[s] = "ending")
    BY <1>4, <1>8, <2>3 DEF LabelInv, Said
  <2> QED BY <1>4, <2>1, <2>2, <2>3 DEF LabelInv, Said
<1>10. Running'
  BY <1>2, <1>4, SessionAssumption DEF Running, Sessions
<1>11. ~IdleDue'
  <2>1. ~Has(outbox'[Me], "idle") /\ ~Has(resp'[Me], "idle")
    BY <1>4, <1>5, <1>6, HasEmpty DEF Clear
  <2>2. \A s \in Sessions : Live(s)' => s = n
    BY <1>4, <1>5 DEF Clear, Live
  <2> QED BY <1>4, <1>8, <2>1, <2>2 DEF IdleDue
<1>12. Course'
  BY <1>4, <1>5, <1>6, <1>10, <1>11 DEF Course
<1> QED BY <1>7, <1>9, <1>12 DEF LabelInv

(* An answer is passed on. *)
LEMMA ForwardLabel ==
  ASSUME DaemonInv, LabelInv, Forward(Me), UNCHANGED recording PROVE LabelInv'
<1> DEFINE m == Head(resp[Me])
<1>1. TypeOK /\ resp[Me] \in Seq(Msgs) /\ outbox[Me] \in Seq(Msgs) /\ resp[Me] # <<>>
  BY DEF DaemonInv, TypeOK, HandlerTypes, Forward
<1>2. m \in Msgs
  BY <1>1
<1>3. /\ UNCHANGED <<hpc, inbox, gone, session, aborted, spawned, phase, outgoing>>
      /\ hpc[Me] = "select" /\ resp'[Me] = Tail(resp[Me]) /\ Write(Me, m)
  BY <1>1 DEF Forward, Selects, taskVars, TypeOK, HandlerTypes
<1> HIDE DEF m
<1>4. /\ outbox'[Me] = Append(outbox[Me], m)
      /\ \A k : Has(outbox'[Me], k) <=> Has(outbox[Me], k) \/ m.kind = k
  BY <1>1, <1>2, <1>3, WriteMe DEF LabelInv
<1>5. \A k : Has(resp[Me], k) <=> m.kind = k \/ Has(resp'[Me], k)
  BY <1>1, <1>3, HasTail DEF m
<1>6. ~Clear /\ inbox[Me] # <<"start">> /\ ~Has(outbox[Me], "connected")
  BY <1>1 DEF Clear, LabelInv, Course, Said
<1>7. m.kind # "recording" /\ m.kind # "connected" /\ FromSession(resp'[Me])
  BY <1>5 DEF LabelInv, Said, FromSession
<1>8. IdleLast(outbox'[Me])
  BY <1>1, <1>2, <1>4, <1>7, IdleLastAppend DEF LabelInv, Said
<1>9. Patient'
  BY <1>3 DEF LabelInv, Patient, Live
<1>10. Said'
  BY <1>3, <1>4, <1>6, <1>7, <1>8 DEF LabelInv, Said
<1>11. (IdleDue' <=> IdleDue) /\ (Running' <=> Running)
  BY <1>3, <1>4, <1>5 DEF IdleDue, Running, Live
<1>12. Has(outbox'[Me], "recording") <=> Has(outbox[Me], "recording")
  BY <1>4, <1>7
<1>13. Course'
  BY <1>3, <1>6, <1>11, <1>12 DEF LabelInv, Course
<1> QED BY <1>9, <1>10, <1>13 DEF LabelInv

LEMMA HandlerLabels ==
  ASSUME DaemonInv, LabelInv, Handler(Me), UNCHANGED recording PROVE LabelInv'
<1>1. TypeOK /\ CoreTypes /\ Structure
  BY TypesGiveCore DEF DaemonInv
<1>2. hpc[Me] # "select" => session[Me] = NoSession /\ inbox[Me] = <<>> /\ Clear /\ ~Has(outbox[Me], "connected")
  BY <1>1 DEF Structure, HandlesOnlyInSelect, LabelInv, Patient, Course, Said
<1>3. CASE Accept(Me)
  <2>1. /\ TasksStay /\ UNCHANGED <<aborted, session, inbox>> /\ hpc[Me] = "absent" /\ hpc'[Me] = "select"
        /\ UNCHANGED outbox \/ Write(Me, Msg("connected", NoSession))
    BY <1>1, <1>3 DEF Accept, TasksStay, taskVars, CoreTypes
  <2>2. Msg("connected", NoSession) \in Msgs /\ Msg("connected", NoSession).kind = "connected"
    BY HandlerMsgs DEF Kinds
  <2> QED BY <1>2, <2>1, <2>2, ClearLabel
<1>4. CASE NoSpare(Me) \/ DialFail(Me)
  <2>1. PICK k \in {"connecting", "error"} :
          /\ TasksStay /\ UNCHANGED <<aborted, session, inbox>>
          /\ hpc[Me] \in {"take", "dial"} /\ hpc'[Me] \in {"select", "dial"}
          /\ Write(Me, Msg(k, NoSession))
    BY <1>1, <1>4 DEF NoSpare, DialFail, TasksStay, taskVars, CoreTypes
  <2>2. Msg(k, NoSession) \in Msgs /\ Msg(k, NoSession).kind = k
    BY <2>1, HandlerMsgs DEF Kinds
  <2> QED BY <1>2, <2>1, <2>2, ClearLabel
<1>5. CASE TakeSpare(Me) \/ DialOk(Me)
  BY <1>5, BeginLabel DEF TakeSpare, DialOk
<1>6. CASE HandleStart(Me) \/ HandleStop(Me)
  BY <1>6, StartLabel, StopLabel
<1>7. CASE HandleCancel(Me) \/ HandleOther(Me)
  BY <1>1, <1>7, ReadsMe DEF HandleCancel, HandleOther
<1>8. CASE Forward(Me)
  BY <1>8, ForwardLabel
<1>9. CASE HandleEof(Me) \/ HandleReadError(Me)
  <2>1. /\ inbox[Me] # <<>> => Head(inbox[Me]) \in {"start", "stop"}
        /\ gone[Me] = "no"
    BY DEF LabelInv, Patient
  <2> QED BY <1>9, <2>1 DEF HandleEof, HandleReadError, ReadsEnd, LabelInv, Patient
<1> QED BY <1>3, <1>4, <1>5, <1>6, <1>7, <1>8, <1>9 DEF Handler

-----------------------------------------------------------------------------
(* The engine. *)

(* When nothing is under way, the label is right. *)
LEMMA QuietAgrees ==
  ASSUME DaemonInv, LabelInv, Quiet(Me)
  PROVE  /\ recording <=> Running
         /\ \A s \in Sessions : Live(s) => Running /\ s = session[Me]
<1>1. hpc[Me] = "select" /\ inbox[Me] = <<>> /\ resp[Me] = <<>> /\ outbox[Me] = <<>>
  BY DEF Quiet
<1>2. \A s \in Sessions : Live(s) =>
        s = session[Me] /\ phase[s] = "loop" /\ outgoing[s] = <<>>
  BY LiveOwner DEF Quiet
<1>3. ~IdleDue /\ ~Has(outbox[Me], "recording")
  BY <1>1, <1>2, HasEmpty DEF IdleDue
<1>4. recording <=> Running
  BY <1>1, <1>3 DEF LabelInv, Course
<1>5. \A s \in Sessions : Live(s) => Running
  BY <1>2, SessionAssumption DEF Running, Sessions
<1> QED BY <1>2, <1>4, <1>5

(* A key sends its line when nothing is under way. *)
LEMMA KeyLabel ==
  ASSUME DaemonInv, LabelInv, PressStart \/ PressStop PROVE LabelInv'
<1>1. TypeOK /\ CoreTypes
  BY TypesGiveCore DEF DaemonInv
<1>2. Quiet(Me)
  BY DEF PressStart, PressStop, MayPress
<1>3. hpc[Me] = "select" /\ inbox[Me] = <<>> /\ resp[Me] = <<>> /\ outbox[Me] = <<>>
  BY <1>2 DEF Quiet
<1>4. PICK line \in {"start", "stop"} :
        /\ ClientSends(Me, line)
        /\ line = "start" => ~recording
        /\ ~recording'
  <2>1. CASE PressStart
    <3>1. ClientSends(Me, "start") /\ ~recording /\ recording' = recording
      BY <2>1 DEF PressStart, E!StartDictation
    <3>2. ~recording'
      BY <3>1, Zenon
    <3> QED BY <3>1, <3>2
  <2>2. CASE PressStop
    <3>1. ClientSends(Me, "stop") /\ E!SetStatus("idle")
      BY <2>2 DEF PressStop, E!StopDictation
    <3>2. recording' = FALSE
      BY <3>1 DEF E!SetStatus
    <3> QED BY <3>1, <3>2
  <2> QED BY <2>1, <2>2
<1>5. /\ UNCHANGED <<hpc, gone, outbox, resp, session, spawned, phase, aborted, outgoing>>
      /\ inbox'[Me] = <<line>>
  <2>1. inbox'[Me] = Append(inbox[Me], line)
    BY <1>1, <1>4 DEF ClientSends, TypeOK, HandlerTypes
  <2>2. Append(<<>>, line) = <<line>>
    OBVIOUS
  <2> QED BY <1>3, <1>4, <2>1, <2>2 DEF ClientSends, taskVars
<1>6. inbox'[Me] # <<>> /\ (inbox'[Me] = <<"start">> => line = "start")
  BY <1>5
<1>7. \A k : ~Has(outbox'[Me], k)
  BY <1>3, <1>5, HasEmpty
<1>8. line = "start" => Clear'
  <2> SUFFICES ASSUME line = "start" PROVE Clear'
    OBVIOUS
  <2>1. \A s \in Sessions : ~Live(s)
    BY <1>2, <1>4, QuietAgrees
  <2> QED BY <1>3, <1>4, <1>5, <1>7, <2>1 DEF Clear, Live
<1>9. Patient'
  <2>1. inbox'[Me] \in {<<"start">>, <<"stop">>}
    BY <1>4, <1>5
  <2> QED BY <1>3, <1>5, <2>1 DEF LabelInv, Patient, Live
<1>10. Said'
  <2>1. IdleLast(outbox'[Me])
    BY <1>3, <1>5 DEF IdleLast
  <2> QED BY <1>5, <1>7, <2>1 DEF LabelInv, Said
<1>11. Course'
  BY <1>3, <1>4, <1>5, <1>6, <1>7, <1>8 DEF Course
<1> QED BY <1>9, <1>10, <1>11 DEF LabelInv

(* What a message makes of the label. *)
LEMMA ReceiveSets ==
  ASSUME NEW m, E!Receive(m)
  PROVE  /\ m.kind = "recording" => recording'
         /\ m.kind \in {"idle", "connected"} => ~recording'
         /\ m.kind \notin {"recording", "idle", "connected"} => recording' = recording
<1>1. CASE m.kind \in E!States /\ E!SetStatus(m.kind)
  BY <1>1 DEF E!SetStatus, E!States
<1>2. CASE m.kind \in {"partial", "final", "error"} /\ recording' = recording
  BY <1>2
<1> QED BY <1>1, <1>2 DEF E!Receive, E!UpdatePreedit, E!CommitText, E!engineVars

LEMMA DeliverLabel ==
  ASSUME DaemonInv, LabelInv, Deliver PROVE LabelInv'
<1> DEFINE m == Head(outbox[Me])
<1>1. TypeOK /\ outbox[Me] \in Seq(Msgs) /\ outbox[Me] # <<>> /\ outbox'[Me] = Tail(outbox[Me])
  BY DEF DaemonInv, TypeOK, HandlerTypes, Deliver, ClientReads
<1>2. UNCHANGED <<hpc, inbox, gone, resp, session, spawned, phase, aborted, outgoing>>
  BY DEF Deliver, ClientReads, taskVars
<1>3. /\ m.kind = "recording" => recording'
      /\ m.kind \in {"idle", "connected"} => ~recording'
      /\ m.kind \notin {"recording", "idle", "connected"} => recording' = recording
  BY ReceiveSets DEF Deliver
<1>4. \A k : Has(outbox[Me], k) <=> m.kind = k \/ Has(outbox'[Me], k)
  BY <1>1, HasTail
<1>5. IdleLast(outbox'[Me]) /\ (m.kind = "idle" => ~Has(outbox'[Me], "recording"))
  BY <1>1, IdleLastTail DEF LabelInv, Said
<1> HIDE DEF m
<1>6. Clear => Clear' /\ m.kind # "recording" /\ m.kind # "idle"
  BY <1>2, <1>3, <1>4 DEF Clear, Live
<1>7. m.kind = "connected" =>
        Clear /\ session[Me] = NoSession /\ inbox[Me] = <<>> /\ hpc[Me] = "select"
  BY <1>4 DEF LabelInv, Said
<1>8. Patient'
  BY <1>2 DEF LabelInv, Patient, Live
<1>9. Said'
  BY <1>2, <1>4, <1>5, <1>6 DEF LabelInv, Said
<1>10. inbox[Me] = <<"stop">> => ~recording' /\ ~Has(outbox'[Me], "recording")
  BY <1>3, <1>4 DEF LabelInv, Course
<1>11. ASSUME inbox[Me] = <<>>, hpc[Me] = "select"
       PROVE  IF Running THEN ~IdleDue' /\ (recording' \/ Has(outbox'[Me], "recording"))
              ELSE IdleDue' \/ (~recording' /\ ~Has(outbox'[Me], "recording"))
  <2>1. IdleDue <=> m.kind = "idle" \/ IdleDue'
    BY <1>2, <1>4 DEF IdleDue, Live
  <2>2. IF Running THEN ~IdleDue /\ (recording \/ Has(outbox[Me], "recording"))
        ELSE IdleDue \/ (~recording /\ ~Has(outbox[Me], "recording"))
    BY <1>11 DEF LabelInv, Course
  <2>3. CASE m.kind = "recording"
    BY <1>3, <2>1, <2>2, <2>3, <1>4
  <2>4. CASE m.kind = "idle"
    BY <1>3, <1>5, <2>1, <2>2, <2>4
  <2>5. CASE m.kind = "connected"
    <3>1. ~Running /\ Clear
      BY <1>7, <2>5 DEF Running
    <3> QED BY <1>6, <3>1 DEF Clear
  <2>6. CASE m.kind \notin {"recording", "idle", "connected"}
    BY <1>3, <1>4, <2>1, <2>2, <2>6
  <2> QED BY <2>3, <2>4, <2>5, <2>6
<1>12. Running' <=> Running
  BY <1>2 DEF Running
<1>13. Course'
  BY <1>2, <1>6, <1>10, <1>11, <1>12 DEF LabelInv, Course
<1> QED BY <1>8, <1>9, <1>13 DEF LabelInv

LEMMA StillLabel ==
  ASSUME LabelInv, UNCHANGED <<vars, recording>> PROVE LabelInv'
<1>1. UNCHANGED <<hpc, inbox, gone, outbox, resp, session, spawned, phase, aborted, outgoing, recording>>
  BY DEF vars, handlerVars, taskVars
<1>2. (Clear' <=> Clear) /\ (IdleDue' <=> IdleDue) /\ (Running' <=> Running)
  BY <1>1 DEF Clear, IdleDue, Running, Live
<1>3. Patient'
  BY <1>1 DEF LabelInv, Patient, Live
<1>4. Said'
  BY <1>1, <1>2 DEF LabelInv, Said
<1>5. Course'
  BY <1>1, <1>2 DEF LabelInv, Course
<1> QED BY <1>3, <1>4, <1>5 DEF LabelInv

LEMMA LabelStep ==
  ASSUME DaemonInv, LabelInv, [DictationNext]_<<vars, engineVars>> PROVE LabelInv'
<1>1. CASE PressStart \/ PressStop
  BY <1>1, KeyLabel
<1>2. CASE Deliver
  BY <1>2, DeliverLabel
<1>3. CASE Focus \/ UNCHANGED <<vars, engineVars>>
  BY <1>3, StillLabel DEF Focus, E!Deactivate, E!FocusIn, engineVars
<1>4. CASE Internal
  <2>1. UNCHANGED recording
    BY <1>4 DEF Internal, engineVars
  <2>2. CASE Handler(Me)
    BY <2>1, <2>2, HandlerLabels
  <2>3. CASE \E s \in Sessions : Task(s)
    BY <2>1, <2>3, TaskLabels
  <2>4. CASE Refill
    <3>1. UNCHANGED <<hpc, inbox, gone, outbox, resp, session, spawned, phase, aborted, outgoing, recording>>
      BY <2>1, <2>4 DEF Refill, handlerVars, taskVars
    <3>2. (Clear' <=> Clear) /\ (IdleDue' <=> IdleDue) /\ (Running' <=> Running)
      BY <3>1 DEF Clear, IdleDue, Running, Live
    <3>3. Patient' /\ Said'
      BY <3>1, <3>2 DEF LabelInv, Patient, Said, Live
    <3>4. Course'
      BY <3>1, <3>2 DEF LabelInv, Course
    <3> QED BY <3>3, <3>4 DEF LabelInv
  <2> QED BY <1>4, <2>2, <2>3, <2>4 DEF Internal
<1> QED BY <1>1, <1>2, <1>3, <1>4 DEF DictationNext

LEMMA LabelInit ==
  ASSUME DictationInit PROVE LabelInv
<1> USE DEF DictationInit, Init, E!Init
<1>1. /\ gone[Me] = "no" /\ hpc[Me] = "absent" /\ inbox[Me] = <<>> /\ outbox[Me] = <<>>
      /\ resp[Me] = <<>> /\ ~recording /\ aborted = {}
  OBVIOUS
<1>2. \A s \in Sessions : phase[s] = "unused" /\ outgoing[s] = <<>>
  OBVIOUS
<1>3. Clear
  BY <1>1, <1>2, HasEmpty DEF Clear, Live
<1>4. IdleLast(outbox[Me])
  BY <1>1 DEF IdleLast
<1> QED BY <1>1, <1>2, <1>3, <1>4, HasEmpty DEF LabelInv, Patient, Said, Course, FromSession

(* Every step of a dictation is a step of the daemon, or none of it. *)
LEMMA DaemonSteps ==
  ASSUME [DictationNext]_<<vars, engineVars>> PROVE [Next]_vars
<1>1. CASE PressStart \/ PressStop
  BY <1>1 DEF PressStart, PressStop, Next, Client
<1>2. CASE Deliver
  BY <1>2 DEF Deliver, Next, Client
<1>3. CASE Focus \/ UNCHANGED <<vars, engineVars>>
  BY <1>3 DEF Focus
<1>4. CASE Internal
  BY <1>4 DEF Internal, Next
<1> QED BY <1>1, <1>2, <1>3, <1>4 DEF DictationNext

(* A dictation is a behaviour of the daemon with one connection, whatever  *)
(* the user does: all that is proved of Daemon, its refinements included,  *)
(* holds of the handler and the sessions behind the engine (ipc.rs,        *)
(* asr.rs).                                                                *)
THEOREM DictationRunsDaemon == DictationSpec => Spec
<1>1. DictationInit => Init
  BY DEF DictationInit
<1>2. [DictationNext]_<<vars, engineVars>> => [Next]_vars
  BY DaemonSteps
<1> QED BY <1>1, <1>2, PTL DEF DictationSpec, Spec

AgreeInv == DaemonInv /\ ActiveHasMic /\ LabelInv

(* For a user who waits until nothing is under way, recording_ of the      *)
(* engine says whether the daemon has a session that records               *)
(* (addon.cpp:77-100 against ipc.rs:78-163 and asr.rs:169-249).            *)
THEOREM EngineAgrees == DictationSpec => []LabelsAgree
<1>1. DictationInit => AgreeInv
  <2> SUFFICES ASSUME DictationInit PROVE AgreeInv
    OBVIOUS
  <2>1. DaemonInv
    BY InitTypes, InitStructure DEF DaemonInv, DictationInit
  <2>2. ActiveHasMic
    BY DEF ActiveHasMic, DictationInit, Init
  <2> QED BY <2>1, <2>2, LabelInit DEF AgreeInv
<1>2. AgreeInv /\ [DictationNext]_<<vars, engineVars>> => AgreeInv'
  <2> SUFFICES ASSUME AgreeInv, [DictationNext]_<<vars, engineVars>> PROVE AgreeInv'
    OBVIOUS
  <2>1. [Next]_vars
    BY DaemonSteps
  <2>2. DaemonInv'
    BY <2>1, TypeStep, StructureStep DEF AgreeInv, DaemonInv
  <2>3. ActiveHasMic'
    BY <2>1, OneClientStep, TypesGiveCore DEF AgreeInv, DaemonInv
  <2>4. LabelInv'
    BY LabelStep DEF AgreeInv
  <2> QED BY <2>2, <2>3, <2>4 DEF AgreeInv
<1>3. AgreeInv => LabelsAgree
  <2> SUFFICES ASSUME AgreeInv, Quiet(Me) PROVE recording <=> Records
    BY DEF LabelsAgree
  <2>1. recording <=> Running
    BY QuietAgrees DEF AgreeInv
  <2>2. session[Me] # NoSession => session[Me] \in Sessions /\ target = session[Me]
    BY TypesGiveCore DEF AgreeInv, DaemonInv, CoreTypes, ActiveHasMic
  <2>3. Running <=> Records
    BY <2>2, QuietAgrees DEF AgreeInv, Running, Records, Live
  <2> QED BY <2>1, <2>3
<1> QED BY <1>1, <1>2, <1>3, PTL DEF DictationSpec

=============================================================================
