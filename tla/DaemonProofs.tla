---------------------------- MODULE DaemonProofs ----------------------------
(***************************************************************************)
(* Theorems of Daemon, for any number of connections, sessions, lines and  *)
(* answers.  DaemonInv is inductive; most safety properties are its        *)
(* conjuncts, IdleIsLast needs AnswerInv beside it, and the refinements    *)
(* rest on it.                                                             *)
(***************************************************************************)
EXTENDS Daemon, TLAPS

USE SessionAssumption, BoundAssumption, LinesAssumption DEF Sessions

LEMMA InitTypes == Init => TypeOK
<1> SUFFICES ASSUME Init PROVE TypeOK
  OBVIOUS
<1> USE DEF Init
<1>1. HandlerTypes
  <2>1. /\ hpc \in [Clients -> {"absent", "select", "take", "dial", "closed", "failed"}]
        /\ gone \in [Clients -> {"no", "eof", "reset"}]
    OBVIOUS
  <2>2. inbox \in [Clients -> Seq(Lines)] /\ lines \in [Clients -> 0 .. MaxLines]
    OBVIOUS
  <2>3. outbox \in [Clients -> Seq(Msgs)] /\ resp \in [Clients -> Seq(Msgs)]
    OBVIOUS
  <2>4. ASSUME NEW c \in Clients PROVE Len(resp[c]) <= RespCap
    <3>1. resp[c] = <<>>
      OBVIOUS
    <3>2. Len(resp[c]) = 0
      BY ONLY <3>1
    <3> QED BY ONLY <3>2, BoundAssumption
  <2>5. /\ session \in [Clients -> Sessions \cup {NoSession}]
        /\ draining \in [Clients -> Sessions \cup {NoSession}]
    OBVIOUS
  <2> QED BY <2>1, <2>2, <2>3, <2>4, <2>5 DEF HandlerTypes
<1>2. TaskTypes
  <2>1. spawned \in 0 .. MaxSessions /\ aborted \subseteq Sessions
    OBVIOUS
  <2>2. /\ phase \in [Sessions ->
                        {"unused", "opening", "loop", "ending", "over", "cancelled"}]
        /\ owner \in [Sessions -> Clients \cup {NoClient}]
        /\ mic \in [Sessions -> {"open", "ended", "broken"}]
    OBVIOUS
  <2>3. outgoing \in [Sessions -> Seq(Msgs)] /\ said \in 0 .. MaxTexts
    BY BoundAssumption
  <2> QED BY <2>1, <2>2, <2>3 DEF TaskTypes
<1>3. SharedTypes
  BY DEF SharedTypes
<1> QED BY <1>1, <1>2, <1>3 DEF TypeOK

LEMMA InitStructure == Init => Structure
<1> SUFFICES ASSUME Init PROVE Structure
  OBVIOUS
<1> USE DEF Init
<1>2. SpawnedInOrder
  BY DEF SpawnedInOrder
<1>3. HandlesOwned /\ HandlesOnlyInSelect /\ OneHandleAtATime
  BY DEF HandlesOwned, HandlesOnlyInSelect, OneHandleAtATime, Handles
<1>4. NoStraySession /\ LastFrameIsLast /\ MicFollowsSession
  BY DEF NoStraySession, Live, LastFrameIsLast, MicFollowsSession
<1> QED BY <1>2, <1>3, <1>4 DEF Structure

(* What the structure of handles and tasks depends on, with its types. *)
coreVars == <<hpc, session, draining, spawned, phase, owner, aborted, mic, target>>

CoreTypes ==
  /\ hpc \in [Clients -> {"absent", "select", "take", "dial", "closed", "failed"}]
  /\ session \in [Clients -> Sessions \cup {NoSession}]
  /\ draining \in [Clients -> Sessions \cup {NoSession}]
  /\ spawned \in 0 .. MaxSessions
  /\ phase \in [Sessions -> {"unused", "opening", "loop", "ending", "over", "cancelled"}]
  /\ owner \in [Sessions -> Clients \cup {NoClient}]
  /\ aborted \subseteq Sessions
  /\ mic \in [Sessions -> {"open", "ended", "broken"}]
  /\ target \in Sessions \cup {NoSession}

LEMMA TypesGiveCore == TypeOK => CoreTypes
BY DEF TypeOK, HandlerTypes, TaskTypes, SharedTypes, CoreTypes

LEMMA CoreUnchanged ==
  ASSUME Structure, UNCHANGED coreVars PROVE Structure'
BY DEF coreVars, Structure, SpawnedInOrder, HandlesOwned, HandlesOnlyInSelect,
       MicFollowsSession, OneHandleAtATime, NoStraySession, LastFrameIsLast,
       Handles, Left, Live

(* A running task moves on, ends, or loses its microphone. *)
TaskMoves(s) ==
  /\ Live(s)
  /\ \E p \in {"opening", "loop", "ending", "over", "cancelled"} : phase' = [phase EXCEPT ![s] = p]
  /\ \/ mic' = mic
     \/ mic' = [mic EXCEPT ![s] = "ended"] /\ target # s
     \/ mic' = [mic EXCEPT ![s] = "broken"]
  /\ UNCHANGED <<hpc, session, draining, spawned, owner, aborted, target>>

LEMMA TaskStepMoves ==
  ASSUME TypeOK, NEW s \in Sessions, Task(s) PROVE TaskMoves(s)
<1> USE DEF TaskMoves, Live, TypeOK, TaskTypes
<1>1. CASE SendSetup(s)
  BY <1>1 DEF SendSetup, EndWith, handlerVars
<1>2. CASE MicClosed(s)
  BY <1>2 DEF MicClosed, InLoop, handlerVars
<1>3. CASE ChunkFails(s)
  BY <1>3 DEF ChunkFails, InLoop, handlerVars
<1>4. CASE Response(s)
  BY <1>4 DEF Response, InLoop, handlerVars
<1>5. CASE FinalResponse(s)
  BY <1>5 DEF FinalResponse, InLoop, EndWith, handlerVars
<1>6. CASE ServerError(s)
  BY <1>6 DEF ServerError, InLoop, EndWith, handlerVars
<1>7. CASE ServerCloses(s)
  BY <1>7 DEF ServerCloses, InLoop, EndWith, handlerVars
<1>8. CASE TaskSend(s)
  BY <1>8 DEF TaskSend
<1>9. CASE Cancelled(s)
  BY <1>9 DEF Cancelled, handlerVars
<1> QED BY <1>1, <1>2, <1>3, <1>4, <1>5, <1>6, <1>7, <1>8, <1>9 DEF Task

LEMMA TaskKeepsStructure ==
  ASSUME CoreTypes, Structure, NEW s \in Sessions, TaskMoves(s) PROVE Structure'
<1> USE DEF TaskMoves, CoreTypes
<1>1. SpawnedInOrder'
  BY DEF Structure, SpawnedInOrder, Live
<1>2. HandlesOwned'
  BY DEF Structure, HandlesOwned, Handles
<1>3. HandlesOnlyInSelect' /\ OneHandleAtATime' /\ (target # NoSession => target <= spawned)'
  BY DEF Structure, HandlesOnlyInSelect, OneHandleAtATime
<1>4. MicFollowsSession'
  BY DEF Structure, MicFollowsSession
<1>5. NoStraySession'
  BY DEF Structure, NoStraySession, Live, Left, Handles
<1>6. LastFrameIsLast'
  BY DEF Structure, LastFrameIsLast
<1> QED BY <1>1, <1>2, <1>3, <1>4, <1>5, <1>6 DEF Structure

(* Start and cancel: every handle is dropped and its task aborted, and an  *)
(* active session loses the microphone; so does everyone when the handler  *)
(* cancels.  Leaving drops the handles without an abort.                   *)
DropsHandles(c) ==
  /\ hpc[c] = "select"
  /\ session'  = [session EXCEPT ![c] = NoSession]
  /\ draining' = [draining EXCEPT ![c] = NoSession]
  /\ UNCHANGED <<spawned, phase, owner, mic>>

Aborts(c) ==
  /\ aborted' = aborted \cup Handles(c)
  /\ target' = NoSession \/ (target' = target /\ session[c] = NoSession)
  /\ \E p \in {"select", "take"} : hpc' = [hpc EXCEPT ![c] = p]

Leaves(c) ==
  /\ aborted' = aborted
  /\ \/ target' = NoSession /\ hpc' = [hpc EXCEPT ![c] = "closed"]
     \/ target' = target /\ hpc' = [hpc EXCEPT ![c] = "failed"]

LEMMA DropKeepsStructure ==
  ASSUME CoreTypes, Structure, NEW c \in Clients, DropsHandles(c), Aborts(c) \/ Leaves(c)
  PROVE Structure'
<1> USE DEF DropsHandles, CoreTypes
<1>1. SpawnedInOrder' /\ LastFrameIsLast'
  BY DEF Structure, SpawnedInOrder, LastFrameIsLast, Aborts, Leaves
<1>2. HandlesOwned'
  BY DEF Structure, HandlesOwned, Handles
<1>3. HandlesOnlyInSelect' /\ OneHandleAtATime'
  BY DEF Structure, HandlesOnlyInSelect, OneHandleAtATime, Aborts, Leaves
<1>4. (target # NoSession => target <= spawned)'
  BY DEF Structure, Aborts, Leaves
<1>5. MicFollowsSession'
  <2> SUFFICES ASSUME target' # NoSession
               PROVE  session'[owner'[target']] = target' \/ hpc'[owner'[target']] = "failed"
    BY DEF MicFollowsSession
  <2>1. target' = target /\ target \in Sessions /\ owner[target] \in Clients /\ owner' = owner
    BY DEF Structure, SpawnedInOrder, Aborts, Leaves
  <2>2. session[owner[target]] = target \/ hpc[owner[target]] = "failed"
    BY <2>1 DEF Structure, MicFollowsSession
  <2>3. CASE owner[target] # c
    BY <2>1, <2>2, <2>3 DEF Aborts, Leaves
  <2>4. CASE owner[target] = c
    BY <2>1, <2>2, <2>4 DEF Aborts, Leaves
  <2> QED BY <2>3, <2>4
<1>6. ASSUME NEW s \in Sessions, Live(s)', ~Left(owner[s])'
      PROVE (s \in Handles(owner[s]) \/ s \in aborted)'
  <2>1. Live(s) /\ owner'[s] = owner[s] /\ owner[s] \in Clients
    BY <1>6 DEF Live, Structure, SpawnedInOrder
  <2>2. s \in Handles(owner[s]) \/ s \in aborted
    BY <1>6, <2>1 DEF Structure, NoStraySession, Left, Aborts, Leaves
  <2>3. CASE owner[s] # c
    BY <2>1, <2>2, <2>3 DEF Handles, Aborts, Leaves
  <2>4. CASE owner[s] = c
    BY <1>6, <2>1, <2>2, <2>4 DEF Left, Aborts, Leaves
  <2> QED BY <2>3, <2>4
<1> QED BY <1>1, <1>2, <1>3, <1>4, <1>5, <1>6 DEF Structure, NoStraySession

(* Stop: the session moves to the draining handle, which was empty. *)
StopMoves(c) ==
  /\ hpc[c] = "select"
  /\ target' = NoSession
  /\ session' = [session EXCEPT ![c] = NoSession]
  /\ \/ session[c] = NoSession /\ UNCHANGED <<draining, aborted>>
     \/ /\ session[c] # NoSession
        /\ draining' = [draining EXCEPT ![c] = session[c]]
        /\ aborted' = aborted \cup ({draining[c]} \ {NoSession})
  /\ UNCHANGED <<hpc, spawned, phase, owner, mic>>

LEMMA StopKeepsStructure ==
  ASSUME CoreTypes, Structure, NEW c \in Clients, StopMoves(c) PROVE Structure'
<1> USE DEF StopMoves, CoreTypes
<1>1. SpawnedInOrder' /\ LastFrameIsLast' /\ MicFollowsSession'
  BY DEF Structure, SpawnedInOrder, LastFrameIsLast, MicFollowsSession
<1>2. HandlesOwned'
  BY DEF Structure, HandlesOwned, Handles
<1>3. HandlesOnlyInSelect' /\ OneHandleAtATime'
  BY DEF Structure, HandlesOnlyInSelect, OneHandleAtATime
<1>4. ASSUME NEW s \in Sessions, Live(s)', ~Left(owner[s])'
      PROVE (s \in Handles(owner[s]) \/ s \in aborted)'
  <2>1. Live(s) /\ owner'[s] = owner[s] /\ owner[s] \in Clients
    BY <1>4 DEF Live, Structure, SpawnedInOrder
  <2>2. s \in Handles(owner[s]) \/ s \in aborted
    BY <1>4, <2>1 DEF Structure, NoStraySession, Left
  <2>3. CASE owner[s] # c
    BY <2>1, <2>2, <2>3 DEF Handles
  <2>4. CASE owner[s] = c /\ session[c] = NoSession
    BY <2>1, <2>2, <2>4 DEF Handles
  <2>5. CASE owner[s] = c /\ session[c] # NoSession
    BY <2>1, <2>2, <2>5 DEF Handles
  <2> QED BY <2>3, <2>4, <2>5
<1> QED BY <1>1, <1>2, <1>3, <1>4 DEF Structure, NoStraySession

(* A handler without handles moves, or starts a session. *)
LEMMA IdleMoveKeepsStructure ==
  ASSUME CoreTypes, Structure, NEW c \in Clients, NEW p \in {"select", "dial"},
         hpc[c] \in {"absent", "take", "dial"},
         hpc' = [hpc EXCEPT ![c] = p],
         UNCHANGED <<session, draining, spawned, phase, owner, aborted, mic, target>>
  PROVE Structure'
<1> USE DEF CoreTypes
<1>1. SpawnedInOrder' /\ LastFrameIsLast' /\ HandlesOwned' /\ OneHandleAtATime'
  BY DEF Structure, SpawnedInOrder, LastFrameIsLast, HandlesOwned, Handles, OneHandleAtATime
<1>2. HandlesOnlyInSelect'
  BY DEF Structure, HandlesOnlyInSelect
<1>3. MicFollowsSession'
  BY DEF Structure, MicFollowsSession
<1>4. NoStraySession'
  BY DEF Structure, NoStraySession, Live, Left, Handles
<1> QED BY <1>1, <1>2, <1>3, <1>4 DEF Structure

BeginMoves(c, s) ==
  /\ hpc[c] \in {"take", "dial"}
  /\ s = spawned + 1 /\ s \in Sessions
  /\ spawned' = s
  /\ phase'   = [phase EXCEPT ![s] = "opening"]
  /\ owner'   = [owner EXCEPT ![s] = c]
  /\ session' = [session EXCEPT ![c] = s]
  /\ target'  = s
  /\ hpc'     = [hpc EXCEPT ![c] = "select"]
  /\ UNCHANGED <<draining, aborted, mic>>

LEMMA BeginKeepsStructure ==
  ASSUME CoreTypes, Structure, NEW c \in Clients, NEW s, BeginMoves(c, s) PROVE Structure'
<1> USE DEF BeginMoves, CoreTypes
<1>1. phase[s] = "unused" /\ mic[s] = "open" /\ session[c] = NoSession /\ draining[c] = NoSession
  BY DEF Structure, SpawnedInOrder, HandlesOnlyInSelect
<1>2. SpawnedInOrder'
  BY <1>1 DEF Structure, SpawnedInOrder
<1>3. LastFrameIsLast' /\ MicFollowsSession'
  BY <1>1 DEF Structure, LastFrameIsLast, MicFollowsSession
<1>4. HandlesOwned'
  BY <1>1 DEF Structure, HandlesOwned, Handles
<1>5. HandlesOnlyInSelect' /\ OneHandleAtATime'
  BY <1>1 DEF Structure, HandlesOnlyInSelect, OneHandleAtATime
<1>6. ASSUME NEW t \in Sessions, Live(t)', ~Left(owner[t])'
      PROVE (t \in Handles(owner[t]) \/ t \in aborted)'
  <2>1. CASE t = s
    BY <2>1 DEF Handles
  <2>2. CASE t # s
    <3>1. Live(t) /\ owner'[t] = owner[t] /\ owner[t] \in Clients
      BY <1>6, <2>2 DEF Live, Structure, SpawnedInOrder
    <3>2. t \in Handles(owner[t]) \/ t \in aborted
      BY <1>6, <3>1 DEF Structure, NoStraySession, Left
    <3>3. owner[t] # c \/ t \in aborted
      BY <1>1, <3>2 DEF Handles
    <3> QED BY <3>1, <3>2, <3>3 DEF Handles
  <2> QED BY <2>1, <2>2
<1> QED BY <1>2, <1>3, <1>4, <1>5, <1>6 DEF Structure, NoStraySession

LEMMA HandlerKeepsStructure ==
  ASSUME TypeOK, Structure, NEW c \in Clients, Handler(c) PROVE Structure'
<1> USE TypesGiveCore
<1>1. CASE Accept(c)
  BY <1>1, IdleMoveKeepsStructure DEF Accept, taskVars
<1>2. CASE HandleStart(c)
  <2>1. DropsHandles(c) /\ Aborts(c)
    BY <1>2 DEF HandleStart, Reads, Selects, DropsHandles, Aborts
  <2> QED BY <2>1, DropKeepsStructure
<1>3. ASSUME Begin(c), hpc[c] \in {"take", "dial"} PROVE Structure'
  <2>1. BeginMoves(c, spawned + 1)
    BY <1>3 DEF Begin, BeginMoves, TypeOK, TaskTypes
  <2> QED BY <2>1, BeginKeepsStructure
<1>4. CASE TakeSpare(c)
  BY <1>3, <1>4 DEF TakeSpare
<1>5. CASE NoSpare(c)
  BY <1>5, IdleMoveKeepsStructure DEF NoSpare, taskVars
<1>6. CASE DialOk(c)
  BY <1>3, <1>6 DEF DialOk
<1>7. CASE DialFail(c)
  BY <1>7, IdleMoveKeepsStructure DEF DialFail, taskVars
<1>8. CASE HandleStop(c)
  <2>1. StopMoves(c)
    BY <1>8 DEF HandleStop, Reads, Selects, StopMoves
  <2> QED BY <2>1, StopKeepsStructure
<1>9. CASE HandleCancel(c)
  <2>1. DropsHandles(c) /\ Aborts(c)
    BY <1>9 DEF HandleCancel, Reads, Selects, DropsHandles, Aborts, TypeOK, HandlerTypes
  <2> QED BY <2>1, DropKeepsStructure
<1>10. CASE HandleOther(c) \/ Forward(c)
  BY <1>10, CoreUnchanged DEF HandleOther, Forward, Reads, taskVars, coreVars
<1>11. CASE HandleEof(c) \/ HandleReadError(c)
  <2>1. DropsHandles(c) /\ Leaves(c)
    BY <1>11 DEF HandleEof, HandleReadError, ReadsEnd, Selects, Leave, DropsHandles, Leaves,
              taskVars
  <2> QED BY <2>1, DropKeepsStructure
<1> QED BY <1>1, <1>2, <1>4, <1>5, <1>6, <1>7, <1>8, <1>9, <1>10, <1>11 DEF Handler

LEMMA StructureStep ==
  ASSUME TypeOK, Structure, [Next]_vars PROVE Structure'
<1>1. ASSUME NEW c \in Clients, Handler(c) PROVE Structure'
  BY <1>1, HandlerKeepsStructure
<1>2. ASSUME NEW c \in Clients, Client(c) PROVE Structure'
  BY <1>2, CoreUnchanged DEF Client, ClientSends, ClientReads, ClientCloses, taskVars, coreVars
<1>3. ASSUME NEW s \in Sessions, Task(s) PROVE Structure'
  BY <1>3, TaskStepMoves, TaskKeepsStructure, TypesGiveCore
<1>4. CASE Refill \/ UNCHANGED vars
  BY <1>4, CoreUnchanged DEF Refill, vars, handlerVars, taskVars, coreVars
<1> QED BY <1>1, <1>2, <1>3, <1>4 DEF Next

(***************************************************************************)
(* Types                                                                   *)
(***************************************************************************)

LEMMA WriteTypes ==
  ASSUME NEW c \in Clients, NEW m \in Msgs, outbox \in [Clients -> Seq(Msgs)], Write(c, m)
  PROVE  outbox' \in [Clients -> Seq(Msgs)]
<1>1. CASE outbox' = [outbox EXCEPT ![c] = Append(@, m)]
  <2>1. Append(outbox[c], m) \in Seq(Msgs)
    OBVIOUS
  <2> QED BY <1>1, <2>1
<1>2. CASE UNCHANGED outbox
  BY <1>2
<1> QED BY <1>1, <1>2 DEF Write

LEMMA MsgTypes ==
  ASSUME NEW s \in Sessions \cup {NoSession}, NEW k \in Kinds PROVE Msg(k, s) \in Msgs
BY DEF Msg, Msgs

LEMMA ShortSeqs ==
  ASSUME NEW S, NEW a \in S, NEW b \in S PROVE <<a>> \in Seq(S) /\ <<a, b>> \in Seq(S)
OBVIOUS

LEMMA AnswerTypes ==
  ASSUME NEW s \in Sessions, NEW msgs \in Answers(s) PROVE msgs \in Seq(Msgs)
<1>1. Msg("partial", s) \in Msgs /\ Msg("final", s) \in Msgs
  BY MsgTypes DEF Kinds
<1>2. \/ msgs = <<Msg("partial", s)>>
      \/ msgs = <<Msg("final", s)>>
      \/ msgs = <<Msg("partial", s), Msg("final", s)>>
  BY DEF Answers
<1> QED BY ONLY <1>1, <1>2, ShortSeqs

LEMMA EndTypes ==
  ASSUME NEW s \in Sessions, NEW msgs \in Seq(Msgs), TaskTypes, EndWith(s, msgs)
  PROVE  /\ outgoing' \in [Sessions -> Seq(Msgs)]
         /\ phase' \in [Sessions -> {"unused", "opening", "loop", "ending", "over", "cancelled"}]
<1>1. Append(msgs, Msg("idle", s)) \in Seq(Msgs)
  BY MsgTypes DEF Kinds
<1> QED BY <1>1 DEF EndWith, TaskTypes

LEMMA TaskKeepsTypes ==
  ASSUME TypeOK, NEW s \in Sessions, Task(s) PROVE TypeOK'
<1> USE DEF TypeOK
<1>a. <<Msg("error", s)>> \in Seq(Msgs) /\ <<>> \in Seq(Msgs)
  <2>1. Msg("error", s) \in Msgs
    BY MsgTypes DEF Kinds
  <2> QED BY <2>1
<1>1. CASE SendSetup(s)
  <2>1. HandlerTypes' /\ SharedTypes'
    BY <1>1 DEF SendSetup, handlerVars, HandlerTypes, SharedTypes
  <2>2. TaskTypes'
    BY <1>a, <1>1, EndTypes DEF SendSetup, TaskTypes
  <2> QED BY <2>1, <2>2
<1>2. CASE MicClosed(s) \/ ChunkFails(s)
  BY <1>2 DEF MicClosed, ChunkFails, handlerVars, HandlerTypes, SharedTypes, TaskTypes
<1>3. CASE Response(s)
  <2>1. HandlerTypes' /\ SharedTypes'
    BY <1>3 DEF Response, handlerVars, HandlerTypes, SharedTypes
  <2>2. outgoing' \in [Sessions -> Seq(Msgs)] /\ said' \in 0 .. MaxTexts
    BY <1>3, AnswerTypes DEF Response, TaskTypes
  <2> QED BY <1>3, <2>1, <2>2 DEF Response, TaskTypes
<1>4. CASE FinalResponse(s)
  <2>1. HandlerTypes' /\ SharedTypes'
    BY <1>4 DEF FinalResponse, handlerVars, HandlerTypes, SharedTypes
  <2>2. PICK msgs \in Seq(Msgs) : EndWith(s, msgs)
    BY <1>a, <1>4, AnswerTypes DEF FinalResponse
  <2>3. said' \in 0 .. MaxTexts
    <3>1. CASE UNCHANGED said
      BY <3>1 DEF TaskTypes
    <3>2. CASE said < MaxTexts /\ said' = said + 1
      BY <3>2, BoundAssumption DEF TaskTypes
    <3>3. UNCHANGED said \/ (said < MaxTexts /\ said' = said + 1)
      BY <1>4 DEF FinalResponse
    <3> QED BY <3>1, <3>2, <3>3
  <2> QED BY <1>4, <2>1, <2>2, <2>3, EndTypes DEF FinalResponse, TaskTypes
<1>5. CASE ServerError(s) \/ ServerCloses(s)
  <2>1. HandlerTypes' /\ SharedTypes'
    BY <1>5 DEF ServerError, ServerCloses, handlerVars, HandlerTypes, SharedTypes
  <2>2. TaskTypes'
    BY <1>a, <1>5, EndTypes DEF ServerError, ServerCloses, TaskTypes
  <2> QED BY <2>1, <2>2
<1>6. CASE TaskSend(s)
  <2>1. Head(outgoing[s]) \in Msgs /\ Tail(outgoing[s]) \in Seq(Msgs)
    BY <1>6 DEF TaskSend, TaskTypes
  <2>2. TaskTypes' /\ SharedTypes'
    BY <1>6, <2>1 DEF TaskSend, TaskTypes, SharedTypes
  <2>3. resp' \in [Clients -> Seq(Msgs)] /\ \A c \in Clients : Len(resp'[c]) <= RespCap
    <3>1. CASE UNCHANGED resp
      BY <3>1 DEF HandlerTypes
    <3>2. CASE ~UNCHANGED resp
      <4> DEFINE o == owner[s]
      <4>1. /\ Len(resp[o]) < RespCap
            /\ resp' = [resp EXCEPT ![o] = Append(@, Head(outgoing[s]))]
        BY <1>6, <3>2 DEF TaskSend
      <4>2. o \in Clients \/ o \notin DOMAIN resp
        BY DEF HandlerTypes
      <4>3. o \in Clients
        BY <3>2, <4>1, <4>2 DEF HandlerTypes
      <4>4. Append(resp[o], Head(outgoing[s])) \in Seq(Msgs)
        BY <2>1, <4>3 DEF HandlerTypes
      <4>5. Len(Append(resp[o], Head(outgoing[s]))) = Len(resp[o]) + 1
        BY <2>1, <4>3 DEF HandlerTypes
      <4>6. Len(Append(resp[o], Head(outgoing[s]))) <= RespCap
        <5>1. Len(resp[o]) \in Nat
          BY <4>3 DEF HandlerTypes
        <5> QED BY ONLY <4>1, <4>5, <5>1, BoundAssumption
      <4> HIDE DEF o
      <4> QED BY <4>1, <4>3, <4>4, <4>6 DEF HandlerTypes
    <3> QED BY <3>1, <3>2
  <2>4. HandlerTypes'
    BY <1>6, <2>3 DEF TaskSend, HandlerTypes
  <2> QED BY <2>2, <2>4
<1>7. CASE Cancelled(s)
  BY <1>7 DEF Cancelled, handlerVars, HandlerTypes, SharedTypes, TaskTypes
<1> QED BY <1>1, <1>2, <1>3, <1>4, <1>5, <1>6, <1>7 DEF Task

LEMMA HandlerKeepsTypes ==
  ASSUME TypeOK, NEW c \in Clients, Handler(c) PROVE TypeOK'
<1> USE DEF TypeOK, HandlerTypes, SharedTypes
<1>a. ASSUME NEW k \in Kinds, Write(c, Msg(k, NoSession))
      PROVE  outbox' \in [Clients -> Seq(Msgs)]
  <2>1. Msg(k, NoSession) \in Msgs
    BY MsgTypes
  <2> QED BY <1>a, <2>1, WriteTypes
<1>b. \A k \in {"connected", "connecting", "recording", "idle", "error"} : k \in Kinds
  BY DEF Kinds
<1>c. ASSUME NEW line, Reads(c, line) PROVE inbox' \in [Clients -> Seq(Lines)]
  <2>1. Tail(inbox[c]) \in Seq(Lines)
    BY <1>c DEF Reads
  <2> QED BY <1>c, <2>1 DEF Reads
<1>d. ASSUME Begin(c) PROVE HandlerTypes' /\ TaskTypes' /\ target' \in Sessions
  <2>1. outbox' \in [Clients -> Seq(Msgs)]
    BY <1>a, <1>b, <1>d DEF Begin
  <2>2. spawned + 1 \in Sessions
    BY <1>d DEF Begin, TaskTypes
  <2>3. TaskTypes'
    BY <1>d, <2>2 DEF Begin, TaskTypes
  <2> QED BY <1>d, <2>1, <2>2, <2>3 DEF Begin
<1>e. ASSUME Leave(c) PROVE resp' \in [Clients -> Seq(Msgs)] /\ \A d \in Clients : Len(resp'[d]) <= RespCap
  <2>1. <<>> \in Seq(Msgs) /\ Len(<<>>) = 0
    OBVIOUS
  <2> QED BY <1>e, <2>1 DEF Leave
<1>1. CASE Accept(c)
  BY <1>1, <1>a, <1>b DEF Accept, taskVars, TaskTypes
<1>2. CASE HandleStart(c)
  <2>1. aborted' \subseteq Sessions
    BY <1>2 DEF HandleStart, Handles, TaskTypes
  <2> QED BY <1>2, <2>1, <1>c DEF HandleStart, Reads, TaskTypes
<1>3. CASE TakeSpare(c)
  BY <1>3, <1>d DEF TakeSpare
<1>4. CASE NoSpare(c)
  BY <1>4, <1>a, <1>b DEF NoSpare, taskVars, TaskTypes
<1>5. CASE DialOk(c)
  BY <1>5, <1>d DEF DialOk
<1>6. CASE DialFail(c)
  BY <1>6, <1>a, <1>b DEF DialFail, taskVars, TaskTypes
<1>7. CASE HandleStop(c)
  <2>1. aborted' \subseteq Sessions
    <3>1. draining[c] \in Sessions \cup {NoSession} /\ aborted \subseteq Sessions
      BY DEF TaskTypes
    <3>2. aborted' = aborted \/ aborted' = aborted \cup ({draining[c]} \ {NoSession})
      BY <1>7 DEF HandleStop
    <3> QED BY ONLY <3>1, <3>2
  <2>2. outbox' \in [Clients -> Seq(Msgs)]
    BY <1>7, <1>a, <1>b DEF HandleStop
  <2> QED BY <1>7, <2>1, <2>2, <1>c DEF HandleStop, Reads, TaskTypes
<1>8. CASE HandleCancel(c)
  <2>1. aborted' \subseteq Sessions
    BY <1>8 DEF HandleCancel, Handles, TaskTypes
  <2>2. outbox' \in [Clients -> Seq(Msgs)]
    BY <1>8, <1>a, <1>b DEF HandleCancel
  <2> QED BY <1>8, <2>1, <2>2, <1>c DEF HandleCancel, Reads, TaskTypes
<1>9. CASE HandleOther(c)
  <2>1. outbox' \in [Clients -> Seq(Msgs)]
    BY <1>9, <1>a, <1>b DEF HandleOther
  <2> QED BY <1>9, <2>1, <1>c DEF HandleOther, Reads, taskVars, TaskTypes
<1>10. CASE Forward(c)
  <2>1. Head(resp[c]) \in Msgs /\ Tail(resp[c]) \in Seq(Msgs) /\ Len(Tail(resp[c])) <= RespCap
    <3>1. Len(Tail(resp[c])) = Len(resp[c]) - 1 /\ Len(resp[c]) \in Nat
      BY <1>10 DEF Forward
    <3>2. Head(resp[c]) \in Msgs /\ Tail(resp[c]) \in Seq(Msgs) /\ Len(resp[c]) <= RespCap
      BY <1>10 DEF Forward
    <3> QED BY ONLY <3>1, <3>2, BoundAssumption
  <2>2. outbox' \in [Clients -> Seq(Msgs)]
    BY <1>10, <2>1, WriteTypes DEF Forward
  <2>3. resp' \in [Clients -> Seq(Msgs)] /\ \A d \in Clients : Len(resp'[d]) <= RespCap
    BY <1>10, <2>1 DEF Forward
  <2> QED BY <1>10, <2>2, <2>3 DEF Forward, taskVars, TaskTypes
<1>11. CASE HandleEof(c) \/ HandleReadError(c)
  BY <1>11, <1>e DEF HandleEof, HandleReadError, ReadsEnd, Leave, taskVars, TaskTypes
<1> QED BY <1>1, <1>2, <1>3, <1>4, <1>5, <1>6, <1>7, <1>8, <1>9, <1>10, <1>11 DEF Handler

LEMMA ClientKeepsTypes ==
  ASSUME TypeOK, NEW c \in Clients, Client(c) PROVE TypeOK'
<1> USE DEF TypeOK, HandlerTypes, SharedTypes, TaskTypes
<1>1. ASSUME NEW line \in Lines, ClientSends(c, line) PROVE TypeOK'
  <2>1. Append(inbox[c], line) \in Seq(Lines)
    OBVIOUS
  <2>2. lines[c] + 1 \in 0 .. MaxLines
    BY <1>1 DEF ClientSends
  <2> QED BY <1>1, <2>1, <2>2 DEF ClientSends, taskVars
<1>2. CASE ClientReads(c)
  <2>1. Tail(outbox[c]) \in Seq(Msgs)
    BY <1>2 DEF ClientReads
  <2> QED BY <1>2, <2>1 DEF ClientReads, taskVars
<1>3. CASE ClientCloses(c)
  <2>1. <<>> \in Seq(Msgs) /\ (IF outbox[c] = <<>> THEN "eof" ELSE "reset") \in {"no", "eof", "reset"}
    OBVIOUS
  <2>2. outbox' \in [Clients -> Seq(Msgs)] /\ gone' \in [Clients -> {"no", "eof", "reset"}]
    BY <1>3, <2>1 DEF ClientCloses
  <2> QED BY <1>3, <2>2 DEF ClientCloses, taskVars
<1> QED BY <1>1, <1>2, <1>3 DEF Client

LEMMA TypeStep ==
  ASSUME TypeOK, [Next]_vars PROVE TypeOK'
<1>1. ASSUME NEW c \in Clients, Handler(c) \/ Client(c) PROVE TypeOK'
  BY <1>1, HandlerKeepsTypes, ClientKeepsTypes
<1>2. ASSUME NEW s \in Sessions, Task(s) PROVE TypeOK'
  BY <1>2, TaskKeepsTypes
<1>3. CASE Refill
  BY <1>3 DEF Refill, handlerVars, taskVars, TypeOK, HandlerTypes, TaskTypes, SharedTypes
<1>4. CASE UNCHANGED vars
  BY <1>4 DEF vars, handlerVars, taskVars, TypeOK, HandlerTypes, TaskTypes, SharedTypes
<1> QED BY <1>1, <1>2, <1>3, <1>4 DEF Next

(***************************************************************************)
(* Theorems                                                                *)
(***************************************************************************)

(* The inductive invariant: sessions are spawned in order, handles belong  *)
(* to the handler that spawned them, and the safety properties of the core *)
(* (handle_client and run_session).                                        *)
THEOREM DaemonInvariant == Spec => []DaemonInv
<1>1. Init => DaemonInv
  BY InitTypes, InitStructure DEF DaemonInv
<1>2. DaemonInv /\ [Next]_vars => DaemonInv'
  BY TypeStep, StructureStep DEF DaemonInv
<1> QED BY <1>1, <1>2, PTL DEF Spec

(* The microphone belongs to the active session of the handler that        *)
(* spawned it, unless that handler left on a read error.                   *)
THEOREM MicrophoneFollowsSession == Spec => []MicFollowsSession
<1>1. DaemonInv => MicFollowsSession
  BY DEF DaemonInv, Structure
<1> QED BY <1>1, DaemonInvariant, PTL

(* A handler holds one handle at a time: the abort of an older draining    *)
(* task in the stop arm of handle_client never runs.                       *)
THEOREM HandlerHoldsOneHandle == Spec => []OneHandleAtATime
<1>1. DaemonInv => OneHandleAtATime
  BY DEF DaemonInv, Structure
<1> QED BY <1>1, DaemonInvariant, PTL

(* No task answers a client behind the back of its handler.                *)
THEOREM NoSessionStrays == Spec => []NoStraySession
<1>1. DaemonInv => NoStraySession
  BY DEF DaemonInv, Structure
<1> QED BY <1>1, DaemonInvariant, PTL

(* A session that sent its last frame never gets the microphone again.     *)
THEOREM NoAudioAfterLastFrame == Spec => []LastFrameIsLast
<1>1. DaemonInv => LastFrameIsLast
  BY DEF DaemonInv, Structure
<1> QED BY <1>1, DaemonInvariant, PTL

(* A microphone that outlives its handler was left by a read error, a      *)
(* connection reset or a line that is not UTF-8: after                     *)
(* an end of file it never does, nor while the handler dials, so that of   *)
(* all ways out of handle_client only the `?` of ipc.rs:68 breaks the      *)
(* promise of ipc.rs:179, which the model checker shows it to do.          *)
THEOREM OnlyReadErrorKeepsMic ==
  Spec => [](target # NoSession => hpc[owner[target]] \in {"select", "failed"})
<1>1. DaemonInv => (target # NoSession => hpc[owner[target]] \in {"select", "failed"})
  <2> SUFFICES ASSUME DaemonInv, target # NoSession
               PROVE  hpc[owner[target]] \in {"select", "failed"}
    OBVIOUS
  <2>1. target \in Sessions /\ target <= spawned
    BY DEF DaemonInv, Structure, TypeOK, SharedTypes
  <2>2. owner[target] \in Clients
    BY <2>1 DEF DaemonInv, Structure, SpawnedInOrder
  <2>3. session[owner[target]] = target \/ hpc[owner[target]] = "failed"
    BY DEF DaemonInv, Structure, MicFollowsSession
  <2> QED BY <2>2, <2>3 DEF DaemonInv, Structure, HandlesOnlyInSelect
<1> QED BY <1>1, DaemonInvariant, PTL

(* So the audio stops with a client whose connection ends without an error *)
(* (ipc.rs:179-182).                                                       *)
THEOREM AudioStopsUnlessReadError ==
  Spec => []((\A c \in Clients : hpc[c] # "failed") => AudioStopsWithClient)
<1> DEFINE Kept == target # NoSession => hpc[owner[target]] \in {"select", "failed"}
           Scoped == (\A c \in Clients : hpc[c] # "failed") => AudioStopsWithClient
<1>1. DaemonInv /\ Kept => Scoped
  <2> SUFFICES ASSUME DaemonInv, Kept, \A c \in Clients : hpc[c] # "failed", target # NoSession
               PROVE  ~Left(owner[target])
    BY DEF AudioStopsWithClient
  <2>1. target \in Sessions /\ target <= spawned
    BY DEF DaemonInv, Structure, TypeOK, SharedTypes
  <2>2. owner[target] \in Clients
    BY <2>1 DEF DaemonInv, Structure, SpawnedInOrder
  <2>3. hpc[owner[target]] = "select"
    BY <2>2
  <2> QED BY <2>3 DEF Left
<1>2. Spec => []Kept
  BY OnlyReadErrorKeepsMic
<1> HIDE DEF Kept, Scoped
<1>3. Spec => []Scoped
  BY <1>1, <1>2, DaemonInvariant, PTL
<1> QED BY <1>3 DEF Scoped

(***************************************************************************)
(* What is on its way to a client                                          *)
(***************************************************************************)

(* The last message of its session. *)
LastWord(m) == m.from # NoSession /\ m.kind = "idle"

(* Nothing of a session after its last word, within q, and in q after p.   *)
Ends(q) ==
  \A i, j \in 1 .. Len(q) : i < j /\ LastWord(q[i]) => q[j].from # q[i].from

Silenced(p, q) ==
  \A i \in 1 .. Len(p), j \in 1 .. Len(q) : LastWord(p[i]) => q[j].from # p[i].from

InTurn(p, q) == Ends(p) /\ Ends(q) /\ Silenced(p, q)

(* What session s says, and what it says before its end. *)
Words(s) == {m \in Msgs : m.from = s}
Plain(s) == {m \in Words(s) : m.kind # "idle"}

(* What client c may be told: nothing of a session that is not its own,    *)
(* and that one is over only of one that is.                               *)
Known(c) ==
  {m \in Msgs :
     m.from # NoSession =>
       m.from <= spawned /\ owner[m.from] = c /\ (m.kind = "idle" => ~Live(m.from))}

SaysInTurn(s) ==
  /\ outgoing[s] \in Seq(Words(s)) /\ Ends(outgoing[s])
  /\ phase[s] # "ending" => outgoing[s] \in Seq(Plain(s))

HearsInTurn(c) ==
  /\ outbox[c] \in Seq(Known(c)) /\ resp[c] \in Seq(Known(c))
  /\ InTurn(outbox[c], resp[c])

(* The inductive invariant behind IdleIsLast. *)
AnswerInv ==
  /\ \A s \in Sessions : SaysInTurn(s)
  /\ \A c \in Clients : HearsInTurn(c)

LEMMA SeqGrows ==
  ASSUME NEW A, NEW B, A \subseteq B, NEW q \in Seq(A) PROVE q \in Seq(B)
OBVIOUS

LEMMA AppendFacts ==
  ASSUME NEW q \in Seq(Msgs), NEW m \in Msgs
  PROVE  /\ Append(q, m) \in Seq(Msgs) /\ Len(q) \in Nat /\ Len(Append(q, m)) = Len(q) + 1
         /\ Append(q, m)[Len(q) + 1] = m
         /\ \A i \in 1 .. Len(q) : Append(q, m)[i] = q[i]
         /\ \A i \in 1 .. Len(q) + 1 : i \in 1 .. Len(q) \/ i = Len(q) + 1
OBVIOUS

LEMMA TailFacts ==
  ASSUME NEW q \in Seq(Msgs), q # <<>>
  PROVE  /\ Tail(q) \in Seq(Msgs) /\ Len(q) \in Nat \ {0} /\ Len(Tail(q)) = Len(q) - 1
         /\ Head(q) = q[1] /\ 1 \in 1 .. Len(q) /\ Head(q) \in Msgs
         /\ \A i \in 1 .. Len(q) - 1 : Tail(q)[i] = q[i + 1] /\ i + 1 \in 1 .. Len(q) /\ 1 < i + 1
OBVIOUS

LEMMA EndsAppend ==
  ASSUME NEW q \in Seq(Msgs), NEW m \in Msgs, Ends(q),
         \A i \in 1 .. Len(q) : LastWord(q[i]) => m.from # q[i].from
  PROVE  Ends(Append(q, m))
<1> DEFINE a == Append(q, m)
<1>1. /\ Len(q) \in Nat /\ Len(a) = Len(q) + 1 /\ a[Len(q) + 1] = m
      /\ \A i \in 1 .. Len(q) : a[i] = q[i]
      /\ \A i \in 1 .. Len(q) + 1 : i \in 1 .. Len(q) \/ i = Len(q) + 1
  BY AppendFacts
<1> HIDE DEF a
<1>2. ASSUME NEW i \in 1 .. Len(a), NEW j \in 1 .. Len(a), i < j, LastWord(a[i])
      PROVE  a[j].from # a[i].from
  <2>1. i \in 1 .. Len(q) /\ a[i] = q[i] /\ LastWord(q[i])
    BY <1>1, <1>2
  <2>2. CASE j \in 1 .. Len(q)
    BY <1>1, <1>2, <2>1, <2>2 DEF Ends
  <2>3. CASE j = Len(q) + 1
    BY <1>1, <2>1, <2>3
  <2> QED BY <1>1, <2>2, <2>3
<1>3. Ends(a)
  BY <1>2 DEF Ends
<1> QED BY <1>3 DEF a

LEMMA EndsTail ==
  ASSUME NEW q \in Seq(Msgs), q # <<>>, Ends(q)
  PROVE  /\ Ends(Tail(q))
         /\ LastWord(Head(q)) => \A j \in 1 .. Len(Tail(q)) : Tail(q)[j].from # Head(q).from
<1>1. /\ Len(q) \in Nat \ {0} /\ Len(Tail(q)) = Len(q) - 1 /\ Head(q) = q[1] /\ 1 \in 1 .. Len(q)
      /\ \A i \in 1 .. Len(q) - 1 : Tail(q)[i] = q[i + 1] /\ i + 1 \in 1 .. Len(q) /\ 1 < i + 1
  BY TailFacts
<1>2. ASSUME NEW i \in 1 .. Len(q) - 1, NEW j \in 1 .. Len(q) - 1, i < j, LastWord(q[i + 1])
      PROVE  q[j + 1].from # q[i + 1].from
  BY <1>1, <1>2 DEF Ends
<1>3. ASSUME LastWord(q[1]), NEW j \in 1 .. Len(q) - 1 PROVE q[j + 1].from # q[1].from
  BY <1>1, <1>3 DEF Ends
<1>4. Ends(Tail(q))
  BY <1>1, <1>2 DEF Ends
<1>5. LastWord(Head(q)) => \A j \in 1 .. Len(Tail(q)) : Tail(q)[j].from # Head(q).from
  BY <1>1, <1>3
<1> QED BY <1>4, <1>5

(* A message of the handler is written. *)
LEMMA WritesInTurn ==
  ASSUME NEW p \in Seq(Msgs), NEW q \in Seq(Msgs), NEW m \in Msgs,
         InTurn(p, q), m.from = NoSession
  PROVE  InTurn(Append(p, m), q)
<1>1. Ends(Append(p, m))
  BY EndsAppend DEF InTurn, LastWord
<1> DEFINE a == Append(p, m)
<1>2. /\ Len(a) = Len(p) + 1 /\ a[Len(p) + 1] = m /\ \A i \in 1 .. Len(p) : a[i] = p[i]
      /\ \A i \in 1 .. Len(p) + 1 : i \in 1 .. Len(p) \/ i = Len(p) + 1
  BY AppendFacts
<1> HIDE DEF a
<1>3. Silenced(a, q)
  BY <1>2 DEF InTurn, Silenced, LastWord
<1> QED BY <1>1, <1>3 DEF InTurn, a

(* An answer is passed on, or lost because the client is gone. *)
LEMMA ForwardsInTurn ==
  ASSUME NEW p \in Seq(Msgs), NEW q \in Seq(Msgs), q # <<>>, InTurn(p, q)
  PROVE  InTurn(Append(p, Head(q)), Tail(q)) /\ InTurn(p, Tail(q))
<1> DEFINE m == Head(q)
           t == Tail(q)
           a == Append(p, m)
<1>1. m \in Msgs /\ t \in Seq(Msgs) /\ m = q[1] /\ 1 \in 1 .. Len(q)
  BY TailFacts
<1>2. \A j \in 1 .. Len(t) : t[j] = q[j + 1] /\ j + 1 \in 1 .. Len(q)
  BY TailFacts
<1>3. Ends(t) /\ (LastWord(m) => \A j \in 1 .. Len(t) : t[j].from # m.from)
  BY EndsTail DEF InTurn
<1>4. \A i \in 1 .. Len(p) : LastWord(p[i]) => m.from # p[i].from
  BY <1>1 DEF InTurn, Silenced
<1>5. Silenced(p, t)
  BY <1>2 DEF InTurn, Silenced
<1> HIDE DEF m, t
<1>6. Ends(a)
  BY <1>1, <1>4, EndsAppend DEF InTurn
<1>7. /\ Len(a) = Len(p) + 1 /\ a[Len(p) + 1] = m /\ \A i \in 1 .. Len(p) : a[i] = p[i]
      /\ \A i \in 1 .. Len(p) + 1 : i \in 1 .. Len(p) \/ i = Len(p) + 1
  BY <1>1, AppendFacts
<1> HIDE DEF a
<1>8. Silenced(a, t)
  BY <1>3, <1>5, <1>7 DEF Silenced
<1>9. InTurn(a, t) /\ InTurn(p, t)
  BY <1>3, <1>5, <1>6, <1>8 DEF InTurn
<1> QED BY <1>9 DEF a, m, t

(* A session that has not said its last word says something. *)
LEMMA AnswersInTurn ==
  ASSUME NEW p \in Seq(Msgs), NEW q \in Seq(Msgs), NEW m \in Msgs, InTurn(p, q),
         \A i \in 1 .. Len(p) : LastWord(p[i]) => m.from # p[i].from,
         \A i \in 1 .. Len(q) : LastWord(q[i]) => m.from # q[i].from
  PROVE  InTurn(p, Append(q, m))
<1>1. Ends(Append(q, m))
  BY EndsAppend DEF InTurn
<1> DEFINE a == Append(q, m)
<1>2. /\ Len(a) = Len(q) + 1 /\ a[Len(q) + 1] = m /\ \A i \in 1 .. Len(q) : a[i] = q[i]
      /\ \A i \in 1 .. Len(q) + 1 : i \in 1 .. Len(q) \/ i = Len(q) + 1
  BY AppendFacts
<1> HIDE DEF a
<1>3. Silenced(p, a)
  BY <1>2 DEF InTurn, Silenced
<1> QED BY <1>1, <1>3 DEF InTurn, a

(* The channel closes, the client reads or closes. *)
LEMMA DropsInTurn ==
  ASSUME NEW p \in Seq(Msgs), NEW q \in Seq(Msgs), InTurn(p, q)
  PROVE  /\ InTurn(p, <<>>) /\ InTurn(<<>>, q)
         /\ p # <<>> => InTurn(Tail(p), q)
<1>1. InTurn(p, <<>>) /\ InTurn(<<>>, q)
  BY DEF InTurn, Ends, Silenced
<1>2. ASSUME p # <<>> PROVE InTurn(Tail(p), q)
  <2>1. Ends(Tail(p))
    BY <1>2, EndsTail DEF InTurn
  <2>2. \A i \in 1 .. Len(Tail(p)) : Tail(p)[i] = p[i + 1] /\ i + 1 \in 1 .. Len(p)
    BY <1>2, TailFacts
  <2>3. Silenced(Tail(p), q)
    BY <2>2 DEF InTurn, Silenced
  <2> QED BY <2>1, <2>3 DEF InTurn
<1> QED BY <1>1, <1>2


(* Sessions keep their handlers, and one that is over stays so. *)
Grows ==
  /\ spawned' \in Nat
  /\ \A t \in Sessions :
       t <= spawned => t <= spawned' /\ owner'[t] = owner[t] /\ (~Live(t) => ~Live(t)')

LEMMA StepGrows ==
  ASSUME DaemonInv, [Next]_vars PROVE Grows
<1> USE TypesGiveCore DEF DaemonInv
<1>1. ASSUME UNCHANGED <<spawned, owner, phase>> PROVE Grows
  BY <1>1 DEF Grows, CoreTypes, Live
<1>2. ASSUME NEW c \in Clients, Begin(c) PROVE Grows
  <2>1. spawned + 1 \in Sessions /\ phase \in [Sessions ->
          {"unused", "opening", "loop", "ending", "over", "cancelled"}]
    BY <1>2 DEF Begin, CoreTypes
  <2>2. ASSUME NEW t \in Sessions, t <= spawned
        PROVE  t <= spawned' /\ owner'[t] = owner[t] /\ phase'[t] = phase[t]
    BY <1>2, <2>1, <2>2 DEF Begin, CoreTypes
  <2> QED BY <1>2, <2>1, <2>2 DEF Grows, Live, Begin
<1>3. ASSUME NEW c \in Clients, Handler(c) \/ Client(c) PROVE Grows
  BY <1>1, <1>2, <1>3
     DEF Handler, Accept, HandleStart, TakeSpare, NoSpare, DialOk, DialFail, HandleStop,
         HandleCancel, HandleOther, Forward, HandleEof, HandleReadError, Leave, taskVars,
         Client, ClientSends, ClientReads, ClientCloses
<1>4. ASSUME NEW s \in Sessions, Task(s) PROVE Grows
  <2>1. TaskMoves(s)
    BY <1>4, TaskStepMoves
  <2> QED BY <2>1 DEF TaskMoves, Grows, Live, CoreTypes
<1>5. CASE Refill \/ UNCHANGED vars
  BY <1>1, <1>5 DEF Refill, vars, taskVars
<1> QED BY <1>3, <1>4, <1>5 DEF Next

LEMMA KnownGrows ==
  ASSUME TypeOK, Grows, NEW c \in Clients PROVE Known(c) \subseteq Known(c)'
<1>1. ASSUME NEW m \in Msgs, m.from # NoSession PROVE m.from \in Sessions
  BY <1>1 DEF Msgs
<1> QED BY <1>1 DEF Grows, Known, TypeOK, TaskTypes

LEMMA KnownMsgs == \A c \in Clients : Known(c) \subseteq Msgs
BY DEF Known

LEMMA StillHears ==
  ASSUME TypeOK, Grows, NEW c \in Clients, HearsInTurn(c),
         outbox'[c] = outbox[c], resp'[c] = resp[c]
  PROVE  HearsInTurn(c)'
<1>1. Known(c) \subseteq Known(c)'
  BY KnownGrows
<1>2. outbox[c] \in Seq(Known(c)') /\ resp[c] \in Seq(Known(c)')
  BY <1>1, SeqGrows DEF HearsInTurn
<1> QED BY <1>2 DEF HearsInTurn

(* What a step does to the two queues of a client: the handler writes,     *)
(* passes an answer on, loses one, or leaves; the client reads or closes.  *)
Queues(c) ==
  \/ outbox' = outbox /\ resp' = resp
  \/ /\ \E m \in Msgs : m.from = NoSession /\ outbox' = [outbox EXCEPT ![c] = Append(@, m)]
     /\ resp' = resp
  \/ /\ resp[c] # <<>>
     /\ resp' = [resp EXCEPT ![c] = Tail(@)]
     /\ outbox' = outbox \/ outbox' = [outbox EXCEPT ![c] = Append(@, Head(resp[c]))]
  \/ outbox' = outbox /\ resp' = [resp EXCEPT ![c] = <<>>]
  \/ outbox[c] # <<>> /\ outbox' = [outbox EXCEPT ![c] = Tail(@)] /\ resp' = resp
  \/ outbox' = [outbox EXCEPT ![c] = <<>>] /\ resp' = resp

LEMMA QueueSteps ==
  ASSUME DaemonInv, NEW c \in Clients, Handler(c) \/ Client(c)
  PROVE  /\ Queues(c) /\ outgoing' = outgoing
         /\ \A s \in Sessions : phase'[s] = phase[s] \/ phase[s] = "unused"
<1>1. ASSUME NEW k \in Kinds, Write(c, Msg(k, NoSession)), resp' = resp PROVE Queues(c)
  <2>1. Msg(k, NoSession) \in Msgs /\ Msg(k, NoSession).from = NoSession
    BY DEF Msg, Msgs
  <2> QED BY <1>1, <2>1 DEF Write, Queues
<1>2. \A k \in {"connected", "connecting", "recording", "idle", "error"} : k \in Kinds
  BY DEF Kinds
<1>3. ASSUME Begin(c) PROVE Queues(c) /\ outgoing' = outgoing
                            /\ \A s \in Sessions : phase'[s] = phase[s] \/ phase[s] = "unused"
  <2>1. Queues(c) /\ outgoing' = outgoing
    BY <1>1, <1>2, <1>3 DEF Begin
  <2>2. phase[spawned + 1] = "unused"
    BY <1>3 DEF Begin, DaemonInv, TypeOK, TaskTypes, Structure, SpawnedInOrder
  <2>3. phase' = [phase EXCEPT ![spawned + 1] = "opening"]
    BY <1>3 DEF Begin
  <2> QED BY <2>1, <2>2, <2>3 DEF DaemonInv, TypeOK, TaskTypes
<1>4. CASE TakeSpare(c) \/ DialOk(c)
  BY <1>3, <1>4 DEF TakeSpare, DialOk
<1>5. CASE Accept(c) \/ NoSpare(c) \/ DialFail(c)
  <2>1. resp' = resp /\ outgoing' = outgoing /\ phase' = phase
    BY <1>5 DEF Accept, NoSpare, DialFail, taskVars
  <2>2. outbox' = outbox \/ \E k \in Kinds : Write(c, Msg(k, NoSession))
    BY <1>2, <1>5 DEF Accept, NoSpare, DialFail
  <2>3. Queues(c)
    BY <1>1, <2>1, <2>2 DEF Queues
  <2> QED BY <2>1, <2>3
<1>6. CASE HandleStart(c) \/ HandleStop(c) \/ HandleCancel(c) \/ HandleOther(c)
  <2>1. resp' = resp /\ outgoing' = outgoing /\ phase' = phase
    BY <1>6 DEF HandleStart, HandleStop, HandleCancel, HandleOther, taskVars
  <2>2. outbox' = outbox \/ \E k \in Kinds : Write(c, Msg(k, NoSession))
    BY <1>2, <1>6 DEF HandleStart, HandleStop, HandleCancel, HandleOther
  <2>3. Queues(c)
    BY <1>1, <2>1, <2>2 DEF Queues
  <2> QED BY <2>1, <2>3
<1>7. CASE Forward(c)
  BY <1>7 DEF Forward, Write, Queues, taskVars
<1>8. CASE HandleEof(c) \/ HandleReadError(c)
  BY <1>8 DEF HandleEof, HandleReadError, Leave, Queues, taskVars
<1>9. CASE Client(c)
  BY <1>9 DEF Client, ClientSends, ClientReads, ClientCloses, Queues, taskVars
<1> QED BY <1>4, <1>5, <1>6, <1>7, <1>8, <1>9 DEF Handler

LEMMA QueuesKeepTurn ==
  ASSUME TypeOK, Grows, NEW c \in Clients, HearsInTurn(c), Queues(c)
  PROVE  HearsInTurn(c)'
<1> DEFINE p == outbox[c]
           q == resp[c]
           K == Known(c)'
<1>1. /\ outbox \in [Clients -> Seq(Msgs)] /\ resp \in [Clients -> Seq(Msgs)]
      /\ p \in Seq(Msgs) /\ q \in Seq(Msgs)
  BY DEF TypeOK, HandlerTypes
<1>2. p \in Seq(K) /\ q \in Seq(K) /\ InTurn(p, q)
  BY KnownGrows, SeqGrows DEF HearsInTurn
<1>3. ASSUME NEW a \in Seq(K), NEW b \in Seq(K), InTurn(a, b), outbox'[c] = a, resp'[c] = b
      PROVE  HearsInTurn(c)'
  BY <1>3 DEF HearsInTurn
<1>4. \A m \in Msgs : m.from = NoSession => m \in K
  BY DEF Known
<1> HIDE DEF K
<1>5. CASE outbox' = outbox /\ resp' = resp
  BY <1>2, <1>3, <1>5
<1>6. ASSUME NEW m \in Msgs, m.from = NoSession,
             outbox' = [outbox EXCEPT ![c] = Append(@, m)], resp' = resp
      PROVE  HearsInTurn(c)'
  <2>1. InTurn(Append(p, m), q)
    BY <1>1, <1>2, <1>6, WritesInTurn
  <2>2. Append(p, m) \in Seq(K)
    BY <1>2, <1>4, <1>6
  <2>3. outbox'[c] = Append(p, m) /\ resp'[c] = q
    BY <1>1, <1>6
  <2> QED BY <1>2, <1>3, <2>1, <2>2, <2>3
<1>7. ASSUME q # <<>>, resp' = [resp EXCEPT ![c] = Tail(@)],
             outbox' = outbox \/ outbox' = [outbox EXCEPT ![c] = Append(@, Head(q))]
      PROVE  HearsInTurn(c)'
  <2>1. InTurn(Append(p, Head(q)), Tail(q)) /\ InTurn(p, Tail(q))
    BY <1>1, <1>2, <1>7, ForwardsInTurn
  <2>2. Append(p, Head(q)) \in Seq(K) /\ Tail(q) \in Seq(K)
    BY <1>2, <1>7
  <2>3. resp'[c] = Tail(q) /\ (outbox'[c] = p \/ outbox'[c] = Append(p, Head(q)))
    BY <1>1, <1>7
  <2> QED BY <1>2, <1>3, <2>1, <2>2, <2>3
<1>8. ASSUME outbox' = outbox, resp' = [resp EXCEPT ![c] = <<>>] PROVE HearsInTurn(c)'
  <2>1. InTurn(p, <<>>) /\ <<>> \in Seq(K)
    BY <1>1, <1>2, DropsInTurn
  <2>2. outbox'[c] = p /\ resp'[c] = <<>>
    BY <1>1, <1>8
  <2> QED BY <1>2, <1>3, <2>1, <2>2
<1>9. ASSUME p # <<>>, outbox' = [outbox EXCEPT ![c] = Tail(@)], resp' = resp
      PROVE  HearsInTurn(c)'
  <2>1. InTurn(Tail(p), q)
    BY <1>1, <1>2, <1>9, DropsInTurn
  <2>2. Tail(p) \in Seq(K)
    BY <1>2, <1>9
  <2>3. outbox'[c] = Tail(p) /\ resp'[c] = q
    BY <1>1, <1>9
  <2> QED BY <1>2, <1>3, <2>1, <2>2, <2>3
<1>10. ASSUME outbox' = [outbox EXCEPT ![c] = <<>>], resp' = resp PROVE HearsInTurn(c)'
  <2>1. InTurn(<<>>, q) /\ <<>> \in Seq(K)
    BY <1>1, <1>2, DropsInTurn
  <2>2. outbox'[c] = <<>> /\ resp'[c] = q
    BY <1>1, <1>10
  <2> QED BY <1>2, <1>3, <2>1, <2>2
<1> HIDE DEF p, q
<1>11. \/ outbox' = outbox /\ resp' = resp
       \/ \E m \in Msgs : m.from = NoSession /\ outbox' = [outbox EXCEPT ![c] = Append(@, m)]
                          /\ resp' = resp
       \/ /\ q # <<>> /\ resp' = [resp EXCEPT ![c] = Tail(@)]
          /\ outbox' = outbox \/ outbox' = [outbox EXCEPT ![c] = Append(@, Head(q))]
       \/ outbox' = outbox /\ resp' = [resp EXCEPT ![c] = <<>>]
       \/ p # <<>> /\ outbox' = [outbox EXCEPT ![c] = Tail(@)] /\ resp' = resp
       \/ outbox' = [outbox EXCEPT ![c] = <<>>] /\ resp' = resp
  BY DEF Queues, p, q
<1> QED BY <1>5, <1>6, <1>7, <1>8, <1>9, <1>10, <1>11

LEMMA ClientStepKeepsTurn ==
  ASSUME DaemonInv, Grows, AnswerInv, NEW c \in Clients, Handler(c) \/ Client(c)
  PROVE  AnswerInv'
<1> USE DEF DaemonInv
<1>1. /\ Queues(c) /\ outgoing' = outgoing
      /\ \A s \in Sessions : phase'[s] = phase[s] \/ phase[s] = "unused"
  BY QueueSteps
<1>2. ASSUME NEW d \in Clients PROVE HearsInTurn(d)'
  <2>1. CASE d = c
    BY <1>1, <2>1, QueuesKeepTurn DEF AnswerInv
  <2>2. CASE d # c
    <3>1. outbox'[d] = outbox[d] /\ resp'[d] = resp[d]
      BY <1>1, <2>2 DEF Queues, TypeOK, HandlerTypes
    <3> QED BY <3>1, StillHears DEF AnswerInv
  <2> QED BY <2>1, <2>2
<1>3. ASSUME NEW s \in Sessions PROVE SaysInTurn(s)'
  BY <1>1, <1>3 DEF AnswerInv, SaysInTurn
<1> QED BY <1>2, <1>3 DEF AnswerInv

LEMMA PlainEnds ==
  ASSUME NEW s \in Sessions, NEW q \in Seq(Plain(s))
  PROVE  /\ q \in Seq(Words(s)) /\ q \in Seq(Msgs) /\ Ends(q)
         /\ \A i \in 1 .. Len(q) : ~LastWord(q[i])
<1>1. \A i \in 1 .. Len(q) : q[i] \in Plain(s)
  OBVIOUS
<1>2. Plain(s) \subseteq Words(s) /\ Plain(s) \subseteq Msgs
  BY DEF Plain, Words
<1>3. q \in Seq(Words(s)) /\ q \in Seq(Msgs)
  BY <1>2, SeqGrows
<1>4. \A i \in 1 .. Len(q) : ~LastWord(q[i])
  BY <1>1 DEF Plain, LastWord
<1> QED BY <1>3, <1>4 DEF Ends

LEMMA AnswersPlain ==
  ASSUME NEW s \in Sessions
  PROVE  /\ <<>> \in Seq(Plain(s)) /\ <<Msg("error", s)>> \in Seq(Plain(s))
         /\ Answers(s) \subseteq Seq(Plain(s))
<1>1. \A k \in {"partial", "final", "error"} : Msg(k, s) \in Plain(s)
  BY DEF Plain, Words, Msg, Msgs, Kinds
<1>2. <<>> \in Seq(Plain(s)) /\ <<Msg("error", s)>> \in Seq(Plain(s))
  BY <1>1, ShortSeqs
<1>3. ASSUME NEW msgs \in Answers(s) PROVE msgs \in Seq(Plain(s))
  <2>1. \/ msgs = <<Msg("partial", s)>>
        \/ msgs = <<Msg("final", s)>>
        \/ msgs = <<Msg("partial", s), Msg("final", s)>>
    BY DEF Answers
  <2>2. Msg("partial", s) \in Plain(s) /\ Msg("final", s) \in Plain(s)
    BY <1>1
  <2> QED BY ONLY <2>1, <2>2, ShortSeqs
<1> QED BY <1>2, <1>3

(* What a step leaves session s to say, with p its next phase. *)
Saying(s, w, p) ==
  /\ w \in Seq(Words(s)) /\ Ends(w)
  /\ p # "ending" => w \in Seq(Plain(s))

LEMMA EndSays ==
  ASSUME TypeOK, NEW s \in Sessions, NEW msgs \in Seq(Plain(s)), EndWith(s, msgs)
  PROVE  /\ outgoing' = [outgoing EXCEPT ![s] = Append(msgs, Msg("idle", s))]
         /\ Saying(s, Append(msgs, Msg("idle", s)), phase'[s])
<1> DEFINE m == Msg("idle", s)
<1>1. m \in Words(s) /\ m \in Msgs
  BY DEF Msg, Msgs, Kinds, Words
<1>2. /\ msgs \in Seq(Words(s)) /\ msgs \in Seq(Msgs) /\ Ends(msgs)
      /\ \A i \in 1 .. Len(msgs) : ~LastWord(msgs[i])
  BY PlainEnds
<1> HIDE DEF m
<1>3. Append(msgs, m) \in Seq(Words(s))
  BY <1>1, <1>2
<1>4. Ends(Append(msgs, m))
  BY <1>1, <1>2, EndsAppend
<1>5. phase'[s] = "ending"
  BY DEF EndWith, TypeOK, TaskTypes
<1> QED BY <1>3, <1>4, <1>5 DEF Saying, EndWith, m

LEMMA PlainSays ==
  ASSUME NEW s \in Sessions, NEW w \in Seq(Plain(s)), NEW p PROVE Saying(s, w, p)
BY PlainEnds DEF Saying

(* A task gets something to say while its handler hears nothing. *)
LEMMA TaskSays ==
  ASSUME TypeOK, NEW s \in Sessions, SaysInTurn(s), Task(s), ~TaskSend(s)
  PROVE  /\ resp' = resp /\ outbox' = outbox
         /\ \E w : outgoing' = [outgoing EXCEPT ![s] = w] /\ Saying(s, w, phase'[s])
<1>1. resp' = resp /\ outbox' = outbox
  BY DEF Task, SendSetup, MicClosed, ChunkFails, Response, FinalResponse, ServerError,
         ServerCloses, Cancelled, handlerVars
<1>2. /\ phase \in [Sessions -> {"unused", "opening", "loop", "ending", "over", "cancelled"}]
      /\ outgoing \in [Sessions -> Seq(Msgs)]
  BY DEF TypeOK, TaskTypes
<1> DEFINE Goal == \E w : outgoing' = [outgoing EXCEPT ![s] = w] /\ Saying(s, w, phase'[s])
<1>3. ASSUME NEW msgs \in Seq(Plain(s)), EndWith(s, msgs) PROVE Goal
  BY <1>3, EndSays
<1>4. ASSUME NEW msgs \in Seq(Plain(s)), outgoing' = [outgoing EXCEPT ![s] = msgs] PROVE Goal
  BY <1>4, PlainSays
<1>5. ASSUME outgoing' = outgoing, phase[s] # "ending" PROVE Goal
  <2>1. outgoing[s] \in Seq(Plain(s)) /\ outgoing' = [outgoing EXCEPT ![s] = outgoing[s]]
    BY <1>2, <1>5 DEF SaysInTurn
  <2> QED BY <1>4, <2>1
<1> HIDE DEF Goal
<1>6. ASSUME SendSetup(s) PROVE Goal
  BY <1>3, <1>5, <1>6, AnswersPlain DEF SendSetup
<1>7. ASSUME MicClosed(s) \/ ChunkFails(s) PROVE Goal
  BY <1>5, <1>7 DEF MicClosed, ChunkFails, InLoop
<1>8. ASSUME Response(s) PROVE Goal
  BY <1>4, <1>8, AnswersPlain DEF Response
<1>9. ASSUME FinalResponse(s) PROVE Goal
  BY <1>3, <1>9, AnswersPlain DEF FinalResponse
<1>10. ASSUME ServerError(s) \/ ServerCloses(s) PROVE Goal
  BY <1>3, <1>10, AnswersPlain DEF ServerError, ServerCloses
<1>11. ASSUME Cancelled(s) PROVE Goal
  BY <1>4, <1>11, AnswersPlain DEF Cancelled
<1>12. Goal
  BY <1>6, <1>7, <1>8, <1>9, <1>10, <1>11 DEF Task
<1> QED BY <1>1, <1>12 DEF Goal

LEMMA NoneLeft ==
  ASSUME NEW A, NEW q \in Seq(A), Len(q) = 0 PROVE q = <<>>
OBVIOUS

(* A task says its next word; the last one ends it. *)
LEMMA SendSays ==
  ASSUME TypeOK, NEW s \in Sessions, SaysInTurn(s), TaskSend(s)
  PROVE  /\ Saying(s, Tail(outgoing[s]), phase'[s])
         /\ Head(outgoing[s]) \in Words(s)
         /\ LastWord(Head(outgoing[s])) => phase'[s] = "over"
<1> DEFINE q == outgoing[s]
<1>1. /\ phase \in [Sessions -> {"unused", "opening", "loop", "ending", "over", "cancelled"}]
      /\ q \in Seq(Msgs) /\ q \in Seq(Words(s)) /\ Ends(q) /\ q # <<>>
      /\ phase[s] # "ending" => q \in Seq(Plain(s))
  BY DEF TypeOK, TaskTypes, SaysInTurn, TaskSend
<1>2. \/ phase[s] = "ending" /\ Len(q) = 1 /\ phase'[s] = "over"
      \/ ~(phase[s] = "ending" /\ Len(q) = 1) /\ phase'[s] = phase[s]
  BY <1>1 DEF TaskSend
<1> HIDE DEF q
<1>3. /\ Head(q) \in Words(s) /\ Tail(q) \in Seq(Words(s)) /\ Len(q) \in Nat \ {0}
      /\ Len(Tail(q)) = Len(q) - 1
  BY <1>1
<1>4. /\ Ends(Tail(q))
      /\ LastWord(Head(q)) => \A j \in 1 .. Len(Tail(q)) : Tail(q)[j].from # Head(q).from
  BY <1>1, EndsTail
<1>5. ASSUME LastWord(Head(q)) PROVE phase'[s] = "over"
  <2>1. phase[s] = "ending"
    <3>1. ASSUME q \in Seq(Plain(s)) PROVE FALSE
      <4>1. Head(q) \in Plain(s)
        BY <1>1, <3>1
      <4> QED BY <1>5, <4>1 DEF Plain, LastWord
    <3> QED BY <1>1, <3>1
  <2>2. \A j \in 1 .. Len(Tail(q)) : Tail(q)[j] \in Words(s)
    BY <1>3
  <2>3. \A j \in 1 .. Len(Tail(q)) : Tail(q)[j].from = Head(q).from
    BY <1>3, <2>2 DEF Words
  <2>4. \A j \in 1 .. Len(Tail(q)) : FALSE
    BY <1>4, <1>5, <2>3
  <2>5. Len(q) = 1
    BY ONLY <1>3, <2>4
  <2> QED BY <1>2, <2>1, <2>5
<1>6. ASSUME phase'[s] # "ending" PROVE Tail(q) \in Seq(Plain(s))
  <2>1. CASE phase[s] = "ending"
    <3>1. Len(Tail(q)) = 0
      BY <1>2, <1>3, <1>6, <2>1
    <3>2. Tail(q) = <<>>
      BY <1>3, <3>1, NoneLeft
    <3> QED BY <3>2, AnswersPlain
  <2>2. CASE phase[s] # "ending"
    BY <1>1, <2>2
  <2> QED BY <2>1, <2>2
<1>7. Saying(s, Tail(q), phase'[s])
  BY <1>3, <1>4, <1>6 DEF Saying
<1> QED BY <1>3, <1>5, <1>7 DEF q

(* The answer of a running session is queued for its handler. *)
LEMMA AnswerKeepsTurn ==
  ASSUME TypeOK, Grows, NEW c \in Clients, HearsInTurn(c),
         NEW m \in Msgs, m.from \in Sessions, Live(m.from),
         m \in Known(c)', outbox'[c] = outbox[c], resp'[c] = Append(resp[c], m)
  PROVE  HearsInTurn(c)'
<1> DEFINE p == outbox[c]
           q == resp[c]
           K == Known(c)'
<1>1. p \in Seq(Msgs) /\ q \in Seq(Msgs) /\ p \in Seq(Known(c)) /\ q \in Seq(Known(c))
      /\ InTurn(p, q)
  BY DEF TypeOK, HandlerTypes, HearsInTurn
<1>2. ASSUME NEW k \in Known(c), LastWord(k) PROVE m.from # k.from
  BY <1>2 DEF Known, LastWord
<1>3. /\ \A i \in 1 .. Len(p) : p[i] \in Known(c)
      /\ \A i \in 1 .. Len(q) : q[i] \in Known(c)
  BY <1>1
<1>4. p \in Seq(K) /\ q \in Seq(K)
  BY <1>1, KnownGrows, SeqGrows
<1> HIDE DEF p, q, K
<1>5. InTurn(p, Append(q, m))
  BY <1>1, <1>2, <1>3, AnswersInTurn
<1>6. m \in K
  BY DEF K
<1>7. Append(q, m) \in Seq(K)
  BY <1>4, <1>6
<1> QED BY <1>4, <1>5, <1>7 DEF HearsInTurn, p, q, K

LEMMA TaskKeepsTurn ==
  ASSUME DaemonInv, Grows, AnswerInv, NEW s \in Sessions, Task(s)
  PROVE  AnswerInv'
<1> USE DEF DaemonInv
<1>1. TaskMoves(s) /\ SaysInTurn(s)
  BY TaskStepMoves DEF AnswerInv
<1>2. ASSUME NEW w, outgoing' = [outgoing EXCEPT ![s] = w], Saying(s, w, phase'[s])
      PROVE  \A t \in Sessions : SaysInTurn(t)'
  <2>1. ASSUME NEW t \in Sessions, t # s PROVE SaysInTurn(t)'
    <3>1. outgoing'[t] = outgoing[t] /\ phase'[t] = phase[t]
      BY <1>1, <1>2, <2>1 DEF TaskMoves, TypeOK, TaskTypes
    <3> QED BY <2>1, <3>1 DEF AnswerInv, SaysInTurn
  <2>2. SaysInTurn(s)'
    <3>1. outgoing'[s] = w
      BY <1>2 DEF TypeOK, TaskTypes
    <3> QED BY <1>2, <3>1 DEF SaysInTurn, Saying
  <2> QED BY <2>1, <2>2
<1>3. CASE ~TaskSend(s)
  <2>1. PICK w : outgoing' = [outgoing EXCEPT ![s] = w] /\ Saying(s, w, phase'[s])
    BY <1>1, <1>3, TaskSays
  <2>2. resp' = resp /\ outbox' = outbox
    BY <1>1, <1>3, TaskSays
  <2>3. \A c \in Clients : HearsInTurn(c)'
    BY <2>2, StillHears DEF AnswerInv
  <2> QED BY <1>2, <2>1, <2>3 DEF AnswerInv
<1>4. CASE TaskSend(s)
  <2> DEFINE m == Head(outgoing[s])
             o == owner[s]
  <2>1. /\ Saying(s, Tail(outgoing[s]), phase'[s])
        /\ m \in Words(s) /\ (LastWord(m) => phase'[s] = "over")
    BY <1>1, <1>4, SendSays
  <2>2. \A t \in Sessions : SaysInTurn(t)'
    BY <1>2, <1>4, <2>1 DEF TaskSend
  <2>3. Live(s) /\ s <= spawned /\ o \in Clients
    BY <1>1 DEF TaskMoves, Live, Structure, SpawnedInOrder, TypeOK, TaskTypes
  <2>4. m \in Msgs /\ m.from = s
    BY <2>1 DEF Words
  <2>5. ASSUME NEW c \in Clients, c = o PROVE m \in Known(c)'
    <3>1. s <= spawned' /\ owner'[s] = c
      BY <2>3, <2>5 DEF Grows
    <3>2. m.kind = "idle" => ~Live(s)'
      BY <2>1, <2>4 DEF LastWord, Live
    <3> QED BY <2>4, <3>1, <3>2 DEF Known
  <2>6. outbox' = outbox /\ (resp' = resp \/ resp' = [resp EXCEPT ![o] = Append(@, m)])
    BY <1>4 DEF TaskSend
  <2> HIDE DEF m, o
  <2>7. ASSUME NEW c \in Clients PROVE HearsInTurn(c)'
    <3>1. CASE resp' = resp \/ c # o
      <4>1. outbox'[c] = outbox[c] /\ resp'[c] = resp[c]
        BY <2>6, <3>1 DEF TypeOK, HandlerTypes
      <4> QED BY <4>1, StillHears DEF AnswerInv
    <3>2. CASE resp' = [resp EXCEPT ![o] = Append(@, m)] /\ c = o
      <4>1. outbox'[c] = outbox[c] /\ resp'[c] = Append(resp[c], m)
        BY <2>6, <3>2 DEF TypeOK, HandlerTypes
      <4>2. m.from \in Sessions /\ Live(m.from) /\ m \in Known(c)' /\ HearsInTurn(c)
        BY <2>3, <2>4, <2>5, <3>2 DEF AnswerInv
      <4> QED BY <2>4, <2>6, <4>1, <4>2, AnswerKeepsTurn
    <3> QED BY <2>6, <3>1, <3>2
  <2> QED BY <2>2, <2>7 DEF AnswerInv
<1> QED BY <1>3, <1>4

LEMMA AnswerInit == Init => AnswerInv
<1> SUFFICES ASSUME Init PROVE AnswerInv
  OBVIOUS
<1>1. ASSUME NEW s \in Sessions PROVE SaysInTurn(s)
  <2>1. outgoing[s] = <<>>
    BY DEF Init
  <2>2. <<>> \in Seq(Plain(s))
    BY AnswersPlain
  <2> QED BY <2>1, <2>2, PlainEnds DEF SaysInTurn
<1>2. ASSUME NEW c \in Clients PROVE HearsInTurn(c)
  <2>1. outbox[c] = <<>> /\ resp[c] = <<>>
    BY DEF Init
  <2>2. InTurn(<<>>, <<>>)
    BY DEF InTurn, Ends, Silenced
  <2> QED BY <2>1, <2>2 DEF HearsInTurn
<1> QED BY <1>1, <1>2 DEF AnswerInv

LEMMA AnswerStep == DaemonInv /\ AnswerInv /\ [Next]_vars => AnswerInv'
<1> SUFFICES ASSUME DaemonInv, AnswerInv, [Next]_vars PROVE AnswerInv'
  OBVIOUS
<1>1. Grows
  BY StepGrows
<1>2. ASSUME NEW c \in Clients, Handler(c) \/ Client(c) PROVE AnswerInv'
  BY <1>1, <1>2, ClientStepKeepsTurn
<1>3. ASSUME NEW s \in Sessions, Task(s) PROVE AnswerInv'
  BY <1>1, <1>3, TaskKeepsTurn
<1>4. CASE Refill \/ UNCHANGED vars
  BY <1>4 DEF Refill, vars, handlerVars, taskVars, AnswerInv, SaysInTurn, HearsInTurn,
              Known, Live
<1> QED BY <1>2, <1>3, <1>4 DEF Next

LEMMA ComingInTurn ==
  ASSUME NEW p \in Seq(Msgs), NEW q \in Seq(Msgs), InTurn(p, q)
  PROVE  Ends(p \o q)
<1> DEFINE a == p \o q
<1>1. /\ Len(p) \in Nat /\ Len(q) \in Nat /\ Len(a) = Len(p) + Len(q)
      /\ \A i \in 1 .. Len(p) : a[i] = p[i]
      /\ \A i \in 1 .. Len(a) : i \notin 1 .. Len(p) => i - Len(p) \in 1 .. Len(q) /\ a[i] = q[i - Len(p)]
  OBVIOUS
<1> HIDE DEF a
<1>2. ASSUME NEW i \in 1 .. Len(a), NEW j \in 1 .. Len(a), i < j, LastWord(a[i])
      PROVE  a[j].from # a[i].from
  <2>1. CASE j \in 1 .. Len(p)
    <3>1. i \in 1 .. Len(p)
      BY <1>1, <1>2, <2>1
    <3> QED BY <1>1, <1>2, <2>1, <3>1 DEF InTurn, Ends
  <2>2. CASE i \in 1 .. Len(p) /\ j \notin 1 .. Len(p)
    BY <1>1, <1>2, <2>2 DEF InTurn, Silenced
  <2>3. CASE i \notin 1 .. Len(p) /\ j \notin 1 .. Len(p)
    <3> DEFINE k == i - Len(p)
               l == j - Len(p)
    <3>1. k \in 1 .. Len(q) /\ l \in 1 .. Len(q) /\ k < l /\ a[i] = q[k] /\ a[j] = q[l]
      BY <1>1, <1>2, <2>3
    <3> HIDE DEF k, l
    <3>2. q[l].from # q[k].from
      BY <1>2, <3>1 DEF InTurn, Ends
    <3> QED BY <3>1, <3>2
  <2> QED BY <2>1, <2>2, <2>3, <1>1, <1>2
<1>3. Ends(a)
  BY <1>2 DEF Ends
<1> QED BY <1>3 DEF a

LEMMA AnswersEnd == TypeOK /\ AnswerInv => IdleIsLast
<1> SUFFICES ASSUME TypeOK, AnswerInv, NEW c \in Clients, NEW i \in DOMAIN Coming(c),
                    Coming(c)[i].from # NoSession
             PROVE  /\ owner[Coming(c)[i].from] = c
                    /\ Coming(c)[i].kind = "idle" =>
                         /\ ~Live(Coming(c)[i].from)
                         /\ \A j \in i + 1 .. Len(Coming(c)) :
                              Coming(c)[j].from # Coming(c)[i].from
  BY DEF IdleIsLast
<1>1. /\ outbox[c] \in Seq(Msgs) /\ resp[c] \in Seq(Msgs) /\ InTurn(outbox[c], resp[c])
      /\ outbox[c] \in Seq(Known(c)) /\ resp[c] \in Seq(Known(c))
  BY DEF TypeOK, HandlerTypes, AnswerInv, HearsInTurn
<1>2. Ends(Coming(c))
  BY <1>1, ComingInTurn DEF Coming
<1>3. Coming(c) \in Seq(Known(c))
  BY <1>1 DEF Coming
<1>4. i \in 1 .. Len(Coming(c)) /\ Len(Coming(c)) \in Nat /\ Coming(c)[i] \in Known(c)
  BY <1>3
<1>5. owner[Coming(c)[i].from] = c /\ (Coming(c)[i].kind = "idle" => ~Live(Coming(c)[i].from))
  BY <1>4 DEF Known
<1>6. ASSUME Coming(c)[i].kind = "idle", NEW j \in i + 1 .. Len(Coming(c))
      PROVE  Coming(c)[j].from # Coming(c)[i].from
  <2>1. j \in 1 .. Len(Coming(c)) /\ i < j
    BY <1>4
  <2> QED BY <1>2, <1>4, <1>6, <2>1 DEF Ends, LastWord
<1> QED BY <1>5, <1>6

(* Whatever the two queues hold, a client hears only sessions it began,    *)
(* and the idle of one is the last it hears of it: what a session says     *)
(* comes in order, from one sender, and ends with its idle status; an      *)
(* aborted session says none (ipc.rs:118-133, 170-175).                    *)
THEOREM IdleIsLastWord == Spec => []IdleIsLast
<1>1. Init => AnswerInv
  BY AnswerInit
<1>2. DaemonInv /\ AnswerInv /\ [Next]_vars => AnswerInv'
  BY AnswerStep
<1>3. DaemonInv /\ AnswerInv => IdleIsLast
  BY AnswersEnd DEF DaemonInv
<1> QED BY <1>1, <1>2, <1>3, DaemonInvariant, PTL DEF Spec

(***************************************************************************)
(* The refinement                                                          *)
(***************************************************************************)

(* With one connection, nothing takes the microphone from an active        *)
(* session.                                                                *)
LEMMA OneClientStep ==
  ASSUME \A c, d \in Clients : c = d, CoreTypes, ActiveHasMic, [Next]_vars
  PROVE  ActiveHasMic'
<1> USE DEF ActiveHasMic, CoreTypes
<1>1. ASSUME session' = session, target' = target PROVE ActiveHasMic'
  BY <1>1
<1>2. ASSUME NEW c \in Clients, Begin(c) PROVE ActiveHasMic'
  BY <1>2 DEF Begin
<1>3. ASSUME NEW c \in Clients, HandleStart(c) \/ HandleStop(c) \/ HandleCancel(c)
      PROVE ActiveHasMic'
  <2>1. session' = [session EXCEPT ![c] = NoSession]
    BY <1>3 DEF HandleStart, HandleStop, HandleCancel
  <2> QED BY <2>1
<1>4. ASSUME NEW c \in Clients, HandleEof(c) \/ HandleReadError(c) PROVE ActiveHasMic'
  BY <1>4 DEF HandleEof, HandleReadError, Leave
<1>5. ASSUME NEW c \in Clients, Handler(c) PROVE ActiveHasMic'
  BY <1>1, <1>2, <1>3, <1>4, <1>5
     DEF Handler, Accept, TakeSpare, NoSpare, DialOk, DialFail, HandleOther, Forward
<1>6. ASSUME NEW c \in Clients, Client(c) PROVE ActiveHasMic'
  BY <1>1, <1>6 DEF Client, ClientSends, ClientReads, ClientCloses
<1>7. ASSUME NEW s \in Sessions, Task(s) PROVE ActiveHasMic'
  BY <1>1, <1>7 DEF Task, SendSetup, MicClosed, ChunkFails, Response, FinalResponse, ServerError,
                    ServerCloses, TaskSend, Cancelled, handlerVars
<1>8. CASE Refill \/ UNCHANGED vars
  BY <1>1, <1>8 DEF Refill, vars, handlerVars
<1> QED BY <1>5, <1>6, <1>7, <1>8 DEF Next

(* With one connection, which is what the engine opens, the session of its *)
(* handler has the microphone until that client's own stop, cancel, start  *)
(* or end takes it (ipc.rs:78-163).                                        *)
THEOREM ActiveSessionHasMic ==
  ASSUME \A c, d \in Clients : c = d PROVE Spec => []ActiveHasMic
<1>1. Init => ActiveHasMic
  BY DEF Init, ActiveHasMic
<1>2. DaemonInv => CoreTypes
  BY TypesGiveCore DEF DaemonInv
<1>3. CoreTypes /\ ActiveHasMic /\ [Next]_vars => ActiveHasMic'
  BY OneClientStep
<1> QED BY <1>1, <1>2, <1>3, DaemonInvariant, PTL DEF Spec

(* A step that only takes the microphone from its session, or nothing.     *)
LEMMA ReleaseRefines ==
  ASSUME CoreTypes, phase' = phase, target' = target \/ target' = NoSession
  PROVE  [Abstract!Next]_Life
<1>1. CASE target' = target
  BY <1>1 DEF Life, Live
<1>2. CASE target' = NoSession /\ target \in Sessions
  <2>1. CASE Live(target)
    <3>1. Life[target] = "recording"
      BY <1>2, <2>1 DEF Life, Live
    <3>2. Life' = [Life EXCEPT ![target] = "draining"]
      <4>1. ASSUME NEW s \in Sessions
            PROVE Life'[s] = [Life EXCEPT ![target] = "draining"][s]
        BY <1>2, <2>1 DEF Life, Live
      <4> QED BY <4>1 DEF Life
    <3> QED BY <1>2, <3>1, <3>2 DEF Abstract!Next, Abstract!Release
  <2>2. CASE ~Live(target)
    <3>1. ASSUME NEW s \in Sessions PROVE Life'[s] = Life[s]
      BY <1>2, <2>2 DEF Life, Live, CoreTypes
    <3> QED BY <3>1 DEF Life
  <2> QED BY <2>1, <2>2
<1> QED BY <1>1, <1>2 DEF CoreTypes

LEMMA TaskRefines ==
  ASSUME CoreTypes, NEW s \in Sessions, TaskMoves(s) PROVE [Abstract!Next]_Life
<1> USE DEF CoreTypes, TaskMoves
<1>1. CASE phase'[s] \in {"over", "cancelled"}
  <2>1. Life[s] \in {"recording", "draining"}
    BY DEF Life, Live
  <2>2. Life' = [Life EXCEPT ![s] = "over"]
    <3>1. ASSUME NEW t \in Sessions PROVE Life'[t] = [Life EXCEPT ![s] = "over"][t]
      BY <1>1 DEF Life, Live
    <3> QED BY <3>1 DEF Life
  <2> QED BY <2>1, <2>2 DEF Abstract!Next, Abstract!End
<1>2. CASE phase'[s] \notin {"over", "cancelled"}
  <2>1. ASSUME NEW t \in Sessions PROVE Life'[t] = Life[t]
    BY <1>2 DEF Life, Live
  <2> QED BY <2>1 DEF Life
<1> QED BY <1>1, <1>2

LEMMA BeginRefines ==
  ASSUME CoreTypes, Structure, NEW c \in Clients, NEW s, BeginMoves(c, s)
  PROVE  [Abstract!Next]_Life
<1> USE DEF CoreTypes, BeginMoves
<1>1. Life[s] = "fresh"
  BY DEF Life, Structure, SpawnedInOrder
<1>2. ASSUME NEW t \in Sessions
      PROVE Life'[t] = IF t = s THEN "recording"
                       ELSE IF Life[t] = "recording" THEN "draining" ELSE Life[t]
  BY DEF Life, Live
<1>3. Life' = [t \in Sessions |-> IF t = s THEN "recording"
                       ELSE IF Life[t] = "recording" THEN "draining" ELSE Life[t]]
  BY <1>2 DEF Life
<1> QED BY <1>1, <1>3 DEF Abstract!Next, Abstract!Start

LEMMA HandlerRefines ==
  ASSUME TypeOK, Structure, NEW c \in Clients, Handler(c) PROVE [Abstract!Next]_Life
<1>1. ASSUME Begin(c), hpc[c] \in {"take", "dial"} PROVE [Abstract!Next]_Life
  <2>1. BeginMoves(c, spawned + 1)
    BY <1>1 DEF Begin, BeginMoves, TypeOK, TaskTypes
  <2> QED BY <2>1, BeginRefines, TypesGiveCore
<1>2. CASE TakeSpare(c) \/ DialOk(c)
  BY <1>1, <1>2 DEF TakeSpare, DialOk
<1>3. CASE ~(TakeSpare(c) \/ DialOk(c))
  <2>1. phase' = phase /\ (target' = target \/ target' = NoSession)
    BY <1>3 DEF Handler, Accept, HandleStart, NoSpare, DialFail, HandleStop, HandleCancel,
                HandleOther, Forward, HandleEof, HandleReadError, Leave, taskVars
  <2> QED BY <2>1, ReleaseRefines, TypesGiveCore
<1> QED BY <1>2, <1>3

LEMMA StepRefines == DaemonInv /\ [Next]_vars => [Abstract!Next]_Life
<1> SUFFICES ASSUME DaemonInv, [Next]_vars PROVE [Abstract!Next]_Life
  OBVIOUS
<1> USE TypesGiveCore DEF DaemonInv
<1>1. ASSUME NEW c \in Clients, Handler(c) PROVE [Abstract!Next]_Life
  BY <1>1, HandlerRefines
<1>2. ASSUME NEW s \in Sessions, Task(s) PROVE [Abstract!Next]_Life
  BY <1>2, TaskStepMoves, TaskRefines
<1>3. ASSUME phase' = phase, target' = target PROVE [Abstract!Next]_Life
  BY <1>3, ReleaseRefines
<1>4. ASSUME NEW c \in Clients, Client(c) PROVE [Abstract!Next]_Life
  BY <1>3, <1>4 DEF Client, ClientSends, ClientReads, ClientCloses, taskVars
<1>5. CASE Refill \/ UNCHANGED vars
  BY <1>3, <1>5 DEF Refill, vars, taskVars
<1> QED BY <1>1, <1>2, <1>4, <1>5 DEF Next

(* Seen from outside, the handlers, tasks, channels and lines implement    *)
(* the lifecycle of recordings: each starts once, keeps the microphone     *)
(* until it loses it, never gets it back, and ends once.                   *)
THEOREM DaemonImplementsLifecycle == Spec => ImplementsLifecycle
<1>1. Init => Abstract!Init
  BY DEF Init, Abstract!Init, Life
<1>2. DaemonInv /\ [Next]_vars => [Abstract!Next]_Life
  BY StepRefines
<1> QED BY <1>1, <1>2, DaemonInvariant, PTL DEF Spec, ImplementsLifecycle, Abstract!Spec

(***************************************************************************)
(* The daemon as the environment of AudioPath                              *)
(***************************************************************************)

(* The sessions whose task is over have dropped their audio receiver. *)
Ended == {s \in Sessions : phase[s] \in {"over", "cancelled"}}

(* Daemon has the target and the sessions, AudioPath the samples: with no  *)
(* sample captured, what is left of AudioPath is what it expects of the    *)
(* handlers and the tasks.                                                 *)
NoChunks == [s \in Sessions |-> <<>>]

Audio == INSTANCE AudioPath
           WITH begun <- spawned, over <- Ended, buffer <- <<>>, sending <- FALSE,
                captured <- 0, chan <- NoChunks, heard <- NoChunks,
                ChunkSamples <- 1, ChanCap <- 1, MaxBurst <- 1, MaxCaptured <- 0

LEMMA BeginSetsTarget ==
  ASSUME CoreTypes, Structure, NEW c \in Clients, NEW s, BeginMoves(c, s)
  PROVE  Audio!Next
<1>1. phase[s] = "unused" /\ spawned < MaxSessions
  BY DEF BeginMoves, CoreTypes, Structure, SpawnedInOrder
<1>2. Ended' = Ended
  BY <1>1 DEF Ended, BeginMoves, CoreTypes
<1>3. Audio!SetTarget
  BY <1>1, <1>2 DEF Audio!SetTarget, BeginMoves, NoChunks
<1> QED BY <1>3 DEF Audio!Next

LEMMA TaskEndsSession ==
  ASSUME CoreTypes, Structure, NEW s \in Sessions, TaskMoves(s)
  PROVE  [Audio!Next]_Audio!vars
<1> USE DEF CoreTypes, TaskMoves
<1>1. s \notin Ended /\ s <= spawned
  BY DEF Ended, Live, Structure, SpawnedInOrder
<1>2. CASE phase'[s] \in {"over", "cancelled"}
  <2>1. Ended' = Ended \cup {s}
    BY <1>2 DEF Ended
  <2>2. NoChunks = [NoChunks EXCEPT ![s] = <<>>]
    BY DEF NoChunks
  <2>3. Audio!SessionEnds(s)
    BY <1>1, <2>1, <2>2 DEF Audio!SessionEnds, NoChunks
  <2> QED BY <2>3 DEF Audio!Next, Audio!Sessions
<1>3. CASE phase'[s] \notin {"over", "cancelled"}
  <2>1. Ended' = Ended
    BY <1>1, <1>3 DEF Ended
  <2> QED BY <2>1 DEF Audio!vars, NoChunks
<1> QED BY <1>2, <1>3

LEMMA ReleaseClearsTarget ==
  ASSUME CoreTypes, phase' = phase, spawned' = spawned, target' = target \/ target' = NoSession
  PROVE  [Audio!Next]_Audio!vars
<1>1. Ended' = Ended
  BY DEF Ended
<1>2. CASE target' = target
  BY <1>1, <1>2 DEF Audio!vars, NoChunks
<1>3. CASE target' = NoSession /\ target # NoSession
  <2>1. Audio!ClearTarget
    BY <1>1, <1>3 DEF Audio!ClearTarget, NoChunks
  <2> QED BY <2>1 DEF Audio!Next
<1> QED BY <1>2, <1>3

LEMMA StepDrivesAudio == DaemonInv /\ [Next]_vars => [Audio!Next]_Audio!vars
<1> SUFFICES ASSUME DaemonInv, [Next]_vars PROVE [Audio!Next]_Audio!vars
  OBVIOUS
<1> USE TypesGiveCore DEF DaemonInv
<1>1. ASSUME NEW c \in Clients, Begin(c), hpc[c] \in {"take", "dial"}
      PROVE  [Audio!Next]_Audio!vars
  <2>1. BeginMoves(c, spawned + 1)
    BY <1>1 DEF Begin, BeginMoves, TypeOK, TaskTypes
  <2> QED BY <2>1, BeginSetsTarget
<1>2. ASSUME phase' = phase, spawned' = spawned, target' = target \/ target' = NoSession
      PROVE  [Audio!Next]_Audio!vars
  BY <1>2, ReleaseClearsTarget
<1>3. ASSUME NEW c \in Clients, Handler(c) PROVE [Audio!Next]_Audio!vars
  <2>1. CASE TakeSpare(c) \/ DialOk(c)
    BY <1>1, <2>1 DEF TakeSpare, DialOk
  <2>2. CASE ~(TakeSpare(c) \/ DialOk(c))
    <3>1. /\ phase' = phase /\ spawned' = spawned
          /\ target' = target \/ target' = NoSession
      BY <1>3, <2>2 DEF Handler, Accept, HandleStart, NoSpare, DialFail, HandleStop, HandleCancel,
                        HandleOther, Forward, HandleEof, HandleReadError, Leave, taskVars
    <3> QED BY <1>2, <3>1
  <2> QED BY <2>1, <2>2
<1>4. ASSUME NEW s \in Sessions, Task(s) PROVE [Audio!Next]_Audio!vars
  BY <1>4, TaskStepMoves, TaskEndsSession
<1>5. ASSUME NEW c \in Clients, Client(c) PROVE [Audio!Next]_Audio!vars
  BY <1>2, <1>5 DEF Client, ClientSends, ClientReads, ClientCloses, taskVars
<1>6. CASE Refill \/ UNCHANGED vars
  BY <1>2, <1>6 DEF Refill, vars, taskVars
<1> QED BY <1>3, <1>4, <1>5, <1>6 DEF Next

(* What AudioPath assumes of the rest of the daemon, Daemon does: the      *)
(* handlers make each session the target once, in the order in which they  *)
(* are spawned and before it is over, and a session ends once              *)
(* (ipc.rs:78-163): AudioPath leaves out no behaviour of its environment.  *)
THEOREM DaemonDrivesAudioPath == Spec => Audio!Spec
<1>1. Init => Audio!Init
  <2>1. ASSUME Init PROVE Ended = {}
    BY <2>1 DEF Init, Ended
  <2> QED BY <2>1 DEF Init, Audio!Init, NoChunks, Audio!Sessions
<1>2. DaemonInv /\ [Next]_vars => [Audio!Next]_Audio!vars
  BY StepDrivesAudio
<1> QED BY <1>1, <1>2, DaemonInvariant, PTL DEF Spec, Audio!Spec

=============================================================================
