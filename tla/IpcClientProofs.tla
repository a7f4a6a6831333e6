-------------------------- MODULE IpcClientProofs --------------------------
(***************************************************************************)
(* Theorems of IpcClient, for any number of descriptors and connections:   *)
(* ClientInv is inductive; the descriptors are owned, and lines are whole  *)
(* as long as only the receive thread reconnects.                          *)
(***************************************************************************)
EXTENDS IpcClient, TLAPS

USE ClientAssumption DEF Threads

LEMMA HalfFacts ==
  /\ NoHalf \in Halves
  /\ <<>> \in Seq(Halves)
  /\ \A b \in Seq(Halves), g \in Halves : Append(b, g) \in Seq(Halves)
<1>1. NoHalf \in Halves
  BY DEF NoHalf, Halves
<1> QED BY <1>1

LEMMA ClientInit == Init => ClientInv
<1> SUFFICES ASSUME Init PROVE ClientInv
  OBVIOUS
<1> USE DEF Init
<1>1. TypeOK
  <2>1. link \in Links
    BY DEF Links, Fresh
  <2>2. buffer \in Seq(Halves) /\ got \in Halves
    BY HalfFacts
  <2>3. fd \in [Threads -> Fds \cup {NoFd}] /\ conn \in [Fds -> Conns \cup {NoConn}]
    OBVIOUS
  <2>4. pc["main"] = "idle" /\ pc["recv"] = "top" /\ DOMAIN pc = Threads
    OBVIOUS
  <2>5. pc \in [Threads -> {"idle", "top", "look", "dial", "install", "use", "call", "newline",
                           "blocked", "append", "fail", "close", "join", "done", "ended"}]
    OBVIOUS
  <2> QED BY <2>1, <2>2, <2>3, <2>5 DEF TypeOK
<1>2. DescriptorsOwned /\ OwnersApart
  BY DEF DescriptorsOwned, OwnersApart
<1>3. BufferOfSocket /\ ~spliced
  BY DEF BufferOfSocket
<1> QED BY <1>1, <1>2, <1>3 DEF ClientInv

(* The steps, one disjunct each. *)
Step ==
  \/ \E t \in Threads : Look(t) \/ DialOk(t) \/ DialFails(t) \/ Install(t) \/ Use(t) \/ Fail(t)
  \/ SendJson \/ Send \/ SendNewline \/ Stop \/ StopCloses \/ Join
  \/ Top \/ Recv \/ RecvData \/ RecvEnd \/ AppendData
  \/ DaemonStarts \/ DaemonEnds \/ DaemonSays
  \/ UNCHANGED vars

LEMMA NextIsStep == [Next]_vars => Step
  BY DEF Next, Main, Receiver, Connecting, Step

LEMMA CloseTypes ==
  ASSUME TypeOK, NEW f \in Fds, Close(f)
  PROVE  /\ conn' \in [Fds -> Conns \cup {NoConn}]
         /\ link' \in Links
  BY DEF TypeOK, Close, Fresh, Links

LEMMA CloseSocketTypes ==
  ASSUME TypeOK, CloseSocket
  PROVE  /\ conn' \in [Fds -> Conns \cup {NoConn}]
         /\ link' \in Links
         /\ sock' = NoFd /\ buffer' = <<>>
  BY CloseTypes DEF TypeOK, CloseSocket

LEMMA StepTypes == ClientInv /\ Step => TypeOK'
<1> SUFFICES ASSUME ClientInv, Step PROVE TypeOK'
  OBVIOUS
<1>0. TypeOK
  BY DEF ClientInv
<1>1. ASSUME NEW t \in Threads, Look(t) \/ DialFails(t) \/ Use(t) PROVE TypeOK'
  BY <1>0, <1>1 DEF TypeOK, Look, DialFails, Use, Goes, kernelVars, historyVars
<1>2. ASSUME NEW t \in Threads, DialOk(t) PROVE TypeOK'
  BY <1>0, <1>2 DEF TypeOK, DialOk, Goes, historyVars
<1>3. ASSUME NEW t \in Threads, Install(t) PROVE TypeOK'
  <2>1. fd[t] \in Fds
    BY <1>3 DEF ClientInv, OwnersApart, Install, Goes
  <2>2. /\ conn' \in [Fds -> Conns \cup {NoConn}]
        /\ link' \in Links
    BY <1>0, <1>3, <2>1, CloseTypes DEF Install, TypeOK
  <2>3. buffer' \in Seq(Halves)
    BY <1>0, <1>3, HalfFacts DEF Install, TypeOK
  <2> QED BY <1>0, <1>3, <2>1, <2>2, <2>3 DEF TypeOK, Install, Goes, historyVars
<1>4. ASSUME NEW t \in Threads, Fail(t) PROVE TypeOK'
  <2>1. /\ conn' \in [Fds -> Conns \cup {NoConn}]
        /\ link' \in Links
        /\ sock' \in Fds \cup {NoFd}
        /\ buffer' \in Seq(Halves)
    BY <1>0, <1>4, HalfFacts, CloseSocketTypes DEF Fail, TypeOK
  <2> QED BY <1>0, <1>4, <2>1 DEF TypeOK, Fail, Goes, historyVars
<1>5. CASE SendJson \/ Send \/ SendNewline \/ Stop \/ Join \/ Top
  <2>1. /\ UNCHANGED <<fd, sock, buffer, reading, got, kernelVars, historyVars>>
        /\ running' \in BOOLEAN
    BY <1>0, <1>5 DEF SendJson, Send, SendNewline, Stop, Join, Top, TypeOK
  <2>2. PICK to \in {"look", "fail", "newline", "idle", "close", "done", "ended"} :
          \E t \in Threads : pc' = [pc EXCEPT ![t] = to]
    BY <1>5 DEF SendJson, Send, SendNewline, Stop, Join, Top, Goes
  <2> QED BY <1>0, <2>1, <2>2 DEF TypeOK, kernelVars, historyVars
<1>6. CASE StopCloses
  <2>1. /\ conn' \in [Fds -> Conns \cup {NoConn}]
        /\ link' \in Links
        /\ sock' \in Fds \cup {NoFd}
        /\ buffer' \in Seq(Halves)
    BY <1>0, <1>6, HalfFacts, CloseSocketTypes DEF StopCloses, TypeOK
  <2> QED BY <1>0, <1>6, <2>1 DEF TypeOK, StopCloses, Goes, historyVars
<1>7. CASE Recv \/ RecvEnd
  <2>1. CASE Recv
    BY <1>0, <2>1 DEF TypeOK, Recv, Behind, Goes, kernelVars, historyVars
  <2>2. CASE RecvEnd
    <3>1. link' \in Links
      <4>1. Fresh \in [lost : BOOLEAN, said : Nat, heard : Nat]
        BY DEF Fresh
      <4> QED BY <1>0, <2>2, <4>1 DEF RecvEnd, TypeOK, Links
    <3> QED BY <1>0, <2>2, <3>1 DEF TypeOK, RecvEnd, Goes, historyVars
  <2> QED BY <1>7, <2>1, <2>2
<1>8. CASE RecvData
  <2>1. reading \in Conns
    BY <1>0, <1>8 DEF ClientInv, OwnersApart, TypeOK, RecvData, Goes
  <2>2. link[reading] \in [lost : BOOLEAN, said : Nat, heard : Nat]
    BY <1>0, <2>1 DEF TypeOK, Links
  <2>3. got' \in Halves
    BY <1>8, <2>1, <2>2 DEF RecvData, Halves
  <2> DEFINE heard == [link[reading] EXCEPT !.heard = @ + 1]
  <2>4. heard \in [lost : BOOLEAN, said : Nat, heard : Nat]
    BY ONLY <2>2
  <2>6. link' = [link EXCEPT ![reading] = heard] \/ link' = [link EXCEPT ![reading] = Fresh]
    BY <1>8 DEF RecvData
  <2>7. Fresh \in [lost : BOOLEAN, said : Nat, heard : Nat]
    BY DEF Fresh
  <2> HIDE DEF heard
  <2>5. link' \in Links
    BY <1>0, <2>1, <2>4, <2>6, <2>7 DEF TypeOK, Links
  <2> QED BY <1>0, <1>8, <2>3, <2>5 DEF TypeOK, RecvData, Goes, historyVars
<1>9. CASE AppendData
  <2>1. buffer' \in Seq(Halves)
    <3>1. buffer' = <<>> \/ buffer' = Append(buffer, got)
      BY <1>9 DEF AppendData
    <3>2. buffer \in Seq(Halves) /\ got \in Halves
      BY <1>0 DEF TypeOK
    <3> QED BY ONLY <3>1, <3>2, HalfFacts
  <2>2. spliced' \in BOOLEAN
    BY <1>0, <1>9 DEF AppendData, TypeOK
  <2>3. got' \in Halves
    BY <1>9, HalfFacts DEF AppendData
  <2> QED BY <1>0, <1>9, <2>1, <2>2, <2>3 DEF TypeOK, AppendData, Goes, kernelVars
<1>10. CASE DaemonStarts \/ DaemonEnds \/ DaemonSays
  <2>1. CASE DaemonStarts
    BY <1>0, <2>1 DEF TypeOK, DaemonStarts, clientVars, historyVars
  <2>2. CASE DaemonEnds
    <3>1. link' \in Links
      BY <1>0, <2>2 DEF TypeOK, Links, DaemonEnds
    <3> QED BY <1>0, <2>2, <3>1 DEF TypeOK, DaemonEnds, clientVars, historyVars
  <2>3. CASE DaemonSays
    <3>1. PICK c \in Conns : link' = [link EXCEPT ![c].said = @ + 1]
      BY <2>3 DEF DaemonSays
    <3>2. link[c] \in [lost : BOOLEAN, said : Nat, heard : Nat]
      BY <1>0 DEF TypeOK, Links
    <3> DEFINE said == [link[c] EXCEPT !.said = @ + 1]
    <3>3. said \in [lost : BOOLEAN, said : Nat, heard : Nat]
      BY ONLY <3>2
    <3>4. link' = [link EXCEPT ![c] = said]
      BY <3>1
    <3> HIDE DEF said
    <3>5. link' \in Links
      BY <1>0, <3>3, <3>4 DEF TypeOK, Links
    <3> QED BY <1>0, <2>3, <3>5 DEF TypeOK, DaemonSays, clientVars, historyVars
  <2> QED BY <1>10, <2>1, <2>2, <2>3
<1>11. CASE UNCHANGED vars
  BY <1>0, <1>11 DEF TypeOK, vars, clientVars, kernelVars, historyVars
<1> QED
  BY <1>1, <1>2, <1>3, <1>4, <1>5, <1>6, <1>7, <1>8, <1>9, <1>10, <1>11 DEF Step

(* What the structural steps need of the types. *)
Shapes ==
  /\ pc \in [Threads -> {"idle", "top", "look", "dial", "install", "use", "call", "newline",
                         "blocked", "append", "fail", "close", "join", "done", "ended"}]
  /\ fd \in [Threads -> Fds \cup {NoFd}]
  /\ sock \in Fds \cup {NoFd}
  /\ conn \in [Fds -> Conns \cup {NoConn}]
  /\ reading \in Conns \cup {NoConn}

(* Which steps touch descriptors, and how. *)
LEMMA StepOwned ==
  Shapes /\ DescriptorsOwned /\ OwnersApart /\ Step => DescriptorsOwned' /\ OwnersApart'
<1> SUFFICES ASSUME Shapes, DescriptorsOwned, OwnersApart, Step
    PROVE DescriptorsOwned' /\ OwnersApart'
  OBVIOUS
<1> USE DEF Shapes, DescriptorsOwned, OwnersApart, Goes
<1>1. ASSUME NEW t \in Threads, Look(t) \/ DialFails(t) \/ Use(t)
      PROVE DescriptorsOwned' /\ OwnersApart'
  BY <1>1 DEF Look, DialFails, Use, kernelVars
<1>2. ASSUME NEW t \in Threads, DialOk(t) PROVE DescriptorsOwned' /\ OwnersApart'
  <2>1. PICK c \in Conns, f \in Fds :
          /\ conn[f] = NoConn
          /\ fd' = [fd EXCEPT ![t] = f]
          /\ conn' = [conn EXCEPT ![f] = c]
    BY <1>2 DEF DialOk
  <2>2. c # NoConn
    OBVIOUS
  <2>3. pc[t] = "dial" /\ pc' = [pc EXCEPT ![t] = "install"] /\ sock' = sock /\ reading' = reading
    BY <1>2 DEF DialOk
  <2> QED BY <2>1, <2>2, <2>3
<1>3. ASSUME NEW t \in Threads, Install(t) PROVE DescriptorsOwned' /\ OwnersApart'
  BY <1>3 DEF Install, Close, historyVars
<1>4. ASSUME NEW t \in Threads, Fail(t) PROVE DescriptorsOwned' /\ OwnersApart'
  BY <1>4 DEF Fail, CloseSocket, Close
<1>5. CASE SendJson \/ Send \/ SendNewline \/ Stop \/ Join \/ Top
  BY <1>5 DEF SendJson, Send, SendNewline, Stop, Join, Top, kernelVars
<1>6. CASE StopCloses
  BY <1>6 DEF StopCloses, CloseSocket, Close
<1>7. CASE Recv \/ RecvEnd \/ RecvData \/ AppendData
  BY <1>7 DEF Recv, RecvEnd, RecvData, AppendData, kernelVars
<1>8. CASE DaemonStarts \/ DaemonEnds \/ DaemonSays
  BY <1>8 DEF DaemonStarts, DaemonEnds, DaemonSays, clientVars
<1>9. CASE UNCHANGED vars
  BY <1>9 DEF vars, clientVars, kernelVars
<1> QED BY <1>1, <1>2, <1>3, <1>4, <1>5, <1>6, <1>7, <1>8, <1>9 DEF Step

(* Closing the socket leaves the buffer empty. *)
LEMMA ClosedBuffer ==
  ASSUME CloseSocket, BufferOfSocket,
         pc'["recv"] \in {"call", "blocked", "append"} => pc["recv"] = pc'["recv"],
         linked' = linked
  PROVE  BufferOfSocket'
  BY DEF CloseSocket, BufferOfSocket

LEMMA StepBuffer ==
  ASSUME ClientInv, Step, ~relinked' PROVE BufferOfSocket' /\ ~spliced'
<1>1. ~relinked
  BY DEF Step, Look, DialOk, DialFails, Install, Use, Fail, SendJson, Send, SendNewline, Stop, StopCloses, Join,
         Top, Recv, RecvData, RecvEnd, AppendData, DaemonStarts, DaemonEnds, DaemonSays, vars,
         historyVars
<1>2. Shapes /\ DescriptorsOwned /\ OwnersApart /\ BufferOfSocket /\ ~spliced
  BY <1>1 DEF ClientInv, TypeOK, Shapes
<1>3. buffer \in Seq(Halves) /\ got \in Halves
  BY DEF ClientInv, TypeOK
<1> USE <1>2 DEF Shapes, Goes
<1>4. ASSUME NEW t \in Threads, Look(t) \/ DialFails(t)
      PROVE BufferOfSocket' /\ ~spliced'
  BY <1>4 DEF Look, DialFails, kernelVars, historyVars, BufferOfSocket
<1>5. ASSUME NEW t \in Threads, Use(t) PROVE BufferOfSocket' /\ ~spliced'
  BY <1>5 DEF Use, kernelVars, historyVars, BufferOfSocket
<1>6. ASSUME NEW t \in Threads, DialOk(t) PROVE BufferOfSocket' /\ ~spliced'
  <2>1. sock # NoFd => conn'[sock] = conn[sock]
    BY <1>6 DEF DialOk, DescriptorsOwned
  <2>2. UNCHANGED <<sock, buffer, reading, got, linked, spliced>>
    BY <1>6 DEF DialOk, historyVars
  <2>3. pc'["recv"] \in {"call", "blocked", "append"} => pc'["recv"] = pc["recv"]
    BY <1>6 DEF DialOk
  <2>4. pc'["recv"] = "call" => fd'["recv"] = fd["recv"]
    BY <1>6 DEF DialOk
  <2> QED BY <2>1, <2>2, <2>3, <2>4 DEF BufferOfSocket
<1>7. ASSUME NEW t \in Threads, Install(t) PROVE BufferOfSocket' /\ ~spliced'
  <2>1. CASE sock # NoFd
    BY <1>7, <2>1 DEF Install, Close, historyVars, BufferOfSocket, DescriptorsOwned, OwnersApart
  <2>2. CASE sock = NoFd
    <3>1. t = "main" => ~linked
      BY <1>7, <2>2 DEF Install
    <3>2. /\ buffer' = <<>> /\ linked' = TRUE /\ spliced' = spliced
          /\ pc' = [pc EXCEPT ![t] = "use"]
      BY <1>7, <2>2 DEF Install
    <3>3. pc'["recv"] \notin {"call", "blocked", "append"}
      BY <3>1, <3>2 DEF BufferOfSocket
    <3> QED BY <3>2, <3>3 DEF BufferOfSocket
  <2> QED BY <2>1, <2>2
<1>8. ASSUME NEW t \in Threads, Fail(t) PROVE BufferOfSocket' /\ ~spliced'
  <2>1. pc'["recv"] \in {"call", "blocked", "append"} => pc["recv"] = pc'["recv"]
    BY <1>8 DEF Fail
  <2>2. linked' = linked /\ spliced' = spliced
    BY <1>8 DEF Fail, historyVars
  <2>3. CASE sock = fd[t]
    BY <1>8, <2>1, <2>2, <2>3, ClosedBuffer DEF Fail
  <2>4. CASE sock # fd[t]
    BY <1>8, <2>1, <2>2, <2>4 DEF Fail, BufferOfSocket
  <2> QED BY <2>3, <2>4
<1>9. CASE SendJson \/ Send \/ SendNewline \/ Stop \/ Join \/ Top
  BY <1>9 DEF SendJson, Send, SendNewline, Stop, Join, Top, kernelVars, historyVars, BufferOfSocket
<1>10. CASE StopCloses
  BY <1>10, ClosedBuffer DEF StopCloses, historyVars
<1>11. CASE Recv \/ RecvEnd
  BY <1>11 DEF Recv, RecvEnd, Behind, kernelVars, historyVars, BufferOfSocket
<1>12. CASE RecvData
  BY <1>12 DEF RecvData, historyVars, BufferOfSocket
<1>13. CASE AppendData
  <2> DEFINE now == Append(buffer, got)
  <2>1. pc["recv"] = "append" /\ pc' = [pc EXCEPT !["recv"] = "top"]
    BY <1>13 DEF AppendData
  <2>2. \A i \in DOMAIN now : now[i][1] = got[1]
    <3>1. \A i \in DOMAIN buffer : buffer[i][1] = got[1]
      BY <2>1 DEF BufferOfSocket
    <3>2. ASSUME NEW i \in DOMAIN now PROVE now[i][1] = got[1]
      <4>1. (i \in DOMAIN buffer /\ now[i] = buffer[i]) \/ now[i] = got
        BY <1>3, <3>2
      <4> QED BY <3>1, <4>1
    <3> QED BY <3>2
  <2>3. spliced' => spliced \/ \E i \in DOMAIN now : now[i][1] # got[1]
    BY <1>13, Zenon DEF AppendData
  <2>6. ~spliced'
    BY <2>2, <2>3
  <2>7. buffer' = <<>> \/ buffer' = now
    BY <1>13 DEF AppendData
  <2>4. sock # NoFd => \A i \in DOMAIN buffer' : buffer'[i][1] = conn[sock]
    <3>1. sock # NoFd => got[1] = conn[sock]
      BY <2>1 DEF BufferOfSocket
    <3> QED BY <2>2, <2>7, <3>1
  <2>5. linked' = linked /\ sock' = sock /\ conn' = conn
    BY <1>13 DEF AppendData, kernelVars
  <2> HIDE DEF now
  <2> QED BY <2>1, <2>4, <2>5, <2>6 DEF BufferOfSocket
<1>14. CASE DaemonStarts \/ DaemonEnds \/ DaemonSays
  BY <1>14 DEF DaemonStarts, DaemonEnds, DaemonSays, clientVars, historyVars, BufferOfSocket
<1>15. CASE UNCHANGED vars
  BY <1>15 DEF vars, clientVars, kernelVars, historyVars, BufferOfSocket
<1> QED
  BY <1>4, <1>5, <1>6, <1>7, <1>8, <1>9, <1>10, <1>11, <1>12, <1>13, <1>14, <1>15 DEF Step

(* The inductive invariant, with the types, holds in every reachable state *)
(* of the two threads (ipc_client.cpp).                                    *)
THEOREM ClientInvariant == Spec => []ClientInv
<1>1. ClientInv /\ [Next]_vars => ClientInv'
  <2> SUFFICES ASSUME ClientInv, [Next]_vars PROVE ClientInv'
    OBVIOUS
  <2>1. Step
    BY NextIsStep
  <2>2. Shapes
    BY DEF ClientInv, TypeOK, Shapes
  <2> QED BY <2>1, <2>2, StepTypes, StepOwned, StepBuffer DEF ClientInv
<1> QED BY <1>1, ClientInit, PTL DEF Spec

(* No descriptor leaks, is closed under its owner or is named by sock_     *)
(* after it was closed, however the two threads interleave                 *)
(* (ipc_client.cpp:50-83, 252-259).                                        *)
THEOREM ClientOwnsDescriptors == Spec => []DescriptorsOwned
<1>1. ClientInv => DescriptorsOwned
  BY DEF ClientInv
<1> QED BY <1>1, ClientInvariant, PTL

(* As long as the main thread does not reconnect, no line is put together  *)
(* from the bytes of two connections (ipc_client.cpp:167-191, 245).        *)
THEOREM ClientKeepsLines == Spec => []LinesIntact
<1>1. ClientInv => LinesIntact
  BY DEF ClientInv, LinesIntact
<1> QED BY <1>1, ClientInvariant, PTL

=============================================================================
