----------------------------- MODULE IpcClient -----------------------------
(***************************************************************************)
(* The two threads of ipc_client.cpp over one socket: Fcitx's main thread, *)
(* which sends lines and stops the client, and the receive thread, which   *)
(* connects, reads and processes messages.  Every section under            *)
(* sock_mutex_ is one step, and so is every system call outside of it: a   *)
(* descriptor read under the lock is used after it, when the other thread  *)
(* may have closed it, or its number may stand for another connection.     *)
(*                                                                         *)
(* A connection is the client's end of a Unix socket; its number is used   *)
(* again when nothing refers to it any more.  The daemon sends one message *)
(* on each, in two halves, so that a message may come in pieces.           *)
(***************************************************************************)
EXTENDS Naturals, Sequences

CONSTANTS
  Fds,     (* descriptor numbers                                           *)
  NoFd,    (* -1                                                           *)
  Conns,   (* connections that may exist at the same time                  *)
  NoConn   (* what a closed descriptor stands for                          *)

ASSUME ClientAssumption == NoFd \notin Fds /\ NoConn \notin Conns

Threads == {"main", "recv"}

VARIABLES
  pc,       (* where each thread is                                        *)
  fd,       (* its local descriptor                                        *)
  sock,     (* sock_                                                       *)
  running,  (* running_                                                    *)
  buffer,   (* recv_buffer_: the halves received and not yet a line        *)
  reading,  (* the connection the receive thread is blocked on             *)
  got,      (* the half that recv returned, in buf                         *)
  (* the kernel and the daemon *)
  conn,     (* the connection behind each descriptor                       *)
  link,     (* of a connection: is its other end closed, and how many      *)
            (* halves were sent by the daemon and read by the client       *)
  up,       (* whether the daemon listens                                  *)
  (* history *)
  linked,   (* a connection was installed before                           *)
  relinked, (* the main thread installed one that was not the first        *)
  late,     (* one was installed after stop had closed the socket          *)
  spliced   (* a line was put together from two connections                *)

clientVars  == <<pc, fd, sock, running, buffer, reading, got>>
kernelVars  == <<conn, link, up>>
historyVars == <<linked, relinked, late, spliced>>
vars == <<clientVars, kernelVars, historyVars>>

NoHalf == <<NoConn, 0>>

Fresh == [lost |-> FALSE, said |-> 0, heard |-> 0]

Behind(f) == IF f = NoFd THEN NoConn ELSE conn[f]

Broken(f) == Behind(f) = NoConn \/ link[Behind(f)].lost

Installed(c) == \E f \in Fds : conn[f] = c

Unused(c) ==
  /\ ~Installed(c) /\ reading # c /\ got[1] # c
  /\ \A i \in DOMAIN buffer : buffer[i][1] # c

Init ==
  /\ pc = [main |-> "idle", recv |-> "top"]
  /\ fd = [t \in Threads |-> NoFd]
  /\ sock = NoFd
  /\ running = TRUE
  /\ buffer = <<>>
  /\ reading = NoConn
  /\ got = NoHalf
  /\ conn = [f \in Fds |-> NoConn]
  /\ link = [c \in Conns |-> Fresh]
  /\ up = FALSE
  /\ linked = FALSE /\ relinked = FALSE /\ late = FALSE /\ spliced = FALSE

Goes(t, from, to) == pc[t] = from /\ pc' = [pc EXCEPT ![t] = to]

(* A descriptor is closed.  A recv that is blocked on its connection may   *)
(* still return what has arrived; else what it held is gone.               *)
Close(f) ==
  /\ conn' = [conn EXCEPT ![f] = NoConn]
  /\ link' = IF reading = conn[f] THEN link ELSE [link EXCEPT ![conn[f]] = Fresh]

(* Variant: what was received is kept for the next connection. *)
CloseSocketKeepsBuffer ==
  /\ sock' = NoFd
  /\ IF sock = NoFd THEN UNCHANGED <<conn, link>> ELSE Close(sock)
  /\ UNCHANGED buffer

(* closeSocketLocked: shutdown wakes whoever reads from the connection. *)
CloseSocket ==
  /\ sock' = NoFd
  /\ IF sock = NoFd THEN UNCHANGED <<conn, link>> ELSE Close(sock)
  /\ buffer' = <<>>

-----------------------------------------------------------------------------
(* Connecting, in either thread.                                           *)

(* Is there a socket already?  The two looks of sendJson (or               *)
(* ensureConnected) and of connectSocket are one: between them only the    *)
(* other thread can have connected, which the second look finds.           *)
Look(t) ==
  /\ Goes(t, "look", IF sock = NoFd THEN "dial" ELSE "use")
  /\ UNCHANGED <<fd, sock, running, buffer, reading, got, kernelVars, historyVars>>

(* socket() and connect(), outside of the lock.  When nobody listens the   *)
(* receive thread looks again, sleeps and starts over.                     *)
DialOk(t) ==
  /\ up
  /\ Goes(t, "dial", "install")
  /\ \E c \in Conns : Unused(c)   \* with the bounds chosen there always is one
  /\ LET c == CHOOSE b \in Conns : Unused(b)
     IN  \E f \in Fds :
           /\ conn[f] = NoConn
           /\ fd' = [fd EXCEPT ![t] = f]
           /\ conn' = [conn EXCEPT ![f] = c]
  /\ UNCHANGED <<sock, running, buffer, reading, got, link, up, historyVars>>

DialFails(t) ==
  /\ ~up
  /\ Goes(t, "dial", IF t = "main" \/ sock # NoFd THEN "use" ELSE "top")
  /\ UNCHANGED <<fd, sock, running, buffer, reading, got, kernelVars, historyVars>>

(* Variant: the second connection is not closed. *)
InstallLeaks(t) ==
  /\ Goes(t, "install", "use")
  /\ IF sock # NoFd
       THEN UNCHANGED <<sock, conn, link, buffer, historyVars>>
       ELSE /\ sock' = fd[t] /\ buffer' = <<>>
            /\ linked' = TRUE
            /\ relinked' = (relinked \/ (linked /\ t = "main"))
            /\ late' = (late \/ pc["main"] = "join")
            /\ UNCHANGED <<conn, link, spliced>>
  /\ UNCHANGED <<fd, running, reading, got, up>>

(* Variant: a new connection finds what was appended after the old one was *)
(* closed.                                                                 *)
InstallKeepsBuffer(t) ==
  /\ Goes(t, "install", "use")
  /\ IF sock # NoFd
       THEN /\ Close(fd[t])
            /\ UNCHANGED <<sock, buffer, historyVars>>
       ELSE /\ sock' = fd[t] /\ UNCHANGED buffer
            /\ linked' = TRUE
            /\ relinked' = (relinked \/ (linked /\ t = "main"))
            /\ late' = (late \/ pc["main"] = "join")
            /\ UNCHANGED <<conn, link, spliced>>
  /\ UNCHANGED <<fd, running, reading, got, up>>

(* The connection becomes the socket, unless the other thread was faster:  *)
(* then it is closed.                                                      *)
Install(t) ==
  /\ Goes(t, "install", "use")
  /\ IF sock # NoFd
       THEN /\ Close(fd[t])
            /\ UNCHANGED <<sock, buffer, historyVars>>
       ELSE /\ sock' = fd[t] /\ buffer' = <<>>
            /\ linked' = TRUE
            /\ relinked' = (relinked \/ (linked /\ t = "main"))
            /\ late' = (late \/ pc["main"] = "join")
            /\ UNCHANGED <<conn, link, spliced>>
  /\ UNCHANGED <<fd, running, reading, got, up>>

(* The descriptor is copied under the lock and used after it. *)
Use(t) ==
  /\ Goes(t, "use", IF sock # NoFd THEN "call" ELSE IF t = "main" THEN "idle" ELSE "top")
  /\ fd' = [fd EXCEPT ![t] = sock]
  /\ UNCHANGED <<sock, running, buffer, reading, got, kernelVars, historyVars>>

(* The call failed: the socket is closed if it still has that number. *)
Fail(t) ==
  /\ Goes(t, "fail", IF t = "main" THEN "idle" ELSE "top")
  /\ IF sock = fd[t] THEN CloseSocket ELSE UNCHANGED <<sock, conn, link, buffer>>
  /\ UNCHANGED <<fd, running, reading, got, up, historyVars>>

Connecting(t) == Look(t) \/ DialOk(t) \/ DialFails(t) \/ Install(t) \/ Use(t) \/ Fail(t)

-----------------------------------------------------------------------------
(* The main thread. *)

SendJson ==
  /\ Goes("main", "idle", "look")
  /\ UNCHANGED <<fd, sock, running, buffer, reading, got, kernelVars, historyVars>>

(* send() fails on a closed descriptor and on a lost connection.  The line *)
(* and its newline are sent by two calls on the same descriptor.           *)
Send ==
  /\ Goes("main", "call", IF Broken(fd["main"]) THEN "fail" ELSE "newline")
  /\ UNCHANGED <<fd, sock, running, buffer, reading, got, kernelVars, historyVars>>

SendNewline ==
  /\ Goes("main", "newline", IF Broken(fd["main"]) THEN "fail" ELSE "idle")
  /\ UNCHANGED <<fd, sock, running, buffer, reading, got, kernelVars, historyVars>>

Stop ==
  /\ Goes("main", "idle", "close")
  /\ running' = FALSE
  /\ UNCHANGED <<fd, sock, buffer, reading, got, kernelVars, historyVars>>

(* Variant: stop joins without closing the socket. *)
StopKeepsSocket ==
  /\ Goes("main", "close", "join")
  /\ UNCHANGED <<fd, sock, running, buffer, reading, got, kernelVars, historyVars>>

StopCloses ==
  /\ Goes("main", "close", "join")
  /\ CloseSocket
  /\ UNCHANGED <<fd, running, reading, got, up, historyVars>>

Join ==
  /\ pc["recv"] = "ended"
  /\ Goes("main", "join", "done")
  /\ UNCHANGED <<fd, sock, running, buffer, reading, got, kernelVars, historyVars>>

Main == Connecting("main") \/ Send \/ SendNewline \/ StopCloses \/ Join

-----------------------------------------------------------------------------
(* The receive thread. *)

Top ==
  /\ Goes("recv", "top", IF running THEN "look" ELSE "ended")
  /\ UNCHANGED <<fd, sock, running, buffer, reading, got, kernelVars, historyVars>>

(* recv() is entered: from here on it waits on the connection, whatever    *)
(* becomes of the descriptor.                                              *)
Recv ==
  /\ Goes("recv", "call", IF Behind(fd["recv"]) = NoConn THEN "fail" ELSE "blocked")
  /\ reading' = Behind(fd["recv"])
  /\ UNCHANGED <<fd, sock, running, buffer, got, kernelVars, historyVars>>

RecvData ==
  /\ Goes("recv", "blocked", "append")
  /\ link[reading].heard < link[reading].said
  /\ link' = IF Installed(reading) THEN [link EXCEPT ![reading].heard = @ + 1]
              ELSE [link EXCEPT ![reading] = Fresh]
  /\ got' = <<reading, link[reading].heard + 1>>
  /\ reading' = NoConn
  /\ UNCHANGED <<fd, sock, running, buffer, conn, up, historyVars>>

(* All is read, and the other end is closed or this end was shut down. *)
AllHeard(c) == link[c].heard = link[c].said
Ended(c) == (link[c].lost \/ ~Installed(c)) /\ AllHeard(c)

(* Variant: a recv that returns 0 is not a failure. *)
RecvEndIgnored ==
  /\ Goes("recv", "blocked", "top")
  /\ Ended(reading)
  /\ reading' = NoConn
  /\ link' = IF Installed(reading) THEN link ELSE [link EXCEPT ![reading] = Fresh]
  /\ UNCHANGED <<fd, sock, running, buffer, got, conn, up, historyVars>>

(* recv() returns 0. *)
RecvEnd ==
  /\ Goes("recv", "blocked", "fail")
  /\ Ended(reading)
  /\ reading' = NoConn
  /\ link' = IF Installed(reading) THEN link ELSE [link EXCEPT ![reading] = Fresh]
  /\ UNCHANGED <<fd, sock, running, buffer, got, conn, up, historyVars>>

(* recv_buffer_.append and processMessages, without the lock: the second   *)
(* half ends a line, which is handled and erased.                          *)
AppendData ==
  /\ Goes("recv", "append", "top")
  /\ LET now == Append(buffer, got)
     IN  IF got[2] = 2
           THEN /\ buffer' = <<>>
                /\ spliced' = (spliced \/ \E i \in DOMAIN now : now[i][1] # got[1])
           ELSE buffer' = now /\ UNCHANGED spliced
  /\ got' = NoHalf
  /\ UNCHANGED <<fd, sock, running, reading, kernelVars, linked, relinked, late>>

Receiver == Connecting("recv") \/ Top \/ Recv \/ RecvData \/ RecvEnd \/ AppendData

-----------------------------------------------------------------------------
(* The daemon comes and goes; when it goes every connection is lost. *)
DaemonStarts ==
  /\ ~up /\ up' = TRUE
  /\ UNCHANGED <<clientVars, conn, link, historyVars>>

DaemonEnds ==
  /\ up /\ up' = FALSE
  /\ link' = [c \in Conns |->
                IF Installed(c) THEN [link[c] EXCEPT !.lost = TRUE] ELSE link[c]]
  /\ UNCHANGED <<clientVars, conn, historyVars>>

DaemonSays ==
  /\ \E c \in Conns :
       /\ Installed(c) /\ ~link[c].lost /\ link[c].said < 2
       /\ link' = [link EXCEPT ![c].said = @ + 1]
  /\ UNCHANGED <<clientVars, conn, up, historyVars>>

Next ==
  \/ SendJson \/ Stop \/ Main \/ Receiver
  \/ DaemonStarts \/ DaemonEnds \/ DaemonSays

(* Both threads run; the user and the daemon owe nothing. *)
Spec == Init /\ [][Next]_vars /\ WF_vars(Main) /\ WF_vars(Receiver)

-----------------------------------------------------------------------------
Halves == (Conns \cup {NoConn}) \X Nat

Links == [Conns -> [lost : BOOLEAN, said : Nat, heard : Nat]]

TypeOK ==
  /\ pc \in [Threads -> {"idle", "top", "look", "dial", "install", "use", "call", "newline",
                         "blocked", "append", "fail", "close", "join", "done", "ended"}]
  /\ fd \in [Threads -> Fds \cup {NoFd}]
  /\ sock \in Fds \cup {NoFd}
  /\ running \in BOOLEAN /\ up \in BOOLEAN
  /\ buffer \in Seq(Halves)
  /\ reading \in Conns \cup {NoConn}
  /\ got \in Halves
  /\ conn \in [Fds -> Conns \cup {NoConn}]
  /\ link \in Links
  /\ linked \in BOOLEAN /\ relinked \in BOOLEAN /\ late \in BOOLEAN /\ spliced \in BOOLEAN

(* Every open descriptor is the socket's or in the hands of the one thread *)
(* that has just connected it: none leaks, none is closed under its owner, *)
(* and sock_ never names a closed one (ipc_client.cpp:50-83, 252-259).     *)
DescriptorsOwned ==
  /\ sock # NoFd => conn[sock] # NoConn
  /\ \A t \in Threads : pc[t] = "install" => conn[fd[t]] # NoConn /\ fd[t] # sock
  /\ \A f \in Fds : conn[f] # NoConn =>
       f = sock \/ \E t \in Threads : pc[t] = "install" /\ fd[t] = f

(* A line is never put together from two connections, as long as only the  *)
(* receive thread reconnects: recv_buffer_ is cleared in time.  The main   *)
(* thread can reconnect between a recv and its append (ipc_client.cpp:81,  *)
(* 245).                                                                   *)
LinesIntact == ~relinked => ~spliced

(* The inductive invariant behind the two.  The threads connect to two     *)
(* descriptors; and until the main thread reconnects, what the receive     *)
(* thread reads and what is in the buffer is of the socket's connection,   *)
(* or the socket is closed and the buffer empty.                           *)
OwnersApart ==
  /\ \A t \in Threads : pc[t] = "install" => fd[t] \in Fds
  /\ pc["main"] = "install" /\ pc["recv"] = "install" => fd["main"] # fd["recv"]
  /\ pc["recv"] = "blocked" => reading # NoConn

BufferOfSocket ==
  LET reads == pc["recv"] \in {"call", "blocked", "append"}
  IN  /\ sock # NoFd \/ reads => linked
      /\ reads /\ sock = NoFd => buffer = <<>>
      /\ sock # NoFd =>
           /\ \A i \in DOMAIN buffer : buffer[i][1] = conn[sock]
           /\ pc["recv"] = "call" => fd["recv"] = sock
           /\ pc["recv"] = "blocked" => reading = conn[sock]
           /\ pc["recv"] = "append" => got[1] = conn[sock]

ClientInv ==
  /\ TypeOK /\ DescriptorsOwned /\ OwnersApart
  /\ ~relinked => BufferOfSocket /\ ~spliced

Receiving ==
  /\ pc["recv"] = "blocked"
  /\ sock # NoFd /\ conn[sock] = reading /\ ~link[reading].lost

(* Once the daemon is back for good, and the user does not press keys for  *)
(* ever, the client receives from it again (ipc_client.cpp:147-191).       *)
Heals ==
  <>[](up /\ running /\ pc["main"] = "idle") =>
  <>[]((\A c \in Conns : Installed(c) => AllHeard(c)) => Receiving)

(* stop returns: closing the socket wakes the receive thread, which finds  *)
(* running_ cleared; unless it had just connected again (ipc_client.cpp:   *)
(* 39-48).                                                                 *)
StopJoins == []<>(pc["main"] = "join" => late)

=============================================================================
