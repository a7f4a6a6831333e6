--------------------------- MODULE DaemonManager ---------------------------
(***************************************************************************)
(* Fcitx processes and the daemons they start and stop: daemon_manager.cpp *)
(* over the processes of SocketTakeover.  The manager starts a daemon once,*)
(* when the engine is made, and stops it in its destructor.  A child that  *)
(* is dead stays a zombie until it is waited for.                          *)
(***************************************************************************)
EXTENDS SocketTakeover

CONSTANTS
  Fcitxes,    (* Fcitx processes, each run once                            *)
  MaxPolls    (* calls of waitpid before SIGKILL, 100 ms apart; 10 in stop *)

ASSUME ManagerAssumption == MaxPolls \in Nat \ {0}

VARIABLES
  fpc,     (* where each Fcitx is: unborn, up, in stop(), down or crashed  *)
  child,   (* daemon_pid_                                                  *)
  polls    (* i of the loop in stop                                        *)

managerVars == <<fpc, child, polls>>
vars == <<daemonVars, managerVars>>

Init ==
  /\ DaemonInit
  /\ fpc = [f \in Fcitxes |-> "unborn"]
  /\ child = [f \in Fcitxes |-> NoDaemon]
  /\ polls = [f \in Fcitxes |-> 0]

Moves(f, from, to) == fpc[f] = from /\ fpc' = [fpc EXCEPT ![f] = to]

(* The engine's constructor: a daemon is forked, or none in developer mode *)
(* and when fork fails.                                                    *)
StartChild(f) ==
  /\ Moves(f, "unborn", "up")
  /\ \/ \E d \in Daemons : Start(d) /\ child' = [child EXCEPT ![f] = d]
     \/ UNCHANGED <<daemonVars, child>>
  /\ UNCHANGED polls

(* A daemon from the command line (README.md:142). *)
StartByHand(d) == Start(d) /\ UNCHANGED managerVars

(* stop(): SIGTERM to the child; a zombie takes it and stays one.  Without *)
(* a child, or when it was waited for elsewhere, nothing is done.          *)
Stop(f) ==
  /\ \/ /\ child[f] # NoDaemon /\ pc[child[f]] # "reaped"
        /\ Moves(f, "up", "polling")
        /\ IF pc[child[f]] = "dead" THEN UNCHANGED daemonVars ELSE Signalled(child[f])
     \/ /\ child[f] # NoDaemon => pc[child[f]] = "reaped"
        /\ Moves(f, "up", "down")
        /\ UNCHANGED daemonVars
  /\ UNCHANGED <<child, polls>>

(* waitpid(daemon_pid_, WNOHANG) *)
Reap(f) ==
  /\ Goes(child[f], "dead", "reaped")
  /\ UNCHANGED <<tries, file, overlap, alone, excused>>

(* Fcitx's main loop may wait for any child of the process; stop() runs on *)
(* the same thread, so not during it.  The pid is not given to another     *)
(* process.                                                                *)
ReapedElsewhere(f) ==
  /\ fpc[f] = "up" /\ child[f] # NoDaemon
  /\ Reap(f)
  /\ UNCHANGED managerVars

PollReaps(f) ==
  /\ Moves(f, "polling", "check")
  /\ Reap(f)
  /\ UNCHANGED <<child, polls>>

PollWaits(f) ==
  /\ Moves(f, "polling", IF polls[f] + 1 < MaxPolls THEN "polling" ELSE "check")
  /\ pc[child[f]] # "dead"
  /\ polls' = [polls EXCEPT ![f] = @ + 1]
  /\ UNCHANGED <<daemonVars, child>>

(* Variant: no SIGKILL and no wait for a child that did not end in time. *)
ForceKillNever(f) ==
  /\ Moves(f, "check", "down")
  /\ UNCHANGED <<daemonVars, child, polls>>

(* Variant: no SIGKILL before the wait. *)
ForceKillWaits(f) ==
  /\ Moves(f, "check", IF pc[child[f]] = "reaped" THEN "down" ELSE "waiting")
  /\ UNCHANGED <<daemonVars, child, polls>>

(* kill(daemon_pid_, 0) finds the child unless it was waited for: SIGKILL. *)
ForceKill(f) ==
  /\ Moves(f, "check", IF pc[child[f]] = "reaped" THEN "down" ELSE "waiting")
  /\ IF Alive(child[f]) THEN Killed(child[f]) ELSE UNCHANGED daemonVars
  /\ UNCHANGED <<child, polls>>

(* The blocking waitpid. *)
WaitReaps(f) ==
  /\ Moves(f, "waiting", "down")
  /\ Reap(f)
  /\ UNCHANGED <<child, polls>>

(* Fcitx crashes; the kernel sends its child a SIGTERM (PR_SET_PDEATHSIG). *)
Crash(f) ==
  /\ fpc[f] \in {"up", "polling", "check", "waiting"}
  /\ fpc' = [fpc EXCEPT ![f] = "crashed"]
  /\ IF child[f] # NoDaemon /\ Alive(child[f])
       THEN Signalled(child[f]) ELSE UNCHANGED daemonVars
  /\ UNCHANGED <<child, polls>>

Manager(f) ==
  Stop(f) \/ PollReaps(f) \/ PollWaits(f) \/ ForceKill(f) \/ WaitReaps(f)

Daemon(d) ==
  /\ \/ StartUp(d) \/ ShutDown(d)
     \/ Killed(d)
  /\ UNCHANGED managerVars

Next ==
  \/ \E f \in Fcitxes :
       StartChild(f) \/ Manager(f) \/ Crash(f) \/ ReapedElsewhere(f)
  \/ \E d \in Daemons : StartByHand(d) \/ Daemon(d)

(* stop() runs on; a daemon starts up in bounded time.  Nothing is assumed *)
(* of its end, which waits for the microphone's stream to be closed.       *)
Fairness ==
  /\ \A f \in Fcitxes :
       WF_vars(PollReaps(f) \/ PollWaits(f) \/ ForceKill(f) \/ WaitReaps(f))
  /\ \A d \in Daemons : WF_vars(StartUp(d) /\ UNCHANGED managerVars)

Spec == Init /\ [][Next]_vars /\ Fairness

-----------------------------------------------------------------------------
(* A finished stop leaves neither a running daemon nor a zombie            *)
(* (daemon_manager.cpp:62-89).                                             *)
StopReapsChild ==
  \A f \in Fcitxes :
    fpc[f] = "down" /\ child[f] # NoDaemon => pc[child[f]] = "reaped"

(* The inductive invariant behind it and SocketOfServing: a daemon that is *)
(* somebody's child was started, and stop() runs only with a child.        *)
TypeOK ==
  /\ TakeoverTypes
  /\ fpc \in [Fcitxes -> {"unborn", "up", "polling", "check", "waiting", "down", "crashed"}]
  /\ child \in [Fcitxes -> Daemons \cup {NoDaemon}]
  /\ polls \in [Fcitxes -> Nat]

ChildStarted ==
  \A f \in Fcitxes :
    /\ child[f] # NoDaemon => pc[child[f]] # "unborn" /\ fpc[f] # "unborn"
    /\ fpc[f] \in {"polling", "check", "waiting"} => child[f] # NoDaemon

ManagerInv == TypeOK /\ TakeoverInv /\ ChildStarted /\ StopReapsChild

(* stop returns, also when the daemon does not end on SIGTERM: Fcitx's     *)
(* shutdown never hangs on it (daemon_manager.cpp:69-85).                  *)
StopReturns ==
  \A f \in Fcitxes : []<>(fpc[f] \notin {"polling", "check", "waiting"})

=============================================================================
