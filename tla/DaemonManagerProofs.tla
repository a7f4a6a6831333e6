------------------------ MODULE DaemonManagerProofs ------------------------
(***************************************************************************)
(* Theorems of DaemonManager, for any number of daemons, Fcitx processes,  *)
(* probes and polls: ManagerInv is inductive, and with it a serving daemon *)
(* keeps its socket and a finished stop() leaves no child.                 *)
(***************************************************************************)
EXTENDS DaemonManager, TLAPS

USE TakeoverAssumption, ManagerAssumption

(* A step of one daemon: its own, or that of a signal or of waitpid.       *)
DaemonStep(d) ==
  \/ Start(d) \/ StartUp(d) \/ ShutDown(d)
  \/ Signalled(d) \/ Killed(d)
  \/ /\ Goes(d, "dead", "reaped")
     /\ UNCHANGED <<tries, file, overlap, alone, excused>>

LEMMA ManagerInit == Init => ManagerInv
<1> SUFFICES ASSUME Init PROVE ManagerInv
  OBVIOUS
<1> USE DEF Init, DaemonInit
<1>1. TypeOK
  BY DEF TypeOK, TakeoverTypes
<1>2. OneStarter /\ HoldersSocket /\ RemovesStale
  BY DEF OneStarter, HoldersSocket, RemovesStale, Starting, Holds
<1>3. ChildStarted /\ StopReapsChild
  BY DEF ChildStarted, StopReapsChild
<1> QED BY <1>1, <1>2, <1>3 DEF ManagerInv, TakeoverInv, TypeOK

(* A daemon's step keeps the types, and TakeoverInv; it never starts a     *)
(* daemon again nor revives one that was waited for.                       *)
LEMMA DaemonStepTypes ==
  ASSUME TakeoverTypes, NEW d \in Daemons, DaemonStep(d) PROVE TakeoverTypes'
<1> USE DEF TakeoverTypes, Goes
<1>1. CASE Start(d) \/ Signalled(d) \/ Killed(d)
  BY <1>1 DEF Start, Signalled, Killed
<1>2. CASE StartUp(d)
  BY <1>2 DEF StartUp, SetupFails, SetupDone, Probe, Remove, Bind, HandleSignals
<1>3. CASE ShutDown(d)
  BY <1>3 DEF ShutDown, LoopEnds, Cleanup, Unlink, Exit
<1>4. CASE Goes(d, "dead", "reaped") /\ UNCHANGED <<tries, file, overlap, alone, excused>>
  BY <1>4
<1> QED BY <1>1, <1>2, <1>3, <1>4 DEF DaemonStep

LEMMA DaemonStepLocal ==
  ASSUME TakeoverTypes, NEW d \in Daemons, DaemonStep(d)
  PROVE  /\ \A e \in Daemons : e # d => pc'[e] = pc[e]
         /\ pc'[d] # "unborn"
         /\ pc[d] = "reaped" => pc'[d] = "reaped"
<1> USE DEF TakeoverTypes, Goes
<1>1. CASE Start(d) \/ Signalled(d) \/ Killed(d)
  BY <1>1 DEF Start, Signalled, Killed, Alive, Starting, Serving, Leaving
<1>2. CASE StartUp(d)
  BY <1>2 DEF StartUp, SetupFails, SetupDone, Probe, Remove, Bind, HandleSignals
<1>3. CASE ShutDown(d)
  BY <1>3 DEF ShutDown, LoopEnds, Cleanup, Unlink, Exit
<1>4. CASE Goes(d, "dead", "reaped") /\ UNCHANGED <<tries, file, overlap, alone, excused>>
  BY <1>4
<1> QED BY <1>1, <1>2, <1>3, <1>4 DEF DaemonStep

LEMMA DaemonStepKeepsSocket ==
  ASSUME TakeoverInv, NEW d \in Daemons, DaemonStep(d) PROVE TakeoverInv'
<1>1. TakeoverTypes'
  BY DaemonStepTypes DEF TakeoverInv
<1> SUFFICES ASSUME ~overlap' PROVE OneStarter' /\ HoldersSocket' /\ RemovesStale'
  BY <1>1 DEF TakeoverInv
<1>2. ~overlap
  BY DEF DaemonStep, Start, StartUp, SetupFails, SetupDone, Probe, Remove, Bind, HandleSignals,
         ShutDown, LoopEnds, Cleanup, Unlink, Exit, Signalled, Killed
<1> USE <1>2 DEF TakeoverInv, TakeoverTypes, OneStarter, HoldersSocket, RemovesStale, Holds,
                 Starting, Goes
<1>3. CASE Start(d)
  BY <1>3 DEF Start
<1>4. CASE SetupFails(d) \/ SetupDone(d) \/ HandleSignals(d)
  BY <1>4 DEF SetupFails, SetupDone, HandleSignals
<1>5. CASE Probe(d)
  <2>1. CASE Answered
    BY <1>5, <2>1 DEF Probe
  <2>2. CASE ~Answered
    <3>1. \A e \in Daemons : ~Holds(e)
      BY <2>2 DEF Answered, Serving, Leaving
    <3> QED BY <1>5, <2>2, <3>1 DEF Probe
  <2> QED BY <2>1, <2>2
<1>6. CASE Remove(d)
  BY <1>6 DEF Remove
<1>7. CASE Bind(d)
  <2>1. CASE file = NoDaemon
    <3>1. \A e \in Daemons : ~Holds(e)
      BY <2>1
    <3>2. \A e \in Daemons : pc[e] # "remove"
      BY <1>7 DEF Bind
    <3> QED BY <1>7, <2>1, <3>1, <3>2 DEF Bind
  <2>2. CASE file # NoDaemon
    BY <1>7, <2>2 DEF Bind
  <2> QED BY <2>1, <2>2
<1>8. CASE LoopEnds(d) \/ Cleanup(d) \/ Exit(d)
  BY <1>8 DEF LoopEnds, Cleanup, Exit
<1>9. CASE Unlink(d)
  BY <1>9 DEF Unlink
<1>10. CASE Signalled(d) \/ Killed(d)
  BY <1>10 DEF Signalled, Killed
<1>11. CASE Goes(d, "dead", "reaped") /\ UNCHANGED <<tries, file, overlap, alone, excused>>
  BY <1>11
<1> QED
  BY <1>3, <1>4, <1>5, <1>6, <1>7, <1>8, <1>9, <1>10, <1>11 DEF DaemonStep, StartUp, ShutDown

(* Every step of the system is a step of one daemon or of none. *)
LEMMA StepOfOneDaemon ==
  ASSUME ManagerInv, [Next]_vars
  PROVE  (\E d \in Daemons : DaemonStep(d)) \/ UNCHANGED daemonVars
<1> USE DEF ManagerInv, TypeOK, DaemonStep
<1>1. ASSUME NEW f \in Fcitxes, StartChild(f) \/ Manager(f) \/ Crash(f)
      PROVE  (\E d \in Daemons : DaemonStep(d)) \/ UNCHANGED daemonVars
  <2>1. child[f] \in Daemons \cup {NoDaemon}
    OBVIOUS
  <2>2. CASE StartChild(f)
    BY <2>2 DEF StartChild
  <2>3. CASE Stop(f) \/ ForceKill(f) \/ Crash(f)
    <3>1. fpc[f] = "check" => child[f] # NoDaemon
      BY DEF ChildStarted
    <3>2. \/ child[f] \in Daemons /\ (Signalled(child[f]) \/ Killed(child[f]))
          \/ UNCHANGED daemonVars
      BY ONLY <2>1, <2>3, <3>1 DEF Stop, ForceKill, Crash, Moves
    <3> QED BY ONLY <3>2 DEF DaemonStep
  <2>4. CASE PollReaps(f) \/ WaitReaps(f)
    <3>1. child[f] \in Daemons
      BY <2>1, <2>4 DEF PollReaps, WaitReaps, Moves, ChildStarted
    <3>2. Goes(child[f], "dead", "reaped") /\ UNCHANGED <<tries, file, overlap, alone, excused>>
      BY <2>4 DEF PollReaps, WaitReaps, Reap
    <3> QED BY ONLY <3>1, <3>2 DEF DaemonStep
  <2>5. CASE PollWaits(f)
    BY <2>5 DEF PollWaits
  <2> QED BY <1>1, <2>2, <2>3, <2>4, <2>5 DEF Manager
<1>2. ASSUME NEW f \in Fcitxes, ReapedElsewhere(f) PROVE \E d \in Daemons : DaemonStep(d)
  <2>1. child[f] \in Daemons
    BY <1>2 DEF ReapedElsewhere
  <2>2. Goes(child[f], "dead", "reaped") /\ UNCHANGED <<tries, file, overlap, alone, excused>>
    BY <1>2 DEF ReapedElsewhere, Reap
  <2> QED BY ONLY <2>1, <2>2 DEF DaemonStep
<1>3. ASSUME NEW d \in Daemons, StartByHand(d) \/ Daemon(d) PROVE DaemonStep(d)
  BY ONLY <1>3 DEF StartByHand, Daemon, DaemonStep
<1>4. CASE UNCHANGED vars
  BY <1>4 DEF vars
<1> QED BY <1>1, <1>2, <1>3, <1>4 DEF Next

(* A manager whose own variables do not move keeps its part. *)
LEMMA OthersKeepChildren ==
  ASSUME ManagerInv, [Next]_vars, NEW f \in Fcitxes,
         fpc'[f] = fpc[f], child'[f] = child[f]
  PROVE  /\ child'[f] # NoDaemon => pc'[child'[f]] # "unborn" /\ fpc'[f] # "unborn"
         /\ fpc'[f] \in {"polling", "check", "waiting"} => child'[f] # NoDaemon
         /\ fpc'[f] = "down" /\ child'[f] # NoDaemon => pc'[child'[f]] = "reaped"
<1>1. \A d \in Daemons :
        /\ pc[d] # "unborn" => pc'[d] # "unborn"
        /\ pc[d] = "reaped" => pc'[d] = "reaped"
  BY StepOfOneDaemon, DaemonStepLocal DEF ManagerInv, TypeOK, daemonVars
<1>2. child[f] \in Daemons \cup {NoDaemon}
  BY DEF ManagerInv, TypeOK
<1> QED BY <1>1, <1>2 DEF ManagerInv, ChildStarted, StopReapsChild

(* The one manager that moves. *)
LEMMA MoverKeepsChild ==
  ASSUME ManagerInv, [Next]_vars, NEW f \in Fcitxes,
         StartChild(f) \/ Manager(f) \/ Crash(f)
  PROVE  /\ \A g \in Fcitxes : g # f => fpc'[g] = fpc[g] /\ child'[g] = child[g]
         /\ child'[f] # NoDaemon => pc'[child'[f]] # "unborn" /\ fpc'[f] # "unborn"
         /\ fpc'[f] \in {"polling", "check", "waiting"} => child'[f] # NoDaemon
         /\ fpc'[f] = "down" /\ child'[f] # NoDaemon => pc'[child'[f]] = "reaped"
         /\ fpc' \in [Fcitxes -> {"unborn", "up", "polling", "check", "waiting", "down", "crashed"}]
         /\ child' \in [Fcitxes -> Daemons \cup {NoDaemon}]
         /\ polls' \in [Fcitxes -> Nat]
<1>0. \A d \in Daemons :
        /\ pc[d] # "unborn" => pc'[d] # "unborn"
        /\ pc[d] = "reaped" => pc'[d] = "reaped"
  BY StepOfOneDaemon, DaemonStepLocal DEF ManagerInv, TypeOK, daemonVars
<1> USE DEF ManagerInv, TypeOK, Moves
<1>1. CASE StartChild(f)
  <2>1. ASSUME NEW d \in Daemons, Start(d) PROVE pc'[d] # "unborn"
    BY <2>1, DaemonStepLocal DEF DaemonStep
  <2>2. child[f] = NoDaemon
    BY <1>1 DEF StartChild, ChildStarted
  <2> QED BY <1>1, <2>1, <2>2 DEF StartChild
<1>2. CASE Stop(f)
  BY <1>0, <1>2 DEF Stop, ChildStarted
<1>3. CASE PollReaps(f)
  BY <1>0, <1>3 DEF PollReaps, ChildStarted
<1>4. CASE PollWaits(f)
  BY <1>0, <1>4 DEF PollWaits, ChildStarted
<1>5. CASE ForceKill(f)
  BY <1>0, <1>5 DEF ForceKill, ChildStarted
<1>6. CASE WaitReaps(f)
  <2>1. child[f] \in Daemons /\ pc' = [pc EXCEPT ![child[f]] = "reaped"]
    BY <1>6 DEF WaitReaps, Reap, Goes, ChildStarted
  <2> QED BY <1>6, <2>1 DEF WaitReaps, TakeoverTypes
<1>7. CASE Crash(f)
  BY <1>0, <1>7 DEF Crash, ChildStarted
<1> QED BY <1>1, <1>2, <1>3, <1>4, <1>5, <1>6, <1>7 DEF Manager

LEMMA ManagerStep == ManagerInv /\ [Next]_vars => ManagerInv'
<1> SUFFICES ASSUME ManagerInv, [Next]_vars PROVE ManagerInv'
  OBVIOUS
<1>1. TakeoverInv'
  <2>1. CASE UNCHANGED daemonVars
    BY <2>1 DEF ManagerInv, daemonVars, TakeoverInv, TakeoverTypes, OneStarter, HoldersSocket,
                RemovesStale, Starting, Holds
  <2> QED BY <2>1, StepOfOneDaemon, DaemonStepKeepsSocket DEF ManagerInv
<1>2. ASSUME NEW f \in Fcitxes, StartChild(f) \/ Manager(f) \/ Crash(f) PROVE ManagerInv'
  BY <1>1, <1>2, MoverKeepsChild, OthersKeepChildren
     DEF ManagerInv, TypeOK, TakeoverInv, ChildStarted, StopReapsChild
<1>3. ASSUME UNCHANGED managerVars PROVE ManagerInv'
  BY <1>1, <1>3, OthersKeepChildren
     DEF ManagerInv, TypeOK, TakeoverInv, ChildStarted, StopReapsChild, managerVars
<1>4. ASSUME NEW d \in Daemons, StartByHand(d) \/ Daemon(d) PROVE ManagerInv'
  BY <1>3, <1>4 DEF StartByHand, Daemon
<1>5. ASSUME NEW f \in Fcitxes, ReapedElsewhere(f) PROVE ManagerInv'
  BY <1>3, <1>5 DEF ReapedElsewhere
<1>6. CASE UNCHANGED vars
  BY <1>3, <1>6 DEF vars
<1> QED BY <1>2, <1>4, <1>5, <1>6 DEF Next

(* The inductive invariant, with the types, holds in every reachable state *)
(* of any number of daemons and managers (main.rs, daemon_manager.cpp).    *)
THEOREM ManagerInvariant == Spec => []ManagerInv
<1> QED BY ManagerInit, ManagerStep, PTL DEF Spec

(* As long as no two daemons start at once, one that serves has its socket *)
(* under the path: no probe, removal, bind or clean-up of another takes it *)
(* away (main.rs:85-113, 153-156).                                         *)
THEOREM ServingKeepsSocket == Spec => []SocketOfServing
<1>1. ManagerInv => SocketOfServing
  BY DEF ManagerInv, TakeoverInv, HoldersSocket, Holds, SocketOfServing, Serving
<1> QED BY <1>1, ManagerInvariant, PTL

(* Two daemons serve at once only when two were starting at once: the      *)
(* promise of main.rs:84 holds of all but that interleaving, for which the *)
(* model checker has a run.                                                *)
THEOREM OneDaemonUnlessOverlap == Spec => [](~overlap => OneDaemon)
<1>1. ManagerInv => (~overlap => OneDaemon)
  <2> SUFFICES ASSUME ManagerInv, ~overlap, NEW d \in Daemons, NEW e \in Daemons,
                      Serving(d), Serving(e)
               PROVE  d = e
    BY DEF OneDaemon
  <2>1. file = d /\ file = e
    BY DEF ManagerInv, TakeoverInv, HoldersSocket, Holds, Serving
  <2> QED BY <2>1
<1> QED BY <1>1, ManagerInvariant, PTL

(* A finished stop() has waited for its child, whatever else ended or      *)
(* killed it before (daemon_manager.cpp:62-89).                            *)
THEOREM StopLeavesNoChild == Spec => []StopReapsChild
<1>1. ManagerInv => StopReapsChild
  BY DEF ManagerInv
<1> QED BY <1>1, ManagerInvariant, PTL

=============================================================================
