--------------------------- MODULE SocketTakeover ---------------------------
(***************************************************************************)
(* The life of an anytalk-daemon process around its socket file, main.rs:  *)
(* set-up, the look at a socket that is already there, bind, service,      *)
(* clean-up.  Each system call on the file is a step, as several daemons   *)
(* may run.  What a daemon serves is in Daemon.                            *)
(***************************************************************************)
EXTENDS Naturals

CONSTANTS
  Daemons,    (* processes that may be started, each once                  *)
  NoDaemon,   (* no socket file                                            *)
  MaxProbes   (* looks at a socket that answers, 200 ms apart; 5 in main   *)

ASSUME TakeoverAssumption == NoDaemon \notin Daemons /\ MaxProbes \in Nat \ {0}

VARIABLES
  pc,       (* where each daemon is                                        *)
  tries,    (* the loop's attempt                                          *)
  file,     (* the socket file: the daemon that bound it                   *)
  (* history *)
  overlap,  (* two daemons were starting at the same time                  *)
  alone,    (* daemons that found no other alive when they started         *)
  excused   (* daemons that could not set up or remove a stale file, were  *)
            (* signalled or crashed                                        *)

daemonVars == <<pc, tries, file, overlap, alone, excused>>

Starting(d) == pc[d] \in {"setup", "probe", "remove", "bind"}
Serving(d)  == pc[d] \in {"bound", "serving"}
Leaving(d)  == pc[d] \in {"cleanup", "unlink", "leaving"}
Alive(d)    == Starting(d) \/ Serving(d) \/ Leaving(d)

(* Variant: the listener is closed before the file is cleaned up. *)
AnsweredByServing == file # NoDaemon /\ Serving(file)

(* Does connect() succeed?  A socket listens until its process is gone. *)
Answered == file # NoDaemon /\ (Serving(file) \/ Leaving(file))

DaemonInit ==
  /\ pc = [d \in Daemons |-> "unborn"]
  /\ tries = [d \in Daemons |-> 0]
  /\ file = NoDaemon
  /\ overlap = FALSE /\ alone = {} /\ excused = {}

Goes(d, from, to) == pc[d] = from /\ pc' = [pc EXCEPT ![d] = to]

Start(d) ==
  /\ Goes(d, "unborn", "setup")
  /\ overlap' = (overlap \/ \E e \in Daemons : Starting(e))
  /\ alone' = IF \E e \in Daemons : Alive(e) THEN alone ELSE alone \cup {d}
  /\ UNCHANGED <<tries, file, excused>>

(* No credentials in the environment or no microphone: exit(1). *)
SetupFails(d) ==
  /\ Goes(d, "setup", "dead")
  /\ excused' = excused \cup {d}
  /\ UNCHANGED <<tries, file, overlap, alone>>

(* The pool dials and the microphone runs before the socket is looked at. *)
SetupDone(d) ==
  /\ Goes(d, "setup", IF file = NoDaemon THEN "bind" ELSE "probe")
  /\ UNCHANGED <<tries, file, overlap, alone, excused>>

(* Variant: a socket that answers to the end is taken over all the same. *)
ProbeTakesOver(d) ==
  /\ IF Answered /\ tries[d] + 1 < MaxProbes
       THEN Goes(d, "probe", "probe") /\ tries' = [tries EXCEPT ![d] = @ + 1]
       ELSE Goes(d, "probe", "remove") /\ UNCHANGED tries
  /\ UNCHANGED <<file, overlap, alone, excused>>

(* One attempt to connect: while another daemon answers it waits, and      *)
(* after the last attempt it exits, "already running".                     *)
Probe(d) ==
  /\ IF Answered
       THEN /\ Goes(d, "probe", IF tries[d] + 1 < MaxProbes THEN "probe" ELSE "dead")
            /\ tries' = [tries EXCEPT ![d] = @ + 1]
       ELSE Goes(d, "probe", "remove") /\ UNCHANGED tries
  /\ UNCHANGED <<file, overlap, alone, excused>>

(* Variant: the stale file stays. *)
RemoveNothing(d) ==
  /\ Goes(d, "remove", "bind")
  /\ UNCHANGED <<tries, file, overlap, alone, excused>>

(* remove_file, whatever is there by now; a failure is ignored. *)
Remove(d) ==
  /\ Goes(d, "remove", "bind")
  /\ \/ file' = NoDaemon /\ UNCHANGED excused
     \/ UNCHANGED file /\ excused' = excused \cup {d}
  /\ UNCHANGED <<tries, overlap, alone>>

(* bind fails on any file, and the daemon exits. *)
Bind(d) ==
  /\ IF file = NoDaemon
       THEN Goes(d, "bind", "bound") /\ file' = d
       ELSE Goes(d, "bind", "dead") /\ UNCHANGED file
  /\ UNCHANGED <<tries, overlap, alone, excused>>

(* From here on SIGTERM is handled and does not kill. *)
HandleSignals(d) ==
  /\ Goes(d, "bound", "serving")
  /\ UNCHANGED <<tries, file, overlap, alone, excused>>

(* A signal that came, or an error of accept, ends the loop. *)
LoopEnds(d) ==
  /\ Goes(d, "serving", "cleanup")
  /\ excused' = excused \cup {d}
  /\ UNCHANGED <<tries, file, overlap, alone>>

(* The file is looked for, and removed; the listener is closed only when   *)
(* main returns.                                                           *)
Cleanup(d) ==
  /\ Goes(d, "cleanup", IF file = NoDaemon THEN "leaving" ELSE "unlink")
  /\ UNCHANGED <<tries, file, overlap, alone, excused>>

(* remove_file again, whose failure leaves the file to the next daemon. *)
Unlink(d) ==
  /\ Goes(d, "unlink", "leaving")
  /\ file' \in {file, NoDaemon}
  /\ UNCHANGED <<tries, overlap, alone, excused>>

Exit(d) ==
  /\ Goes(d, "leaving", "dead")
  /\ UNCHANGED <<tries, file, overlap, alone, excused>>

(* SIGTERM kills a daemon that does not handle it yet; one that serves may *)
(* leave its loop by now, as it may anyway when accept fails.              *)
Signalled(d) ==
  /\ Alive(d)
  /\ pc' = IF Starting(d) \/ pc[d] = "bound" THEN [pc EXCEPT ![d] = "dead"] ELSE pc
  /\ excused' = excused \cup {d}
  /\ UNCHANGED <<tries, file, overlap, alone>>

(* SIGKILL, or a panic: the file stays. *)
Killed(d) ==
  /\ Alive(d)
  /\ pc' = [pc EXCEPT ![d] = "dead"]
  /\ excused' = excused \cup {d}
  /\ UNCHANGED <<tries, file, overlap, alone>>

StartUp(d) ==
  SetupFails(d) \/ SetupDone(d) \/ Probe(d) \/ Remove(d) \/ Bind(d) \/ HandleSignals(d)

ShutDown(d) == LoopEnds(d) \/ Cleanup(d) \/ Unlink(d) \/ Exit(d)

-----------------------------------------------------------------------------
(* A daemon that serves has its socket under the path, as long as no two   *)
(* daemons start at once: neither a newcomer nor one that is leaving       *)
(* removes it (main.rs:85-113, 153-156).                                   *)
SocketOfServing ==
  ~overlap => \A d \in Daemons : Serving(d) => file = d

(* The inductive invariant behind it.  Without an overlap one daemon at    *)
(* most is starting; from its bind to its unlink a daemon finds its own    *)
(* socket under the path; and one that is about to remove a file removes   *)
(* that of a daemon past its unlink.                                       *)
TakeoverTypes ==
  /\ pc \in [Daemons -> {"unborn", "setup", "probe", "remove", "bind", "bound", "serving",
                         "cleanup", "unlink", "leaving", "dead", "reaped"}]
  /\ tries \in [Daemons -> Nat]
  /\ file \in Daemons \cup {NoDaemon}
  /\ overlap \in BOOLEAN
  /\ alone \subseteq Daemons /\ excused \subseteq Daemons

Holds(d) == pc[d] \in {"bound", "serving", "cleanup", "unlink"}

OneStarter == \A d, e \in Daemons : Starting(d) /\ Starting(e) => d = e

HoldersSocket == \A d \in Daemons : Holds(d) => file = d

RemovesStale == \A d \in Daemons : pc[d] = "remove" => \A e \in Daemons : ~Holds(e)

TakeoverInv == TakeoverTypes /\ (~overlap => OneStarter /\ HoldersSocket /\ RemovesStale)

(* main.rs:84, "If another daemon is still alive, exit": no two serve.     *)
OneDaemon == \A d, e \in Daemons : Serving(d) /\ Serving(e) => d = e

(* A daemon that starts when no other is alive comes to serve, whatever    *)
(* file it finds: no dead daemon's socket keeps the next one out.  Excused *)
(* are one that is stopped meanwhile or may not remove the file, and two   *)
(* that start at once.                                                     *)
AloneServes ==
  \A d \in Daemons :
    []<>(d \in alone => pc[d] = "serving" \/ d \in excused \/ overlap)

=============================================================================
