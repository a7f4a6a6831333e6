--------------------------- MODULE ConnectionPool ---------------------------
(***************************************************************************)
(* The hot-spare pool of the daemon (asr.rs, ConnectionPool): one slot for *)
(* a pre-dialled websocket, a tokio Notify that announces that the slot    *)
(* was emptied, one maintainer task that refills it, and the client        *)
(* handlers that take from it.                                             *)
(*                                                                         *)
(* Each action is one critical section of the spare mutex or one await of  *)
(* the maintainer.  Connections are numbered in the order they are         *)
(* dialled; the number is only an identity.                                *)
(***************************************************************************)
EXTENDS Naturals

CONSTANTS
  Handlers,  (* the client handlers that share the pool                    *)
  MaxDials   (* bound on the connections the maintainer ever dials         *)

ASSUME MaxDialsAssumption == MaxDials \in Nat

VARIABLES
  spare,     (* the connection in the slot, 0 for Option::None             *)
  permit,    (* notify_consumed holds a permit, or has woken its waiter    *)
  mpc,       (* where the maintainer is                                    *)
  made,      (* connections dialled so far                                 *)
  held       (* the connections each handler has taken                     *)

vars == <<spare, permit, mpc, made, held>>

None == 0

Conns == 1 .. made

MaintainerAt ==
  {"check", "dial", "backoff", "store", "listen", "wait", "cooldown"}

-----------------------------------------------------------------------------
Init ==
  /\ spare = None
  /\ permit = FALSE
  /\ mpc = "check"
  /\ made = 0
  /\ held = [h \in Handlers |-> {}]

(* The maintainer looks at the slot under the lock, then releases it. *)
CheckSpare ==
  /\ mpc = "check"
  /\ mpc' = IF spare = None THEN "dial" ELSE "listen"
  /\ UNCHANGED <<spare, permit, made, held>>

DialOk ==
  /\ mpc = "dial"
  /\ made < MaxDials
  /\ made' = made + 1
  /\ mpc' = "store"
  /\ UNCHANGED <<spare, permit, held>>

(* Variant: a failed dial waits for a notification instead of retrying. *)
DialFailGivesUp ==
  /\ mpc = "dial"
  /\ mpc' = "wait"
  /\ UNCHANGED <<spare, permit, made, held>>

(* A failed dial sleeps three seconds and checks again. *)
DialFail ==
  /\ mpc = "dial"
  /\ mpc' = "backoff"
  /\ UNCHANGED <<spare, permit, made, held>>

BackoffOver ==
  /\ mpc = "backoff"
  /\ mpc' = "check"
  /\ UNCHANGED <<spare, permit, made, held>>

(* The dialled stream goes into the slot, whatever was there. *)
StoreSpare ==
  /\ mpc = "store"
  /\ spare' = made
  /\ mpc' = "listen"
  /\ UNCHANGED <<permit, made, held>>

(* The lock is released, but the maintainer was not waiting yet: it is     *)
(* from the first poll of notified() on.                                   *)
Listen ==
  /\ mpc = "listen"
  /\ mpc' = "wait"
  /\ UNCHANGED <<spare, permit, made, held>>

(* Variant: the permit is not consumed by the wake-up. *)
NotifiedKeepsPermit ==
  /\ mpc = "wait"
  /\ permit
  /\ mpc' = "cooldown"
  /\ UNCHANGED <<spare, permit, made, held>>

Notified ==
  /\ mpc = "wait"
  /\ permit
  /\ permit' = FALSE
  /\ mpc' = "cooldown"
  /\ UNCHANGED <<spare, made, held>>

CooldownOver ==
  /\ mpc = "cooldown"
  /\ mpc' = "check"
  /\ UNCHANGED <<spare, permit, made, held>>

(* Variant: the permit is given only to a maintainer that already waits, *)
(* as notify_waiters would do.                                           *)
TakeNotifyWaiters(h) ==
  /\ spare # None
  /\ held' = [held EXCEPT ![h] = @ \cup {spare}]
  /\ spare' = None
  /\ permit' = (mpc = "wait")
  /\ UNCHANGED <<mpc, made>>

(* Variant: the stream is handed out and stays in the slot. *)
TakeLeavesSpare(h) ==
  /\ spare # None
  /\ held' = [held EXCEPT ![h] = @ \cup {spare}]
  /\ permit' = TRUE
  /\ UNCHANGED <<spare, mpc, made>>

(* take() with a stream in the slot.  With an empty slot it changes      *)
(* nothing: no permit is stored and the handler dials on its own.        *)
Take(h) ==
  /\ spare # None
  /\ held' = [held EXCEPT ![h] = @ \cup {spare}]
  /\ spare' = None
  /\ permit' = TRUE
  /\ UNCHANGED <<mpc, made>>

Maintainer ==
  \/ CheckSpare \/ DialOk \/ DialFail \/ BackoffOver
  \/ StoreSpare \/ Listen \/ Notified \/ CooldownOver

Next ==
  \/ Maintainer
  \/ \E h \in Handlers : Take(h)

Spec == Init /\ [][Next]_vars

(* The maintainer is a spawned task on a running executor, and its       *)
(* sleeps end.  Dialling succeeds infinitely often if it is tried        *)
(* infinitely often; the handlers owe nothing.                           *)
Fairness ==
  /\ WF_vars(CheckSpare) /\ WF_vars(BackoffOver) /\ WF_vars(StoreSpare) /\ WF_vars(Listen)
  /\ WF_vars(Notified) /\ WF_vars(CooldownOver)
  /\ WF_vars(DialOk \/ DialFail) /\ SF_vars(DialOk)

FairSpec == Spec /\ Fairness

-----------------------------------------------------------------------------
TypeOK ==
  /\ made \in 0 .. MaxDials
  /\ spare \in Conns \cup {None}
  /\ permit \in BOOLEAN
  /\ mpc \in MaintainerAt
  /\ held \in [Handlers -> SUBSET Conns]

(* No lost wake-up: a maintainer that waits, or goes to wait, while the   *)
(* slot is empty has a permit to wake it (asr.rs:40-42 against asr.rs:72),*)
(* even when the take falls between its store and its wait.               *)
NoLostWakeup == mpc \in {"listen", "wait"} /\ spare = None => permit

(* No spurious wake-up: a stored permit always means an empty slot, so    *)
(* the maintainer never dials beside a live spare (asr.rs:38-43).         *)
PermitMeansEmpty == permit => spare = None

(* Every dialled connection is accounted for: it is about to be stored,   *)
(* in the slot, or with a handler; storing never discards one that nobody *)
(* took (asr.rs:58-62).                                                   *)
NoConnectionDropped ==
  \A n \in Conns :
    \/ n = spare
    \/ n = made /\ mpc = "store"
    \/ \E h \in Handlers : n \in held[h]

(* One connection serves one session: no stream is with two handlers, or  *)
(* with a handler and in the slot (asr.rs:37-44).                         *)
HandedOutOnce ==
  /\ \A h \in Handlers : spare \notin held[h]
  /\ \A g, h \in Handlers : g # h => held[g] \cap held[h] = {}

(* The inductive strengthening: before it waits the slot is empty and no *)
(* permit is stored, and no handler holds a connection that is still with *)
(* the maintainer.                                                        *)
PoolInv ==
  /\ TypeOK
  /\ NoLostWakeup
  /\ PermitMeansEmpty
  /\ NoConnectionDropped
  /\ HandedOutOnce
  /\ mpc \notin {"listen", "wait"} => spare = None /\ ~permit
  /\ mpc = "store" => made > 0 /\ \A h \in Handlers : made \notin held[h]

(* An emptied slot is refilled as long as dialling can succeed            *)
(* (asr.rs:47-77).                                                        *)
Replenished == (spare = None /\ made < MaxDials) ~> spare # None

(* What the pool promises about its connections, seen from outside: none   *)
(* is dialled beside an idle one, and each is handed to one handler and    *)
(* never comes back (asr.rs:36-77); see SpareLifecycle.                    *)
Connections == 1 .. MaxDials

Stage == [n \in Connections |->
  IF n > made THEN "fresh"
  ELSE IF n = spare THEN "spare"
  ELSE IF n = made /\ mpc = "store" THEN "dialled"
  ELSE "used"]

Users == [n \in Connections |-> {h \in Handlers : n \in held[h]}]

Abstract == INSTANCE SpareLifecycle WITH stage <- Stage, users <- Users

ImplementsSpareLifecycle == Abstract!Spec

=============================================================================
