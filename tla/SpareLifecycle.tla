--------------------------- MODULE SpareLifecycle ---------------------------
(***************************************************************************)
(* What the pool promises about its connections, with no maintainer, lock  *)
(* or notification in sight: one is dialled only while no other is idle,   *)
(* becomes the spare, goes to one handler, and is never anything else      *)
(* again.                                                                  *)
(***************************************************************************)
CONSTANTS Connections, Handlers

VARIABLES
  stage,  (* of each connection: fresh, dialled, spare or used             *)
  users   (* the handlers that have it                                     *)

vars == <<stage, users>>

Idle(n) == stage[n] \in {"dialled", "spare"}

Init ==
  /\ stage = [n \in Connections |-> "fresh"]
  /\ users = [n \in Connections |-> {}]

Dial(n) ==
  /\ stage[n] = "fresh" /\ \A m \in Connections : ~Idle(m)
  /\ stage' = [stage EXCEPT ![n] = "dialled"]
  /\ UNCHANGED users

Offer(n) ==
  /\ stage[n] = "dialled"
  /\ stage' = [stage EXCEPT ![n] = "spare"]
  /\ UNCHANGED users

HandOut(n, h) ==
  /\ stage[n] = "spare"
  /\ stage' = [stage EXCEPT ![n] = "used"]
  /\ users' = [users EXCEPT ![n] = {h}]

Next ==
  \E n \in Connections : Dial(n) \/ Offer(n) \/ \E h \in Handlers : HandOut(n, h)

Spec == Init /\ [][Next]_vars

=============================================================================
