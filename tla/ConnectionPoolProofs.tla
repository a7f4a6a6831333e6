------------------------ MODULE ConnectionPoolProofs ------------------------
(***************************************************************************)
(* The safety of the hot-spare pool for every set of handlers and every    *)
(* bound on the dials.                                                     *)
(***************************************************************************)
EXTENDS ConnectionPool, TLAPS

(* The pool starts in the inductive invariant. *)
LEMMA PoolInit == Init => PoolInv
<1> SUFFICES ASSUME Init PROVE PoolInv
  OBVIOUS
<1>1. made = 0 /\ spare = 0 /\ mpc = "check" /\ permit = FALSE
  BY DEF Init, None
<1>2. \A h \in Handlers : held[h] = {}
  BY DEF Init
<1>3. TypeOK
  <2>1. Conns = {}
    BY <1>1 DEF Conns
  <2>2. held \in [Handlers -> SUBSET Conns]
    BY <2>1 DEF Init
  <2>3. made \in 0 .. MaxDials
    BY <1>1, MaxDialsAssumption
  <2>4. mpc \in MaintainerAt /\ permit \in BOOLEAN
    BY <1>1 DEF MaintainerAt
  <2>5. spare \in Conns \cup {None}
    BY DEF Init
  <2> QED
    BY <2>2, <2>3, <2>4, <2>5 DEF TypeOK
<1>4. NoConnectionDropped
  BY <1>1 DEF NoConnectionDropped, Conns
<1>5. HandedOutOnce
  BY <1>2 DEF HandedOutOnce
<1> QED
  BY <1>1, <1>3, <1>4, <1>5
     DEF PoolInv, NoLostWakeup, PermitMeansEmpty, None

(* Every step of the maintainer or a handler keeps it. *)
LEMMA PoolStep == PoolInv /\ [Next]_vars => PoolInv'
<1> SUFFICES ASSUME PoolInv, [Next]_vars PROVE PoolInv'
  OBVIOUS
<1> USE MaxDialsAssumption
    DEF PoolInv, TypeOK, NoLostWakeup, PermitMeansEmpty,
        NoConnectionDropped, HandedOutOnce, Conns, None, MaintainerAt
<1>1. CASE CheckSpare
  BY <1>1 DEF CheckSpare
<1>2. CASE DialOk
  BY <1>2 DEF DialOk
<1>3. CASE DialFail
  BY <1>3 DEF DialFail
<1>4. CASE BackoffOver
  BY <1>4 DEF BackoffOver
<1>5. CASE StoreSpare
  BY <1>5 DEF StoreSpare
<1>6. CASE Notified
  BY <1>6 DEF Notified
<1>7. CASE CooldownOver
  BY <1>7 DEF CooldownOver
<1>8. ASSUME NEW h \in Handlers, Take(h) PROVE PoolInv'
  BY <1>8 DEF Take
<1>9. CASE Listen
  BY <1>9 DEF Listen
<1>10. CASE UNCHANGED vars
  BY <1>10 DEF vars
<1> QED
  BY <1>1, <1>2, <1>3, <1>4, <1>5, <1>6, <1>7, <1>8, <1>9, <1>10
     DEF Next, Maintainer

(* The inductive invariant holds in every reachable state. *)
THEOREM PoolInvariant == Spec => []PoolInv
<1>1. Init => PoolInv
  BY PoolInit
<1>2. PoolInv /\ [Next]_vars => PoolInv'
  BY PoolStep
<1> QED
  BY <1>1, <1>2, PTL DEF Spec

(* A waiting maintainer beside an empty slot always has a wake-up coming:  *)
(* notify_one's stored permit closes the race between take and notified.   *)
THEOREM PoolNeverStalls == Spec => []NoLostWakeup
<1>1. PoolInv => NoLostWakeup
  BY DEF PoolInv
<1> QED
  BY <1>1, PoolInvariant, PTL

(* No dialled connection is overwritten in the slot before it is used.     *)
THEOREM PoolKeepsConnections == Spec => []NoConnectionDropped
<1>1. PoolInv => NoConnectionDropped
  BY DEF PoolInv
<1> QED
  BY <1>1, PoolInvariant, PTL

(* No connection serves two sessions.                                      *)
THEOREM PoolHandsOutOnce == Spec => []HandedOutOnce
<1>1. PoolInv => HandedOutOnce
  BY DEF PoolInv
<1> QED
  BY <1>1, PoolInvariant, PTL

(***************************************************************************)
(* The refinement                                                          *)
(***************************************************************************)

LEMMA DialRefines ==
  ASSUME PoolInv, DialOk PROVE Abstract!Next
<1> DEFINE n == made + 1
<1> USE DEF PoolInv, TypeOK, Conns, None
<1>1. n \in Connections /\ n \notin Conns /\ made \in Nat
  BY MaxDialsAssumption DEF DialOk, Connections
<1>2. spare = None /\ mpc = "dial"
  BY DEF DialOk
<1>3. Stage[n] = "fresh" /\ \A m \in Connections : ~Abstract!Idle(m)
  BY <1>1, <1>2 DEF Stage, Connections, Abstract!Idle
<1>4. Stage' = [Stage EXCEPT ![n] = "dialled"]
  <2>1. ASSUME NEW m \in Connections PROVE Stage'[m] = [Stage EXCEPT ![n] = "dialled"][m]
    BY <1>1, <1>2 DEF DialOk, Stage, Connections
  <2> QED BY <2>1 DEF Stage
<1>5. Users' = Users
  BY DEF DialOk, Users
<1> HIDE DEF n
<1> QED BY <1>1, <1>3, <1>4, <1>5 DEF Abstract!Next, Abstract!Dial

LEMMA StoreRefines ==
  ASSUME PoolInv, StoreSpare PROVE Abstract!Next
<1> USE DEF PoolInv, TypeOK, Conns, None
<1>1. mpc = "store" /\ made > 0 /\ made \in Connections /\ spare = None
  BY MaxDialsAssumption DEF StoreSpare, Connections
<1>2. Stage[made] = "dialled"
  BY <1>1 DEF Stage, Connections
<1>3. Stage' = [Stage EXCEPT ![made] = "spare"]
  <2>1. ASSUME NEW m \in Connections PROVE Stage'[m] = [Stage EXCEPT ![made] = "spare"][m]
    BY <1>1 DEF StoreSpare, Stage, Connections
  <2> QED BY <2>1 DEF Stage
<1>4. Users' = Users
  BY DEF StoreSpare, Users
<1> QED BY <1>1, <1>2, <1>3, <1>4 DEF Abstract!Next, Abstract!Offer

LEMMA TakeRefines ==
  ASSUME PoolInv, NEW h \in Handlers, Take(h) PROVE Abstract!Next
<1> USE DEF PoolInv, TypeOK, Conns, None
<1>1. /\ spare \in Connections /\ spare <= made /\ spare # 0
      /\ mpc # "store" /\ \A g \in Handlers : spare \notin held[g]
  BY MaxDialsAssumption DEF Take, Connections, HandedOutOnce
<1>2. Stage[spare] = "spare"
  BY <1>1 DEF Stage, Connections
<1>3. Stage' = [Stage EXCEPT ![spare] = "used"]
  <2>1. ASSUME NEW m \in Connections PROVE Stage'[m] = [Stage EXCEPT ![spare] = "used"][m]
    BY <1>1 DEF Take, Stage, Connections
  <2> QED BY <2>1 DEF Stage
<1>4. Users' = [Users EXCEPT ![spare] = {h}]
  <2>1. ASSUME NEW m \in Connections PROVE Users'[m] = [Users EXCEPT ![spare] = {h}][m]
    BY <1>1 DEF Take, Users
  <2> QED BY <2>1 DEF Users
<1> QED BY <1>1, <1>2, <1>3, <1>4 DEF Abstract!Next, Abstract!HandOut

(* A step of the maintainer that neither dials nor stores is not seen. *)
LEMMA QuietStepRefines ==
  ASSUME PoolInv, UNCHANGED <<spare, made, held>>, mpc # "store", mpc' # "store"
  PROVE  UNCHANGED Abstract!vars
BY DEF Abstract!vars, Stage, Users

LEMMA PoolStepRefines == PoolInv /\ [Next]_vars => [Abstract!Next]_Abstract!vars
<1> SUFFICES ASSUME PoolInv, [Next]_vars PROVE [Abstract!Next]_Abstract!vars
  OBVIOUS
<1>1. CASE DialOk
  BY <1>1, DialRefines
<1>2. CASE StoreSpare
  BY <1>2, StoreRefines
<1>3. ASSUME NEW h \in Handlers, Take(h) PROVE Abstract!Next
  BY <1>3, TakeRefines
<1>4. CASE CheckSpare \/ DialFail \/ BackoffOver \/ Listen \/ Notified \/ CooldownOver
  <2>1. UNCHANGED <<spare, made, held>> /\ mpc # "store" /\ mpc' # "store"
    BY <1>4 DEF CheckSpare, DialFail, BackoffOver, Listen, Notified, CooldownOver
  <2> QED BY <2>1, QuietStepRefines
<1>5. CASE UNCHANGED vars
  BY <1>5 DEF vars, Abstract!vars, Stage, Users
<1> QED BY <1>1, <1>2, <1>3, <1>4, <1>5 DEF Next, Maintainer

(* Seen from outside, slot, lock, notification and maintainer implement    *)
(* the life of a spare: no connection is dialled beside an idle one, and   *)
(* each goes to one handler and never comes back (asr.rs:36-77).           *)
THEOREM PoolImplementsSpareLifecycle == Spec => ImplementsSpareLifecycle
<1>1. Init => Abstract!Init
  <2> SUFFICES ASSUME Init PROVE Abstract!Init
    OBVIOUS
  <2>1. Stage = [n \in Connections |-> "fresh"]
    BY DEF Init, Stage, Connections
  <2>2. Users = [n \in Connections |-> {}]
    BY DEF Init, Users
  <2> QED BY <2>1, <2>2 DEF Abstract!Init
<1>2. PoolInv /\ [Next]_vars => [Abstract!Next]_Abstract!vars
  BY PoolStepRefines
<1> QED
  BY <1>1, <1>2, PoolInvariant, PTL DEF Spec, ImplementsSpareLifecycle, Abstract!Spec

=============================================================================
