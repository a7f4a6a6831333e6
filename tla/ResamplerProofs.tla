--------------------------- MODULE ResamplerProofs ---------------------------
(***************************************************************************)
(* The resampler for every pair of rates and every way to cut the input:   *)
(* it neither drifts nor loses a sample, and it never slices out of range  *)
(* when the device's rate is at most three times that of the service.      *)
(***************************************************************************)
EXTENDS Resampler, TLAPS

USE RateAssumption

LEMMA DivFacts ==
  ASSUME NEW a \in Nat, NEW b \in Nat \ {0}
  PROVE  /\ a \div b \in Nat
         /\ (a \div b) * b <= a
         /\ a < ((a \div b) + 1) * b
BY ONLY SMT

(* The quotient is the only one. *)
LEMMA DivUnique ==
  ASSUME NEW a \in Nat, NEW b \in Nat \ {0}, NEW q \in Int,
         q * b <= a, a < (q + 1) * b
  PROVE  a \div b = q
<1> DEFINE r == a \div b
<1>1. r \in Nat /\ r * b <= a /\ a < (r + 1) * b
  BY DivFacts
<1> HIDE DEF r
<1>2. q * b < (r + 1) * b /\ r * b < (q + 1) * b
  BY <1>1
<1>3. q < r + 1
  BY <1>1, <1>2
<1>4. r < q + 1
  BY <1>1, <1>2
<1>5. r = q
  BY <1>1, <1>3, <1>4
<1> QED BY <1>5 DEF r

LEMMA DivShift ==
  ASSUME NEW a \in Nat, NEW b \in Nat \ {0}, NEW d \in Nat
  PROVE  (d * b + a) \div b = d + (a \div b)
<1> DEFINE q == a \div b
<1>1. q \in Nat /\ q * b <= a /\ a < (q + 1) * b
  BY DivFacts
<1> HIDE DEF q
<1>2. (d + q) * b = d * b + q * b /\ (d + q + 1) * b = d * b + (q + 1) * b
  BY <1>1
<1>3. (d + q) * b <= d * b + a /\ d * b + a < (d + q + 1) * b
  BY <1>1, <1>2
<1>4. d * b + a \in Nat
  OBVIOUS
<1>5. (d * b + a) \div b = d + q
  BY <1>1, <1>3, <1>4, DivUnique
<1> QED BY <1>5 DEF q

LEMMA DivStep ==
  ASSUME NEW a \in Nat, NEW b \in Nat \ {0}, NEW c \in Nat, c <= 3 * b
  PROVE  (a + c) \div b <= (a \div b) + 3
<1> DEFINE q == a \div b
           r == (a + c) \div b
<1>1. q \in Nat /\ a < (q + 1) * b
  BY DivFacts
<1>2. r \in Nat /\ r * b <= a + c
  BY DivFacts
<1> HIDE DEF q, r
<1>3. r * b < (q + 4) * b
  BY <1>1, <1>2
<1>4. r < q + 4
  BY <1>1, <1>2, <1>3
<1> QED BY <1>1, <1>2, <1>4 DEF q, r

LEMMA ResamplerInit == Init => ResamplerInv
<1> SUFFICES ASSUME Init PROVE ResamplerInv
  OBVIOUS
<1>1. TypeOK /\ PhaseLocked
  <2>1. TypeOK
    <3>1. busy \in BOOLEAN /\ panicked \in BOOLEAN
      BY DEF Init
    <3>2. p \in Nat /\ merged \in Nat /\ dropped \in Nat /\ out \in Nat /\ fed \in 0 .. MaxFed
      BY DEF Init
    <3> QED BY <3>1, <3>2 DEF TypeOK
  <2>2. out * InRate = 0 /\ dropped * OutRate = 0 /\ p = 0
    BY DEF Init
  <2>3. fed = dropped + merged
    BY DEF Init
  <2> QED BY <2>1, <2>2, <2>3 DEF PhaseLocked
<1>2. (0 \div OutRate) = 0
  <2>1. 0 * OutRate <= 0 /\ 0 < (0 + 1) * OutRate
    OBVIOUS
  <2> QED BY <2>1, DivUnique
<1>3. EmitsAllDue
  BY <1>2 DEF Init, EmitsAllDue
<1> QED BY <1>1, <1>3 DEF ResamplerInv

LEMMA ResamplerStep == ResamplerInv /\ [Next]_vars => ResamplerInv'
<1> SUFFICES ASSUME ResamplerInv, [Next]_vars PROVE ResamplerInv'
  OBVIOUS
<1> USE DEF ResamplerInv, TypeOK
<1>1. I0 \in Nat /\ (out * InRate) \div OutRate = dropped + I0
  <2>1. I0 \in Nat
    BY DivFacts DEF I0
  <2>2. (dropped * OutRate + p) \div OutRate = dropped + I0
    BY DivShift DEF I0
  <2> QED BY <2>1, <2>2 DEF PhaseLocked
<1>2. ASSUME NEW n \in 1 .. MaxFed, Feed(n) PROVE ResamplerInv'
  <2>1. TypeOK' /\ PhaseLocked'
    BY <1>2 DEF Feed, PhaseLocked
  <2>2. EmitsAllDue'
    BY <1>2 DEF Feed, EmitsAllDue
  <2> QED BY <2>1, <2>2
<1>3. CASE Emit
  <2>1. TypeOK'
    BY <1>3 DEF Emit
  <2>2. PhaseLocked'
    <3>1. (out + 1) * InRate = out * InRate + InRate
      OBVIOUS
    <3> QED BY <1>3, <3>1 DEF Emit, PhaseLocked
  <2>3. EmitsAllDue'
    <3>1. ((out' - 1) * InRate) \div OutRate = dropped + I0
      BY <1>1, <1>3 DEF Emit
    <3>2. dropped + I0 + 1 < fed
      BY <1>1, <1>3 DEF Emit, PhaseLocked
    <3> QED BY <1>3, <3>1, <3>2 DEF Emit, EmitsAllDue
  <2> QED BY <2>1, <2>2, <2>3
<1>4. CASE Trim
  <2>1. KeepFrom \in Nat /\ KeepFrom <= I0
    BY <1>1 DEF KeepFrom
  <2>2. KeepFrom * OutRate \in Nat /\ KeepFrom * OutRate <= p
    <3>1. I0 * OutRate <= p
      BY DivFacts DEF I0
    <3>2. KeepFrom * OutRate <= I0 * OutRate
      BY <1>1, <2>1
    <3> QED BY <1>1, <2>1, <3>1, <3>2
  <2>3. TypeOK'
    <3>1. CASE KeepFrom > merged
      BY <1>4, <3>1 DEF Trim
    <3>2. CASE ~(KeepFrom > merged)
      <4>1. merged' \in Nat /\ dropped' \in Nat /\ panicked' = panicked
        BY <1>4, <2>1, <3>2 DEF Trim
      <4>2. p' = p - KeepFrom * OutRate
        BY <1>4, <3>2 DEF Trim
      <4>3. p' \in Nat
        BY <2>2, <4>2
      <4> QED BY <1>4, <4>1, <4>3 DEF Trim
    <3> QED BY <3>1, <3>2
  <2>4. PhaseLocked'
    <3>1. (dropped + KeepFrom) * OutRate = dropped * OutRate + KeepFrom * OutRate
      BY <2>1
    <3>2. UNCHANGED <<out, fed>>
      BY <1>4 DEF Trim
    <3>3. CASE KeepFrom > merged
      BY <1>4, <3>2, <3>3 DEF Trim, PhaseLocked
    <3>4. CASE ~(KeepFrom > merged)
      <4>1. /\ p' = p - KeepFrom * OutRate
            /\ dropped' = dropped + KeepFrom /\ merged' = merged - KeepFrom
        BY <1>4, <3>4 DEF Trim
      <4>2. out * InRate = dropped' * OutRate + p'
        BY <2>2, <3>1, <4>1 DEF PhaseLocked
      <4>3. fed = dropped' + merged'
        BY <2>1, <4>1 DEF PhaseLocked
      <4> QED BY ONLY <3>2, <4>2, <4>3 DEF PhaseLocked
    <3> QED BY <3>3, <3>4
  <2>5. EmitsAllDue'
    <3>1. (out * InRate) \div OutRate + 1 >= fed
      BY <1>1, <1>4 DEF Trim, PhaseLocked
    <3> QED BY <1>4, <3>1 DEF Trim, EmitsAllDue
  <2> QED BY <2>3, <2>4, <2>5
<1>5. CASE UNCHANGED vars
  BY <1>5 DEF vars, PhaseLocked, EmitsAllDue
<1> QED BY <1>2, <1>3, <1>4, <1>5 DEF Next

(* Each output sample is taken at its exact input position, however the    *)
(* callbacks cut the input (StreamingResampler::process).                  *)
THEOREM ResamplerKeepsPhase == Spec => []PhaseLocked
<1>1. ResamplerInv => PhaseLocked
  BY DEF ResamplerInv
<1> QED BY <1>1, ResamplerInit, ResamplerStep, PTL DEF Spec

(* After each call, the output is all that the input fed so far allows.    *)
THEOREM ResamplerEmitsAll == Spec => []EmitsAllDue
<1>1. ResamplerInv => EmitsAllDue
  BY DEF ResamplerInv
<1> QED BY <1>1, ResamplerInit, ResamplerStep, PTL DEF Spec

(* The position never runs more than a sample past the merged samples.     *)
Reach == ResamplerInv /\ ~panicked /\ I0 <= merged + 1

LEMMA ReachStep ==
  ASSUME InRate <= 3 * OutRate PROVE Reach /\ [Next]_vars => Reach'
<1> SUFFICES ASSUME Reach, [Next]_vars PROVE Reach'
  OBVIOUS
<1> USE DEF Reach
<1>1. ResamplerInv'
  BY ResamplerStep
<1>2. p \in Nat /\ merged \in Nat /\ I0 \in Nat
  BY DivFacts DEF ResamplerInv, TypeOK, I0
<1>3. ASSUME NEW n \in 1 .. MaxFed, Feed(n) PROVE Reach'
  BY <1>1, <1>2, <1>3 DEF Feed, I0
<1>4. CASE Emit
  <2>1. (p + InRate) \div OutRate <= I0 + 3
    BY <1>2, DivStep DEF I0
  <2>2. I0' <= I0 + 3
    BY <1>4, <2>1 DEF Emit, I0
  <2>3. I0' \in Nat
    BY <1>1, DivFacts DEF ResamplerInv, TypeOK, I0
  <2> QED BY <1>1, <1>2, <1>4, <2>2, <2>3 DEF Emit
<1>5. CASE Trim
  <2>1. KeepFrom \in Nat /\ KeepFrom <= merged /\ I0 <= KeepFrom + 1
    BY <1>2 DEF KeepFrom
  <2>2. p' = p - KeepFrom * OutRate /\ merged' = merged - KeepFrom /\ ~panicked'
    BY <1>2, <1>5, <2>1 DEF Trim
  <2>3. p' \in Nat /\ merged' \in Nat
    BY <1>1 DEF ResamplerInv, TypeOK
  <2>4. p = KeepFrom * OutRate + p'
    BY <1>2, <2>1, <2>2, <2>3
  <2>5. I0 = KeepFrom + (p' \div OutRate)
    BY <2>1, <2>3, <2>4, DivShift DEF I0
  <2>6. p' \div OutRate \in Nat /\ I0' = p' \div OutRate
    BY <2>3, DivFacts DEF I0
  <2> QED BY <1>1, <1>2, <2>1, <2>2, <2>3, <2>5, <2>6
<1>6. CASE UNCHANGED vars
  BY <1>1, <1>6 DEF vars, I0
<1> QED BY <1>3, <1>4, <1>5, <1>6 DEF Next

LEMMA ReachInit == Init => Reach
<1> SUFFICES ASSUME Init PROVE Reach
  OBVIOUS
<1>1. 0 * OutRate <= 0 /\ 0 < (0 + 1) * OutRate
  OBVIOUS
<1>2. 0 \div OutRate = 0
  BY <1>1, DivUnique
<1> QED BY <1>2, ResamplerInit DEF Reach, Init, I0

(* No slice is out of range for a device of at most 48 kHz.                *)
THEOREM ResamplerInRange ==
  ASSUME InRate <= 3 * OutRate PROVE Spec => []NeverPanics
<1>1. Reach /\ [Next]_vars => Reach'
  BY ReachStep
<1>2. Reach => NeverPanics
  BY DEF Reach, NeverPanics
<1> QED BY <1>1, <1>2, ReachInit, PTL DEF Spec

(* A call that leaves keeps the left neighbour and what comes after it.    *)
LEMMA TailStep ==
  Reach /\ TailBounded /\ [Next]_vars => TailBounded'
<1> SUFFICES ASSUME Reach, TailBounded, [Next]_vars PROVE TailBounded'
  OBVIOUS
<1> USE DEF Reach
<1>1. merged \in Nat /\ I0 \in Nat
  BY DivFacts DEF ResamplerInv, TypeOK, I0
<1>2. CASE (\E n \in 1 .. MaxFed : Feed(n)) \/ Emit
  BY <1>2 DEF Feed, Emit, TailBounded
<1>3. CASE Trim
  <2>1. KeepFrom \in Nat /\ KeepFrom <= merged /\ merged <= KeepFrom + 2
    BY <1>1, <1>3 DEF KeepFrom, Trim
  <2>2. merged' = merged - KeepFrom
    BY <1>1, <1>3, <2>1 DEF Trim
  <2> QED BY <1>1, <2>1, <2>2 DEF TailBounded
<1>4. CASE UNCHANGED vars
  BY <1>4 DEF vars, TailBounded
<1> QED BY <1>2, <1>3, <1>4 DEF Next

(* The tail holds two samples at most between the calls, for a device of   *)
(* at most 48 kHz (audio.rs:204-206).                                      *)
THEOREM ResamplerKeepsTailShort ==
  ASSUME InRate <= 3 * OutRate PROVE Spec => []TailBounded
<1>1. Init => TailBounded
  BY DEF Init, TailBounded
<1>2. Reach /\ [Next]_vars => Reach'
  BY ReachStep
<1> QED BY <1>1, <1>2, ReachInit, TailStep, PTL DEF Spec

=============================================================================
