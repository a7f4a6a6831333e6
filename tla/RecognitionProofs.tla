-------------------------- MODULE RecognitionProofs --------------------------
(***************************************************************************)
(* What parse_asr_texts commits, for every number of utterances and of     *)
(* responses and in every mode: nothing twice, nothing out of order and,   *)
(* when the session ends as it should, nothing left out.  Its loop over    *)
(* the utterances, and the texts it cuts and compares, need induction over *)
(* data, which is done on sets of naturals (InductionOverNat).             *)
(***************************************************************************)
EXTENDS Recognition, FiniteSetTheorems, SequenceTheorems, WellFoundedInduction, TLAPS

-----------------------------------------------------------------------------
(* Induction over the naturals, with the set of those for which the claim  *)
(* holds: the order has no descending chain, so that a nonempty complement *)
(* would have a least element.                                             *)
LEMMA InductionOverNat ==
  ASSUME NEW S, 0 \in S, \A n \in Nat : n \in S => n + 1 \in S
  PROVE  Nat \subseteq S
<1> DEFINE R == OpToRel(<, Nat)
           T == Nat \ S
<1>1. SUFFICES ASSUME T # {} PROVE FALSE
  OBVIOUS
<1>2. IsWellFoundedOn(R, Nat)
  BY NatLessThanWellFounded
<1>3. \A x, y \in Nat : x < y => <<x, y>> \in R
  BY DEF OpToRel
<1>4. T \subseteq Nat
  OBVIOUS
<1> HIDE DEF R, T
<1>5. PICK x \in T : \A y \in T : ~ (<<y, x>> \in R)
  BY <1>1, <1>2, <1>4, WFMin
<1>6. x \in Nat /\ x - 1 \in T /\ x - 1 \in Nat /\ x - 1 < x
  BY DEF T
<1>7. <<x - 1, x>> \in R
  BY <1>3, <1>6
<1>8. QED BY <1>5, <1>6, <1>7

(* f starts with init and goes on by step. *)
Iterates(f, V, init, step) ==
  /\ f \in [Nat -> V]
  /\ f[0] = init
  /\ \A n \in Nat : f[n + 1] = step[n][f[n]]

(* A function may be defined by recursion over the naturals. *)
LEMMA RecursionOverNat ==
  ASSUME NEW V, NEW init \in V, NEW step \in [Nat -> [V -> V]]
  PROVE  \E f : Iterates(f, V, init, step)
<1> DEFINE Runs(n) == {g \in [0 .. n -> V] :
                         g[0] = init /\ \A i \in 0 .. n - 1 : g[i + 1] = step[i][g[i]]}
<1>1. ASSUME NEW n \in Nat, NEW g \in Runs(n), NEW h \in Runs(n + 1)
      PROVE  \A i \in 0 .. n : g[i] = h[i]
  <2> DEFINE Same == {i \in Nat : i <= n => g[i] = h[i]}
  <2>1. 0 \in Same
    OBVIOUS
  <2>2. ASSUME NEW i \in Nat, i \in Same
        PROVE  i + 1 \in Same
    <3>1. CASE i + 1 <= n
      <4>1. i \in 0 .. n - 1 /\ i \in 0 .. (n + 1) - 1 /\ g[i] = h[i]
        BY <2>2, <3>1
      <4>2. g[i + 1] = step[i][g[i]] /\ h[i + 1] = step[i][h[i]]
        BY <4>1
      <4> QED BY <4>1, <4>2
    <3>2. CASE ~ (i + 1 <= n)
      BY <3>2
    <3> QED BY <3>1, <3>2
  <2> HIDE DEF Same
  <2>3. Nat \subseteq Same
    BY <2>1, <2>2, InductionOverNat
  <2> QED BY <2>3 DEF Same
<1>2. \A n \in Nat : Runs(n) # {}
  <2> DEFINE Some == {n \in Nat : Runs(n) # {}}
  <2>1. 0 \in Some
    <3>1. [i \in 0 .. 0 |-> init] \in Runs(0)
      OBVIOUS
    <3> QED BY <3>1
  <2>2. ASSUME NEW n \in Nat, n \in Some
        PROVE  n + 1 \in Some
    <3>1. PICK g \in Runs(n) : TRUE
      BY <2>2
    <3> DEFINE h == [i \in 0 .. n + 1 |-> IF i = n + 1 THEN step[n][g[n]] ELSE g[i]]
    <3>2. g \in [0 .. n -> V] /\ g[0] = init
      BY <3>1
    <3>3. g[n] \in V /\ step[n][g[n]] \in V
      BY <3>2
    <3>4. h \in [0 .. n + 1 -> V]
      BY <3>2, <3>3
    <3>5. ASSUME NEW i \in 0 .. (n + 1) - 1
          PROVE  h[i + 1] = step[i][h[i]]
      <4>1. CASE i = n
        BY <4>1
      <4>2. CASE i # n
        <5>1. i \in 0 .. n - 1
          BY <4>2
        <5>2. g[i + 1] = step[i][g[i]]
          BY <3>1, <5>1
        <5> QED BY <5>1, <5>2
      <4> QED BY <4>1, <4>2
    <3>6. h[0] = init
      BY <3>2
    <3> HIDE DEF h
    <3>7. h \in Runs(n + 1)
      BY <3>4, <3>5, <3>6
    <3> QED BY <3>7
  <2> HIDE DEF Some
  <2>3. Nat \subseteq Some
    BY <2>1, <2>2, InductionOverNat
  <2> QED BY <2>3 DEF Some
<1> DEFINE run(n) == CHOOSE g \in Runs(n) : TRUE
           f == [n \in Nat |-> run(n)[n]]
<1>3. \A n \in Nat : run(n) \in Runs(n)
  BY <1>2
<1> HIDE DEF run
<1>4. \A n \in Nat : run(n) \in [0 .. n -> V] /\ run(n)[0] = init
  BY <1>3
<1>5. \A n \in Nat : \A i \in 0 .. n - 1 : run(n)[i + 1] = step[i][run(n)[i]]
  BY <1>3
<1>6. ASSUME NEW n \in Nat
      PROVE  run(n + 1)[n] = run(n)[n]
  <2>1. run(n) \in Runs(n) /\ run(n + 1) \in Runs(n + 1)
    BY <1>3
  <2> HIDE DEF Runs
  <2>2. \A i \in 0 .. n : run(n)[i] = run(n + 1)[i]
    BY <1>1, <2>1
  <2> QED BY <2>2
<1>7. f \in [Nat -> V]
  BY <1>4
<1>8. f[0] = init
  BY <1>4
<1>9. ASSUME NEW n \in Nat
      PROVE  f[n + 1] = step[n][f[n]]
  <2>1. n + 1 \in Nat /\ n \in 0 .. (n + 1) - 1
    OBVIOUS
  <2>2. run(n + 1)[n + 1] = step[n][run(n + 1)[n]]
    BY <1>5, <2>1
  <2> QED BY <1>6, <2>2
<1> HIDE DEF f
<1> QED BY <1>7, <1>8, <1>9 DEF Iterates

(* FlattenSeq concatenates from the left, an element at a time. *)
LEMMA FlattenUnfolds ==
  ASSUME NEW T, NEW s \in Seq(Seq(T))
  PROVE  \E f \in [Nat -> Seq(T)] :
           /\ FlattenSeq(s) = f[Len(s)]
           /\ f[0] = <<>>
           /\ \A n \in 0 .. Len(s) - 1 : f[n + 1] = f[n] \o s[n + 1]
<1> DEFINE step == [n \in Nat |-> [v \in Seq(T) |-> IF n + 1 <= Len(s) THEN v \o s[n + 1] ELSE v]]
<1>1. step \in [Nat -> [Seq(T) -> Seq(T)]]
  OBVIOUS
<1>2. \A n \in 0 .. Len(s) - 1, v \in Seq(T) : step[n][v] = v \o s[n + 1]
  OBVIOUS
<1> HIDE DEF step
<1>3. <<>> \in Seq(T)
  OBVIOUS
<1>4. PICK f : Iterates(f, Seq(T), <<>>, step)
  BY <1>1, <1>3, RecursionOverNat
<1>4a. f \in [Nat -> Seq(T)] /\ f[0] = <<>>
  BY <1>4 DEF Iterates
<1>5. ASSUME NEW n \in 0 .. Len(s) - 1
      PROVE  f[n + 1] = f[n] \o s[n + 1]
  <2>1. n \in Nat
    OBVIOUS
  <2>2. f[n + 1] = step[n][f[n]]
    BY <1>4, <2>1 DEF Iterates
  <2>3. f[n] \in Seq(T)
    BY <1>4a, <2>1
  <2> QED BY <1>2, <2>2, <2>3
<1> DEFINE Def(g) == [i \in 1 .. Len(s) |-> IF i = 1 THEN s[i] ELSE g[i - 1] \o s[i]]
           h == [i \in 1 .. Len(s) |-> f[i]]
<1>6. h = Def(h)
  <2>1. ASSUME NEW i \in 1 .. Len(s)
        PROVE  f[i] = (IF i = 1 THEN s[i] ELSE h[i - 1] \o s[i])
    <3>1. i - 1 \in 0 .. Len(s) - 1 /\ (i - 1) + 1 = i
      OBVIOUS
    <3>2. f[i] = f[i - 1] \o s[i]
      BY <1>5, <3>1
    <3>3. CASE i = 1
      <4>1. f[i - 1] = <<>>
        BY <1>4a, <3>3
      <4>2. s[i] \in Seq(T)
        OBVIOUS
      <4>3. f[i] = s[i]
        BY <3>2, <4>1, <4>2, ConcatEmptySeq
      <4> QED BY <3>3, <4>3
    <3>4. CASE i # 1
      <4>1. i - 1 \in 1 .. Len(s)
        BY <3>4
      <4> QED BY <3>2, <3>4, <4>1
    <3> QED BY <3>3, <3>4
  <2> QED BY <2>1
<1>7. ASSUME Len(s) > 0, NEW g, g = Def(g)
      PROVE  g[Len(s)] = f[Len(s)]
  <2>1. \A i \in 1 .. Len(s) : g[i] = (IF i = 1 THEN s[i] ELSE g[i - 1] \o s[i])
    BY <1>7, Zenon
  <2>2. \A i \in 1 .. Len(s) : h[i] = (IF i = 1 THEN s[i] ELSE h[i - 1] \o s[i])
    BY <1>6, Zenon
  <2> HIDE DEF Def, h
  <2> DEFINE Same == {i \in Nat : i + 1 <= Len(s) => g[i + 1] = h[i + 1]}
  <2>3. 0 \in Same
    BY <1>7, <2>1, <2>2
  <2>4. ASSUME NEW i \in Nat, i \in Same
        PROVE  i + 1 \in Same
    <3>1. SUFFICES ASSUME (i + 1) + 1 <= Len(s)
                   PROVE  g[(i + 1) + 1] = h[(i + 1) + 1]
      OBVIOUS
    <3>2. g[i + 1] = h[i + 1]
      BY <2>4, <3>1
    <3>3. PICK j \in 1 .. Len(s) : j = (i + 1) + 1
      BY <3>1
    <3>4. j # 1 /\ j - 1 = i + 1
      BY <3>3
    <3>5. g[j] = g[i + 1] \o s[j] /\ h[j] = h[i + 1] \o s[j]
      BY <2>1, <2>2, <3>4
    <3> QED BY <3>2, <3>3, <3>5
  <2> HIDE DEF Same
  <2>5. Nat \subseteq Same
    BY <2>3, <2>4, InductionOverNat
  <2>6. Len(s) - 1 \in Same /\ (Len(s) - 1) + 1 = Len(s)
    BY <1>7, <2>5
  <2>7. g[Len(s)] = h[Len(s)]
    BY <2>6 DEF Same
  <2> QED BY <1>7, <2>7 DEF h
<1>8. CASE Len(s) = 0
  <2>1. FlattenSeq(s) = s /\ s = <<>>
    BY <1>8 DEF FlattenSeq
  <2> QED BY <1>4a, <1>5, <1>8, <2>1
<1>9. CASE Len(s) # 0
  <2> HIDE DEF h
  <2> DEFINE c == CHOOSE g : g = Def(g)
  <2>1. FlattenSeq(s) = c[Len(s)]
    BY <1>9, Zenon DEF FlattenSeq
  <2>2. c = Def(c)
    <3> HIDE DEF Def, h
    <3> QED BY <1>6
  <2> HIDE DEF c, Def
  <2>3. Len(s) > 0
    BY <1>9
  <2>4. c[Len(s)] = f[Len(s)]
    BY <1>7, <2>2, <2>3
  <2> QED BY <1>4a, <1>5, <2>1, <2>4
<1> QED BY <1>8, <1>9

(* Concatenated texts are a text. *)
LEMMA FlattenType ==
  ASSUME NEW T, NEW s \in Seq(Seq(T))
  PROVE  FlattenSeq(s) \in Seq(T)
<1>1. PICK f \in [Nat -> Seq(T)] : FlattenSeq(s) = f[Len(s)]
  BY FlattenUnfolds
<1> QED BY <1>1

(* Nothing concatenated is nothing. *)
LEMMA FlattenEmpty == FlattenSeq(<<>>) = <<>>
BY DEF FlattenSeq

(* One more text comes at the end. *)
LEMMA FlattenAppend ==
  ASSUME NEW T, NEW s \in Seq(Seq(T)), NEW x \in Seq(T)
  PROVE  FlattenSeq(Append(s, x)) = FlattenSeq(s) \o x
<1> DEFINE t == Append(s, x)
<1>1. /\ t \in Seq(Seq(T)) /\ Len(t) = Len(s) + 1 /\ t[Len(s) + 1] = x
      /\ \A i \in 1 .. Len(s) : t[i] = s[i]
  OBVIOUS
<1> HIDE DEF t
<1>2. PICK f \in [Nat -> Seq(T)] :
        /\ FlattenSeq(s) = f[Len(s)]
        /\ f[0] = <<>>
        /\ \A n \in 0 .. Len(s) - 1 : f[n + 1] = f[n] \o s[n + 1]
  BY FlattenUnfolds
<1>3. PICK g \in [Nat -> Seq(T)] :
        /\ FlattenSeq(t) = g[Len(t)]
        /\ g[0] = <<>>
        /\ \A n \in 0 .. Len(t) - 1 : g[n + 1] = g[n] \o t[n + 1]
  BY <1>1, FlattenUnfolds
<1> DEFINE Same == {i \in Nat : i <= Len(s) => f[i] = g[i]}
<1>4. 0 \in Same
  BY <1>2, <1>3
<1>5. ASSUME NEW i \in Nat, i \in Same
      PROVE  i + 1 \in Same
  <2>1. SUFFICES ASSUME i + 1 <= Len(s)
                 PROVE  f[i + 1] = g[i + 1]
    OBVIOUS
  <2>2. Len(s) \in Nat /\ Len(t) = Len(s) + 1
    BY <1>1
  <2>3. i \in 0 .. Len(s) - 1 /\ i \in 0 .. Len(t) - 1 /\ i + 1 \in 1 .. Len(s)
    BY <2>1, <2>2
  <2>4. f[i] = g[i]
    BY <1>5, <2>1, <2>2
  <2>5. t[i + 1] = s[i + 1]
    BY <1>1, <2>3
  <2>6. f[i + 1] = f[i] \o s[i + 1] /\ g[i + 1] = g[i] \o t[i + 1]
    BY <1>2, <1>3, <2>3
  <2> QED BY <2>4, <2>5, <2>6
<1> HIDE DEF Same
<1>6. Nat \subseteq Same
  BY <1>4, <1>5, InductionOverNat
<1>7. f[Len(s)] = g[Len(s)]
  BY <1>6 DEF Same
<1>8. Len(s) \in 0 .. Len(t) - 1
  BY <1>1
<1>9. g[Len(s) + 1] = g[Len(s)] \o x
  BY <1>1, <1>3, <1>8
<1> QED BY <1>1, <1>2, <1>3, <1>7, <1>9 DEF t

(* Concatenation is associative: stated of a named formula, which the provers instantiate. *)
Associates(a, b, c) == (a \o b) \o c = a \o (b \o c)

LEMMA ConcatAssociates ==
  ASSUME NEW T, NEW a \in Seq(T), NEW b \in Seq(T), NEW c \in Seq(T)
  PROVE  Associates(a, b, c)
BY ONLY ConcatAssociative DEF Associates

(* FlattenSeq distributes over concatenation. *)
LEMMA FlattenConcat ==
  ASSUME NEW T, NEW s \in Seq(Seq(T)), NEW t \in Seq(Seq(T))
  PROVE  FlattenSeq(s \o t) = FlattenSeq(s) \o FlattenSeq(t)
<1> DEFINE Holds == {n \in Nat : \A u \in Seq(Seq(T)) :
                       Len(u) = n => FlattenSeq(s \o u) = FlattenSeq(s) \o FlattenSeq(u)}
<1>1. 0 \in Holds
  <2>1. SUFFICES ASSUME NEW u \in Seq(Seq(T)), Len(u) = 0
                 PROVE  FlattenSeq(s \o u) = FlattenSeq(s) \o FlattenSeq(u)
    OBVIOUS
  <2>2. u = <<>>
    BY <2>1
  <2>3. s \o <<>> = s /\ FlattenSeq(s) \in Seq(T)
    BY FlattenType
  <2>4. FlattenSeq(s) \o <<>> = FlattenSeq(s)
    BY <2>3
  <2> QED BY <2>2, <2>3, <2>4, FlattenEmpty
<1>2. ASSUME NEW n \in Nat, n \in Holds
      PROVE  n + 1 \in Holds
  <2>1. SUFFICES ASSUME NEW u \in Seq(Seq(T)), Len(u) = n + 1
                 PROVE  FlattenSeq(s \o u) = FlattenSeq(s) \o FlattenSeq(u)
    OBVIOUS
  <2>2. PICK v \in Seq(Seq(T)), x \in Seq(T) : u = Append(v, x) /\ Len(v) = n
    <3> DEFINE V == Seq(T)
    <3>1. u \in Seq(V)
      OBVIOUS
    <3> HIDE DEF V
    <3>2. u # <<>>
      BY <2>1
    <3>3. PICK v \in Seq(V), x \in V : u = Append(v, x)
      BY <3>1, <3>2, SequenceEmptyOrAppend
    <3>4. Len(v) = n
      BY <2>1, <3>3
    <3> QED BY <3>3, <3>4 DEF V
  <2>3. s \o v \in Seq(Seq(T)) /\ s \o u = Append(s \o v, x)
    <3> DEFINE V == Seq(T)
    <3>1. s \in Seq(V) /\ v \in Seq(V) /\ x \in V
      OBVIOUS
    <3> HIDE DEF V
    <3>2. s \o v \in Seq(V) /\ s \o Append(v, x) = Append(s \o v, x)
      BY <3>1
    <3> QED BY <2>2, <3>2 DEF V
  <2>4. FlattenSeq(s \o u) = FlattenSeq(s \o v) \o x
    BY <2>3, FlattenAppend
  <2>5. FlattenSeq(s \o v) = FlattenSeq(s) \o FlattenSeq(v)
    BY <1>2, <2>2
  <2>6. FlattenSeq(u) = FlattenSeq(v) \o x
    BY <2>2, FlattenAppend
  <2>7. FlattenSeq(s) \in Seq(T) /\ FlattenSeq(v) \in Seq(T)
    BY FlattenType
  <2>8. (FlattenSeq(s) \o FlattenSeq(v)) \o x = FlattenSeq(s) \o (FlattenSeq(v) \o x)
    <3>1. Associates(FlattenSeq(s), FlattenSeq(v), x)
      BY <2>7, ConcatAssociates
    <3> QED BY ONLY <3>1 DEF Associates
  <2> QED BY <2>4, <2>5, <2>6, <2>8
<1> HIDE DEF Holds
<1>3. Nat \subseteq Holds
  BY <1>1, <1>2, InductionOverNat
<1> QED BY <1>3 DEF Holds

(* Empty texts leave nothing. *)
LEMMA FlattenEmpties ==
  ASSUME NEW T, NEW s \in Seq(Seq(T)), \A i \in 1 .. Len(s) : s[i] = <<>>
  PROVE  FlattenSeq(s) = <<>>
<1>1. PICK f \in [Nat -> Seq(T)] :
        /\ FlattenSeq(s) = f[Len(s)]
        /\ f[0] = <<>>
        /\ \A n \in 0 .. Len(s) - 1 : f[n + 1] = f[n] \o s[n + 1]
  BY FlattenUnfolds
<1> DEFINE Empty == {i \in Nat : i <= Len(s) => f[i] = <<>>}
<1>2. 0 \in Empty
  BY <1>1
<1>3. ASSUME NEW i \in Nat, i \in Empty
      PROVE  i + 1 \in Empty
  <2>1. SUFFICES ASSUME i + 1 <= Len(s)
                 PROVE  f[i + 1] = <<>>
    OBVIOUS
  <2>2. i \in 0 .. Len(s) - 1 /\ f[i] = <<>> /\ s[i + 1] = <<>>
    BY <1>3, <2>1
  <2>3. f[i + 1] = f[i] \o s[i + 1]
    BY <1>1, <2>2
  <2>4. <<>> \o <<>> = <<>>
    OBVIOUS
  <2> QED BY <2>2, <2>3, <2>4
<1> HIDE DEF Empty
<1>4. Nat \subseteq Empty
  BY <1>2, <1>3, InductionOverNat
<1> QED BY <1>1, <1>4 DEF Empty

-----------------------------------------------------------------------------
(* Texts and their blanks. *)

(* A nonempty set of positions has a least and a greatest element. *)
LEMMA LeastAndGreatest ==
  ASSUME NEW n \in Nat, NEW S \in SUBSET (1 .. n), S # {}
  PROVE  /\ Min(S) \in S /\ \A x \in S : Min(S) <= x
         /\ Max(S) \in S /\ \A x \in S : Max(S) >= x
<1> DEFINE Low  == {k \in Nat : (\E x \in S : x <= k) => \E x \in S : \A y \in S : x <= y}
           High == {k \in Nat : (\E x \in S : x >= n - k) => \E x \in S : \A y \in S : x >= y}
<1>1. 0 \in Low /\ 0 \in High
  OBVIOUS
<1>2. ASSUME NEW k \in Nat, k \in Low
      PROVE  k + 1 \in Low
  <2>1. SUFFICES ASSUME NEW x \in S, x <= k + 1, ~ \E z \in S : z <= k
                 PROVE  \A y \in S : x <= y
    BY <1>2
  <2> QED BY <2>1
<1>3. ASSUME NEW k \in Nat, k \in High
      PROVE  k + 1 \in High
  <2>1. SUFFICES ASSUME NEW x \in S, x >= n - (k + 1), ~ \E z \in S : z >= n - k
                 PROVE  \A y \in S : x >= y
    BY <1>3
  <2> QED BY <2>1
<1> HIDE DEF Low, High
<1>4. Nat \subseteq Low
  BY <1>1, <1>2, InductionOverNat
<1>5. Nat \subseteq High
  BY <1>1, <1>3, InductionOverNat
<1>6. n \in Low /\ n \in High
  BY <1>4, <1>5
<1>7. PICK x \in S : x \in 1 .. n
  OBVIOUS
<1>8. x <= n /\ x >= n - n
  BY <1>7
<1>9. \E y \in S : \A z \in S : y <= z
  BY <1>6, <1>8 DEF Low
<1>10. \E y \in S : \A z \in S : y >= z
  BY <1>6, <1>8 DEF High
<1> QED BY <1>9, <1>10 DEF Min, Max

(* str::trim takes off the blanks at both ends and nothing else. *)
LEMMA TrimSplits ==
  ASSUME NEW W, NEW t \in Seq(W)
  PROVE  \/ Trim(t) = <<>> /\ \A i \in 1 .. Len(t) : t[i] = Blank
         \/ \E a, b \in 1 .. Len(t) :
              /\ a <= b /\ t[a] # Blank /\ t[b] # Blank
              /\ \A i \in 1 .. a - 1 : t[i] = Blank
              /\ \A i \in b + 1 .. Len(t) : t[i] = Blank
              /\ Trim(t) = SubSeq(t, a, b)
<1> DEFINE words == {i \in DOMAIN t : t[i] # Blank}
<1>1. Len(t) \in Nat /\ words \in SUBSET (1 .. Len(t))
  OBVIOUS
<1>2. CASE words = {}
  BY <1>2 DEF Trim
<1>3. CASE words # {}
  <2> DEFINE a == Min(words)
             b == Max(words)
  <2>1. Trim(t) = SubSeq(t, a, b)
    BY <1>3 DEF Trim
  <2>2. a \in words /\ b \in words /\ \A x \in words : a <= x /\ b >= x
    <3> HIDE DEF words
    <3> QED BY <1>1, <1>3, LeastAndGreatest
  <2> HIDE DEF a, b
  <2>3. a \in 1 .. Len(t) /\ b \in 1 .. Len(t) /\ a <= b /\ t[a] # Blank /\ t[b] # Blank
    BY <2>2
  <2>4. \A i \in 1 .. a - 1 : t[i] = Blank
    BY <2>2, <2>3
  <2>5. \A i \in b + 1 .. Len(t) : t[i] = Blank
    BY <2>2, <2>3
  <2> QED BY <2>1, <2>3, <2>4, <2>5
<1> QED BY <1>2, <1>3

(* A trimmed text has no other words. *)
LEMMA TrimType ==
  ASSUME NEW W, NEW t \in Seq(W)
  PROVE  Trim(t) \in Seq(W)
<1>1. CASE Trim(t) = <<>>
  BY <1>1
<1>2. CASE \E a, b \in 1 .. Len(t) : Trim(t) = SubSeq(t, a, b)
  BY <1>2
<1> QED BY <1>1, <1>2, TrimSplits

(* A text without its blanks is a text. *)
LEMMA NoBlanksType ==
  ASSUME NEW W, NEW t \in Seq(W)
  PROVE  /\ [i \in DOMAIN t |-> OneIf(t[i] # Blank, t[i])] \in Seq(Seq(W))
         /\ NoBlanks(t) \in Seq(W)
<1>1. [i \in DOMAIN t |-> OneIf(t[i] # Blank, t[i])] \in Seq(Seq(W))
  <2>1. \A i \in DOMAIN t : OneIf(t[i] # Blank, t[i]) \in Seq(W)
    BY DEF OneIf
  <2> HIDE DEF OneIf
  <2> QED BY <2>1
<1> QED BY <1>1, FlattenType DEF NoBlanks

(* Blanks may be taken off before or after two texts are joined. *)
LEMMA NoBlanksConcat ==
  ASSUME NEW W, NEW t \in Seq(W), NEW u \in Seq(W)
  PROVE  NoBlanks(t \o u) = NoBlanks(t) \o NoBlanks(u)
<1> DEFINE words(s) == [i \in DOMAIN s |-> OneIf(s[i] # Blank, s[i])]
           V == Seq(W)
<1>1. t \o u \in Seq(W)
  OBVIOUS
<1>2. words(t) \in Seq(V) /\ words(u) \in Seq(V) /\ words(t \o u) \in Seq(V)
  BY <1>1, NoBlanksType
<1>3. words(t \o u) = words(t) \o words(u)
  <2>1. /\ Len(words(t)) = Len(t) /\ Len(words(u)) = Len(u) /\ Len(words(t \o u)) = Len(t) + Len(u)
    OBVIOUS
  <2>2. \A i \in 1 .. Len(t) + Len(u) :
          words(t \o u)[i] = IF i <= Len(t) THEN words(t)[i] ELSE words(u)[i - Len(t)]
    OBVIOUS
  <2> HIDE DEF words, V
  <2>3. words(t) \o words(u) \in Seq(V)
    BY <1>2, ConcatProperties
  <2>4. Len(words(t) \o words(u)) = Len(words(t \o u))
    BY <1>2, <2>1, ConcatProperties
  <2>5. \A i \in 1 .. Len(t) + Len(u) : (words(t) \o words(u))[i] = words(t \o u)[i]
    BY <1>2, <2>1, <2>2, ConcatProperties
  <2> QED BY <1>2, <2>1, <2>3, <2>4, <2>5, SeqEqual
<1>4. NoBlanks(t) = FlattenSeq(words(t)) /\ NoBlanks(u) = FlattenSeq(words(u))
  BY DEF NoBlanks
<1>5. NoBlanks(t \o u) = FlattenSeq(words(t \o u))
  BY DEF NoBlanks
<1> HIDE DEF words
<1>6. FlattenSeq(words(t) \o words(u)) = FlattenSeq(words(t)) \o FlattenSeq(words(u))
  BY <1>2, FlattenConcat
<1> QED BY <1>3, <1>4, <1>5, <1>6

(* Of a text of blanks nothing is left. *)
LEMMA NoBlanksOfBlanks ==
  ASSUME NEW W, NEW t \in Seq(W), \A i \in 1 .. Len(t) : t[i] = Blank
  PROVE  NoBlanks(t) = <<>>
<1> DEFINE words == [i \in DOMAIN t |-> OneIf(t[i] # Blank, t[i])]
<1>1. words \in Seq(Seq(W))
  BY NoBlanksType
<1>2. \A i \in 1 .. Len(words) : words[i] = <<>>
  BY DEF OneIf
<1> HIDE DEF words
<1>3. FlattenSeq(words) = <<>>
  BY <1>1, <1>2, FlattenEmpties
<1> QED BY <1>3 DEF NoBlanks, words

(* Nor is anything of the empty text. *)
LEMMA NoBlanksEmpty == NoBlanks(<<>>) = <<>>
<1>1. [i \in DOMAIN <<>> |-> OneIf(<<>>[i] # Blank, <<>>[i])] = <<>>
  OBVIOUS
<1> QED BY <1>1, FlattenEmpty DEF NoBlanks

(* Trimming a text changes only its blanks. *)
LEMMA NoBlanksTrim ==
  ASSUME NEW W, NEW t \in Seq(W)
  PROVE  NoBlanks(Trim(t)) = NoBlanks(t)
<1>1. CASE Trim(t) = <<>> /\ \A i \in 1 .. Len(t) : t[i] = Blank
  BY <1>1, NoBlanksOfBlanks, NoBlanksEmpty
<1>2. CASE \E a, b \in 1 .. Len(t) :
             /\ a <= b /\ t[a] # Blank /\ t[b] # Blank
             /\ \A i \in 1 .. a - 1 : t[i] = Blank
             /\ \A i \in b + 1 .. Len(t) : t[i] = Blank
             /\ Trim(t) = SubSeq(t, a, b)
  <2>1. PICK a, b \in 1 .. Len(t) :
          /\ a <= b
          /\ \A i \in 1 .. a - 1 : t[i] = Blank
          /\ \A i \in b + 1 .. Len(t) : t[i] = Blank
          /\ Trim(t) = SubSeq(t, a, b)
    BY <1>2
  <2> DEFINE front == SubSeq(t, 1, a - 1)
             mid   == SubSeq(t, a, b)
             back  == SubSeq(t, b + 1, Len(t))
  <2>2. front \in Seq(W) /\ mid \in Seq(W) /\ back \in Seq(W)
    BY <2>1
  <2>3. t = (front \o mid) \o back
    <3>1. front \o mid = SubSeq(t, 1, b)
      BY <2>1, ConcatAdjacentSubSeq
    <3>2. SubSeq(t, 1, b) \o back = SubSeq(t, 1, Len(t))
      BY <2>1, ConcatAdjacentSubSeq
    <3>3. SubSeq(t, 1, Len(t)) = t
      BY SubSeqFull
    <3> QED BY <3>1, <3>2, <3>3
  <2>4. NoBlanks(front) = <<>>
    <3>1. \A i \in 1 .. Len(front) : front[i] = Blank
      BY <2>1
    <3> QED BY <2>2, <3>1, NoBlanksOfBlanks
  <2>5. NoBlanks(back) = <<>>
    <3>1. \A i \in 1 .. Len(back) : back[i] = Blank
      BY <2>1
    <3> QED BY <2>2, <3>1, NoBlanksOfBlanks
  <2> HIDE DEF front, mid, back
  <2>6. front \o mid \in Seq(W)
    BY <2>2
  <2>7. NoBlanks(t) = (NoBlanks(front) \o NoBlanks(mid)) \o NoBlanks(back)
    <3>1. NoBlanks((front \o mid) \o back) = NoBlanks(front \o mid) \o NoBlanks(back)
      BY <2>2, <2>6, NoBlanksConcat
    <3>2. NoBlanks(front \o mid) = NoBlanks(front) \o NoBlanks(mid)
      BY <2>2, NoBlanksConcat
    <3> QED BY <2>3, <3>1, <3>2
  <2>8. NoBlanks(mid) \in Seq(W)
    BY <2>2, NoBlanksType
  <2>9. NoBlanks(t) = NoBlanks(mid)
    BY <2>4, <2>5, <2>7, <2>8, ConcatEmptySeq
  <2> QED BY <2>1, <2>9 DEF mid
<1> QED BY <1>1, <1>2, TrimSplits

(* A final more spells out what the finals spelled before and the words of *)
(* the new one.                                                            *)
LEMMA SpelledText ==
  ASSUME NEW W, NEW fs \in Seq(Seq(W)), NEW t \in Seq(W)
  PROVE  NoBlanks(FlattenSeq(Append(fs, t))) = NoBlanks(FlattenSeq(fs)) \o NoBlanks(t)
<1>1. FlattenSeq(Append(fs, t)) = FlattenSeq(fs) \o t
  BY FlattenAppend
<1>2. FlattenSeq(fs) \in Seq(W)
  BY FlattenType
<1>3. NoBlanks(FlattenSeq(fs) \o t) = NoBlanks(FlattenSeq(fs)) \o NoBlanks(t)
  BY <1>2, NoBlanksConcat
<1> QED BY <1>1, <1>3

-----------------------------------------------------------------------------
(* The transcript of utterances. *)

Utterance == [text : Texts, end : Nat, definite : BOOLEAN]

Prefix(us, n) == SubSeq(us, 1, n)

(* What an utterance says is a text. *)
LEMMA SaidType == \A u \in Utterance : Said(u) \in Texts
BY TrimType DEF Utterance, Said, Texts

(* Nothing heard has the empty transcript. *)
LEMMA TranscriptEmpty == \A us : Transcript(Prefix(us, 0)) = <<>>
<1> SUFFICES ASSUME NEW us PROVE Transcript(Prefix(us, 0)) = <<>>
  OBVIOUS
<1>1. Prefix(us, 0) = <<>>
  BY DEF Prefix
<1>2. [i \in DOMAIN <<>> |-> OneIf(Said(<<>>[i]) # <<>>, Said(<<>>[i]))] = <<>>
  OBVIOUS
<1> QED BY <1>1, <1>2, FlattenEmpty DEF Transcript

(* An utterance more adds its text to the transcript, if it has one. *)
LEMMA TranscriptStep ==
  ASSUME NEW us \in Seq(Utterance), NEW n \in 0 .. Len(us) - 1
  PROVE  /\ Transcript(Prefix(us, n)) \in Seq(Texts)
         /\ Transcript(Prefix(us, n + 1)) =
              IF Said(us[n + 1]) = <<>> THEN Transcript(Prefix(us, n))
              ELSE Append(Transcript(Prefix(us, n)), Said(us[n + 1]))
<1> DEFINE said(s) == [i \in DOMAIN s |-> OneIf(Said(s[i]) # <<>>, Said(s[i]))]
           V == Seq(Texts)
           s == Prefix(us, n)
           t == Prefix(us, n + 1)
           x == OneIf(Said(us[n + 1]) # <<>>, Said(us[n + 1]))
<1>1. /\ Len(s) = n /\ Len(t) = n + 1 /\ s \in Seq(Utterance) /\ t \in Seq(Utterance)
      /\ \A i \in 1 .. n : s[i] = us[i]
      /\ \A i \in 1 .. n + 1 : t[i] = us[i]
  BY DEF Prefix
<1>2. \A i \in 1 .. n + 1 : OneIf(Said(us[i]) # <<>>, Said(us[i])) \in V
  <2>1. \A i \in 1 .. n + 1 : Said(us[i]) \in Texts
    BY SaidType
  <2> QED BY <2>1 DEF OneIf
<1> HIDE DEF s, t
<1>3. said(s) \in Seq(V) /\ said(t) \in Seq(V) /\ x \in V
  <2> HIDE DEF V
  <2>1. x \in V
    BY <1>2
  <2>2. \A i \in 1 .. n : OneIf(Said(s[i]) # <<>>, Said(s[i])) \in V
    BY <1>1, <1>2
  <2>3. \A i \in 1 .. n + 1 : OneIf(Said(t[i]) # <<>>, Said(t[i])) \in V
    BY <1>1, <1>2
  <2>4. DOMAIN s = 1 .. n /\ DOMAIN t = 1 .. n + 1
    BY <1>1
  <2>5. said(s) \in Seq(V)
    BY <2>2, <2>4
  <2>6. said(t) \in Seq(V)
    BY <2>3, <2>4
  <2> QED BY <2>1, <2>5, <2>6
<1>4. said(t) = Append(said(s), x)
  <2>1. Len(said(s)) = n /\ Len(said(t)) = n + 1
    BY <1>1
  <2>2. /\ \A i \in 1 .. n : said(t)[i] = said(s)[i]
        /\ said(t)[n + 1] = x
    BY <1>1
  <2> HIDE DEF said, x, V
  <2> QED BY <1>3, <2>1, <2>2
<1>5. Transcript(s) = FlattenSeq(said(s)) /\ Transcript(t) = FlattenSeq(said(t))
  BY DEF Transcript
<1> HIDE DEF said, x
<1>6. Transcript(t) = Transcript(s) \o x /\ Transcript(s) \in V
  BY <1>3, <1>4, <1>5, FlattenAppend, FlattenType
<1>7. CASE Said(us[n + 1]) = <<>>
  <2>1. x = <<>>
    BY <1>7 DEF OneIf, x
  <2> QED BY <1>6, <1>7, <2>1 DEF s, t
<1>8. CASE Said(us[n + 1]) # <<>>
  <2>1. x = <<Said(us[n + 1])>> /\ Said(us[n + 1]) \in Texts
    BY <1>8, SaidType DEF OneIf, x
  <2>2. Transcript(s) \o <<Said(us[n + 1])>> = Append(Transcript(s), Said(us[n + 1]))
    BY <1>6, <2>1
  <2> QED BY <1>6, <1>8, <2>1, <2>2 DEF s, t
<1> QED BY <1>7, <1>8

(* A transcript consists of texts. *)
LEMMA TranscriptType ==
  ASSUME NEW us \in Seq(Utterance), NEW n \in 0 .. Len(us)
  PROVE  Transcript(Prefix(us, n)) \in Seq(Texts)
<1>1. CASE n = 0
  <2>1. Transcript(Prefix(us, 0)) = <<>>
    BY TranscriptEmpty
  <2> QED BY <1>1, <2>1, EmptySeq
<1>2. CASE n # 0
  <2>1. PICK m \in 0 .. Len(us) - 1 : n = m + 1
    BY <1>2
  <2>2. us[m + 1] \in Utterance
    BY <2>1
  <2>3. Said(us[m + 1]) \in Texts
    BY <2>2, SaidType
  <2>4. /\ Transcript(Prefix(us, m)) \in Seq(Texts)
        /\ Transcript(Prefix(us, m + 1)) =
             IF Said(us[m + 1]) = <<>> THEN Transcript(Prefix(us, m))
             ELSE Append(Transcript(Prefix(us, m)), Said(us[m + 1]))
    BY TranscriptStep
  <2>5. Transcript(Prefix(us, m + 1)) \in Seq(Texts)
    <3>1. CASE Said(us[m + 1]) = <<>>
      BY <2>4, <3>1
    <3>2. CASE Said(us[m + 1]) # <<>>
      <4> DEFINE V == Texts
                 t == Transcript(Prefix(us, m))
                 x == Said(us[m + 1])
      <4>1. Transcript(Prefix(us, m + 1)) = Append(t, x)
        BY <2>4, <3>2
      <4>2. t \in Seq(V) /\ x \in V
        BY <2>3, <2>4
      <4> HIDE DEF V, t, x
      <4>3. Append(t, x) \in Seq(V)
        BY ONLY <4>2, AppendProperties
      <4> QED BY <4>1, <4>3 DEF V
    <3> QED BY <3>1, <3>2
  <2> QED BY <2>1, <2>5
<1> QED BY <1>1, <1>2

(* Each text of a transcript is what one of the utterances says. *)
LEMMA TranscriptElements ==
  ASSUME NEW us \in Seq(Utterance), NEW n \in 0 .. Len(us),
         NEW k \in 1 .. Len(Transcript(Prefix(us, n)))
  PROVE  \E j \in 1 .. n : Transcript(Prefix(us, n))[k] = Said(us[j]) /\ Said(us[j]) # <<>>
<1> DEFINE T(m) == Transcript(Prefix(us, m))
           Holds == {m \in Nat : m <= Len(us) =>
                       \A i \in 1 .. Len(T(m)) :
                         \E j \in 1 .. m : T(m)[i] = Said(us[j]) /\ Said(us[j]) # <<>>}
<1>1. 0 \in Holds
  <2>1. T(0) = <<>>
    BY TranscriptEmpty
  <2> QED BY <2>1
<1>2. ASSUME NEW m \in Nat, m \in Holds
      PROVE  m + 1 \in Holds
  <2>1. SUFFICES ASSUME m + 1 <= Len(us), NEW i \in 1 .. Len(T(m + 1))
                 PROVE  \E j \in 1 .. m + 1 : T(m + 1)[i] = Said(us[j]) /\ Said(us[j]) # <<>>
    OBVIOUS
  <2>2. m \in 0 .. Len(us) - 1
    BY <2>1
  <2>3. /\ T(m) \in Seq(Texts)
        /\ T(m + 1) = IF Said(us[m + 1]) = <<>> THEN T(m) ELSE Append(T(m), Said(us[m + 1]))
    BY <2>2, TranscriptStep
  <2> HIDE DEF T
  <2>4. \A h \in 1 .. Len(T(m)) : \E j \in 1 .. m : T(m)[h] = Said(us[j]) /\ Said(us[j]) # <<>>
    BY <1>2, <2>2
  <2>5. CASE Said(us[m + 1]) = <<>>
    BY <2>3, <2>4, <2>5
  <2>6. CASE Said(us[m + 1]) # <<>>
    <3>1. us[m + 1] \in Utterance
      BY <2>2
    <3>2. Said(us[m + 1]) \in Texts
      BY <3>1, SaidType
    <3>3. T(m + 1) = Append(T(m), Said(us[m + 1]))
      BY <2>3, <2>6
    <3>4. CASE i <= Len(T(m))
      <4>1. i \in 1 .. Len(T(m))
        BY <2>3, <3>4
      <4>2. \A h \in 1 .. Len(T(m)) : Append(T(m), Said(us[m + 1]))[h] = T(m)[h]
        BY <2>3, <3>2, AppendProperties
      <4>3. PICK j \in 1 .. m : T(m)[i] = Said(us[j]) /\ Said(us[j]) # <<>>
        BY <2>4, <4>1
      <4>4. T(m + 1)[i] = Said(us[j])
        BY <3>3, <4>1, <4>2, <4>3
      <4>5. j \in 1 .. m + 1
        OBVIOUS
      <4> QED BY <4>3, <4>4, <4>5
    <3>5. CASE ~ (i <= Len(T(m)))
      <4>1. T(m + 1)[i] = Said(us[m + 1])
        BY <2>3, <3>2, <3>3, <3>5, AppendProperties
      <4> QED BY <2>6, <4>1
    <3> QED BY <3>4, <3>5
  <2> QED BY <2>5, <2>6
<1> HIDE DEF Holds
<1>3. Nat \subseteq Holds
  BY <1>1, <1>2, InductionOverNat
<1>4. n \in Holds /\ n <= Len(us)
  BY <1>3
<1> QED BY <1>4 DEF Holds

-----------------------------------------------------------------------------
(* The loop over the utterances of a result. *)

(* The recursive function of NewFinals exists and takes an utterance at a  *)
(* time, as the loop does (asr.rs:269-292).                                *)
LEMMA ScanUnfolds ==
  ASSUME NEW us \in Seq(Utterance), NEW last \in Int
  PROVE  \E scan :
           /\ NewFinals(us, last) = scan[Len(us)]
           /\ scan[0] = [texts |-> <<>>, last |-> last]
           /\ \A i \in 1 .. Len(us) :
                scan[i] = IF IsNew(us[i], scan[i - 1].last)
                            THEN [texts |-> Append(scan[i - 1].texts, Said(us[i])),
                                  last |-> us[i].end]
                            ELSE scan[i - 1]
<1> DEFINE V == [texts : Seq(Texts), last : Int]
           init == [texts |-> <<>>, last |-> last]
           turn(i, v) == IF IsNew(us[i], v.last)
                           THEN [texts |-> Append(v.texts, Said(us[i])), last |-> us[i].end]
                           ELSE v
           step == [n \in Nat |-> [v \in V |-> IF n + 1 <= Len(us) THEN turn(n + 1, v) ELSE v]]
           Def(g) == [i \in 0 .. Len(us) |-> IF i = 0 THEN init ELSE turn(i, g[i - 1])]
<1>1. init \in V
  OBVIOUS
<1>2. \A i \in 1 .. Len(us) : us[i].end \in Int /\ Said(us[i]) \in Texts
  <2>1. \A i \in 1 .. Len(us) : us[i] \in Utterance
    OBVIOUS
  <2>2. \A u \in Utterance : u.end \in Int
    BY DEF Utterance
  <2> QED BY <2>1, <2>2, SaidType
<1>3. \A i \in 1 .. Len(us), v \in V : turn(i, v) \in V
  BY <1>2
<1>4. step \in [Nat -> [V -> V]]
  <2> HIDE DEF turn, V
  <2> QED BY <1>3
<1>5. \A n \in 0 .. Len(us) - 1, v \in V : step[n][v] = turn(n + 1, v)
  <2> HIDE DEF turn, V
  <2> QED OBVIOUS
<1> HIDE DEF V, init, turn, step
<1>6. PICK f : Iterates(f, V, init, step)
  BY <1>1, <1>4, RecursionOverNat
<1>7. f \in [Nat -> V] /\ f[0] = init /\ \A n \in Nat : f[n + 1] = step[n][f[n]]
  BY <1>6 DEF Iterates
<1> DEFINE h == [i \in 0 .. Len(us) |-> f[i]]
<1>8. h = Def(h)
  <2>1. ASSUME NEW i \in 0 .. Len(us), i # 0
        PROVE  f[i] = turn(i, f[i - 1])
    <3>1. PICK n \in 0 .. Len(us) - 1 : i = n + 1
      BY <2>1
    <3>2. n \in Nat
      OBVIOUS
    <3>3. f[n + 1] = step[n][f[n]] /\ f[n] \in V
      BY <1>7, <3>2
    <3>4. f[n + 1] = turn(n + 1, f[n])
      BY <1>5, <3>3
    <3> QED BY <3>1, <3>4
  <2>2. \A i \in 0 .. Len(us) : i # 0 => i - 1 \in 0 .. Len(us)
    OBVIOUS
  <2>3. \A i \in 0 .. Len(us) : f[i] = IF i = 0 THEN init ELSE turn(i, h[i - 1])
    BY <1>7, <2>1, <2>2
  <2> QED BY <2>3
<1> DEFINE scan == CHOOSE g : g = Def(g)
<1>9. NewFinals(us, last) = scan[Len(us)]
  BY Zenon DEF NewFinals, turn, init
<1> HIDE DEF h
<1>10. scan = Def(scan)
  <2> HIDE DEF Def
  <2> QED BY <1>8
<1> HIDE DEF scan
<1>11. scan[0] = init
  BY <1>10
<1>12. \A i \in 1 .. Len(us) : scan[i] = turn(i, scan[i - 1])
  <2>1. \A i \in 1 .. Len(us) : i \in 0 .. Len(us) /\ i # 0
    OBVIOUS
  <2> QED BY <1>10, <2>1
<1> QED BY <1>9, <1>11, <1>12 DEF init, turn

(* us ends in the order of its utterances, and the first d are definite. *)
Settled(us, d) ==
  /\ us \in Seq(Utterance)
  /\ d \in 0 .. Len(us)
  /\ \A i \in 1 .. Len(us) : us[i].end = i /\ (us[i].definite <=> i <= d)

(* Of the first n utterances all that have a text end by last. *)
CommittedUpTo(us, n, last) ==
  /\ last \in {-1} \cup 1 .. n
  /\ \A i \in 1 .. n : i > last => Said(us[i]) = <<>>

(* What the loop makes of a result: the finals that were committed and the *)
(* new ones are the transcript of the definite utterances.                 *)
LEMMA NewFinalsResult ==
  ASSUME NEW us, NEW d, Settled(us, d),
         NEW r \in 0 .. d, NEW last, CommittedUpTo(us, r, last)
  PROVE  LET new == NewFinals(us, last)
         IN  /\ new.texts \in Seq(Texts \ {<<>>})
             /\ Transcript(Prefix(us, r)) \o new.texts = Transcript(Prefix(us, d))
             /\ CommittedUpTo(us, d, new.last)
             /\ new.texts = <<>> => \A i \in r + 1 .. d : Said(us[i]) = <<>>
<1> DEFINE T(n) == Transcript(Prefix(us, n))
           upTo(i) == IF i <= r THEN r ELSE IF i <= d THEN i ELSE d
           Good(i, acc) ==
             /\ acc.texts \in Seq(Texts \ {<<>>})
             /\ T(r) \o acc.texts = T(upTo(i))
             /\ CommittedUpTo(us, upTo(i), acc.last)
             /\ acc.texts = <<>> => \A j \in r + 1 .. upTo(i) : Said(us[j]) = <<>>
<1>1. /\ us \in Seq(Utterance) /\ Len(us) \in Nat /\ d \in 0 .. Len(us) /\ r \in 0 .. Len(us)
      /\ d \in Nat /\ r \in Nat /\ r <= d /\ last \in Int
  BY DEF Settled, CommittedUpTo
<1>2. \A n \in 0 .. Len(us) : T(n) \in Seq(Texts)
  BY <1>1, TranscriptType
<1>3. \A n \in 0 .. Len(us) - 1 :
        T(n + 1) = IF Said(us[n + 1]) = <<>> THEN T(n) ELSE Append(T(n), Said(us[n + 1]))
  BY <1>1, TranscriptStep
<1>4. \A i \in 1 .. Len(us) : us[i] \in Utterance /\ Said(us[i]) \in Texts
  BY <1>1, SaidType
<1>5. PICK scan :
           /\ NewFinals(us, last) = scan[Len(us)]
           /\ scan[0] = [texts |-> <<>>, last |-> last]
           /\ \A i \in 1 .. Len(us) :
                scan[i] = IF IsNew(us[i], scan[i - 1].last)
                            THEN [texts |-> Append(scan[i - 1].texts, Said(us[i])),
                                  last |-> us[i].end]
                            ELSE scan[i - 1]
  BY <1>1, ScanUnfolds
<1> HIDE DEF T
<1>6. Good(0, scan[0])
  <2>1. upTo(0) = r
    BY <1>1
  <2>2. scan[0].texts = <<>> /\ scan[0].last = last
    BY <1>5
  <2>3. T(r) \o <<>> = T(r)
    BY <1>1, <1>2, ConcatEmptySeq
  <2>4. <<>> \in Seq(Texts \ {<<>>})
    OBVIOUS
  <2> HIDE DEF upTo
  <2> QED BY <1>1, <2>1, <2>2, <2>3, <2>4
<1>7. ASSUME NEW i \in 0 .. Len(us) - 1, Good(i, scan[i])
      PROVE  Good(i + 1, scan[i + 1])
  <2> DEFINE acc == scan[i]
             u == us[i + 1]
  <2>1. /\ i \in Nat /\ i + 1 \in 1 .. Len(us) /\ (i + 1) - 1 = i
        /\ u \in Utterance /\ Said(u) \in Texts
    BY <1>1, <1>4
  <2>2. u.end = i + 1 /\ (u.definite <=> i + 1 <= d)
    BY <2>1 DEF Settled
  <2>3. scan[i + 1] = IF IsNew(u, acc.last)
                        THEN [texts |-> Append(acc.texts, Said(u)), last |-> i + 1]
                        ELSE acc
    BY <1>5, <2>1, <2>2
  <2>4. /\ acc.last \in Int /\ acc.last <= upTo(i)
        /\ \A j \in 1 .. upTo(i) : j > acc.last => Said(us[j]) = <<>>
    BY <1>1, <1>7, <2>1 DEF CommittedUpTo
  <2> HIDE DEF acc, u
  <2>5. CASE i + 1 > d \/ i + 1 <= r
    <3>1. upTo(i + 1) = upTo(i)
      BY <1>1, <2>1, <2>5
    <3>2. ~ IsNew(u, acc.last)
      <4>1. CASE i + 1 > d
        BY <1>1, <2>1, <2>2, <4>1 DEF IsNew
      <4>2. CASE i + 1 <= r
        <5>1. i + 1 \in 1 .. upTo(i)
          BY <1>1, <2>1, <4>2
        <5>2. i + 1 > acc.last => Said(u) = <<>>
          BY <2>4, <5>1 DEF u
        <5> QED BY <2>2, <5>2 DEF IsNew
      <4> QED BY <2>5, <4>1, <4>2
    <3>3. scan[i + 1] = acc
      BY <2>3, <3>2
    <3> HIDE DEF upTo
    <3> QED BY <1>7, <3>1, <3>3 DEF acc
  <2>6. CASE i + 1 <= d /\ i + 1 > r
    <3>1. upTo(i) = i /\ upTo(i + 1) = i + 1
      BY <1>1, <2>1, <2>6
    <3>2. IsNew(u, acc.last) <=> Said(u) # <<>>
      BY <2>1, <2>2, <2>4, <2>6, <3>1 DEF IsNew
    <3> HIDE DEF upTo
    <3>3. /\ acc.texts \in Seq(Texts \ {<<>>})
          /\ T(r) \o acc.texts = T(i)
          /\ acc.last \in {-1} \cup 1 .. i
          /\ \A j \in 1 .. i : j > acc.last => Said(us[j]) = <<>>
          /\ acc.texts = <<>> => \A j \in r + 1 .. i : Said(us[j]) = <<>>
      BY <1>7, <3>1 DEF acc, CommittedUpTo
    <3>4. CASE Said(u) = <<>>
      <4>1. scan[i + 1] = acc /\ T(i + 1) = T(i)
        BY <1>3, <2>3, <3>2, <3>4 DEF u
      <4>2. CommittedUpTo(us, i + 1, acc.last)
        BY <2>1, <3>3, <3>4 DEF CommittedUpTo, u
      <4>3. acc.texts = <<>> => \A j \in r + 1 .. i + 1 : Said(us[j]) = <<>>
        BY <1>1, <2>1, <3>3, <3>4 DEF u
      <4> QED BY <3>1, <3>3, <4>1, <4>2, <4>3
    <3>5. CASE Said(u) # <<>>
      <4>1. scan[i + 1] = [texts |-> Append(acc.texts, Said(u)), last |-> i + 1]
        BY <2>3, <3>2, <3>5
      <4>2. T(i + 1) = Append(T(i), Said(u))
        BY <1>3, <3>5 DEF u
      <4>3. /\ Append(acc.texts, Said(u)) \in Seq(Texts \ {<<>>})
            /\ Append(acc.texts, Said(u)) # <<>>
        <5> DEFINE V == Texts \ {<<>>}
                   said == Said(u)
                   texts == acc.texts
        <5>1. said \in V /\ texts \in Seq(V)
          BY <2>1, <3>3, <3>5
        <5> HIDE DEF V, said, texts
        <5>2. Append(texts, said) \in Seq(V) /\ Append(texts, said) # <<>>
          BY ONLY <5>1, AppendProperties
        <5> QED BY <5>2 DEF V, said, texts
      <4>4. T(r) \o Append(acc.texts, Said(u)) = Append(T(i), Said(u))
        <5>1. T(r) \in Seq(Texts) /\ acc.texts \in Seq(Texts)
          BY <1>1, <1>2, <3>3
        <5>2. T(r) \o Append(acc.texts, Said(u)) = Append(T(r) \o acc.texts, Said(u))
          BY <2>1, <5>1
        <5> QED BY <3>3, <5>2
      <4>5. CommittedUpTo(us, i + 1, i + 1)
        BY <2>1 DEF CommittedUpTo
      <4>6. scan[i + 1].texts = Append(acc.texts, Said(u)) /\ scan[i + 1].last = i + 1
        BY <4>1
      <4>7. T(r) \o scan[i + 1].texts = T(i + 1)
        BY <4>2, <4>4, <4>6
      <4> QED BY <3>1, <4>3, <4>5, <4>6, <4>7
    <3> QED BY <3>4, <3>5
  <2> QED BY <1>1, <2>1, <2>5, <2>6
<1> DEFINE Holds == {i \in Nat : i <= Len(us) => Good(i, scan[i])}
<1> HIDE DEF Good
<1>8. 0 \in Holds
  BY <1>6
<1>9. ASSUME NEW i \in Nat, i \in Holds
      PROVE  i + 1 \in Holds
  <2>1. SUFFICES ASSUME i + 1 <= Len(us)
                 PROVE  Good(i + 1, scan[i + 1])
    OBVIOUS
  <2>2. i \in 0 .. Len(us) - 1
    BY <1>1, <2>1
  <2>3. Good(i, scan[i])
    BY <1>1, <1>9, <2>1
  <2> QED BY <1>7, <2>2, <2>3
<1> HIDE DEF Holds
<1>10. Nat \subseteq Holds
  BY <1>8, <1>9, InductionOverNat
<1>11. Good(Len(us), scan[Len(us)])
  BY <1>1, <1>10 DEF Holds
<1>12. upTo(Len(us)) = d
  BY <1>1
<1> HIDE DEF upTo
<1> QED BY <1>5, <1>11, <1>12 DEF Good, T

-----------------------------------------------------------------------------
(* Results with only a text. *)

(* The texts of finals, joined, are a text. *)
LEMMA WordsOfTexts == ASSUME NEW fs \in Seq(Texts) PROVE FlattenSeq(fs) \in Texts
BY FlattenType DEF Texts

(* The finals of a result with only a text are texts and not empty. *)
LEMMA TextFinalsType ==
  ASSUME lastFull \in Texts, NEW full \in Texts, full # <<>>
  PROVE  TextFinals(full) \in Seq(Texts \ {<<>>})
<1> DEFINE raw == SubSeq(full, Len(lastFull) + 1, Len(full))
           rest == Trim(raw)
<1> DEFINE W == 0 .. 2 * MaxUtterances
<1>1. rest \in Texts
  <2>1. lastFull \in Seq(W) /\ full \in Seq(W)
    BY DEF Texts
  <2> HIDE DEF W
  <2>2. raw \in Seq(W)
    BY <2>1
  <2> QED BY <2>2, TrimType DEF Texts, W
<1>2. TextFinals(full) \in {<<>>, <<full>>} \/ (rest # <<>> /\ TextFinals(full) = <<rest>>)
  BY DEF TextFinals, OneIf
<1> HIDE DEF rest
<1>3. \A t \in Texts \ {<<>>} : <<t>> \in Seq(Texts \ {<<>>})
  OBVIOUS
<1>4. <<>> \in Seq(Texts \ {<<>>})
  OBVIOUS
<1>5. CASE TextFinals(full) = <<>>
  BY <1>4, <1>5
<1>6. CASE TextFinals(full) = <<full>>
  BY <1>3, <1>6
<1>7. CASE rest # <<>> /\ TextFinals(full) = <<rest>>
  BY <1>1, <1>3, <1>7
<1> QED BY <1>2, <1>5, <1>6, <1>7

(* A text that begins with the one before is spelled out by its finals. *)
LEMMA TextFinalsSpell ==
  ASSUME mode # "bidi_async", lastFull \in Texts, finals \in Seq(Texts), Spells(lastFull),
         NEW full \in Texts, full # <<>>, IsPrefix(lastFull, full)
  PROVE  NoBlanks(FlattenSeq(finals \o TextFinals(full))) = NoBlanks(full)
<1> DEFINE W == 0 .. 2 * MaxUtterances
           raw == SubSeq(full, Len(lastFull) + 1, Len(full))
           rest == Trim(raw)
           said == NoBlanks(FlattenSeq(finals))
<1>1. lastFull \in Seq(W) /\ full \in Seq(W) /\ finals \in Seq(Seq(W)) /\ raw \in Seq(W)
  <2>1. lastFull \in Seq(W) /\ full \in Seq(W)
    BY DEF Texts
  <2>2. finals \in Seq(Seq(W))
    BY DEF Texts
  <2> HIDE DEF W
  <2>3. raw \in Seq(W)
    BY <2>1
  <2> QED BY <2>1, <2>2, <2>3
<1> HIDE DEF W
<1>2. said = NoBlanks(lastFull) /\ NoBlanks(lastFull) \in Seq(W) /\ NoBlanks(full) \in Seq(W)
  BY <1>1, NoBlanksType DEF Spells
<1>3. rest \in Seq(W) /\ NoBlanks(rest) = NoBlanks(raw)
  BY <1>1, TrimType, NoBlanksTrim
<1>4. \A t \in Seq(W) : NoBlanks(FlattenSeq(finals \o <<t>>)) = said \o NoBlanks(t)
  <2> SUFFICES ASSUME NEW t \in Seq(W)
               PROVE  NoBlanks(FlattenSeq(finals \o <<t>>)) = said \o NoBlanks(t)
    OBVIOUS
  <2>1. NoBlanks(FlattenSeq(Append(finals, t))) = said \o NoBlanks(t)
    BY <1>1, SpelledText
  <2>2. finals \o <<t>> = Append(finals, t)
    <3> DEFINE V == Seq(W)
    <3>1. finals \in Seq(V) /\ t \in V
      BY <1>1
    <3> HIDE DEF V
    <3> QED BY <3>1, AppendIsConcat
  <2> QED BY <2>1, <2>2
<1>5. CASE lastFull # <<>>
  <2>1. NoBlanks(full) = said \o NoBlanks(rest)
    <3>1. full = lastFull \o raw
      <4>1. Len(lastFull) \in 0 .. Len(full) /\ lastFull = SubSeq(full, 1, Len(lastFull))
        BY <1>1, SubSeqFull DEF IsPrefix
      <4>2. SubSeq(full, 1, Len(lastFull)) \o raw = SubSeq(full, 1, Len(full))
        <5>1. Len(lastFull) \in Nat /\ Len(full) \in Nat /\ Len(lastFull) <= Len(full)
          BY <1>1, <4>1
        <5>2. 1 \in 1 .. Len(full) + 1 /\ Len(lastFull) \in 1 - 1 .. Len(full)
          BY <5>1
        <5>3. Len(full) \in Len(lastFull) .. Len(full)
          BY <5>1
        <5> QED BY <1>1, <5>2, <5>3, ConcatAdjacentSubSeq
      <4>3. SubSeq(full, 1, Len(full)) = full
        BY <1>1, SubSeqFull
      <4> QED BY <4>1, <4>2, <4>3
    <3>2. NoBlanks(lastFull \o raw) = NoBlanks(lastFull) \o NoBlanks(raw)
      BY <1>1, NoBlanksConcat
    <3> QED BY <1>2, <1>3, <3>1, <3>2
  <2>2. CASE rest = <<>>
    <3>1. TextFinals(full) = <<>>
      BY <1>5, <2>2 DEF TextFinals, OneIf
    <3>2. NoBlanks(full) = said
      BY <1>2, <2>1, <2>2, NoBlanksEmpty, ConcatEmptySeq
    <3>3. finals \o <<>> = finals
      BY ConcatEmptySeq
    <3> QED BY <3>1, <3>2, <3>3
  <2>3. CASE rest # <<>>
    <3>1. TextFinals(full) = <<rest>>
      BY <1>5, <2>3 DEF TextFinals, OneIf
    <3> HIDE DEF rest, said
    <3> QED BY <1>3, <1>4, <2>1, <3>1
  <2> QED BY <2>2, <2>3
<1>6. CASE lastFull = <<>>
  <2>1. TextFinals(full) = <<full>>
    BY <1>6 DEF TextFinals, OneIf
  <2>2. said = <<>>
    BY <1>2, <1>6, NoBlanksEmpty
  <2>3. <<>> \o NoBlanks(full) = NoBlanks(full)
    BY <1>2, ConcatEmptySeq
  <2> HIDE DEF said
  <2> QED BY <1>1, <1>4, <2>1, <2>2, <2>3
<1> QED BY <1>5, <1>6

-----------------------------------------------------------------------------
(* What is heard. *)

Heard(n) == {<<n>>, <<MaxUtterances + n>>}

(* A hearing is a text; trimmed, it is empty or tells the utterance. *)
LEMMA HearingsType ==
  ASSUME NEW n \in 1 .. MaxUtterances, NEW t \in Hearings(n)
  PROVE  t \in Texts /\ Trim(t) \in {<<>>} \cup Heard(n)
<1>1. MaxUtterances \in Nat
  BY RecognitionAssumption
<1> DEFINE W == 0 .. 2 * MaxUtterances
<1>2. t \in Texts
  <2>1. Blank \in W /\ n \in W /\ MaxUtterances + n \in W
    BY <1>1 DEF Blank
  <2> HIDE DEF W
  <2>2. t \in Seq(W)
    <3>1. \A x, y \in W : <<x>> \in Seq(W) /\ <<x, y>> \in Seq(W)
      OBVIOUS
    <3>2. t = <<Blank>> \/ t = <<n>> \/ t = <<Blank, MaxUtterances + n>>
      BY DEF Hearings
    <3>3. CASE t = <<Blank>>
      BY <2>1, <3>1, <3>3
    <3>4. CASE t = <<n>>
      BY <2>1, <3>1, <3>4
    <3>5. CASE t = <<Blank, MaxUtterances + n>>
      BY <2>1, <3>1, <3>5
    <3> QED BY <3>2, <3>3, <3>4, <3>5
  <2> QED BY <2>2 DEF W, Texts
<1>3. CASE Trim(t) = <<>>
  BY <1>2, <1>3
<1>4. CASE \E a, b \in 1 .. Len(t) :
             /\ a <= b /\ t[a] # Blank /\ t[b] # Blank
             /\ \A i \in 1 .. a - 1 : t[i] = Blank
             /\ \A i \in b + 1 .. Len(t) : t[i] = Blank
             /\ Trim(t) = SubSeq(t, a, b)
  <2>1. PICK a, b \in 1 .. Len(t) :
          /\ a <= b /\ t[a] # Blank /\ t[b] # Blank
          /\ Trim(t) = SubSeq(t, a, b)
    BY <1>4
  <2>2. CASE t = <<Blank>>
    BY <2>1, <2>2
  <2>3. CASE t = <<n>>
    <3>1. a = 1 /\ b = 1
      BY <2>1, <2>3
    <3>2. t \in Seq({n}) /\ Len(t) = 1
      BY <2>3
    <3>3. SubSeq(t, 1, 1) = t
      BY <3>2, SubSeqFull
    <3> QED BY <1>2, <2>1, <2>3, <3>1, <3>3 DEF Heard
  <2>4. CASE t = <<Blank, MaxUtterances + n>>
    <3>1. a = 2 /\ b = 2
      BY <2>1, <2>4
    <3>2. SubSeq(t, 2, 2) = <<MaxUtterances + n>>
      <4> DEFINE W2 == {Blank, MaxUtterances + n}
      <4>1. t \in Seq(W2) /\ Len(t) = 2 /\ t[2] = MaxUtterances + n
        BY <2>4
      <4> HIDE DEF W2
      <4>2. /\ SubSeq(t, 2, 2) \in Seq(W2) /\ Len(SubSeq(t, 2, 2)) = 1
            /\ SubSeq(t, 2, 2)[1] = MaxUtterances + n
        BY <4>1
      <4>3. MaxUtterances + n \in W2
        BY DEF W2
      <4> DEFINE lhs == SubSeq(t, 2, 2)
                 rhs == <<MaxUtterances + n>>
      <4>4. rhs \in Seq(W2) /\ Len(rhs) = 1 /\ rhs[1] = MaxUtterances + n
        BY <4>3
      <4>5. lhs \in Seq(W2) /\ Len(lhs) = 1 /\ lhs[1] = MaxUtterances + n
        BY <4>2
      <4> HIDE DEF lhs, rhs
      <4>6. lhs = rhs
        BY <4>4, <4>5, SeqEqual
      <4> QED BY <4>6 DEF lhs, rhs
    <3> QED BY <1>2, <2>1, <3>1, <3>2 DEF Heard
  <2> QED BY <2>2, <2>3, <2>4 DEF Hearings
<1> QED BY <1>2, <1>3, <1>4, TrimSplits DEF Texts

(* A partial is the text of an utterance that is not definite              *)
(* (asr.rs:293-304).                                                       *)
LEMMA PartialOpen ==
  ASSUME NEW us \in Seq(Utterance), Partial(us) # <<>>
  PROVE  \E i \in 1 .. Len(us) : ~us[i].definite /\ Partial(us) = Said(us[i])
<1> DEFINE open == {i \in DOMAIN us : ~us[i].definite /\ Said(us[i]) # <<>>}
<1>1. open \in SUBSET (1 .. Len(us)) /\ Len(us) \in Nat
  OBVIOUS
<1>2. open # {} /\ Partial(us) = Said(us[Max(open)])
  BY DEF Partial
<1>3. Max(open) \in open
  <2> HIDE DEF open
  <2> QED BY <1>1, <1>2, LeastAndGreatest
<1> QED BY <1>1, <1>2, <1>3

-----------------------------------------------------------------------------
(* The inductive invariant. *)

TypeInv ==
  /\ mode \in {ConfiguredMode(m) : m \in Modes}
  /\ phase \in {"opening", "loop", "over", "failed"}
  /\ mic \in {"open", "ended", "broken"}
  /\ form \in {"utterances", "text"}
  /\ responses \in 0 .. MaxResponses
  /\ lastFull \in Texts
  /\ finals \in Seq(Texts \ {<<>>})
  /\ shown \in Texts

(* The service settles what it hears from the front; what was reported is  *)
(* settled.                                                                *)
HeardInv ==
  /\ Len(utterances) <= MaxUtterances
  /\ \A i \in 1 .. Len(utterances) : utterances[i].text \in Hearings(i)
  /\ \E d \in 0 .. Len(utterances) : Settled(utterances, d) /\ reported \in 0 .. d

(* last_committed_end_time is behind all that was committed, and only      *)
(* blanks are between it and the last utterance that was reported.         *)
CommittedInv ==
  form = "utterances" =>
    /\ CommittedUpTo(utterances, reported, lastEnd)
    /\ finals = Transcript(Prefix(utterances, reported))

SpelledInv ==
  form = "text" => lastEnd = -1 /\ shown = <<>> /\ TextSpelledOut

(* What is shown was heard in an utterance of which nothing is committed.  *)
ShownInv ==
  shown # <<>> =>
    \E i \in 1 .. Len(utterances) :
      shown \in Heard(i) /\ (i > reported \/ Said(utterances[i]) = <<>>)

EndInv ==
  phase = "over" =>
    IF form = "utterances" THEN reported = Len(utterances)
    ELSE Trim(WholeText) \in {<<>>, lastFull}

RecognitionInv == TypeInv /\ HeardInv /\ CommittedInv /\ SpelledInv /\ ShownInv /\ EndInv

(* The invariant holds before the first frame. *)
LEMMA InitInv == Init => RecognitionInv
<1> SUFFICES ASSUME Init PROVE RecognitionInv
  OBVIOUS
<1>1. <<>> \in Texts /\ <<>> \in Seq(Texts \ {<<>>}) /\ <<>> \in Seq(Utterance) /\ Len(<<>>) = 0
  BY DEF Texts
<1>2. TypeInv
  BY <1>1, RecognitionAssumption DEF Init, TypeInv
<1>3. HeardInv
  <2>1. Settled(utterances, 0) /\ reported \in 0 .. 0 /\ 0 \in 0 .. Len(utterances)
    BY <1>1 DEF Init, Settled
  <2>2. Len(utterances) = 0
    BY DEF Init
  <2> QED BY <2>1, <2>2, RecognitionAssumption DEF HeardInv
<1>4. CommittedInv
  <2>1. CommittedUpTo(utterances, reported, lastEnd)
    BY DEF Init, CommittedUpTo
  <2>2. finals = Transcript(Prefix(utterances, reported))
    BY TranscriptEmpty DEF Init
  <2> QED BY <2>1, <2>2 DEF CommittedInv
<1>5. SpelledInv
  BY FlattenEmpty DEF Init, SpelledInv, TextSpelledOut, Spells
<1>6. ShownInv /\ EndInv
  BY DEF Init, ShownInv, EndInv
<1> QED BY <1>2, <1>3, <1>4, <1>5, <1>6 DEF RecognitionInv

(* Steps of the session that say nothing to the engine. *)
LEMMA SilentStep ==
  ASSUME RecognitionInv,
         phase' \in {"opening", "loop", "over", "failed"}, phase' = "over" => phase = "over",
         mic' \in {"open", "ended", "broken"}, responses' \in 0 .. MaxResponses,
         UNCHANGED <<mode, lastEnd, lastFull, form, utterances, engineVars, historyVars>>
  PROVE  RecognitionInv'
<1> USE DEF engineVars, historyVars
<1>1. TypeInv'
  BY DEF RecognitionInv, TypeInv
<1>2. HeardInv'
  BY DEF RecognitionInv, HeardInv
<1>3. CommittedInv'
  BY DEF RecognitionInv, CommittedInv
<1>4. SpelledInv'
  BY DEF RecognitionInv, SpelledInv, TextSpelledOut, Spells
<1>5. ShownInv'
  BY DEF RecognitionInv, ShownInv
<1>6. EndInv'
  BY DEF RecognitionInv, EndInv, WholeText
<1> QED BY <1>1, <1>2, <1>3, <1>4, <1>5, <1>6 DEF RecognitionInv

(* The service hears more, or something else, or is certain of it. *)
LEMMA HearStep ==
  ASSUME RecognitionInv, NEW us, Hear(us),
         NEW d \in 0 .. Len(us), Settled(us, d), reported \in 0 .. d,
         Len(us) <= MaxUtterances, Len(utterances) <= Len(us),
         \A i \in 1 .. Len(us) : us[i].text \in Hearings(i),
         \A i \in 1 .. reported : us[i] = utterances[i]
  PROVE  RecognitionInv'
<1> USE DEF Hear, sessionVars, engineVars, historyVars
<1>1. utterances' = us /\ us \in Seq(Utterance) /\ utterances \in Seq(Utterance)
      /\ reported \in 0 .. Len(us) /\ reported \in 0 .. Len(utterances)
  BY DEF RecognitionInv, HeardInv, Settled
<1>2. TypeInv'
  BY DEF RecognitionInv, TypeInv
<1>3. HeardInv'
  BY <1>1 DEF HeardInv
<1>4. CommittedInv'
  <2>1. Prefix(us, reported) = Prefix(utterances, reported)
    <3> DEFINE p == SubSeq(us, 1, reported)
               q == SubSeq(utterances, 1, reported)
    <3>1. p \in Seq(Utterance) /\ Len(p) = reported /\ \A i \in 1 .. reported : p[i] = us[i]
      BY <1>1
    <3>2. q \in Seq(Utterance) /\ Len(q) = reported /\ \A i \in 1 .. reported : q[i] = utterances[i]
      BY <1>1
    <3> HIDE DEF p, q
    <3>3. p = q
      BY <3>1, <3>2, SeqEqual
    <3> QED BY <3>3 DEF p, q, Prefix
  <2>2. CommittedUpTo(utterances, reported, lastEnd) => CommittedUpTo(us, reported, lastEnd)
    BY DEF CommittedUpTo
  <2> QED BY <1>1, <2>1, <2>2 DEF RecognitionInv, CommittedInv
<1>5. SpelledInv'
  BY DEF RecognitionInv, SpelledInv, TextSpelledOut, Spells
<1>6. ShownInv'
  <2>1. SUFFICES ASSUME shown # <<>>
                 PROVE  \E i \in 1 .. Len(us) :
                          shown \in Heard(i) /\ (i > reported \/ Said(us[i]) = <<>>)
    BY <1>1 DEF ShownInv
  <2>2. PICK i \in 1 .. Len(utterances) :
               shown \in Heard(i) /\ (i > reported \/ Said(utterances[i]) = <<>>)
    BY <2>1 DEF RecognitionInv, ShownInv
  <2>3. i \in 1 .. Len(us)
    BY <1>1, <2>2
  <2>4. CASE i > reported
    BY <2>2, <2>3, <2>4
  <2>5. CASE ~ (i > reported)
    <3>1. us[i] = utterances[i]
      BY <1>1, <2>2, <2>5
    <3> QED BY <2>2, <2>3, <2>5, <3>1
  <2> QED BY <2>4, <2>5
<1>7. EndInv'
  BY DEF EndInv
<1> QED BY <1>2, <1>3, <1>4, <1>5, <1>6, <1>7 DEF RecognitionInv

(* What the service hears first of an utterance. *)
LEMMA HearingUtterance ==
  ASSUME NEW n \in 1 .. MaxUtterances, NEW t \in Hearings(n), NEW b \in BOOLEAN
  PROVE  [text |-> t, end |-> n, definite |-> b] \in Utterance
BY HearingsType DEF Utterance

(* A further utterance. *)
LEMMA NextUtteranceStep ==
  ASSUME RecognitionInv, NextUtterance
  PROVE  RecognitionInv'
<1>1. PICK t \in Hearings(Len(utterances) + 1) :
        Hear(Append(utterances, [text |-> t, end |-> Len(utterances) + 1, definite |-> FALSE]))
  BY DEF NextUtterance
<1>2. PICK d \in 0 .. Len(utterances) : Settled(utterances, d) /\ reported \in 0 .. d
  BY DEF RecognitionInv, HeardInv
<1> DEFINE u == [text |-> t, end |-> Len(utterances) + 1, definite |-> FALSE]
           us == Append(utterances, u)
<1>3. /\ utterances \in Seq(Utterance) /\ Len(utterances) \in Nat
      /\ Len(utterances) + 1 \in 1 .. MaxUtterances
  BY <1>2, RecognitionAssumption DEF Settled, NextUtterance
<1>4. /\ u \in Utterance
      /\ u.text = t /\ u.end = Len(utterances) + 1 /\ ~u.definite
  BY <1>3, HearingUtterance
<1> HIDE DEF u
<1>5. /\ us \in Seq(Utterance) /\ Len(us) = Len(utterances) + 1 /\ us[Len(utterances) + 1] = u
      /\ \A i \in 1 .. Len(utterances) : us[i] = utterances[i]
  BY <1>3, <1>4, AppendProperties
<1>6. Hear(us)
  BY <1>1 DEF u
<1> HIDE DEF us
<1>7. \A i \in 1 .. Len(us) : i \in 1 .. Len(utterances) \/ (i = Len(utterances) + 1 /\ us[i] = u)
  BY <1>3, <1>5
<1>8. Settled(us, d) /\ d \in 0 .. Len(us)
  <2>1. \A i \in 1 .. Len(us) : us[i].end = i /\ (us[i].definite <=> i <= d)
    BY <1>2, <1>3, <1>4, <1>5, <1>7 DEF Settled
  <2> QED BY <1>2, <1>3, <1>5, <2>1 DEF Settled
<1>9. \A i \in 1 .. Len(us) : us[i].text \in Hearings(i)
  BY <1>1, <1>4, <1>5, <1>7 DEF RecognitionInv, HeardInv
<1>10. \A i \in 1 .. reported : us[i] = utterances[i]
  BY <1>2, <1>3, <1>5
<1> QED BY <1>2, <1>3, <1>5, <1>6, <1>8, <1>9, <1>10, HearStep

(* Fields of a record that are replaced. *)
LEMMA RecordUpdate ==
  ASSUME NEW A, NEW B, NEW C, NEW u \in [text : A, end : B, definite : C], NEW t \in A, NEW e \in C
  PROVE  /\ [u EXCEPT !.text = t] = [text |-> t, end |-> u.end, definite |-> u.definite]
         /\ [u EXCEPT !.definite = e] = [text |-> u.text, end |-> u.end, definite |-> e]
<1>1. [u EXCEPT !.text = t] = [text |-> t, end |-> u.end, definite |-> u.definite]
  BY Z3
<1>2. [u EXCEPT !.definite = e] = [text |-> u.text, end |-> u.end, definite |-> e]
  BY Z3
<1> QED BY <1>1, <1>2

(* An utterance with another text, and one that has become definite. *)
LEMMA Amended ==
  ASSUME NEW u \in Utterance, NEW t \in Texts
  PROVE  LET v == [u EXCEPT !.text = t]
             w == [u EXCEPT !.definite = TRUE]
         IN  /\ v \in Utterance /\ v.text = t /\ v.end = u.end /\ v.definite = u.definite
             /\ w \in Utterance /\ w.text = u.text /\ w.end = u.end /\ w.definite
<1>1. u \in [text : Texts, end : Nat, definite : BOOLEAN] /\ TRUE \in BOOLEAN
  BY DEF Utterance
<1>2. [u EXCEPT !.text = t] = [text |-> t, end |-> u.end, definite |-> u.definite]
  BY <1>1, RecordUpdate
<1>3. [u EXCEPT !.definite = TRUE] = [text |-> u.text, end |-> u.end, definite |-> TRUE]
  <2> DEFINE C == BOOLEAN
             e == TRUE
  <2>1. u \in [text : Texts, end : Nat, definite : C] /\ e \in C
    BY <1>1
  <2> HIDE DEF C, e
  <2>2. [u EXCEPT !.definite = e] = [text |-> u.text, end |-> u.end, definite |-> e]
    BY <2>1, RecordUpdate
  <2> QED BY <2>2 DEF e
<1> QED BY <1>2, <1>3 DEF Utterance

(* Another text of an utterance that is not definite. *)
LEMMA SecondThoughtsStep ==
  ASSUME RecognitionInv, SecondThoughts
  PROVE  RecognitionInv'
<1>0. PICK i \in DOMAIN utterances :
        \E t \in Hearings(i) : Open(i) /\ Hear([utterances EXCEPT ![i].text = t])
  BY DEF SecondThoughts
<1>1. PICK t \in Hearings(i) : Open(i) /\ Hear([utterances EXCEPT ![i].text = t])
  BY <1>0
<1>2. PICK d \in 0 .. Len(utterances) : Settled(utterances, d) /\ reported \in 0 .. d
  BY DEF RecognitionInv, HeardInv
<1> DEFINE v == [utterances[i] EXCEPT !.text = t]
           us == [utterances EXCEPT ![i] = v]
<1>3. /\ utterances \in Seq(Utterance) /\ Len(utterances) \in Nat
      /\ i \in 1 .. Len(utterances) /\ i \in 1 .. MaxUtterances
  <2>1. i \in DOMAIN utterances
    OBVIOUS
  <2> HIDE DEF us, v
  <2> QED BY <1>2, <2>1, RecognitionAssumption DEF Settled, RecognitionInv, HeardInv
<1>4. d < i
  BY <1>1, <1>2, <1>3 DEF Settled, Open
<1>5. /\ utterances[i] \in Utterance /\ t \in Texts /\ v \in Utterance
      /\ v.text = t /\ v.end = utterances[i].end /\ v.definite = utterances[i].definite
  <2>1. utterances[i] \in Utterance /\ t \in Texts
    BY <1>3, HearingsType
  <2> QED BY <2>1, Amended
<1>7. Hear(us)
  BY <1>1
<1> HIDE DEF v
<1>6. /\ us \in Seq(Utterance) /\ Len(us) = Len(utterances)
      /\ us[i].text = t /\ us[i].end = utterances[i].end /\ us[i].definite = utterances[i].definite
      /\ \A j \in 1 .. Len(us) : j # i => us[j] = utterances[j]
  BY <1>3, <1>5
<1> HIDE DEF us
<1>8. Settled(us, d)
  <2>1. \A j \in 1 .. Len(us) : us[j].end = j /\ (us[j].definite <=> j <= d)
    BY <1>2, <1>6 DEF Settled
  <2> QED BY <1>2, <1>6, <2>1 DEF Settled
<1>9. \A j \in 1 .. Len(us) : us[j].text \in Hearings(j)
  BY <1>1, <1>6 DEF RecognitionInv, HeardInv
<1>10. \A j \in 1 .. reported : us[j] = utterances[j]
  BY <1>2, <1>3, <1>4, <1>6
<1>11. Len(us) <= MaxUtterances
  BY <1>6 DEF RecognitionInv, HeardInv
<1> QED BY <1>2, <1>3, <1>6, <1>7, <1>8, <1>9, <1>10, <1>11, HearStep

(* The first utterance that is not definite becomes definite. *)
LEMMA SettleStep ==
  ASSUME RecognitionInv, Settle
  PROVE  RecognitionInv'
<1>1. PICK i \in DOMAIN utterances :
        /\ Open(i) /\ \A j \in 1 .. i - 1 : ~Open(j)
        /\ Hear([utterances EXCEPT ![i].definite = TRUE])
  BY DEF Settle
<1>2. PICK d \in 0 .. Len(utterances) : Settled(utterances, d) /\ reported \in 0 .. d
  BY DEF RecognitionInv, HeardInv
<1> DEFINE v == [utterances[i] EXCEPT !.definite = TRUE]
           us == [utterances EXCEPT ![i] = v]
<1>3. /\ utterances \in Seq(Utterance) /\ Len(utterances) \in Nat
      /\ i \in 1 .. Len(utterances)
  BY <1>2 DEF Settled, RecognitionInv, HeardInv
<1>4. i = d + 1
  <2>1. d < i
    BY <1>1, <1>2, <1>3 DEF Settled, Open
  <2>2. \A j \in 1 .. i - 1 : j \in 1 .. Len(utterances) /\ j <= d
    BY <1>1, <1>2, <1>3 DEF Settled, Open
  <2> QED BY <1>2, <1>3, <2>1, <2>2
<1>5. /\ utterances[i] \in Utterance /\ v \in Utterance
      /\ v.text = utterances[i].text /\ v.end = utterances[i].end /\ v.definite
  <2>1. utterances[i] \in Utterance /\ <<>> \in Texts
    BY <1>3 DEF Texts
  <2> QED BY <2>1, Amended
<1>7. Hear(us)
  BY <1>1
<1> HIDE DEF v
<1>6. /\ us \in Seq(Utterance) /\ Len(us) = Len(utterances)
      /\ us[i].text = utterances[i].text /\ us[i].end = utterances[i].end /\ us[i].definite
      /\ \A j \in 1 .. Len(us) : j # i => us[j] = utterances[j]
  BY <1>3, <1>5
<1> HIDE DEF us
<1>8. Settled(us, i) /\ i \in 0 .. Len(us) /\ reported \in 0 .. i
  <2>1. \A j \in 1 .. Len(us) : us[j].end = j /\ (us[j].definite <=> j <= i)
    BY <1>2, <1>4, <1>6 DEF Settled
  <2> QED BY <1>2, <1>3, <1>4, <1>6, <2>1 DEF Settled
<1>9. \A j \in 1 .. Len(us) : us[j].text \in Hearings(j)
  BY <1>6 DEF RecognitionInv, HeardInv
<1>10. \A j \in 1 .. reported : us[j] = utterances[j]
  BY <1>2, <1>3, <1>4, <1>6
<1>11. Len(us) <= MaxUtterances
  BY <1>6 DEF RecognitionInv, HeardInv
<1> QED BY <1>2, <1>3, <1>6, <1>7, <1>8, <1>9, <1>10, <1>11, HearStep

-----------------------------------------------------------------------------
(* What a frame of the service does. *)

(* In a settled result the definite utterances are the first d. *)
LEMMA DefiniteCount ==
  ASSUME NEW us, NEW d, Settled(us, d)
  PROVE  Cardinality({i \in DOMAIN us : us[i].definite}) = d
<1>1. DOMAIN us = 1 .. Len(us) /\ Len(us) \in Nat /\ d \in 0 .. Len(us)
  BY DEF Settled
<1>2. \A i \in 1 .. Len(us) : us[i].definite <=> i <= d
  BY DEF Settled
<1>3. {i \in 1 .. Len(us) : us[i].definite} = 1 .. d
  BY <1>1, <1>2
<1>4. Cardinality(1 .. d) = d
  <2>1. d \in Int /\ 1 \in Int /\ d >= 0
    BY <1>1
  <2>2. Cardinality(1 .. d) = IF 1 > d THEN 0 ELSE d - 1 + 1
    BY <2>1, FS_Interval
  <2> QED BY <2>1, <2>2
<1> QED BY <1>1, <1>3, <1>4

(* The text of the whole audio is a text. *)
LEMMA WholeTextType == RecognitionInv => WholeText \in Texts
<1> SUFFICES ASSUME RecognitionInv PROVE WholeText \in Texts
  OBVIOUS
<1>1. utterances \in Seq(Utterance)
  BY DEF RecognitionInv, HeardInv, Settled
<1>2. \A i \in DOMAIN utterances : utterances[i].text \in Texts
  <2>1. \A u \in Utterance : u.text \in Texts
    BY DEF Utterance
  <2> QED BY <1>1, <2>1
<1>3. [i \in DOMAIN utterances |-> utterances[i].text] \in Seq(Texts)
  <2> DEFINE V == Texts
  <2>1. \A i \in DOMAIN utterances : utterances[i].text \in V
    BY <1>2
  <2> HIDE DEF V
  <2>2. [i \in 1 .. Len(utterances) |-> utterances[i].text] \in Seq(V)
    BY <1>1, <2>1
  <2> QED BY <1>1, <2>2 DEF V
<1> QED BY <1>3, WordsOfTexts DEF WholeText

(* What arrives of a response: nothing, or the whole of it. *)
LEMMA ReceiveResponse ==
  ASSUME NEW len \in {15, 16}, NEW flags, NEW body,
         Receive(Frame(len, FullServerResponse, flags, body))
  PROVE  LET p == ParseAsrTexts(body)
         IN  /\ phase = "loop"
             /\ UNCHANGED <<mode, mic, form, upstream, utterances>>
             /\ \/ /\ phase' = "loop"
                   /\ UNCHANGED <<engineVars, lastEnd, lastFull, historyVars>>
                \/ /\ phase' = IF flags = 3 THEN "over" ELSE "loop"
                   /\ finals' = finals \o p.finals
                   /\ Show(p)
                   /\ lastEnd' = p.lastEnd /\ lastFull' = p.lastFull
                   /\ reported' = IF body.form = "none" THEN reported
                                  ELSE Cardinality({i \in DOMAIN utterances : utterances[i].definite})
                   /\ grew' = (grew /\ IsPrefix(lastFull, p.lastFull))
<1> DEFINE frame == Frame(len, FullServerResponse, flags, body)
           m == ParseServerMessage(frame)
<1>1. /\ m.kind \in {"response", "unknown"}
      /\ m.kind = "response" => m.flags = flags
  BY DEF ParseServerMessage, Frame, FullServerResponse, ErrorResponse, ProtoVersion, HeaderSize4B
<1>2. frame.body = body
  BY DEF Frame
<1> HIDE DEF frame, m
<1>3. CASE m.kind = "response"
  BY <1>1, <1>2, <1>3 DEF Receive, IsFinal, frame, m
<1>4. CASE m.kind = "unknown"
  BY <1>1, <1>2, <1>4 DEF Receive, IsFinal, frame, m
<1> QED BY <1>1, <1>3, <1>4

(* What parse_asr_texts returns, a result at a time. *)
LEMMA ParseResult ==
  LET none == ParseAsrTexts(Result("none"))
      us   == ParseAsrTexts(Result("utterances"))
      text == ParseAsrTexts(Result("text"))
      full == Trim(WholeText)
  IN  /\ none.partial = <<>> /\ none.finals = <<>>
      /\ none.lastEnd = lastEnd /\ none.lastFull = lastFull
      /\ us.partial = Partial(utterances) /\ us.finals = NewFinals(utterances, lastEnd).texts
      /\ us.lastEnd = NewFinals(utterances, lastEnd).last /\ us.lastFull = lastFull
      /\ full = <<>> => text = none
      /\ full # <<>> =>
           /\ text.partial = (IF mode = "bidi_async" THEN full ELSE <<>>)
           /\ text.finals = TextFinals(full)
           /\ text.lastEnd = lastEnd /\ text.lastFull = full
<1>1. /\ Result("none").form = "none"
      /\ Result("utterances").form = "utterances" /\ Result("utterances").utterances = utterances
      /\ Result("text").form = "text" /\ Result("text").text = WholeText
  BY DEF Result
<1> QED BY <1>1 DEF ParseAsrTexts

(* A response with nothing in it. *)
LEMMA EmptyStep ==
  ASSUME RecognitionInv,
         NEW p, p.partial = <<>>, p.finals = <<>>, p.lastEnd = lastEnd, p.lastFull = lastFull,
         UNCHANGED <<mode, mic, form, utterances>>, responses' \in 0 .. MaxResponses,
         finals' = finals \o p.finals, Show(p), lastEnd' = p.lastEnd, lastFull' = p.lastFull,
         grew' => grew,
         \/ reported' = reported
         \/ /\ form = "text"
            /\ \E d \in 0 .. Len(utterances) : Settled(utterances, d) /\ reported' = d,
         phase' \in {"loop", "over"},
         phase' = "over" => form = "text" /\ Trim(WholeText) = <<>>
  PROVE  RecognitionInv'
<1>1. finals' = finals /\ shown' = shown /\ lastEnd' = lastEnd /\ lastFull' = lastFull
  <2>1. finals \in Seq(Texts \ {<<>>})
    BY DEF RecognitionInv, TypeInv
  <2>2. finals \o <<>> = finals
    BY <2>1, ConcatEmptySeq
  <2> QED BY <2>2 DEF Show
<1>2. TypeInv'
  BY <1>1 DEF RecognitionInv, TypeInv
<1>3. HeardInv'
  <2>1. CASE reported' = reported
    BY <2>1 DEF RecognitionInv, HeardInv
  <2>2. CASE \E d \in 0 .. Len(utterances) : Settled(utterances, d) /\ reported' = d
    <3>1. PICK d \in 0 .. Len(utterances) : Settled(utterances, d) /\ reported' = d
      BY <2>2
    <3>2. reported' \in 0 .. d
      BY <3>1 DEF RecognitionInv, HeardInv, Settled
    <3> QED BY <3>1, <3>2 DEF RecognitionInv, HeardInv
  <2> QED BY <2>1, <2>2
<1>4. CommittedInv'
  BY <1>1 DEF RecognitionInv, CommittedInv, TypeInv
<1>5. SpelledInv'
  BY <1>1 DEF RecognitionInv, SpelledInv, TextSpelledOut, Spells
<1>6. ShownInv'
  BY <1>1 DEF RecognitionInv, ShownInv, SpelledInv
<1>7. EndInv'
  BY DEF EndInv, WholeText
<1> QED BY <1>2, <1>3, <1>4, <1>5, <1>6, <1>7 DEF RecognitionInv

(* A response with utterances. *)
LEMMA UtterancesStep ==
  ASSUME RecognitionInv, form = "utterances", NEW p,
         p.partial = Partial(utterances), p.finals = NewFinals(utterances, lastEnd).texts,
         p.lastEnd = NewFinals(utterances, lastEnd).last, p.lastFull = lastFull,
         UNCHANGED <<mode, mic, form, utterances>>, responses' \in 0 .. MaxResponses,
         finals' = finals \o p.finals, Show(p), lastEnd' = p.lastEnd, lastFull' = p.lastFull,
         NEW d \in 0 .. Len(utterances), Settled(utterances, d), reported' = d,
         phase' \in {"loop", "over"},
         phase' = "over" => d = Len(utterances)
  PROVE  RecognitionInv'
<1>1. reported \in 0 .. d
  <2>1. PICK e \in 0 .. Len(utterances) : Settled(utterances, e) /\ reported \in 0 .. e
    BY DEF RecognitionInv, HeardInv
  <2>2. e = d
    <3>1. Len(utterances) \in Nat
      BY DEF Settled
    <3>2. \A i \in 1 .. Len(utterances) : i <= e <=> i <= d
      BY <2>1 DEF Settled
    <3>3. CASE e < d
      <4>1. d \in 1 .. Len(utterances)
        BY <3>1, <3>3
      <4> QED BY <3>2, <3>3, <4>1
    <3>4. CASE d < e
      <4>1. e \in 1 .. Len(utterances)
        BY <3>1, <3>4
      <4> QED BY <3>2, <3>4, <4>1
    <3> QED BY <3>1, <3>3, <3>4
  <2> QED BY <2>1, <2>2
<1>2. /\ CommittedUpTo(utterances, reported, lastEnd)
      /\ finals = Transcript(Prefix(utterances, reported))
      /\ finals \in Seq(Texts \ {<<>>}) /\ utterances \in Seq(Utterance) /\ Len(utterances) \in Nat
  BY DEF RecognitionInv, CommittedInv, TypeInv, Settled
<1>3. /\ p.finals \in Seq(Texts \ {<<>>})
      /\ finals \o p.finals = Transcript(Prefix(utterances, d))
      /\ CommittedUpTo(utterances, d, p.lastEnd)
      /\ p.finals = <<>> => \A i \in reported + 1 .. d : Said(utterances[i]) = <<>>
  <2> DEFINE new == NewFinals(utterances, lastEnd)
  <2>1. /\ new.texts \in Seq(Texts \ {<<>>})
        /\ Transcript(Prefix(utterances, reported)) \o new.texts = Transcript(Prefix(utterances, d))
        /\ CommittedUpTo(utterances, d, new.last)
        /\ new.texts = <<>> => \A i \in reported + 1 .. d : Said(utterances[i]) = <<>>
    BY <1>1, <1>2, NewFinalsResult
  <2>2. p.finals = new.texts /\ p.lastEnd = new.last
    OBVIOUS
  <2> HIDE DEF new
  <2> QED BY <1>2, <2>1, <2>2
<1>4. p.partial # <<>> =>
        \E i \in 1 .. Len(utterances) : i > d /\ p.partial \in Heard(i)
  <2>1. SUFFICES ASSUME p.partial # <<>>
                 PROVE  \E i \in 1 .. Len(utterances) : i > d /\ p.partial \in Heard(i)
    OBVIOUS
  <2>2. PICK i \in 1 .. Len(utterances) : ~utterances[i].definite /\ p.partial = Said(utterances[i])
    BY <1>2, <2>1, PartialOpen
  <2>3. i > d
    BY <2>2 DEF Settled
  <2>4. i \in 1 .. MaxUtterances /\ utterances[i].text \in Hearings(i)
    BY <1>2, <2>2, RecognitionAssumption DEF RecognitionInv, HeardInv
  <2>5. p.partial \in Heard(i)
    BY <2>1, <2>2, <2>4, HearingsType DEF Said
  <2> QED BY <2>3, <2>5
<1>5. p.partial # <<>> => p.partial \in Texts
  <2>1. SUFFICES ASSUME p.partial # <<>> PROVE p.partial \in Texts
    OBVIOUS
  <2>2. PICK i \in 1 .. Len(utterances) : p.partial = Said(utterances[i])
    BY <1>2, <2>1, PartialOpen
  <2>3. utterances[i] \in Utterance
    BY <1>2
  <2> QED BY <2>2, <2>3, SaidType
<1>6. TypeInv'
  <2>1. finals' \in Seq(Texts \ {<<>>})
    BY <1>2, <1>3, ConcatProperties
  <2>2. shown' \in Texts
    <3>1. <<>> \in Texts
      BY DEF Texts
    <3> QED BY <1>5, <3>1 DEF Show, RecognitionInv, TypeInv
  <2> QED BY <2>1, <2>2 DEF RecognitionInv, TypeInv
<1>7. HeardInv'
  <2>1. reported' \in 0 .. d
    BY <1>2
  <2> QED BY <2>1 DEF RecognitionInv, HeardInv
<1>8. CommittedInv'
  BY <1>3 DEF CommittedInv
<1>9. SpelledInv'
  BY DEF SpelledInv
<1>10. ShownInv'
  <2>1. SUFFICES ASSUME shown' # <<>>
                 PROVE  \E i \in 1 .. Len(utterances) :
                          shown' \in Heard(i) /\ (i > d \/ Said(utterances[i]) = <<>>)
    BY DEF ShownInv
  <2>2. p.finals = <<>>
    BY <2>1 DEF Show
  <2>3. CASE p.partial # <<>>
    BY <1>4, <2>2, <2>3 DEF Show
  <2>4. CASE p.partial = <<>>
    <3>1. shown' = shown /\ shown # <<>>
      BY <2>1, <2>2, <2>4 DEF Show
    <3>2. PICK i \in 1 .. Len(utterances) :
                 shown \in Heard(i) /\ (i > reported \/ Said(utterances[i]) = <<>>)
      BY <3>1 DEF RecognitionInv, ShownInv
    <3>3. i > d \/ Said(utterances[i]) = <<>>
      BY <1>1, <1>2, <1>3, <2>2, <3>2
    <3> QED BY <3>1, <3>2, <3>3
  <2> QED BY <2>3, <2>4
<1>11. EndInv'
  BY DEF EndInv
<1> QED BY <1>6, <1>7, <1>8, <1>9, <1>10, <1>11 DEF RecognitionInv

(* A response with a text. *)
LEMMA TextStep ==
  ASSUME RecognitionInv, form = "text", NEW p, NEW full, full = Trim(WholeText), full # <<>>,
         p.partial = (IF mode = "bidi_async" THEN full ELSE <<>>),
         p.finals = TextFinals(full), p.lastEnd = lastEnd, p.lastFull = full,
         UNCHANGED <<mode, mic, form, utterances>>, responses' \in 0 .. MaxResponses,
         finals' = finals \o p.finals, Show(p), lastEnd' = p.lastEnd, lastFull' = p.lastFull,
         grew' = (grew /\ IsPrefix(lastFull, full)),
         NEW d \in 0 .. Len(utterances), Settled(utterances, d), reported' = d,
         phase' \in {"loop", "over"}
  PROVE  RecognitionInv'
<1>1. full \in Texts
  BY WholeTextType, TrimType DEF Texts
<1>2. finals \in Seq(Texts \ {<<>>}) /\ finals \in Seq(Texts) /\ lastFull \in Texts
  BY DEF RecognitionInv, TypeInv
<1>3. p.finals \in Seq(Texts \ {<<>>})
  BY <1>1, <1>2, TextFinalsType
<1>4. shown' = <<>>
  <2>1. CASE mode = "bidi_async"
    <3>1. p.finals = <<full>>
      BY <2>1 DEF TextFinals
    <3>2. <<full>> # <<>>
      OBVIOUS
    <3> QED BY <3>1, <3>2 DEF Show
  <2>2. CASE mode # "bidi_async"
    BY <2>2 DEF Show, RecognitionInv, SpelledInv
  <2> QED BY <2>1, <2>2
<1>5. TypeInv'
  <2>1. finals' \in Seq(Texts \ {<<>>})
    BY <1>2, <1>3, ConcatProperties
  <2>2. shown' \in Texts
    BY <1>4 DEF Texts
  <2> QED BY <1>1, <2>1, <2>2 DEF RecognitionInv, TypeInv
<1>6. HeardInv'
  <2>1. reported' \in 0 .. d
    OBVIOUS
  <2> QED BY <2>1 DEF RecognitionInv, HeardInv
<1>7. CommittedInv'
  BY DEF CommittedInv
<1>8. SpelledInv'
  <2>1. ASSUME mode # "bidi_async", grew'
        PROVE  NoBlanks(FlattenSeq(finals')) = NoBlanks(lastFull')
    <3>1. grew /\ IsPrefix(lastFull, full)
      BY <2>1
    <3>2. Spells(lastFull)
      BY <2>1, <3>1 DEF RecognitionInv, SpelledInv, TextSpelledOut
    <3> QED BY <1>1, <1>2, <2>1, <3>1, <3>2, TextFinalsSpell
  <2> QED BY <1>4, <2>1 DEF RecognitionInv, SpelledInv, TextSpelledOut, Spells
<1>9. ShownInv'
  BY <1>4 DEF ShownInv
<1>10. EndInv'
  BY DEF EndInv, WholeText
<1> QED BY <1>5, <1>6, <1>7, <1>8, <1>9, <1>10 DEF RecognitionInv

(* Any response. *)
LEMMA ReceiveStep ==
  ASSUME RecognitionInv, NEW flags, NEW f \in {form, "none"}, NEW len \in {15, 16},
         Receive(Frame(len, FullServerResponse, flags, Result(f))),
         responses' \in 0 .. MaxResponses,
         flags = 3 => f = form /\ \A i \in DOMAIN utterances : utterances[i].definite
  PROVE  RecognitionInv'
<1> DEFINE body == Result(f)
           p == ParseAsrTexts(body)
           arrived ==
             /\ phase' = IF flags = 3 THEN "over" ELSE "loop"
             /\ finals' = finals \o p.finals
             /\ Show(p)
             /\ lastEnd' = p.lastEnd /\ lastFull' = p.lastFull
             /\ reported' = IF body.form = "none" THEN reported
                            ELSE Cardinality({i \in DOMAIN utterances : utterances[i].definite})
             /\ grew' = (grew /\ IsPrefix(lastFull, p.lastFull))
<1>1. /\ UNCHANGED <<mode, mic, form, upstream, utterances>>
      /\ \/ phase' = "loop" /\ UNCHANGED <<engineVars, lastEnd, lastFull, historyVars>>
         \/ arrived
  BY ReceiveResponse
<1>2. form \in {"utterances", "text"} /\ mic \in {"open", "ended", "broken"} /\ body.form = f
  BY DEF RecognitionInv, TypeInv, Result
<1>3. PICK d \in 0 .. Len(utterances) : Settled(utterances, d) /\ reported \in 0 .. d
  BY DEF RecognitionInv, HeardInv
<1>4. Cardinality({i \in DOMAIN utterances : utterances[i].definite}) = d
  BY <1>3, DefiniteCount
<1>5. flags = 3 => d = Len(utterances)
  <2>1. SUFFICES ASSUME flags = 3, d < Len(utterances) PROVE FALSE
    BY <1>3 DEF Settled
  <2>2. d + 1 \in 1 .. Len(utterances) /\ ~ (d + 1 <= d)
    BY <1>3, <2>1 DEF Settled
  <2>3. ~utterances[d + 1].definite
    BY <1>3, <2>2 DEF Settled
  <2>4. DOMAIN utterances = 1 .. Len(utterances)
    BY <1>3 DEF Settled
  <2> QED BY <2>1, <2>2, <2>3, <2>4
<1>6. CASE phase' = "loop" /\ UNCHANGED <<engineVars, lastEnd, lastFull, historyVars>>
  BY <1>1, <1>2, <1>6, SilentStep
<1>7. CASE arrived /\ f = "none"
  <2>1. body = Result("none")
    BY <1>7
  <2>2. /\ p.partial = <<>> /\ p.finals = <<>> /\ p.lastEnd = lastEnd /\ p.lastFull = lastFull
    BY <2>1, ParseResult
  <2>3. reported' = reported /\ (grew' => grew)
    BY <1>2, <1>7
  <2>4. phase' = "loop"
    BY <1>2, <1>7
  <2> HIDE DEF p, body
  <2> QED BY <1>1, <1>7, <2>2, <2>3, <2>4, EmptyStep
<1>8. CASE arrived /\ f = "utterances"
  <2>1. body = Result("utterances") /\ form = "utterances"
    BY <1>8
  <2>2. /\ p.partial = Partial(utterances) /\ p.finals = NewFinals(utterances, lastEnd).texts
        /\ p.lastEnd = NewFinals(utterances, lastEnd).last /\ p.lastFull = lastFull
    BY <2>1, ParseResult
  <2>3. reported' = d
    BY <1>2, <1>4, <1>8
  <2>4. phase' \in {"loop", "over"} /\ (phase' = "over" => d = Len(utterances))
    BY <1>5, <1>8
  <2> HIDE DEF p, body
  <2> QED BY <1>1, <1>3, <1>8, <2>1, <2>2, <2>3, <2>4, UtterancesStep
<1>9. CASE arrived /\ f = "text"
  <2>1. body = Result("text") /\ form = "text"
    BY <1>9
  <2>2. reported' = d /\ phase' \in {"loop", "over"}
    BY <1>2, <1>4, <1>9
  <2>3. CASE Trim(WholeText) = <<>>
    <3>1. p.partial = <<>> /\ p.finals = <<>> /\ p.lastEnd = lastEnd /\ p.lastFull = lastFull
      BY <2>1, <2>3, ParseResult
    <3>2. grew' => grew
      BY <1>9
    <3> HIDE DEF p, body
    <3> QED BY <1>1, <1>3, <1>9, <2>1, <2>2, <2>3, <3>1, <3>2, EmptyStep
  <2>4. CASE Trim(WholeText) # <<>>
    <3> DEFINE full == Trim(WholeText)
    <3>1. /\ p.partial = (IF mode = "bidi_async" THEN full ELSE <<>>)
          /\ p.finals = TextFinals(full) /\ p.lastEnd = lastEnd /\ p.lastFull = full
      BY <2>1, <2>4, ParseResult
    <3>2. grew' = (grew /\ IsPrefix(lastFull, full))
      BY <1>9, <3>1
    <3>3. full = Trim(WholeText) /\ full # <<>>
      BY <2>4
    <3> HIDE DEF p, body, full
    <3> QED BY <1>1, <1>3, <1>9, <2>1, <2>2, <3>1, <3>2, <3>3, TextStep
  <2> QED BY <2>3, <2>4
<1> QED BY <1>1, <1>2, <1>6, <1>7, <1>8, <1>9

(* An error of the service. *)
LEMMA FailStep ==
  ASSUME RecognitionInv, Fail
  PROVE  RecognitionInv'
<1> DEFINE frame == Frame(16, ErrorResponse, 0, Result("none"))
           m == ParseServerMessage(frame)
<1>1. m.kind = "error"
  BY DEF ParseServerMessage, Frame, FullServerResponse, ErrorResponse, ProtoVersion, HeaderSize4B
<1>2. Receive(frame) /\ UNCHANGED responses
  BY DEF Fail
<1> HIDE DEF frame, m
<1>3. /\ phase' = "failed"
      /\ UNCHANGED <<mode, mic, form, upstream, utterances, engineVars, lastEnd, lastFull,
                     historyVars>>
  BY <1>1, <1>2 DEF Receive, m
<1>4. responses' \in 0 .. MaxResponses /\ mic' \in {"open", "ended", "broken"}
  BY <1>2, <1>3 DEF RecognitionInv, TypeInv
<1> QED BY <1>3, <1>4, SilentStep

(* Every step keeps the invariant. *)
LEMMA NextInv == RecognitionInv /\ [Next]_vars => RecognitionInv'
<1> SUFFICES ASSUME RecognitionInv, [Next]_vars PROVE RecognitionInv'
  OBVIOUS
<1> USE DEF vars, sessionVars, serviceVars, engineVars, historyVars
<1>0. /\ phase \in {"opening", "loop", "over", "failed"} /\ mic \in {"open", "ended", "broken"}
      /\ responses \in 0 .. MaxResponses /\ form # "none"
  BY DEF RecognitionInv, TypeInv
<1>1. CASE SendSetup
  <2>1. phase' \in {"loop", "failed"}
    BY <1>1 DEF SendSetup
  <2> QED BY <1>0, <1>1, <2>1, SilentStep DEF SendSetup
<1>2. CASE SendAudio \/ SendLast
  <2>1. mic' \in {"open", "ended", "broken"} /\ phase' = phase
    BY <1>2 DEF SendAudio, SendLast, SendFrame
  <2>2. UNCHANGED <<mode, lastEnd, lastFull, form, utterances, responses, engineVars, historyVars>>
    BY <1>2 DEF SendAudio, SendLast, SendFrame
  <2> QED BY <1>0, <2>1, <2>2, SilentStep
<1>3. CASE Respond
  <2>1. responses' \in 0 .. MaxResponses
    BY <1>0, <1>3, RecognitionAssumption DEF Respond
  <2>2. PICK len \in {15, 16}, f \in {form, "none"} :
               Receive(Frame(len, FullServerResponse, 1, Result(f)))
    BY <1>3 DEF Respond
  <2> QED BY <2>1, <2>2, ReceiveStep
<1>4. CASE RespondFinally
  <2>1. /\ responses' = responses
        /\ Receive(Frame(16, FullServerResponse, 3, Result(form)))
        /\ \A i \in DOMAIN utterances : utterances[i].definite
    BY <1>4 DEF RespondFinally
  <2> QED BY <1>0, <2>1, ReceiveStep
<1>5. CASE Fail
  BY <1>5, FailStep
<1>6. CASE Close
  BY <1>0, <1>6, SilentStep DEF Close
<1>7. CASE NextUtterance
  BY <1>7, NextUtteranceStep
<1>8. CASE SecondThoughts
  BY <1>8, SecondThoughtsStep
<1>9. CASE Settle
  BY <1>9, SettleStep
<1>10. CASE UNCHANGED vars
  BY <1>0, <1>10, SilentStep
<1> QED BY <1>1, <1>2, <1>3, <1>4, <1>5, <1>6, <1>7, <1>8, <1>9, <1>10 DEF Next

(* Every state of a session, whatever the mode, the number of utterances   *)
(* and of responses: the memories of parse_asr_texts agree with what was   *)
(* heard, reported, committed and shown (asr.rs:152-328,                   *)
(* addon.cpp:202-236).                                                     *)
THEOREM RecognitionInvariant == Spec => []RecognitionInv
BY InitInv, NextInv, PTL DEF Spec

-----------------------------------------------------------------------------
(* What follows from it. *)

(* The ranges of the variables follow from it. *)
LEMMA InvTypeOK == RecognitionInv => TypeOK
<1> SUFFICES ASSUME RecognitionInv PROVE TypeOK
  OBVIOUS
<1>1. PICK d \in 0 .. Len(utterances) : Settled(utterances, d) /\ reported \in 0 .. d
  BY DEF RecognitionInv, HeardInv
<1>2. Len(utterances) \in Nat /\ Len(utterances) <= MaxUtterances /\ MaxUtterances \in Nat
  BY <1>1, RecognitionAssumption DEF RecognitionInv, HeardInv, Settled
<1>3. reported \in 0 .. MaxUtterances
  BY <1>1, <1>2
<1>4. lastEnd \in -1 .. MaxUtterances
  <2>1. CASE form = "utterances"
    BY <1>2, <1>3, <2>1 DEF RecognitionInv, CommittedInv, CommittedUpTo
  <2>2. CASE form = "text"
    BY <1>2, <2>2 DEF RecognitionInv, SpelledInv
  <2> QED BY <2>1, <2>2 DEF RecognitionInv, TypeInv
<1>5. \A i \in DOMAIN finals : finals[i] \in Texts \ {<<>>}
  BY DEF RecognitionInv, TypeInv
<1> QED BY <1>3, <1>4, <1>5 DEF RecognitionInv, TypeInv, TypeOK

(* Types: the finals are never empty, and last_committed_end_time is -1 or *)
(* the end of an utterance (asr.rs:269-292, 313-328).                      *)
THEOREM RecognitionTypeCorrect == Spec => []TypeOK
BY RecognitionInvariant, InvTypeOK, PTL

(* Every utterance that was reported as definite is committed once and in  *)
(* order, however often the service repeats and revises its results and    *)
(* whichever responses are cut short or empty (asr.rs:269-292).            *)
THEOREM UtterancesCommittedOnce == Spec => []CommittedOnceInOrder
<1>1. RecognitionInv => CommittedOnceInOrder
  BY DEF RecognitionInv, CommittedInv, CommittedOnceInOrder, Prefix
<1> QED BY <1>1, RecognitionInvariant, PTL

(* Outside bidi_async, texts that grow are committed word by word: none    *)
(* twice and none left out (asr.rs:316-324).                               *)
THEOREM TextsSpelledOut == Spec => []TextSpelledOut
<1>1. RecognitionInv => TextSpelledOut
  BY DEF RecognitionInv, SpelledInv, TextSpelledOut
<1> QED BY <1>1, RecognitionInvariant, PTL

(* When a session ends with the service's final frame, everything the      *)
(* service heard has been committed (asr.rs:213-227).                      *)
THEOREM AllCommittedAtEnd == Spec => []NothingLostAtEnd
<1>1. RecognitionInv => NothingLostAtEnd
  <2> SUFFICES ASSUME RecognitionInv, phase = "over", form = "utterances"
               PROVE  finals = Transcript(utterances)
    BY DEF RecognitionInv, EndInv, NothingLostAtEnd
  <2>1. utterances \in Seq(Utterance)
    BY DEF RecognitionInv, HeardInv, Settled
  <2>2. Prefix(utterances, Len(utterances)) = utterances
    BY <2>1, SubSeqFull DEF Prefix
  <2>3. reported = Len(utterances) /\ finals = Transcript(Prefix(utterances, reported))
    BY DEF RecognitionInv, EndInv, CommittedInv
  <2> QED BY <2>2, <2>3
<1> QED BY <1>1, RecognitionInvariant, PTL

(* Texts of two utterances differ. *)
LEMMA HeardApart ==
  ASSUME NEW i \in 1 .. MaxUtterances, NEW j \in 1 .. MaxUtterances,
         NEW t \in Heard(i), t \in Heard(j)
  PROVE  i = j
<1>1. MaxUtterances \in Nat
  BY RecognitionAssumption
<1>2. t[1] = i \/ t[1] = MaxUtterances + i
  BY DEF Heard
<1>3. t[1] = j \/ t[1] = MaxUtterances + j
  BY DEF Heard
<1> QED BY <1>1, <1>2, <1>3

(* What is shown is the text of an utterance of which nothing is           *)
(* committed, and each final is the text of one that was committed.        *)
LEMMA InvNoCommittedPreedit == RecognitionInv => NoCommittedPreedit
<1> SUFFICES ASSUME RecognitionInv, shown # <<>>, NEW k \in DOMAIN finals, finals[k] = shown
             PROVE  FALSE
  BY DEF NoCommittedPreedit, ToSet
<1>1. form = "utterances"
  BY DEF RecognitionInv, SpelledInv, TypeInv
<1>2. PICK d \in 0 .. Len(utterances) : Settled(utterances, d) /\ reported \in 0 .. d
  BY DEF RecognitionInv, HeardInv
<1>3. /\ utterances \in Seq(Utterance) /\ Len(utterances) \in Nat
      /\ reported \in 0 .. Len(utterances)
      /\ \A i \in 1 .. Len(utterances) : i \in 1 .. MaxUtterances
      /\ \A i \in 1 .. Len(utterances) : utterances[i].text \in Hearings(i)
  BY <1>2, RecognitionAssumption DEF Settled, RecognitionInv, HeardInv
<1>4. finals = Transcript(Prefix(utterances, reported))
  BY <1>1 DEF RecognitionInv, CommittedInv
<1>5. k \in 1 .. Len(Transcript(Prefix(utterances, reported)))
  BY <1>4 DEF RecognitionInv, TypeInv
<1>6. PICK j \in 1 .. reported : shown = Said(utterances[j])
  BY <1>3, <1>4, <1>5, TranscriptElements
<1>7. j \in 1 .. Len(utterances)
  BY <1>3, <1>6
<1>8. shown \in Heard(j)
  BY <1>3, <1>6, <1>7, HearingsType DEF Said
<1>9. PICK i \in 1 .. Len(utterances) :
             shown \in Heard(i) /\ (i > reported \/ Said(utterances[i]) = <<>>)
  BY DEF RecognitionInv, ShownInv
<1>10. i = j
  BY <1>3, <1>7, <1>8, <1>9, HeardApart
<1> QED BY <1>3, <1>6, <1>9, <1>10

(* The preedit never shows a text that was committed (asr.rs:216-222,      *)
(* addon.cpp:202-236).                                                     *)
THEOREM PreeditNotCommitted == Spec => []NoCommittedPreedit
BY RecognitionInvariant, InvNoCommittedPreedit, PTL

=============================================================================
