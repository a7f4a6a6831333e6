-------------------------- MODULE AudioPathProofs --------------------------
(***************************************************************************)
(* Theorems of AudioPath, for any chunk size, capacity, number of sessions *)
(* and way the callback cuts the input: no chunk bridges a gap, samples    *)
(* stay in order, and audio of another time is less than a chunk at the    *)
(* head of a session.                                                      *)
(***************************************************************************)
EXTENDS AudioPath, SequenceTheorems, TLAPS

USE AudioAssumption DEF Sessions

Chunks == {q \in Seq(Samples) : Unbroken(q)}

(* What session s may have received when all up to sample m was captured.  *)
Sound(r, s, m) ==
  /\ \A i, j \in 1 .. Len(r) : i < j => Before(r[i], r[j])
  /\ \A i \in 1 .. Len(r) : \A k \in DOMAIN r[i] : r[i][k].at <= m
  /\ \A i \in 1 .. Len(r) : IF i = 1 THEN StaleHead(r[i], s) ELSE Own(r[i], s)

(* The buffer ends with the last sample captured and has no gap.           *)
Timed(q, m) == \A k \in 1 .. Len(q) : q[k].at = m - Len(q) + k

PathTypes ==
  /\ target \in Sessions \cup {NoSession}
  /\ begun \in 0 .. MaxSessions
  /\ captured \in 0 .. MaxCaptured
  /\ sending \in BOOLEAN
  /\ over \subseteq Sessions
  /\ buffer \in Seq(Samples)
  /\ chan \in [Sessions -> Seq(Chunks)]
  /\ heard \in [Sessions -> Seq(Chunks)]

(* Between the loops of the callback the buffer is less than a chunk, and  *)
(* only sessions that became the target are in it.                         *)
BufferInv ==
  /\ Timed(buffer, captured)
  /\ \A k \in 1 .. Len(buffer) : buffer[k].for <= begun
  /\ sending => target \in Sessions /\ Len(buffer) >= ChunkSamples
  /\ ~sending => Len(buffer) < ChunkSamples
  /\ target # NoSession => target = begun

SessionsInv ==
  \A s \in Sessions :
    /\ Sound(Received(s), s, captured - Len(buffer))
    /\ s > begun => Received(s) = <<>>
    /\ s = target => IF Received(s) = <<>> THEN StaleHead(buffer, s) ELSE Own(buffer, s)

PathInv == PathTypes /\ BufferInv /\ SessionsInv

-----------------------------------------------------------------------------
(* Facts about chunks and what was received. *)

LEMMA SampleFacts == \A x \in Samples : x.at \in Nat /\ x.for \in Nat
  BY DEF Samples

LEMMA OwnIsStaleHead ==
  ASSUME NEW q \in Seq(Samples), NEW s, Own(q, s) PROVE StaleHead(q, s)
  BY DEF Own, StaleHead

(* One more chunk, later than all before it. *)
LEMMA SoundMore ==
  ASSUME NEW r \in Seq(Chunks), NEW c \in Chunks, NEW s \in Sessions, NEW m \in Int, NEW n \in Int,
         Sound(r, s, m), m <= n,
         \A k \in 1 .. Len(c) : m < c[k].at /\ c[k].at <= n,
         IF r = <<>> THEN StaleHead(c, s) ELSE Own(c, s)
  PROVE  Append(r, c) \in Seq(Chunks) /\ Append(r, c) # <<>> /\ Sound(Append(r, c), s, n)
<1> DEFINE a == Append(r, c)
<1>1. /\ a \in Seq(Chunks) /\ a # <<>> /\ Len(a) = Len(r) + 1 /\ Len(r) \in Nat
      /\ a[Len(r) + 1] = c /\ \A i \in 1 .. Len(r) : a[i] = r[i]
  <2>1. Len(r) \in Nat
    BY LenProperties
  <2>2. a \in Seq(Chunks) /\ Len(a) = Len(r) + 1
    OBVIOUS
  <2>3. a[Len(r) + 1] = c /\ \A i \in 1 .. Len(r) : a[i] = r[i]
    BY <2>1
  <2> HIDE DEF a
  <2>4. a # <<>>
    <3> SUFFICES ASSUME a = <<>> PROVE FALSE
      OBVIOUS
    <3>1. Len(a) = 0
      OBVIOUS
    <3> QED BY <2>1, <2>2, <3>1
  <2> QED BY <2>1, <2>2, <2>3, <2>4
<1>2. r = <<>> <=> Len(r) = 0
  BY EmptySeq
<1>3. c \in Seq(Samples) /\ DOMAIN c = 1 .. Len(c)
  BY LenProperties DEF Chunks
<1>4. \A i \in 1 .. Len(r) : r[i] \in Seq(Samples) /\ DOMAIN r[i] = 1 .. Len(r[i])
  BY ElementOfSeq, LenProperties DEF Chunks
<1>5. \A i \in 1 .. Len(r) : \A k \in DOMAIN r[i] : r[i][k].at \in Nat /\ r[i][k].at <= m
  BY <1>4, SampleFacts, ElementOfSeq DEF Sound
<1>6. \A k \in DOMAIN c : c[k].at \in Nat /\ m < c[k].at /\ c[k].at <= n
  BY <1>3, SampleFacts, ElementOfSeq
<1> HIDE DEF a
<1>7. ASSUME NEW i \in 1 .. Len(a), NEW j \in 1 .. Len(a), i < j PROVE Before(a[i], a[j])
  <2>1. CASE j <= Len(r)
    BY <1>1, <1>7, <2>1 DEF Sound
  <2>2. CASE j = Len(r) + 1
    <3>1. i \in 1 .. Len(r) /\ a[i] = r[i] /\ a[j] = c
      BY <1>1, <1>7, <2>2
    <3>2. ASSUME NEW k \in DOMAIN r[i], NEW l \in DOMAIN c PROVE r[i][k].at < c[l].at
      BY <1>5, <1>6, <3>1
    <3> QED BY <3>1, <3>2 DEF Before
  <2> QED BY <1>1, <2>1, <2>2
<1>8. ASSUME NEW i \in 1 .. Len(a), NEW k \in DOMAIN a[i] PROVE a[i][k].at <= n
  <2>1. CASE i <= Len(r)
    BY <1>1, <1>5, <2>1
  <2>2. CASE i = Len(r) + 1
    BY <1>1, <1>6, <2>2
  <2> QED BY <1>1, <2>1, <2>2
<1>9. ASSUME NEW i \in 1 .. Len(a) PROVE IF i = 1 THEN StaleHead(a[i], s) ELSE Own(a[i], s)
  <2>1. CASE i <= Len(r)
    BY <1>1, <2>1 DEF Sound
  <2>2. CASE i = Len(r) + 1
    BY <1>1, <1>2, <2>2
  <2> QED BY <1>1, <2>1, <2>2
<1>10. Sound(a, s, n)
  BY <1>7, <1>8, <1>9 DEF Sound
<1> QED BY <1>1, <1>10 DEF a

(* Nothing more, or the beginning only, of what was received. *)
LEMMA SoundLess ==
  ASSUME NEW r \in Seq(Chunks), NEW q \in Seq(Chunks), NEW s \in Sessions,
         NEW m \in Int, NEW n \in Int, Sound(r, s, m), m <= n,
         Len(q) <= Len(r), \A i \in 1 .. Len(q) : q[i] = r[i]
  PROVE  Sound(q, s, n)
<1>1. Len(q) \in Nat /\ Len(r) \in Nat
  BY LenProperties
<1>2. \A i \in 1 .. Len(q) : i \in 1 .. Len(r) /\ q[i] = r[i]
  BY <1>1
<1>3. ASSUME NEW i \in 1 .. Len(q), NEW k \in DOMAIN q[i] PROVE q[i][k].at <= n
  <2>1. r[i] \in Seq(Samples) /\ k \in 1 .. Len(r[i]) /\ r[i][k].at <= m
    BY <1>2, ElementOfSeq, LenProperties DEF Chunks, Sound
  <2>2. r[i][k].at \in Nat
    BY <2>1, SampleFacts, ElementOfSeq
  <2> QED BY <1>2, <2>1, <2>2
<1> QED BY <1>2, <1>3 DEF Sound

LEMMA ReceivedSeq ==
  ASSUME PathTypes, NEW s \in Sessions PROVE Received(s) \in Seq(Chunks)
  BY ConcatProperties DEF PathTypes, Received

-----------------------------------------------------------------------------
(* The callback. *)

LEMMA CallbackFills ==
  ASSUME PathTypes, BufferInv, NEW n \in 1 .. MaxBurst, Callback(n), target # NoSession
  PROVE  /\ buffer' \in Seq(Samples) /\ Len(buffer') = Len(buffer) + n
         /\ Timed(buffer', captured')
         /\ \A k \in 1 .. Len(buffer') : buffer'[k].for <= begun
         /\ \A k \in 1 .. Len(buffer') :
              IF k <= Len(buffer) THEN buffer'[k] = buffer[k] ELSE buffer'[k].for = target
<1> DEFINE fresh == [i \in 1 .. n |-> [at |-> captured + i, for |-> target]]
<1>1. /\ target \in Sessions /\ target = begun /\ captured + n <= MaxCaptured
      /\ n \in Nat \ {0} /\ captured \in Nat /\ captured' = captured + n
  BY DEF PathTypes, BufferInv, Callback
<1>2. fresh \in Seq(Samples) /\ Len(fresh) = n
  <2>1. \A i \in 1 .. n : captured + i \in 1 .. MaxCaptured
    BY <1>1
  <2>2. \A i \in 1 .. n : [at |-> captured + i, for |-> target] \in Samples
    BY <1>1, <2>1 DEF Samples
  <2>3. fresh \in [1 .. n -> Samples]
    BY <2>2
  <2> HIDE DEF fresh
  <2>4. fresh \in Seq(Samples)
    BY <1>1, <2>3
  <2>5. DOMAIN fresh = 1 .. n /\ DOMAIN fresh = 1 .. Len(fresh) /\ Len(fresh) \in Nat
    BY <2>3, <2>4, LenProperties
  <2> QED BY <1>1, <2>4, <2>5
<1>3. \A i \in 1 .. n : fresh[i].at = captured + i /\ fresh[i].for = target
  OBVIOUS
<1>4. buffer' = buffer \o fresh
  BY DEF Callback
<1> HIDE DEF fresh
<1>5. /\ buffer \in Seq(Samples) /\ Len(buffer) \in Nat
      /\ buffer' \in Seq(Samples) /\ Len(buffer') = Len(buffer) + n
      /\ \A k \in 1 .. Len(buffer) + n :
           buffer'[k] = IF k <= Len(buffer) THEN buffer[k] ELSE fresh[k - Len(buffer)]
  BY <1>2, <1>4, ConcatProperties, LenProperties DEF PathTypes
<1>6. ASSUME NEW k \in 1 .. Len(buffer')
      PROVE  /\ buffer'[k].at = captured' - Len(buffer') + k
             /\ buffer'[k].for <= begun
             /\ IF k <= Len(buffer) THEN buffer'[k] = buffer[k] ELSE buffer'[k].for = target
  <2>1. CASE k <= Len(buffer)
    <3>1. buffer'[k] = buffer[k] /\ k \in 1 .. Len(buffer)
      BY <1>5, <2>1
    <3>2. buffer[k].at = captured - Len(buffer) + k /\ buffer[k].for <= begun
      BY <3>1 DEF BufferInv, Timed
    <3> QED BY <1>1, <1>5, <2>1, <3>1, <3>2
  <2>2. CASE ~(k <= Len(buffer))
    <3>1. k - Len(buffer) \in 1 .. n /\ buffer'[k] = fresh[k - Len(buffer)]
      BY <1>1, <1>5, <2>2
    <3>2. buffer'[k].at = captured + (k - Len(buffer)) /\ buffer'[k].for = target
      BY <1>3, <3>1
    <3> QED BY <1>1, <1>5, <2>2, <3>2
  <2> QED BY <2>1, <2>2
<1> QED BY <1>5, <1>6 DEF Timed

LEMMA CallbackStep ==
  ASSUME PathInv, NEW n \in 1 .. MaxBurst, Callback(n) PROVE PathInv'
<1> USE DEF PathInv
<1>1. /\ UNCHANGED <<target, begun, chan, heard, over>>
      /\ ~sending /\ captured' = captured + n /\ captured + n <= MaxCaptured
      /\ captured \in Nat /\ n \in Nat \ {0} /\ begun \in Nat
      /\ sending' = (target # NoSession /\ Len(buffer') >= ChunkSamples)
  BY DEF Callback, PathTypes
<1>2. Len(buffer) \in Nat
  BY LenProperties DEF PathTypes
<1>3. ASSUME captured' - Len(buffer') >= captured - Len(buffer), Len(buffer') \in Nat,
             NEW s \in Sessions
      PROVE  /\ Sound(Received(s)', s, captured' - Len(buffer'))
             /\ s > begun' => Received(s)' = <<>>
             /\ Received(s)' = Received(s)
  <2>1. Received(s)' = Received(s) /\ Received(s) \in Seq(Chunks)
    BY <1>1, ReceivedSeq DEF Received
  <2>2. Sound(Received(s), s, captured - Len(buffer))
    BY DEF SessionsInv
  <2>3. Len(Received(s)) <= Len(Received(s))
    BY <2>1, LenProperties
  <2>4. Sound(Received(s), s, captured' - Len(buffer'))
    BY <1>1, <1>2, <1>3, <2>1, <2>2, <2>3, SoundLess
  <2> QED BY <1>1, <2>1, <2>4 DEF SessionsInv
<1>4. CASE target = NoSession
  <2>1. buffer' = <<>> /\ ~sending'
    BY <1>1, <1>4 DEF Callback
  <2>2. Len(buffer') = 0 /\ buffer' \in Seq(Samples)
    BY <2>1, EmptySeq
  <2>3. PathTypes' /\ BufferInv'
    BY <1>1, <1>4, <2>1, <2>2 DEF PathTypes, BufferInv, Timed
  <2>4. captured' - Len(buffer') >= captured - Len(buffer)
    BY <1>1, <1>2, <2>2
  <2>5. \A s \in Sessions : s # target'
    BY <1>1, <1>4
  <2>6. SessionsInv'
    BY <1>3, <2>2, <2>4, <2>5 DEF SessionsInv
  <2> QED BY <2>3, <2>6
<1>5. CASE target # NoSession
  <2>1. /\ buffer' \in Seq(Samples) /\ Len(buffer') = Len(buffer) + n
        /\ Timed(buffer', captured')
        /\ \A k \in 1 .. Len(buffer') : buffer'[k].for <= begun
        /\ \A k \in 1 .. Len(buffer') :
             IF k <= Len(buffer) THEN buffer'[k] = buffer[k] ELSE buffer'[k].for = target
    BY <1>5, CallbackFills
  <2>2. PathTypes'
    BY <1>1, <2>1 DEF PathTypes
  <2>3. BufferInv'
    <3>1. target' = target /\ begun' = begun
      BY <1>1
    <3>2. target \in Sessions /\ target = begun
      BY <1>5 DEF BufferInv, PathTypes
    <3>3. \A k \in 1 .. Len(buffer') : buffer'[k].for <= begun'
      BY <2>1, <3>1
    <3>4. sending' = (Len(buffer') >= ChunkSamples)
      BY <1>1, <1>5
    <3>5. ~sending' => Len(buffer') < ChunkSamples
      <4>1. ~sending' => ~(Len(buffer') >= ChunkSamples)
        BY <3>4, Zenon
      <4>2. Len(buffer') \in Nat
        BY <1>1, <1>2, <2>1
      <4> QED BY <4>1, <4>2
    <3> QED BY <2>1, <3>1, <3>2, <3>3, <3>4, <3>5 DEF BufferInv
  <2>4. captured' - Len(buffer') = captured - Len(buffer) /\ Len(buffer') \in Nat
    BY <1>1, <1>2, <2>1
  <2>5. DOMAIN buffer' = 1 .. Len(buffer') /\ DOMAIN buffer = 1 .. Len(buffer)
    BY <2>1, LenProperties DEF PathTypes
  <2>6. Own(buffer, target) => Own(buffer', target)
    BY <1>2, <2>1, <2>5 DEF Own
  <2>7. StaleHead(buffer, target) => StaleHead(buffer', target)
    <3> SUFFICES ASSUME StaleHead(buffer, target) PROVE StaleHead(buffer', target)
      OBVIOUS
    <3>1. ASSUME NEW k \in DOMAIN buffer', NEW l \in DOMAIN buffer', k < l, buffer'[k].for = target
          PROVE  buffer'[l].for = target
      <4>1. CASE l <= Len(buffer)
        BY <1>2, <2>1, <2>5, <3>1, <4>1 DEF StaleHead
      <4>2. CASE ~(l <= Len(buffer))
        BY <2>1, <2>5, <4>2
      <4> QED BY <4>1, <4>2
    <3>2. ASSUME NEW k \in DOMAIN buffer', k >= ChunkSamples PROVE buffer'[k].for = target
      <4>1. CASE k <= Len(buffer)
        BY <1>2, <2>1, <2>5, <3>2, <4>1 DEF StaleHead
      <4>2. CASE ~(k <= Len(buffer))
        BY <2>1, <2>5, <4>2
      <4> QED BY <4>1, <4>2
    <3> QED BY <3>1, <3>2 DEF StaleHead
  <2>8. ASSUME NEW s \in Sessions, s = target'
        PROVE  IF Received(s)' = <<>> THEN StaleHead(buffer, s)' ELSE Own(buffer, s)'
    <3>1. s = target /\ Received(s)' = Received(s)
      BY <1>1, <1>2, <1>3, <2>4, <2>8
    <3> QED BY <2>6, <2>7, <3>1 DEF SessionsInv, StaleHead, Own
  <2>9. SessionsInv'
    <3>1. captured' - Len(buffer') >= captured - Len(buffer)
      BY <1>1, <1>2, <2>1
    <3>2. ASSUME NEW s \in Sessions
          PROVE  /\ Sound(Received(s)', s, captured' - Len(buffer'))
                 /\ s > begun' => Received(s)' = <<>>
      BY <1>3, <2>4, <3>1
    <3> QED BY <2>8, <3>2 DEF SessionsInv
  <2> QED BY <2>2, <2>3, <2>9
<1> QED BY <1>4, <1>5

-----------------------------------------------------------------------------
(* One turn of the loop. *)

LEMMA CutFacts ==
  ASSUME PathTypes, BufferInv, SendChunk
  PROVE  LET c == SubSeq(buffer, 1, ChunkSamples)
         IN  /\ Len(buffer) \in Nat /\ ChunkSamples <= Len(buffer)
             /\ c \in Seq(Samples) /\ Len(c) = ChunkSamples
             /\ \A k \in 1 .. ChunkSamples : c[k] = buffer[k]
             /\ buffer' \in Seq(Samples) /\ Len(buffer') = Len(buffer) - ChunkSamples
             /\ \A k \in 1 .. Len(buffer') : buffer'[k] = buffer[ChunkSamples + k]
<1> DEFINE c == SubSeq(buffer, 1, ChunkSamples)
<1>1. /\ buffer \in Seq(Samples) /\ Len(buffer) \in Nat /\ ChunkSamples <= Len(buffer)
      /\ buffer' = SubSeq(buffer, ChunkSamples + 1, Len(buffer))
  BY LenProperties DEF PathTypes, BufferInv, SendChunk
<1>2. \A k \in 1 .. Len(buffer) : buffer[k] \in Samples
  BY <1>1, ElementOfSeq
<1>3. /\ c \in Seq(Samples) /\ Len(c) = ChunkSamples
      /\ \A k \in 1 .. ChunkSamples : c[k] = buffer[k]
  <2>1. \A k \in 1 .. ChunkSamples : buffer[k] \in Samples
    BY <1>1, <1>2
  <2> QED BY <1>1, <2>1, SubSeqProperties
<1>4. /\ buffer' \in Seq(Samples) /\ Len(buffer') = Len(buffer) - ChunkSamples
      /\ \A k \in 1 .. Len(buffer') : buffer'[k] = buffer[ChunkSamples + k]
  <2>1. \A k \in ChunkSamples + 1 .. Len(buffer) : buffer[k] \in Samples
    BY <1>1, <1>2
  <2> QED BY <1>1, <2>1, SubSeqProperties
<1> QED BY <1>1, <1>3, <1>4

LEMMA SendStep == ASSUME PathInv, SendChunk PROVE PathInv'
<1> USE DEF PathInv
<1> DEFINE c == SubSeq(buffer, 1, ChunkSamples)
           m == captured - Len(buffer)
<1>1. /\ Len(buffer) \in Nat /\ ChunkSamples <= Len(buffer)
      /\ c \in Seq(Samples) /\ Len(c) = ChunkSamples
      /\ \A k \in 1 .. ChunkSamples : c[k] = buffer[k]
      /\ buffer' \in Seq(Samples) /\ Len(buffer') = Len(buffer) - ChunkSamples
      /\ \A k \in 1 .. Len(buffer') : buffer'[k] = buffer[ChunkSamples + k]
  BY CutFacts
<1>2. /\ target \in Sessions /\ target # NoSession /\ UNCHANGED <<target, begun, captured, heard, over>>
      /\ sending' = (Len(buffer') >= ChunkSamples) /\ captured \in Nat
      /\ \/ chan' = chan
         \/ chan' = [chan EXCEPT ![target] = Append(@, c)]
  <2>1. target \in Sessions /\ captured \in Nat /\ sending
    BY DEF SendChunk, BufferInv, PathTypes
  <2>2. target # NoSession
    BY <2>1
  <2>3. UNCHANGED <<target, begun, captured, heard, over>> /\ sending' = (Len(buffer') >= ChunkSamples)
    BY DEF SendChunk
  <2>4. chan' = chan \/ chan' = [chan EXCEPT ![target] = Append(@, c)]
    BY DEF SendChunk
  <2> QED BY <2>1, <2>2, <2>3, <2>4
<1> HIDE DEF c
<1>3. captured' - Len(buffer') = m + ChunkSamples /\ m \in Int
  BY <1>1, <1>2
<1>4. /\ \A k \in 1 .. Len(c) : c[k].at = m + k
      /\ \A k \in 1 .. Len(buffer') :
           buffer'[k].at = captured' - Len(buffer') + k /\ buffer'[k].for <= begun
  <2>1. \A k \in 1 .. Len(buffer) : buffer[k].at = m + k /\ buffer[k].for <= begun
    BY DEF BufferInv, Timed
  <2>2. ASSUME NEW k \in 1 .. Len(buffer')
        PROVE  buffer'[k].at = captured' - Len(buffer') + k /\ buffer'[k].for <= begun
    <3>1. ChunkSamples + k \in 1 .. Len(buffer) /\ buffer'[k] = buffer[ChunkSamples + k]
      BY <1>1
    <3> QED BY <1>3, <2>1, <3>1
  <2>3. ASSUME NEW k \in 1 .. Len(c) PROVE c[k].at = m + k
    BY <1>1, <2>1
  <2> QED BY <2>2, <2>3
<1> HIDE DEF m
<1>5. c \in Chunks
  <2>1. ASSUME NEW j \in 1 .. Len(c) - 1 PROVE c[j + 1].at = c[j].at + 1
    BY <1>1, <1>3, <1>4
  <2> QED BY <1>1, <2>1 DEF Chunks, Unbroken
<1>6. BufferInv'
  <2>1. target' = target /\ begun' = begun /\ captured' = captured
    BY <1>2
  <2>2. Len(buffer') \in Nat
    BY <1>1, LenProperties
  <2>3. ~sending' => Len(buffer') < ChunkSamples
    <3>1. ~sending' => ~(Len(buffer') >= ChunkSamples)
      BY <1>2, Zenon
    <3> QED BY <2>2, <3>1
  <2>4. Timed(buffer', captured') /\ \A k \in 1 .. Len(buffer') : buffer'[k].for <= begun'
    BY <1>4, <2>1 DEF Timed
  <2>5. target # NoSession => target = begun
    BY DEF BufferInv
  <2> QED BY <1>2, <2>1, <2>3, <2>4, <2>5 DEF BufferInv
<1>7. chan' \in [Sessions -> Seq(Chunks)]
  <2>1. Append(chan[target], c) \in Seq(Chunks)
    BY <1>2, <1>5 DEF PathTypes
  <2> QED BY <1>2, <2>1 DEF PathTypes
<1>8. PathTypes'
  BY <1>1, <1>2, <1>7 DEF PathTypes
<1>9. ASSUME NEW s \in Sessions
      PROVE  /\ Received(s) \in Seq(Chunks) /\ Sound(Received(s), s, m)
             /\ s > begun => Received(s) = <<>>
             /\ s = target => IF Received(s) = <<>> THEN StaleHead(buffer, s) ELSE Own(buffer, s)
  BY ReceivedSeq DEF SessionsInv, m
<1>10. ASSUME NEW s \in Sessions PROVE Sound(Received(s), s, m + ChunkSamples)
  <2>1. Len(Received(s)) <= Len(Received(s)) /\ m + ChunkSamples \in Int /\ m <= m + ChunkSamples
    BY <1>3, <1>9, LenProperties
  <2> QED BY <1>3, <1>9, <2>1, SoundLess
<1>11. DOMAIN buffer = 1 .. Len(buffer) /\ DOMAIN buffer' = 1 .. Len(buffer') /\ DOMAIN c = 1 .. Len(c)
  BY <1>1, LenProperties DEF PathTypes
<1>12. Own(buffer', target)
  <2> SUFFICES ASSUME NEW k \in 1 .. Len(buffer') PROVE buffer'[k].for = target
    BY <1>11 DEF Own
  <2>1. /\ ChunkSamples + k \in 1 .. Len(buffer) /\ ChunkSamples + k >= ChunkSamples
        /\ buffer'[k] = buffer[ChunkSamples + k]
    BY <1>1
  <2> QED BY <1>2, <1>9, <1>11, <2>1 DEF Own, StaleHead
<1>13. IF Received(target) = <<>> THEN StaleHead(c, target) ELSE Own(c, target)
  <2>1. \A k \in DOMAIN c : k \in DOMAIN buffer /\ c[k] = buffer[k]
    BY <1>1, <1>11
  <2>2. StaleHead(buffer, target) => StaleHead(c, target)
    BY <2>1 DEF StaleHead
  <2>3. Own(buffer, target) => Own(c, target)
    BY <2>1 DEF Own
  <2>4. IF Received(target) = <<>> THEN StaleHead(buffer, target) ELSE Own(buffer, target)
    BY <1>2, <1>9
  <2> QED BY <2>2, <2>3, <2>4
<1>14. ASSUME NEW s \in Sessions PROVE Sound(Received(s)', s, m + ChunkSamples)
  <2>1. CASE chan'[s] = chan[s]
    BY <1>2, <1>10, <2>1 DEF Received
  <2>2. CASE chan'[s] # chan[s]
    <3>1. s = target /\ chan'[s] = Append(chan[s], c)
      BY <1>2, <2>2 DEF PathTypes
    <3>2. Received(s)' = Append(Received(s), c)
      <4>1. heard[s] \in Seq(Chunks) /\ chan[s] \in Seq(Chunks)
        BY DEF PathTypes
      <4>2. heard[s] \o Append(chan[s], c) = Append(heard[s] \o chan[s], c)
        <5> DEFINE u == heard[s]
                   v == chan[s]
        <5>1. u \in Seq(Chunks) /\ v \in Seq(Chunks)
          BY <4>1
        <5> HIDE DEF u, v
        <5>2. Append(v, c) \in Seq(Chunks) /\ Len(Append(v, c)) = Len(v) + 1
          BY <1>5, <5>1
        <5>3. /\ u \o v \in Seq(Chunks) /\ Len(u \o v) = Len(u) + Len(v)
              /\ \A i \in 1 .. Len(u) + Len(v) : (u \o v)[i] = IF i <= Len(u) THEN u[i] ELSE v[i - Len(u)]
          BY <5>1, ConcatProperties
        <5>4. /\ u \o Append(v, c) \in Seq(Chunks) /\ Len(u \o Append(v, c)) = Len(u) + Len(v) + 1
              /\ \A i \in 1 .. Len(u) + Len(v) + 1 :
                   (u \o Append(v, c))[i] = IF i <= Len(u) THEN u[i] ELSE Append(v, c)[i - Len(u)]
          <6>1. Len(u) + Len(Append(v, c)) = Len(u) + Len(v) + 1
            BY <5>1, <5>2, LenProperties
          <6> QED BY <5>1, <5>2, <6>1, ConcatProperties
        <5>5. Len(u) \in Nat /\ Len(v) \in Nat
          BY <5>1, LenProperties
        <5>6. /\ Append(u \o v, c) \in Seq(Chunks) /\ Len(Append(u \o v, c)) = Len(u) + Len(v) + 1
          BY <1>5, <5>3
        <5>7. ASSUME NEW i \in 1 .. Len(u) + Len(v) + 1
              PROVE  (u \o Append(v, c))[i] = Append(u \o v, c)[i]
          <6>1. CASE i <= Len(u) + Len(v)
            <7>1. Append(u \o v, c)[i] = (u \o v)[i]
              BY <1>5, <5>3, <5>5, <6>1
            <7>2. ~(i <= Len(u)) => Append(v, c)[i - Len(u)] = v[i - Len(u)]
              BY <1>5, <5>1, <5>5, <6>1
            <7> QED BY <5>3, <5>4, <5>5, <6>1, <7>1, <7>2
          <6>2. CASE i = Len(u) + Len(v) + 1
            <7>1. Append(u \o v, c)[i] = c
              BY <1>5, <5>3, <5>5, <6>2
            <7>2. Append(v, c)[i - Len(u)] = c
              BY <1>5, <5>1, <5>5, <6>2
            <7> QED BY <5>4, <5>5, <6>2, <7>1, <7>2
          <6> QED BY <5>5, <6>1, <6>2
        <5>8. u \o Append(v, c) = Append(u \o v, c)
          BY <5>4, <5>6, <5>7, SeqEqual
        <5> QED BY <5>8 DEF u, v
      <4> QED BY <1>2, <3>1, <4>2 DEF Received
    <3>3. \A k \in 1 .. Len(c) : m < c[k].at /\ c[k].at <= m + ChunkSamples
      BY <1>1, <1>3, <1>4
    <3>4. m + ChunkSamples \in Int /\ m <= m + ChunkSamples
      BY <1>3
    <3> QED BY <1>3, <1>5, <1>9, <1>13, <3>1, <3>2, <3>3, <3>4, SoundMore
  <2> QED BY <2>1, <2>2
<1>15. ASSUME NEW s \in Sessions, s > begun' PROVE Received(s)' = <<>>
  <2>1. s # target
    BY <1>2, <1>15 DEF BufferInv, PathTypes
  <2>2. chan'[s] = chan[s]
    BY <1>2, <2>1 DEF PathTypes
  <2> QED BY <1>2, <1>9, <1>15, <2>2 DEF Received
<1>16. SessionsInv'
  <2>1. ASSUME NEW s \in Sessions, s = target'
        PROVE  Own(buffer, s)' /\ StaleHead(buffer, s)'
    <3>1. s = target
      BY <1>2, <2>1
    <3>2. StaleHead(buffer', s)
      BY <1>1, <1>12, <3>1, OwnIsStaleHead
    <3> QED BY <1>12, <3>1, <3>2 DEF Own, StaleHead
  <2> QED BY <1>3, <1>14, <1>15, <2>1 DEF SessionsInv
<1> QED BY <1>6, <1>8, <1>16

-----------------------------------------------------------------------------
(* The sessions and the handlers. *)

(* A step that leaves the callback alone, and of what sessions received    *)
(* takes at most the end away.                                             *)
LEMMA OtherStep ==
  ASSUME PathInv, PathTypes', UNCHANGED <<target, begun, buffer, sending, captured>>,
         NEW z \in Sessions,
         \A s \in Sessions \ {z} : Received(s)' = Received(s),
         Len(Received(z)') <= Len(Received(z)),
         \A i \in 1 .. Len(Received(z)') : Received(z)'[i] = Received(z)[i]
  PROVE  PathInv'
<1> USE DEF PathInv
<1>1. BufferInv'
  BY DEF BufferInv, Timed
<1>2. captured - Len(buffer) \in Int
  BY LenProperties DEF PathTypes
<1>3. ASSUME NEW s \in Sessions
      PROVE  /\ Received(s) \in Seq(Chunks) /\ Received(s)' \in Seq(Chunks)
             /\ Len(Received(s)') <= Len(Received(s))
             /\ \A i \in 1 .. Len(Received(s)') : Received(s)'[i] = Received(s)[i]
  <2>1. Received(s) \in Seq(Chunks)
    BY ReceivedSeq
  <2>2. Received(s)' \in Seq(Chunks)
    BY ConcatProperties DEF PathTypes, Received
  <2>3. CASE s = z
    BY <2>1, <2>2, <2>3
  <2>4. CASE s # z
    BY <2>1, <2>2, <2>4, LenProperties
  <2> QED BY <2>1, <2>2, <2>3, <2>4
<1>4. ASSUME NEW s \in Sessions PROVE Sound(Received(s)', s, captured - Len(buffer))
  <2>1. Sound(Received(s), s, captured - Len(buffer))
    BY DEF SessionsInv
  <2> QED BY <1>2, <1>3, <2>1, SoundLess
<1>5. ASSUME NEW s \in Sessions, Received(s) = <<>> PROVE Received(s)' = <<>>
  <2>1. Len(Received(s)') <= 0 /\ Len(Received(s)') \in Nat
    BY <1>3, <1>5, EmptySeq, LenProperties
  <2>2. Len(Received(s)') = 0
    BY <2>1
  <2> QED BY <1>3, <2>2, EmptySeq
<1>6. ASSUME NEW s \in Sessions, s = target
      PROVE  IF Received(s)' = <<>> THEN StaleHead(buffer, s) ELSE Own(buffer, s)
  <2>1. Own(buffer, s) => StaleHead(buffer, s)
    BY OwnIsStaleHead DEF PathTypes
  <2> QED BY <1>5, <1>6, <2>1 DEF SessionsInv
<1>7. SessionsInv'
  BY <1>4, <1>5, <1>6 DEF SessionsInv, StaleHead, Own
<1> QED BY <1>1, <1>7

LEMMA ConsumeStep ==
  ASSUME PathInv, NEW z \in Sessions, Consume(z) PROVE PathInv'
<1> USE DEF PathInv
<1> DEFINE u == heard[z]
           v == chan[z]
<1>1. u \in Seq(Chunks) /\ v \in Seq(Chunks) /\ v # <<>>
  BY DEF Consume, PathTypes
<1>2. UNCHANGED <<target, begun, buffer, sending, captured, over>>
  BY DEF Consume
<1>3. /\ heard' = [heard EXCEPT ![z] = Append(u, Head(v))]
      /\ chan' = [chan EXCEPT ![z] = Tail(v)]
  BY DEF Consume
<1> HIDE DEF u, v
<1>4. /\ Head(v) \in Chunks /\ Tail(v) \in Seq(Chunks) /\ Len(Tail(v)) = Len(v) - 1
      /\ \A i \in 1 .. Len(Tail(v)) : Tail(v)[i] = v[i + 1]
      /\ Head(v) = v[1] /\ Len(u) \in Nat /\ Len(v) \in Nat \ {0}
  BY <1>1, HeadTailProperties, LenProperties, EmptySeq
<1>5. /\ Append(u, Head(v)) \in Seq(Chunks) /\ Len(Append(u, Head(v))) = Len(u) + 1
      /\ \A i \in 1 .. Len(u) : Append(u, Head(v))[i] = u[i]
      /\ Append(u, Head(v))[Len(u) + 1] = v[1]
  BY <1>1, <1>4
<1>6. PathTypes'
  BY <1>2, <1>3, <1>4, <1>5 DEF PathTypes
<1>7. /\ Len(Append(u, Head(v)) \o Tail(v)) = Len(u \o v)
      /\ \A i \in 1 .. Len(u \o v) : (Append(u, Head(v)) \o Tail(v))[i] = (u \o v)[i]
  <2>1. /\ Len(u \o v) = Len(u) + Len(v)
        /\ \A i \in 1 .. Len(u) + Len(v) : (u \o v)[i] = IF i <= Len(u) THEN u[i] ELSE v[i - Len(u)]
    BY <1>1, ConcatProperties
  <2>2. /\ Len(Append(u, Head(v)) \o Tail(v)) = (Len(u) + 1) + Len(Tail(v))
        /\ \A i \in 1 .. (Len(u) + 1) + Len(Tail(v)) :
             (Append(u, Head(v)) \o Tail(v))[i] =
               IF i <= Len(u) + 1 THEN Append(u, Head(v))[i] ELSE Tail(v)[i - (Len(u) + 1)]
    BY <1>4, <1>5, ConcatProperties
  <2>3. (Len(u) + 1) + Len(Tail(v)) = Len(u) + Len(v)
    BY <1>4
  <2>4. ASSUME NEW i \in 1 .. Len(u) + Len(v)
        PROVE  (Append(u, Head(v)) \o Tail(v))[i] = (u \o v)[i]
    <3>1. CASE i <= Len(u)
      BY <1>4, <1>5, <2>1, <2>2, <2>3, <3>1
    <3>2. CASE i = Len(u) + 1
      BY <1>4, <1>5, <2>1, <2>2, <2>3, <3>2
    <3>3. CASE i > Len(u) + 1
      <4>1. i - (Len(u) + 1) \in 1 .. Len(Tail(v)) /\ (i - (Len(u) + 1)) + 1 = i - Len(u)
        BY <1>4, <3>3
      <4>2. Tail(v)[i - (Len(u) + 1)] = v[i - Len(u)]
        BY <1>4, <4>1
      <4> QED BY <1>4, <2>1, <2>2, <2>3, <3>3, <4>2
    <3> QED BY <1>4, <3>1, <3>2, <3>3
  <2> QED BY <2>1, <2>2, <2>3, <2>4
<1>8. Received(z)' = Append(u, Head(v)) \o Tail(v) /\ Received(z) = u \o v
  BY <1>3 DEF Received, PathTypes, u, v
<1>9. \A s \in Sessions \ {z} : Received(s)' = Received(s)
  BY <1>3 DEF Received, PathTypes
<1>10. Len(u \o v) \in Nat
  BY <1>1, ConcatProperties, LenProperties
<1>11. Len(Received(z)') <= Len(Received(z))
  <2>1. Len(Received(z)') = Len(u \o v) /\ Len(Received(z)) = Len(u \o v)
    BY ONLY <1>7, <1>8, Zenon
  <2>2. \A k \in Nat : k <= k
    OBVIOUS
  <2> QED BY ONLY <1>10, <2>1, <2>2, Zenon
<1>12. \A i \in 1 .. Len(Received(z)') : Received(z)'[i] = Received(z)[i]
  BY <1>7, <1>8
<1> QED BY <1>2, <1>6, <1>9, <1>11, <1>12, OtherStep

LEMMA EndStep ==
  ASSUME PathInv, NEW z \in Sessions, SessionEnds(z) PROVE PathInv'
<1> USE DEF PathInv
<1> DEFINE u == heard[z]
           v == chan[z]
<1>1. u \in Seq(Chunks) /\ v \in Seq(Chunks)
  BY DEF PathTypes
<1>2. /\ UNCHANGED <<target, begun, buffer, sending, captured, heard>>
      /\ chan' = [chan EXCEPT ![z] = <<>>] /\ over' = over \cup {z}
  BY DEF SessionEnds
<1>3. <<>> \in Seq(Chunks)
  OBVIOUS
<1>4. PathTypes'
  BY <1>2, <1>3 DEF PathTypes
<1>5. Received(z)' = u \o <<>> /\ Received(z) = u \o v
  BY <1>2 DEF Received, PathTypes
<1>6. \A s \in Sessions \ {z} : Received(s)' = Received(s)
  BY <1>2 DEF Received, PathTypes
<1> HIDE DEF u, v
<1>7. u \o <<>> = u
  BY <1>1, ConcatEmptySeq
<1>8. /\ Len(u) \in Nat /\ Len(v) \in Nat /\ Len(u \o v) = Len(u) + Len(v)
      /\ \A i \in 1 .. Len(u) + Len(v) : (u \o v)[i] = IF i <= Len(u) THEN u[i] ELSE v[i - Len(u)]
  BY <1>1, ConcatProperties, LenProperties
<1>9. Len(Received(z)') <= Len(Received(z))
  BY <1>5, <1>7, <1>8
<1>10. \A i \in 1 .. Len(Received(z)') : Received(z)'[i] = Received(z)[i]
  BY <1>5, <1>7, <1>8
<1> QED BY <1>2, <1>4, <1>6, <1>9, <1>10, OtherStep

(* set_target and clear_target: the new target has received nothing, and   *)
(* what the buffer holds is somebody else's and less than a chunk.         *)
LEMMA TargetStep ==
  ASSUME PathInv, SetTarget \/ ClearTarget PROVE PathInv'
<1> USE DEF PathInv
<1>1. /\ UNCHANGED <<buffer, sending, captured, chan, heard, over>> /\ ~sending
      /\ \/ begun < MaxSessions /\ begun' = begun + 1 /\ target' = begun'
         \/ begun' = begun /\ target' = NoSession
  BY DEF SetTarget, ClearTarget
<1>2. begun \in Nat /\ begun' \in Nat /\ begun <= begun'
  BY <1>1 DEF PathTypes
<1>3. PathTypes'
  BY <1>1 DEF PathTypes
<1>4. buffer \in Seq(Samples) /\ DOMAIN buffer = 1 .. Len(buffer) /\ Len(buffer) \in Nat
  BY LenProperties DEF PathTypes
<1>5. \A k \in 1 .. Len(buffer) : buffer[k].for \in Nat /\ buffer[k].for <= begun
  BY <1>4, SampleFacts, ElementOfSeq DEF BufferInv
<1>6. BufferInv'
  BY <1>1, <1>2, <1>5 DEF BufferInv, Timed
<1>7. \A s \in Sessions : Received(s)' = Received(s)
  BY <1>1 DEF Received
<1>8. ASSUME NEW s \in Sessions, s = target'
      PROVE  Received(s) = <<>> /\ StaleHead(buffer, s)
  <2>1. s > begun /\ s = begun'
    BY <1>1, <1>2, <1>8
  <2>2. \A k \in DOMAIN buffer : buffer[k].for # s
    BY <1>2, <1>4, <1>5, <2>1
  <2>3. \A k \in DOMAIN buffer : ~(k >= ChunkSamples)
    BY <1>1, <1>4 DEF BufferInv
  <2> QED BY <2>1, <2>2, <2>3 DEF SessionsInv, StaleHead
<1>9. ASSUME NEW s \in Sessions
      PROVE  /\ Sound(Received(s)', s, captured' - Len(buffer'))
             /\ s > begun' => Received(s)' = <<>>
  BY <1>1, <1>2, <1>7 DEF SessionsInv
<1>10. ASSUME NEW s \in Sessions, s = target'
       PROVE  Received(s)' = <<>> /\ StaleHead(buffer, s)'
  BY <1>1, <1>7, <1>8, <1>10 DEF StaleHead
<1>11. SessionsInv'
  BY <1>9, <1>10 DEF SessionsInv
<1> QED BY <1>3, <1>6, <1>11

-----------------------------------------------------------------------------
LEMMA PathInit == Init => PathInv
<1> SUFFICES ASSUME Init PROVE PathInv
  OBVIOUS
<1>1. <<>> \in Seq(Samples) /\ <<>> \in Seq(Chunks) /\ Len(<<>>) = 0
  BY EmptySeq
<1>2. PathTypes
  <2>1. chan \in [Sessions -> Seq(Chunks)] /\ heard \in [Sessions -> Seq(Chunks)]
    BY <1>1 DEF Init
  <2>2. begun \in 0 .. MaxSessions /\ captured \in 0 .. MaxCaptured
    BY DEF Init
  <2>4. sending \in BOOLEAN
    BY Zenon DEF Init
  <2>3. target \in Sessions \cup {NoSession} /\ over \subseteq Sessions /\ buffer \in Seq(Samples)
    BY <1>1 DEF Init
  <2> QED BY <2>1, <2>2, <2>3, <2>4 DEF PathTypes
<1>3. BufferInv
  BY <1>1 DEF Init, BufferInv, Timed
<1>4. \A s \in Sessions : Received(s) = <<>>
  <2>1. <<>> \o <<>> = <<>>
    BY <1>1, ConcatEmptySeq
  <2> QED BY <2>1 DEF Init, Received
<1>5. SessionsInv
  <2>1. \A s \in Sessions : s # target
    BY DEF Init
  <2>2. \A s \in Sessions : Sound(<<>>, s, captured - Len(buffer))
    BY <1>1 DEF Sound
  <2> QED BY <1>4, <2>1, <2>2 DEF SessionsInv
<1> QED BY <1>2, <1>3, <1>5 DEF PathInv

LEMMA PathStep == PathInv /\ [Next]_vars => PathInv'
<1> SUFFICES ASSUME PathInv, [Next]_vars PROVE PathInv'
  OBVIOUS
<1>1. CASE UNCHANGED vars
  <2>1. /\ UNCHANGED <<target, begun, buffer, sending, captured, over>>
        /\ UNCHANGED <<chan, heard>>
    BY <1>1 DEF vars
  <2>2. PathTypes'
    BY <2>1 DEF PathInv, PathTypes
  <2>3. BufferInv'
    BY <2>1 DEF PathInv, BufferInv, Timed
  <2>4. SessionsInv'
    BY <2>1 DEF PathInv, SessionsInv, Received, StaleHead, Own
  <2> QED BY <2>2, <2>3, <2>4 DEF PathInv
<1> QED
  BY <1>1, TargetStep, SendStep, CallbackStep, ConsumeStep, EndStep DEF Next

LEMMA PathAlways == Spec => []PathInv
  BY PathInit, PathStep, PTL DEF Spec

(* The variables of the audio path keep their types. *)
THEOREM PathTypeCorrect == Spec => []TypeOK
<1>1. PathInv => TypeOK
  <2>1. Chunks \subseteq Seq(Samples)
    BY DEF Chunks
  <2>2. Seq(Chunks) \subseteq Seq(Seq(Samples))
    BY <2>1, SeqMonotonic
  <2> QED BY <2>2 DEF PathInv, PathTypes, TypeOK
<1> QED BY <1>1, PathAlways, PTL

(* No chunk bridges a gap: its samples were captured one right after the   *)
(* other, whatever targets came, went or were missing, and whichever       *)
(* chunks a full channel lost (audio.rs:100-113, 243-248).                 *)
THEOREM ChunksUnbroken == Spec => []NoSplice
<1>1. PathInv => NoSplice
  <2> SUFFICES ASSUME PathInv, NEW s \in Sessions, NEW i \in DOMAIN Received(s)
      PROVE Unbroken(Received(s)[i])
    BY DEF NoSplice
  <2>1. Received(s) \in Seq(Chunks)
    BY ReceivedSeq DEF PathInv
  <2>2. Received(s)[i] \in Chunks
    BY <2>1, LenProperties
  <2> QED BY <2>2 DEF Chunks
<1> QED BY <1>1, PathAlways, PTL

(* No sample comes twice or out of order (audio.rs:243-248).               *)
THEOREM SamplesInOrder == Spec => []InOrder
<1>1. PathInv => InOrder
  <2> SUFFICES ASSUME PathInv, NEW s \in Sessions
      PROVE  /\ \A i, j \in DOMAIN Received(s) : i < j => Before(Received(s)[i], Received(s)[j])
             /\ \A i \in DOMAIN Received(s) : Before(Received(s)[i], buffer)
    BY DEF InOrder
  <2>1. /\ Received(s) \in Seq(Chunks) /\ DOMAIN Received(s) = 1 .. Len(Received(s))
        /\ Sound(Received(s), s, captured - Len(buffer))
    BY ReceivedSeq, LenProperties DEF PathInv, SessionsInv
  <2>2. /\ buffer \in Seq(Samples) /\ DOMAIN buffer = 1 .. Len(buffer) /\ Len(buffer) \in Nat
        /\ captured \in Nat
    BY LenProperties DEF PathInv, PathTypes
  <2>3. ASSUME NEW i \in DOMAIN Received(s), NEW k \in DOMAIN Received(s)[i], NEW l \in DOMAIN buffer
        PROVE  Received(s)[i][k].at < buffer[l].at
    <3>1. Received(s)[i] \in Seq(Samples) /\ k \in 1 .. Len(Received(s)[i])
      BY <2>1, LenProperties DEF Chunks
    <3>2. Received(s)[i][k].at \in Nat
      BY <3>1, SampleFacts, ElementOfSeq
    <3>3. Received(s)[i][k].at <= captured - Len(buffer)
      BY <2>1 DEF Sound
    <3>4. buffer[l].at = captured - Len(buffer) + l /\ l \in 1 .. Len(buffer)
      BY <2>2 DEF PathInv, BufferInv, Timed
    <3> QED BY <2>2, <3>2, <3>3, <3>4
  <2> QED BY <2>1, <2>3 DEF Sound, Before
<1> QED BY <1>1, PathAlways, PTL

(* Audio of another time is less than a chunk, at the head of the first    *)
(* chunk of a session (audio.rs:110-113, 243-248).                         *)
THEOREM StaleAudioBounded == Spec => []StaleOnlyAtHead
<1>1. PathInv => StaleOnlyAtHead
  <2> SUFFICES ASSUME PathInv, NEW s \in Sessions
      PROVE  /\ \A i \in DOMAIN Received(s) :
                  IF i = 1 THEN StaleHead(Received(s)[i], s) ELSE Own(Received(s)[i], s)
             /\ s = target => IF Received(s) = <<>> THEN StaleHead(buffer, s) ELSE Own(buffer, s)
    BY DEF StaleOnlyAtHead
  <2>1. /\ DOMAIN Received(s) = 1 .. Len(Received(s))
        /\ Sound(Received(s), s, captured - Len(buffer))
    BY ReceivedSeq, LenProperties DEF PathInv, SessionsInv
  <2> QED BY <2>1 DEF PathInv, SessionsInv, Sound
<1> QED BY <1>1, PathAlways, PTL

(* A stop loses less than a chunk of what was captured: the callback never *)
(* lets go of the target with a whole chunk in its buffer                  *)
(* (audio.rs:243-248).                                                     *)
THEOREM TailLostBounded == Spec => TailLostShort
<1>1. PathInv /\ [Next]_vars => (target' # target => Len(buffer) < ChunkSamples)
  <2> SUFFICES ASSUME PathInv, Next, target' # target PROVE Len(buffer) < ChunkSamples
    BY DEF vars
  <2>1. ~sending
    BY DEF Next, SetTarget, ClearTarget, SendChunk, Callback, Consume, SessionEnds
  <2> QED BY <2>1 DEF PathInv, BufferInv
<1> QED BY <1>1, PathAlways, PTL DEF Spec, TailLostShort

=============================================================================
