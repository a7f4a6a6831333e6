------------------------------ MODULE AudioPath ------------------------------
(***************************************************************************)
(* The way of the microphone's samples to the sessions (audio.rs): the     *)
(* callback of the global stream cuts them into chunks and offers each to  *)
(* the bounded channel of the current target.  The buffer that collects a  *)
(* chunk belongs to the callback and outlives every target.                *)
(*                                                                         *)
(* A sample is its number and the session that was the target when it was  *)
(* captured; the code transmits neither.  The resampler in between is a    *)
(* module of its own, and here passes one sample for each.                 *)
(***************************************************************************)
EXTENDS Naturals, Sequences

CONSTANTS
  MaxSessions,  (* bound on the sessions that become the target            *)
  NoSession,    (* the target is None                                      *)
  ChunkSamples, (* chunk_samples, 3200 in the code                         *)
  ChanCap,      (* capacity of a session's channel, 16 in the code         *)
  MaxBurst,     (* bound on the samples of one callback                    *)
  MaxCaptured   (* bound on the samples ever captured                      *)

Sessions == 1 .. MaxSessions

ASSUME AudioAssumption ==
  /\ MaxSessions \in Nat /\ NoSession \notin Nat
  /\ ChunkSamples \in Nat \ {0} /\ ChanCap \in Nat \ {0}
  /\ MaxBurst \in Nat \ {0} /\ MaxCaptured \in Nat

VARIABLES
  target,   (* the session whose sender the target holds, or None          *)
  begun,    (* sessions that became the target so far                      *)
  buffer,   (* samples that do not make a chunk yet                        *)
  sending,  (* the callback is in its loop, and holds the target's lock    *)
  captured, (* samples captured so far                                     *)
  chan,     (* the channel of each session, as chunks                      *)
  heard,    (* the chunks each session has taken from its channel          *)
  over      (* sessions whose receiver is gone                             *)

vars == <<target, begun, buffer, sending, captured, chan, heard, over>>

Samples == [at : 1 .. MaxCaptured, for : Sessions]

Init ==
  /\ target = NoSession
  /\ begun = 0
  /\ buffer = <<>>
  /\ sending = FALSE
  /\ captured = 0
  /\ chan = [s \in Sessions |-> <<>>]
  /\ heard = [s \in Sessions |-> <<>>]
  /\ over = {}

(* set_target with the sender of a new session. *)
SetTarget ==
  /\ ~sending
  /\ begun < MaxSessions
  /\ begun' = begun + 1
  /\ target' = begun + 1
  /\ UNCHANGED <<buffer, sending, captured, chan, heard, over>>

ClearTarget ==
  /\ ~sending
  /\ target # NoSession
  /\ target' = NoSession
  /\ UNCHANGED <<begun, buffer, sending, captured, chan, heard, over>>

(* Variant: without a target the samples are dropped, the buffer is kept. *)
CallbackKeepsBuffer(n) ==
  /\ ~sending
  /\ captured + n <= MaxCaptured
  /\ captured' = captured + n
  /\ buffer' = IF target = NoSession THEN buffer
               ELSE buffer \o [i \in 1 .. n |-> [at |-> captured + i, for |-> target]]
  /\ sending' = (target # NoSession /\ Len(buffer') >= ChunkSamples)
  /\ UNCHANGED <<target, begun, chan, heard, over>>

(* Variant: the samples are collected whether or not there is a target. *)
CallbackUngated(n) ==
  /\ ~sending
  /\ captured + n <= MaxCaptured
  /\ captured' = captured + n
  /\ buffer' = buffer \o [i \in 1 .. n |-> [at |-> captured + i, for |-> target]]
  /\ sending' = (target # NoSession /\ Len(buffer') >= ChunkSamples)
  /\ UNCHANGED <<target, begun, chan, heard, over>>

(* process_f32, process_i16, process_u16 and push_samples up to the loop:  *)
(* n samples are captured; without a target they and the buffer go.        *)
Callback(n) ==
  /\ ~sending
  /\ captured + n <= MaxCaptured
  /\ captured' = captured + n
  /\ buffer' = IF target = NoSession THEN <<>>
               ELSE buffer \o [i \in 1 .. n |-> [at |-> captured + i, for |-> target]]
  /\ sending' = (target # NoSession /\ Len(buffer') >= ChunkSamples)
  /\ UNCHANGED <<target, begun, chan, heard, over>>

(* Variant: the loop ends after one chunk. *)
SendOneChunk ==
  /\ sending
  /\ buffer' = SubSeq(buffer, ChunkSamples + 1, Len(buffer))
  /\ sending' = FALSE
  /\ chan' = IF target \in over \/ Len(chan[target]) >= ChanCap THEN chan
             ELSE [chan EXCEPT ![target] = Append(@, SubSeq(buffer, 1, ChunkSamples))]
  /\ UNCHANGED <<target, begun, captured, heard, over>>

(* Variant: one sample too few is cut off. *)
SendChunkOverlaps ==
  /\ sending
  /\ buffer' = SubSeq(buffer, ChunkSamples, Len(buffer))
  /\ sending' = (Len(buffer') >= ChunkSamples)
  /\ chan' = IF target \in over \/ Len(chan[target]) >= ChanCap THEN chan
             ELSE [chan EXCEPT ![target] = Append(@, SubSeq(buffer, 1, ChunkSamples))]
  /\ UNCHANGED <<target, begun, captured, heard, over>>

(* Variant: the loop stops at a buffer of just one chunk. *)
SendChunkStrict ==
  /\ sending
  /\ buffer' = SubSeq(buffer, ChunkSamples + 1, Len(buffer))
  /\ sending' = (Len(buffer') > ChunkSamples)
  /\ chan' = IF target \in over \/ Len(chan[target]) >= ChanCap THEN chan
             ELSE [chan EXCEPT ![target] = Append(@, SubSeq(buffer, 1, ChunkSamples))]
  /\ UNCHANGED <<target, begun, captured, heard, over>>

(* One turn of the loop: a chunk is cut off, and try_send drops it when    *)
(* the channel is full or its receiver gone.                               *)
SendChunk ==
  /\ sending
  /\ buffer' = SubSeq(buffer, ChunkSamples + 1, Len(buffer))
  /\ sending' = (Len(buffer') >= ChunkSamples)
  /\ chan' = IF target \in over \/ Len(chan[target]) >= ChanCap THEN chan
             ELSE [chan EXCEPT ![target] = Append(@, SubSeq(buffer, 1, ChunkSamples))]
  /\ UNCHANGED <<target, begun, captured, heard, over>>

(* audio_rx.recv of run_session. *)
Consume(s) ==
  /\ s \notin over
  /\ chan[s] # <<>>
  /\ heard' = [heard EXCEPT ![s] = Append(@, Head(chan[s]))]
  /\ chan' = [chan EXCEPT ![s] = Tail(@)]
  /\ UNCHANGED <<target, begun, buffer, sending, captured, over>>

(* The session ends, by itself or aborted; the target may still hold its   *)
(* sender.                                                                 *)
SessionEnds(s) ==
  /\ s <= begun /\ s \notin over
  /\ over' = over \cup {s}
  /\ chan' = [chan EXCEPT ![s] = <<>>]
  /\ UNCHANGED <<target, begun, buffer, sending, captured, heard>>

Next ==
  \/ SetTarget \/ ClearTarget \/ SendChunk
  \/ \E n \in 1 .. MaxBurst : Callback(n)
  \/ \E s \in Sessions : Consume(s) \/ SessionEnds(s)

Spec == Init /\ [][Next]_vars

-----------------------------------------------------------------------------
TypeOK ==
  /\ target \in Sessions \cup {NoSession}
  /\ begun \in 0 .. MaxSessions
  /\ buffer \in Seq(Samples)
  /\ sending \in BOOLEAN
  /\ captured \in 0 .. MaxCaptured
  /\ chan \in [Sessions -> Seq(Seq(Samples))]
  /\ heard \in [Sessions -> Seq(Seq(Samples))]
  /\ over \subseteq Sessions

(* All a session hears or is about to hear, in chunks. *)
Received(s) == heard[s] \o chan[s]

Unbroken(chunk) == \A j \in 1 .. Len(chunk) - 1 : chunk[j + 1].at = chunk[j].at + 1

(* No chunk bridges a gap: its samples were captured one right after the   *)
(* other, whatever targets came, went or were missing (audio.rs:110-113).  *)
NoSplice ==
  \A s \in Sessions : \A i \in DOMAIN Received(s) : Unbroken(Received(s)[i])

Before(q, r) == \A k \in DOMAIN q, l \in DOMAIN r : q[k].at < r[l].at

(* A session hears no sample in two chunks and none out of order, and what *)
(* is still in the buffer is newer than all that went out (audio.rs:243).  *)
InOrder ==
  \A s \in Sessions :
    /\ \A i, j \in DOMAIN Received(s) : i < j => Before(Received(s)[i], Received(s)[j])
    /\ \A i \in DOMAIN Received(s) : Before(Received(s)[i], buffer)

Own(q, s) == \A k \in DOMAIN q : q[k].for = s

(* Less than a chunk of another time, then the session's own audio. *)
StaleHead(q, s) ==
  /\ \A k, l \in DOMAIN q : k < l /\ q[k].for = s => q[l].for = s
  /\ \A k \in DOMAIN q : k >= ChunkSamples => q[k].for = s

(* Audio of another time can only be the head of the first chunk that a    *)
(* session receives, and is less than that chunk; what follows, up to what *)
(* is in the buffer, is its own: the buffer outlives its target            *)
(* (audio.rs:110-113, 243-248).                                            *)
StaleOnlyAtHead ==
  \A s \in Sessions :
    /\ \A i \in DOMAIN Received(s) :
         IF i = 1 THEN StaleHead(Received(s)[i], s) ELSE Own(Received(s)[i], s)
    /\ s = target => IF Received(s) = <<>> THEN StaleHead(buffer, s) ELSE Own(buffer, s)

(* What a session never hears of its own audio, though it was captured and *)
(* no full channel refused it, is less than a chunk: whenever a stop or    *)
(* another session takes the microphone from it, all that makes a chunk    *)
(* has been offered (audio.rs:243-248, as the callback holds the target's  *)
(* lock over its loop).                                                    *)
TailLostShort ==
  [][target' # target => Len(buffer) < ChunkSamples]_vars

=============================================================================
