# A TLA+ model of fcitx5-anytalk

fcitx5-anytalk is a voice input method: a C++ addon of Fcitx5 reacts to keys and
shows text, and `anytalk-daemon`, a Rust program on tokio, owns the microphone
and talks to a cloud speech recogniser (ASR) over a websocket. Addon and daemon
exchange lines of JSON over a Unix socket.

This directory models the two programs, checks them with TLC on small instances,
and proves the most important safety properties with TLAPS for every value of the
constants. Source paths below are relative to the
repository.

## 1. Inventory

### Components, their state and operations

| Component | Source | State | Operations |
|---|---|---|---|
| Hot-spare pool | `anytalk-daemon/src/asr.rs` 17-78 | `spare` (mutex), `notify_consumed` | `take`, the loop of `run_maintainer` |
| Client handler | `anytalk-daemon/src/ipc.rs` 44-183 | `session`, `draining_task`, the answer channel (32), the socket | one arm per line: start, stop, cancel, other; forwarding of answers; end of file, read error |
| Session task | `asr.rs` 152-249, `ipc.rs` 124-135 | `audio_active`, position in the select loop | set-up, audio, last frame, responses, server error, end, abort |
| Audio path | `anytalk-daemon/src/audio.rs` 11-157, 212-249 | `target`, the callback's `buffer`, each session's channel (16) | `set_target`, `clear_target`, the stream callback, `push_samples` |
| Resampler | `audio.rs` 159-210 | `pos`, `tail` | `process` |
| Engine | `src/addon.cpp` | `recording_`, `current_state_`, `active_ic_`, preedit | `keyEvent`, `setStatus`, `updatePreedit`, `commitText`, `deactivate` |
| IPC client | `src/ipc_client.cpp` | `sock_`, `running_`, `recv_buffer_` | `start`, `stop`, `sendJson`, the receive loop (two threads) |
| Text extraction | `asr.rs` 123-228, 251-328 | `last_committed_end_time`, `last_full_text` | `parse_asr_texts` on every response |
| Socket take-over | `anytalk-daemon/src/main.rs` 38-159 | the socket file | set-up, probe, remove, bind, serve, clean-up |
| Daemon manager | `src/daemon_manager.cpp` | `daemon_pid_` | `start`, `stop`, `isRunning` |
| Wire protocol | `anytalk-daemon/src/protocol.rs` | none | frame building and parsing |
| Configuration | `config.rs` | none | reads the environment once |
| Errors, build files | `error.rs`, CMake, Cargo | none | none |

### Interactions

* Engine -> IPC client -> socket -> handler: lines `start` and `stop`
  (`sendCancel` exists and is never called).
* Handler -> socket -> receive thread -> Fcitx's event dispatcher -> engine:
  statuses, partial and final texts, errors. The engine ignores errors.
* Handler <-> pool: `take` under a mutex; the maintainer is woken by a `Notify`.
* Handler -> session: `tokio::spawn` and `abort`; session -> handler: a bounded
  channel; a session whose handler is gone keeps running.
* Handlers -> audio: **one** target for all of them, behind a mutex that the
  audio callback also takes. Dropping the sender in the target is the signal by
  which a session learns that it was stopped.
* Session <-> ASR service: frames up, responses down; each response repeats all
  that was heard so far.
* Engine's main thread <-> receive thread: `sock_` and `recv_buffer_`, with a mutex
  that is not held over system calls.
* Fcitx -> daemon: `fork`, `SIGTERM`, `SIGKILL`, `waitpid`, and a death signal.
* Daemon <-> daemon: the socket file, and connections made to see who answers.

### Hard behaviours, and what makes each part correct

* *Pool*: the wake-up must not be lost when a `take` falls between the store and
  the wait; no connection is handed out twice or overwritten.
* *Handler and sessions*: abort is asynchronous, the choice between a line and an
  answer is random, an answer of an earlier session may arrive during a later
  one, and any connection may close at any step. The microphone must follow the
  active session; no session may stray; each one must end.
* *Audio*: the buffer outlives its target and channels drop chunks when full:
  no reordering, no chunk with a hole, no audio of another time past the head.
* *Resampler*: positions carried over calls must not drift, and every slice must
  be in range.
* *Engine*: it assumes states ("idle" on stop) before the daemon answers; both
  must agree again when everything has settled.
* *Text extraction*: every response repeats the earlier ones, some are cut short or
  carry nothing. What was heard must be committed once, in order and completely,
  and a session must end with the final frame and no other.
* *IPC client*: a descriptor number is read under the mutex and used after it, when
  it may stand for another connection. None may leak or be closed under its
  owner; no line may be spliced; a lost connection must be made again; `stop` must
  return.
* *Take-over*: the probe, the removal and the bind are three steps. A living daemon
  must keep its socket, a dead one's must keep nobody out.
* *Daemon manager*: `kill(pid, 0)` also finds zombies. A finished `stop` leaves no
  child, and always finishes.

`PROJECT.json` lists each hazard at its line with the properties that cover it.

## 2. Modules

| Module | Models | Extends / instances |
|---|---|---|
| `ConnectionPool` | the pool | `SpareLifecycle` as `Abstract` |
| `SpareLifecycle` | abstract: what happens to a connection of the pool, seen from outside | |
| `Daemon` | handlers, session tasks, the target; the pool reduced to "is there a spare" | `RecordingLifecycle` as `Abstract` |
| `RecordingLifecycle` | abstract: what happens to a recording, seen from outside | |
| `AudioPath` | callback, chunks, channels, target | |
| `Resampler` | positions of the streaming resampler | |
| `Engine` | the engine's handlers | |
| `Dictation` | user + engine + connection + daemon | extends `Daemon`; `Engine` as `E` |
| `Protocol` | the frames of the ASR service as records | |
| `Recognition` | one session's frames and responses, `parse_asr_texts`, the texts shown and committed | extends `Protocol` |
| `SocketTakeover` | daemon processes around the socket file | |
| `DaemonManager` | Fcitx processes that start and stop daemons | extends `SocketTakeover` |
| `IpcClient` | the two threads of the client over one socket | |
| `*Proofs` (eight of them) | theorems | the module of that name |
| `MC*` | TLC instances | the module of that name |

Definitions marked `Variant:` are plausible bugs of the definition that follows
them. They are used by no specification; each shows that a property notices it.

### ConnectionPool
`spare` is the slot, `permit` the one permit a `Notify` stores, `mpc` the place of
the maintainer between two awaits, `held` the connections each handler took. One
action is one critical section or one await: `CheckSpare`, `DialOk`/`DialFail`,
`StoreSpare`, `BackoffOver` (3 s), `Listen` (from here on it is the waiter), `Notified`, `CooldownOver` (100 ms), `Take`.

### SpareLifecycle
A connection is fresh, dialled, spare or used. None is dialled while another is idle,
and a spare goes to one handler for good.
`ConnectionPool` implements it under the mappings `Stage` and `Users`.

### Daemon
`hpc[c]` says where the handler of connection `c` waits: in its `select`, in
`pool.take()` (`take`), in the dial on demand (`dial`), or that it returned
(`closed` after an end of file, `failed` after a read error). While it is in `take`
or `dial` no line and no answer is looked at, as in the code. Each arm of the
select up to its next await is one action. `session` and `draining` are the two
join handles; `resp` is the answer channel with capacity `RespCap`; `outbox` is
what was written to the socket and not read. The socket holds `MaxUnread` messages;
the one after that is still in the handler's `write_all`, where the handler waits
(`Writing`) and looks at neither lines nor answers, though all that the arm did
before it wrote is done.

A session task is `opening` (sending its set-up), in its `loop`, `ending` (what is
left to say, with `idle` last), `over` or `cancelled`. `mic` is `audio_active`:
`open`, `ended` after the last frame, `broken` after a failed send. `outgoing` is
what the task must send before it goes on, one message per step, as each send
awaits room. `abort` adds to `aborted`; the task may take further steps until
`Cancelled`.

A client that closes with unread messages resets the connection: the handler
reads what was sent before and then gets an error, not an end of file. A line that
is no UTF-8 (`garbled`) is a read error, too.

### RecordingLifecycle
A recording is fresh, recording, draining or over; only one records at a time, it
never gets the microphone back, and it ends once. `Daemon` implements it under
the mapping `Life`.

### AudioPath
Samples carry their number and the target at the time of capture, so that order,
holes and staleness can be stated. `Callback` is `process_*` up to the loop in
`push_samples`; `SendChunk` is one turn of the loop. The callback holds the target's
lock for the whole loop, so `SetTarget` and `ClearTarget` wait for `sending` to be
false; sessions take chunks and end at any time.

### Resampler
Positions are integers in units of 1/OutRate, so that a step is exactly InRate.
The code's `f64` rounds where the model is exact. `Feed`, `Emit` (one turn of the
loop) and `Trim` (the new tail) are the parts of `process`; the slice
`merged[keep_from..]` sets `panicked` when it is out of range. With equal rates
`process` passes its input through, so that the module assumes different ones.

### Engine and Dictation
`Engine` has one action per handler of `addon.cpp`. `ignore_next_commit_` is never
set to true and `last_text_` never read; neither is modelled. That a text field
losing the focus is deactivated and loses its preedit is Fcitx's behaviour.
`Dictation` joins a key press with the line it sends, and a message at the head
of the outbox with the handler it reaches: receive thread and event dispatcher
keep the order. The connection stays up, and the user presses a key when nothing is
under way (`Quiet`); `Daemon` has clients in a hurry.

### Protocol and Recognition
A frame is a record of what its bytes encode; `ParseServerMessage` decides by length,
version, header size and type, in the order of the code. The session of
`Recognition` is alone: `SendFrame` is a send that may fail, after which `audio_active`
is false and nobody is told (`mic = "broken"`); `Receive` is the whole arm of
`ws_read.next()`. A text is a sequence of words with `Blank` for white space, so that
`Trim` and prefixes are what they are in the code. The service is external: it
reports the whole audio in each response, as utterances or as one text, keeps one
form for a session, changes its mind about what is not definite, and makes
utterances definite in their order. Responses may be cut short (`len` 15 of 16) or
carry no result. After the last frame the final response has flags 3.

### SocketTakeover and DaemonManager
`file` is the daemon that bound the socket file, or none. Each system call on the
file is a step; a removal may fail, at the start as at the end. `Answered` is whether a connect succeeds: from the bind until the
process is gone, also while it leaves. The daemon sleeps between its probes and
exits after the last one. SIGTERM kills until the handler is registered, and is a
reason to leave the loop from then on. `DaemonManager` adds the parents: `child` is
`daemon_pid_`, a dead child is `dead` (a zombie) until it is `reaped`, `stop` is a loop
of polls, SIGKILL and a blocking wait. Outside of `stop`, Fcitx's main loop may
reap the child (`ReapedElsewhere`), after which `stop` finds no process and does
nothing; pids are not used again. `Fcitx` may crash at any step, whereupon its
child gets SIGTERM. `overlap`, `alone` and `excused` are history variables.

### IpcClient
`pc` says where each thread is between two critical sections or system calls, `fd` is
its local copy of the descriptor, `conn` the connection behind each descriptor. A
number is free as soon as it is closed, so that it may be used for a newer
connection while a thread still holds it. `reading` is the connection on which the
receive thread is blocked, whatever becomes of the number: what had arrived on it
before the descriptor was closed can still be received. `Send` and `SendNewline` are
the two calls for one line. The daemon sends one line
on each connection, in two halves. `linked`, `relinked`, `late` and `spliced` are
history variables. With a main thread that sends for ever, each thread can go on
closing the other's fresh socket under a reused number; therefore `Heals` asks for a
user who stops pressing keys.

## 3. Runs

| Run | Instance | Question | Result |
|---|---|---|---|
| `pool` | 2 handlers, 4 dials | lost wake-ups, lost connections, implements `SpareLifecycle`, refill | holds |
| `daemon_one` | 1 connection, 3 lines of every kind (one of them no text), 2 sessions, 1 text | one handle at a time, last frame last, idle last, microphone kept, implements `RecordingLifecycle`; released sessions end, everything settles | holds |
| `daemon_two` | 2 connections, 2 lines each, 2 sessions, a socket that is always full, symmetric | the inductive invariant and its parts when connections take the microphone from each other | holds |
| `daemon_drop` | 1 connection, 1 line | audio stops if the client drops (comment, `ipc.rs` 179) | **violated** |
| `dictation` | 5 keys, 3 sessions, 2 text fields | engine and daemon agree; text follows the focus | holds |
| `audio` | 3 targets, chunks of 3, bursts up to 7, 12 samples | order, holes, bounds of stale and of lost audio | holds |
| `resample` | 44.1 kHz (441/160), 60 samples | no drift, no loss, no panic | holds |
| `recognition` | 2 utterances, 3 responses before the final one, both forms, default mode and `nostream` | committed once, in order, completely; preedit; end of the session | holds |
| `text_once` | 1 utterance, 2 responses, default mode | a text is committed once (API document, 458) | **violated** |
| `startup` | 1 Fcitx, 3 daemons, 2 probes, 1 poll | sockets of living daemons, stale files that can be removed, `stop` | holds |
| `two_daemons` | 3 daemons, 1 probe | two daemons never serve at once (comment, `main.rs` 84) | **violated** |
| `ipc_client` | 2 threads, 2 descriptors, 3 connections | descriptors, lines, reconnecting, `stop` | holds |

### Bounds, and why they are enough
* `MaxSessions` 2 (3 in `dictation`): an older and a newer session is what the
  interleavings of `start`, `stop` and late answers need; a third one is spawned
  after a handle was replaced. Three targets in `audio` let one be replaced and the
  next find it over.
* When all sessions are used up, a handler with a spare waits in `take` for ever:
  `Settles` accepts that state, which is the bound's doing and not the code's.
* `MaxLines`: three lines are start-stop-start and start-start-stop, after which
  both handles have been taken, replaced and aborted. Two connections with two
  lines each can take the microphone from each other and give it back.
* `Lines`: all five kinds with one connection; start and stop where the others
  only multiply states, and where the engine sends nothing else.
* `RespCap` 1 (32 in the code) and `MaxUnread` 1 make a full channel and a full socket
  the common case; a session has up to three messages to send. With two connections
  `MaxUnread` is 0: a handler that wrote waits until its client reads or is gone. What
  the others see of a client with more unread messages, an end of file or a reset, is
  the same.
* `MaxTexts`: three text responses in `dictation`, one in `daemon_one`, in three shapes
  (partial, final, both); none where the property does not look at texts.
* `MaxDials` 4 with two handlers: every handler takes at least once while the
  other one does.
* `ChanCap` 1, chunks of 3 and bursts of 7: a callback yields up to three chunks,
  of which a full channel drops some.
* `MaxFed` 60 at 441/160: more than twenty outputs, each with another phase, with
  the input cut in every way.
* `MaxUtterances` 2, `MaxResponses` 3: an utterance can be reported open, revised and
  definite, and be repeated beside a second one.
* `Daemons` 3, `MaxProbes` 2, `MaxPolls` 1 (5 and 10 in the code): a dead daemon's file,
  a daemon that serves and one that looks; a daemon that waits for another one to
  leave, and a child that does not end in time.
* `Conns` 3 with two descriptors: one connection is the socket, one has just been
  made, and one is still blocked on though its descriptor was closed.

Deadlock is not checked where bounded runs stop because the bounds are used up
(all but `pool`), or where the system really ends (`startup`, `ipc_client`,
`recognition`).

### Fairness
* `ConnectionPool`: the maintainer is a spawned task and its sleeps end (weak
  fairness of each step). Dials are answered, and succeed infinitely often if
  tried infinitely often: without it nothing can be promised, as the code retries
  every three seconds for ever.
* `Daemon`: tokio runs every task that can go on: weak fairness of each handler, and
  of each session (`TaskGoesOn`: its own steps, an abort, and `ServerEnds`). A dial
  returns. After the last frame the server answers or the connection ends
  (`ServerEnds`); the code has no timeout of its own there. A client that stays
  reads, or `write_all` would wait for ever; it owes no line.
* `Recognition`: the set-up is sent or fails; after the last frame the service settles
  what it heard and answers. A session whose last frame could not be sent ends only
  with the connection, and nothing is promised for it.
* `DaemonManager`: `stop` runs on, and a daemon starts up (or fails to) in bounded
  time. Nothing is assumed of its end, so that `StopReturns` relies on SIGKILL.
* `IpcClient`: both threads run. The user and the daemon owe nothing.

Four properties of the kind "what began comes to an end" are written `[]<>` of the
end, not as leads-to: `ReleasedSessionsEnd`, `AloneServes`, `StopReturns`, `StopJoins`.
They say the same: a session never gets the microphone again, a daemon that serves
leaves only for a reason that excuses it, `excused` and `overlap` never shrink, and
`stop` runs once; so what is infinitely often over, once begun, stays over. TLC
checks this form much faster.

## 4. Proofs

All proofs are checked by tlapm with Z3, Zenon and LS4.

* **`ConnectionPoolProofs`**: `PoolInvariant`, for any set of handlers and any
  number of dials. `PoolInv` strengthens the four properties: outside its wait the
  maintainer finds the slot empty and no permit stored, and a stream that is
  about to be stored is with nobody. Without this, `NoLostWakeup` is not
  inductive: `StoreSpare` could overwrite. `PoolNeverStalls`, `PoolKeepsConnections`
  and `PoolHandsOutOnce` follow. `PoolImplementsSpareLifecycle` is the refinement of
  `SpareLifecycle`: of the steps only `DialOk`, `StoreSpare` and `Take` are seen, and
  `PoolInv` gives each its guard, above all that the slot is empty when a dial
  succeeds and when its stream is stored.
* **`DaemonProofs`**: `DaemonInvariant`, for any connections, sessions and
  capacities. `DaemonInv` = types + `Structure`. The strengthening is that sessions
  are spawned in order, a handle belongs to the handler that spawned its
  session, and a handler outside its select holds none; with it, a fresh session
  number is in no handle and not the target, which is what every property
  needs in `Begin`. `MicrophoneFollowsSession`, `HandlerHoldsOneHandle`,
  `NoSessionStrays` and `NoAudioAfterLastFrame` are its parts. `IdleIsLastWord` needs a
  second invariant, `AnswerInv`, over what a task has yet to send and the two queues
  behind it: what a running session says ends with at most one idle, which only the
  state `ending` has; an idle in a queue is of a session that is over; and whatever
  passes from one queue into the next keeps its turn (`InTurn`).
  `DaemonImplementsLifecycle` is the refinement of `RecordingLifecycle`: each
  daemon step is a step of one recording or a stutter, because `MicFollowsSession`
  and `SpawnedInOrder` say which phase the target can have. `OnlyReadErrorKeepsMic` and
  `AudioStopsUnlessReadError` say how far the finding of run `daemon_drop` goes: no way
  out of the handler but the read error leaves the microphone on.
  `DaemonDrivesAudioPath` joins two components: seen through the mapping of `Audio`,
  which has the target and the sessions but no sample, each step of the daemon is one
  that `AudioPath` allows its environment, or a stutter. The theorems about
  `AudioPath` therefore leave out nothing that the handlers may do to it.
* **`ResamplerProofs`**: `ResamplerKeepsPhase` and `ResamplerEmitsAll` for any two
  rates: no drift and no loss, however the input is cut, and an output that
  depends on the total input alone. `ResamplerInRange` (no panic) and
  `ResamplerKeepsTailShort` assume `InRate <= 3 * OutRate`, that is up to 48 kHz; the
  first one needs it, see below. The second one is no property of a run, as what a
  longer tail would do is in the other three.

The assumptions are the named `ASSUME`s of the modules: bounds are naturals,
capacities positive, null values outside the sets they complete. TLC evaluates
them in every run.

* **`DictationProofs`**: `FocusGetsText`, for any text fields. It needs that an
  `active_ic_` that is set has the focus, which `deactivate` and the focus events
  keep; the daemon's steps do not touch either. `EngineAgrees` is `LabelsAgree` for any
  number of keys, sessions and texts and any capacities. It composes `DaemonInv` and
  `ActiveHasMic`, which hold because every step of a dictation is a step of the daemon,
  with `LabelInv` on what is under way. Before a session begins nothing of an earlier
  one is left, in any queue; after a stop the label is off, and no `recording` is in the
  outbox; otherwise an `idle` is due exactly if the session does not run, or the label
  is right already, and no `recording` follows an `idle` in the outbox. All of this
  rests on the patience of the user: with a hasty one, the first part fails.
  `DictationRunsDaemon`: whatever is proved of `Daemon` holds behind the engine.
* **`AudioPathProofs`**: `ChunksUnbroken`, `SamplesInOrder` and `StaleAudioBounded`, for
  chunks, channels and bursts of any size. `PathInv` has three parts beside the types.
  The buffer holds the last samples captured, without a gap (`Timed`): hence a chunk
  cut off its front is unbroken. Between the loops of the callback it is shorter than
  a chunk, and no sample in it is for a session that has not begun: hence what a new
  target finds in it is foreign and less than a chunk. What a session received was
  captured before the buffer was, in order, and is its own after the first chunk
  (`Sound`); as soon as it received one, the buffer is its own, too.
  `TailLostBounded`: the target only changes between the loops of the callback, so
  what a session leaves in the buffer is less than a chunk.
* **`IpcClientProofs`**: `ClientInvariant`, for any descriptors and connections. A
  thread that has just connected owns its descriptor, the two threads' are
  different, and (until the main thread reconnects) all that is buffered or read
  is of the socket's connection, or the socket is closed and the buffer empty.
  `ClientOwnsDescriptors` and `ClientKeepsLines` are its parts.
* **`DaemonManagerProofs`**: `ManagerInvariant`, for any number of daemons and Fcitx
  processes. Unless two daemons start at once (`overlap`), one at most is starting,
  a daemon has its socket under the path from its bind to its unlink, and a
  daemon that is about to remove a file finds nobody in that stretch. Without the
  last part `SocketOfServing` is not inductive. `ServingKeepsSocket` and
  `StopLeavesNoChild` follow, and `OneDaemonUnlessOverlap`: the promise that run
  `two_daemons` refutes fails in no other interleaving, as both of two daemons that
  serve would own the one file.

* **`RecognitionProofs`**: all the safety properties of a session's texts, for any number
  of utterances and responses, any modes, and both forms of results.
  `RecognitionInv` ties the two memories of `parse_asr_texts` to what the service heard:
  the definite utterances are a prefix of what was heard and those reported a prefix of
  them (`HeardInv`); the finals are the transcript of the reported ones, and
  `last_committed_end_time` is the end of one of these with nothing but blanks behind
  it (`CommittedInv`), without which `CommittedOnceInOrder` is not inductive: a response
  could commit an old utterance again, or skip a new one; the preedit is the text of an
  utterance of which nothing is committed (`ShownInv`), though another text of it
  may have been heard since; and a session that is over has reported everything
  (`EndInv`). The loop over the utterances is the lemma `NewFinalsResult`, the case of
  a text that grows `TextFinalsSpell`. Both need induction over data. The library's
  induction theorems take an operator, so that `InductionOverNat` goes another way: it
  is about a *set* of naturals and follows from `WFMin` (a well-founded order has
  minimal elements), which takes sets only. `RecursionOverNat` then yields the
  recursive functions, and with them what `FlattenSeq`, `Trim` and the loop compute.
  That the end times are distinct and increasing, and that the texts of different
  utterances differ, is how the service is modelled; a service that breaks
  it is outside of these theorems. `UtterancesCommittedOnce`, `TextsSpelledOut`,
  `AllCommittedAtEnd`, `PreeditNotCommitted` and `RecognitionTypeCorrect` follow from
  the invariant. TLC has checked `RecognitionInv` on the instance of run `recognition`.

`DaemonProofs` also has `ActiveSessionHasMic`, for one connection: with two, the other
one may have taken the microphone.

Only model-checked: liveness, which is out of this prover's reach (`Replenished`,
`ReleasedSessionsEnd`, `Settles`, `EndsAfterStop`, `StopReturns`, `AloneServes`, `Heals`,
`StopJoins`). Every safety property of a passing run is proved. Each of the three findings
has a theorem on what holds all the same: `AudioStopsUnlessReadError`,
`OneDaemonUnlessOverlap` and `TextsSpelledOut`.

## 5. Where code and text disagree

1. `daemon_drop`: a read error returns by `line?` (`ipc.rs` 68), past the
   `clear_target` that is to "ensure audio stops if client drops unexpectedly". A
   Unix socket closed with unread messages reports just that error, and so does a
   line that is no UTF-8.
2. `two_daemons`: `connect` and `remove_file` are two steps (`main.rs` 88, 101). A daemon
   that found the socket of a dead one removes what is there by then, which may be
   the socket another daemon has just bound; both go on to serve, although "if
   another daemon is still alive" the second is to exit. `SocketOfServing` is what
   holds as long as no two start at once.
3. `text_once`: the API document (`doubao语音-api.md` 458) defines `text` as the text
   of the whole audio, and `utterances` as filled only with `show_utterances`, for
   which the request of `asr.rs` 123-150 does not ask. In the default mode
   `bidi_async` a result without utterances is committed whole at every response
   (`asr.rs` 313-315), so that a text that grows is committed again and again.
   `TextSpelledOut` is what holds in the other modes.

Seen while modelling, not part of a run:

* The `idle` of a session that was ended or aborted can still be in the answer
  channel when the next session starts, and then follows its `recording`: a user in
  a hurry sees AT while the daemon records, and the next F2 sends another start.
  Texts which an aborted session sent before it was cancelled can reach the client in
  the same way. `LabelsAgree` is for a user who waits.
* The target is shared: a stop, a cancel or the end of any connection, also of one
  that a second daemon made to see who answers (`main.rs` 88), takes the microphone
  from the dictation that runs. `MicFollowsSession` and `ReleasedSessionsEnd` say that
  its session then ends, not that it goes on.
* F2 while recording sends `stop`, like Enter; finals that come later are
  committed. README 76 says F2 cancels.
* The audio buffer is only cleared by a callback that finds no target (`audio.rs`
  111): a target replaced between two callbacks, or still holding the sender of an
  ended session, leaves up to a chunk less one sample of older audio.
  `StaleOnlyAtHead` is the bound that holds.
* A step somewhat above three (the usual device rates from 64 kHz on) takes
  `keep_from` past the end of `merged` (`audio.rs` 206), as `MCResampler` shows with
  `InRate = 4`, `OutRate = 1`.
* A failed dial is answered by an error only, which the engine ignores, so that
  `...` stays; a hasty second start whose dial fails leaves REC with nothing
  recording; RDY is announced for a spare that the server may have closed.
* A line can be put together from two connections when the main thread reconnects
  between the receive thread's `recv` and its append (`ipc_client.cpp` 247): hence
  `relinked` in `LinesIntact`.
* `stop` can hang when the receive thread installs a connection after `stop` closed
  the old one (`late` in `StopJoins`).
* The `idle` that tells the engine of a lost connection is lost when the main thread
  closes the socket and reconnects while the receive thread is not in `recv`.
* A daemon started while an older one is still leaving gives up after a second, and
  nothing starts it again.
* The receive thread or a key press can close a newer connection for the failure of an
  older one that had its descriptor number (`ipc_client.cpp` 181); `Heals` says that
  another one is made.

## 6. Not modelled, and why

* The byte layout of frames, websocket and TLS, logging, sample formats and values,
  the path of the socket, most of the configuration: pure conversions without a
  state of their own; the properties do not look at them.
* The engine under a connection that is lost and made again: `IpcClient` leaves the
  engine out, `Dictation` the reconnecting. Each alone is near TLC's limit here.
* The status action's drawing and icons, the configuration of the addon and its
  storage: they follow the state that is modelled and change none of it.
* The window between `fork` and `prctl` in which a dying Fcitx leaves an orphan.
* Rounding of `f64` in the resampler: the positions stay far below 2^53, but the
  error of adding an inexact step is not bounded here.
* The use of a pid by another process, after a child was reaped elsewhere.
* A user in a hurry, beyond what `Daemon` says for any order of lines: with one, engine
  and daemon do disagree (section 5).
* Time: sleeps end, in no particular time.
* `error.rs` is not used by the program.

## 7. Plan

Done: `ConnectionPool` + `SpareLifecycle` -> `Daemon` + `RecordingLifecycle` -> `Engine`, `Dictation` ->
`AudioPath`, `Resampler` -> `Protocol`, `Recognition` -> `SocketTakeover`,
`DaemonManager` -> `IpcClient`, with the proofs above.

1. A composition of `IpcClient` with `Engine`: what the label shows after the
   connection was lost in the middle of a dictation.
2. What holds of `LabelsAgree` for a user in a hurry.
