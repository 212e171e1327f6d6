# audiod: TLA+ models, checks and proofs

audiod is a user-space audio server. A library preloaded into an application
(the *shim*) answers the ALSA `snd_pcm_*` calls, and sends the samples over a
Unix socket to the server, which mixes all clients and drives an Intel HDA
controller from user space: it fills the DMA ring and sends codec verbs itself.

This directory holds TLA+ modules translated from the Rust source, TLC
configurations that check them on small instances, and TLAPS proofs. Paths
below are relative to the repository.

    tlc -config MCRing.cfg MCRing          one run
    tlapm RingProofs.tla                   the proofs about one module

`PROJECT.json` lists components, runs, the source lines of every definition
(`map`), a mutation of the model that each property catches (`mutants`), the
hazards of the code and which property guards each, and the places where the
code and its documents disagree (`findings`).

## 1. Inventory

| Component | State it keeps | Operations | Talks to |
|---|---|---|---|
| byte ring `common/src/ring.rs` | buffer, two positions, `filled`, `interrupted`; a mutex, two condition variables | `push` `pop` `try_pop` `clear` `interrupt` | shim: application → drain thread; server: reader thread → mixer |
| shim `shim/src/lib.rs` | per handle: fd, configuration, pcm state, counters, the playhead's clock; per process: `MUTE_CMD` `LAST_SILENT` `FLUSH_CMD` | the `snd_pcm_*` calls; drain thread; reconnect loop | server, by the socket protocol |
| server client threads `server/src/main.rs` | per client: frame being read, resampler, the `flush` and `done` flags of its stream | accept, header, frames, commands, conversion, `ring.push`, shutdown and joins | mixer: a channel and the flags |
| mixer `server/src/mixer.rs` | stream list, live count, `dry_since`, `stopped` | one loop: receive, flush, retain, watchdog, pace, mix, push | rings, backend |
| backend `server/src/backend.rs` | the playback object | `play` `push` `delay_frames` `stop_immediate` `drain` | HDA playback |
| server commands and players `main.rs`, `player.rs` | volume, mute, `STATE` counters | control socket, STATUS, `play_wav`, `play_stdin` | mixer, backend |
| HDA playback stream `hda/src/lib.rs`, `stream.rs` | `write_pos`, the DMA ring, `running`; hardware: LPIB, RUN | `start` `play` `write` `drop_all` `delay_frames` | the DMA engine, which reads round the ring whether it is filled or not |
| HDA command engine `hda/src/corb.rs`, `controller.rs` | CORB and RIRB and their pointers, `pending`, engine in force, timeout count | `verb_raw`: `send`, `wait_response`, switch to immediate commands | the codecs |
| codec bring-up `hda/src/codec.rs` | address and path; in the codec: power, format, tag, amplifiers | `probe`, `init_playback`, `set_mute`, jack sense | command engine |
| DMA memory, registers, PCI `pagemap.rs` `bdl.rs` `mmio.rs` `regs.rs` `pcicfg.rs` | mappings | address translation, BDL fill | kernel, hardware |
| DSP `server/src/dsp.rs` | resampler history and phase | `resample`, `fold_to_stereo`, packing | client threads |
| control tool `ctl/`, configuration `common/src/config.rs` | none to speak of | one request and reply; file loading | server |

What is hard here, and what makes each part correct:

* **ring** — a mutex, an atomic written outside it, `notify_one` after the
  unlock, wrapping copies. Correct: a FIFO of bytes; no lost wakeup.
* **shim** — the application, the drain thread, and a server that may die at
  any time. Commands pass through process-wide statics that outlive handles;
  the reconnect zeroes counters the application is adding to. Correct: calls
  return, a stream resumes after a restart, mute/flush get through.
* **client threads and mixer** — a client leaves by a flag another thread
  reads; flushes are flags applied a tick later; the live count is stale when
  used; one sticky flag suppresses all stops. Correct: no audio is stranded in
  a ring nobody pops, slots are reclaimed, one client's flush never touches
  another, the DMA is halted when and only when there is nothing to play.
* **DMA ring** — the reader never waits. Past an underrun the position
  arithmetic reads "empty" as "nearly full". Correct: the reported delay is
  exact while there is no underrun; nothing stale is played; silence ends.
* **playhead** — delay and avail come from a count and a clock, not from what is
  played; a reconnect resets both under a write in progress. Correct: an
  application that waits for avail stays within the buffer it was promised, and
  does get avail.
* **processes over the same hardware** — registers, RUN and the codec's settings
  outlive the process that set them; a bring-up can fail at any verb, and a late
  reply can be read as another's. Correct: what plays, plays this process's pages
  through a path programmed as a whole.
* **command engine** — a hardware ring pair that may lag, lose, overrun or
  die, and a switch of engines with commands in flight. Correct: verbs execute
  in order, callers get their own response, every call returns.

## 2. Modules

| Module | Models | Grain of a step |
|---|---|---|
| `Ring` | `AudioRingBuffer` | a critical section; the notify after an unlock, each half of `interrupt()` and the gap between `pop`'s test and `Condvar::wait` are steps of their own |
| `BoundedFifo` | what the ring promises | one push, pop or clear |
| `Mixer` | `reader_client`, registration, `mix_loop`, `try_idle_stop` | a blocking call of a reader; a section of the loop body between two reads of shared flags |
| `Resampler` | `Resampler` of `dsp.rs`: position, history, counts | a function; one call |
| `Server` | EXTENDS `Resampler`: `run_server`, connection threads, mute and its LED, SIGTERM, crash and restart | an accept, a frame; store and LED write of a mute apart |
| `HdaStream` | `Stream`, `HdaPlayback`, `Backend::play` / `push` | one register look and the write that follows it |
| `IdlePlayback` | EXTENDS `HdaStream`: the mixer's pacing and watchdog in time | one mixer tick; one 21 ms unit of audio |
| `Codec` | what bring-up says to a codec, the format encoding, the choice of a rate | functions |
| `Session` | EXTENDS `IdlePlayback`, `Codec`: processes, one after the other, from `Controller::open` to their end | a verb; a phase of the bring-up |
| `CommandEngine` | `verb_raw`, `CorbRing`, PIO | one register access that hardware can come between |
| `Shim` | the shim's calls, drain thread, reconnect loop, and the protocol as the server reads it | a blocking call; a swap of a static |
| `Playhead` | `pcm_delay_avail` and its clock against the audio in front of the DAC | one load or store of counter or clock; one tick |
| `*Proofs` | theorems about `Ring`, `Mixer`, `Server`, `HdaStream`, `Session`, `CommandEngine`, `Shim`, `Playhead` | |

How they fit together. `Ring` is proved to be a FIFO, so `Mixer`, `IdlePlayback`
and `Shim` keep of a ring only its fill level. `HdaStream` shows what
`delay_frames` answers; `Mixer` uses that answer (counting down, wrapping past
`write_pos`), and `IdlePlayback` composes the mixer's decisions with the cells
of the ring, where staleness can be seen. `Shim` and `Mixer` meet at the
protocol: `Shim` has the bytes of a frame as the client writes them and the
server's parse, `Mixer` starts from the parsed frame. `Server` has what surrounds
`Mixer`: how a connection becomes a reader thread, and what becomes of it at
shutdown. `Session` puts the mixer's loop of `IdlePlayback`, unchanged, and the
file player into a process that brings the hardware up first; a verb there is
one step whose outcomes (answered, failed, answered with an earlier verb's late
reply) are those `CommandEngine` shows. `Playhead` looks at the counter and clock
of `Shim` in time.

**Ring.** `buf`, `read_pos`, `write_pos`, `filled`, `interrupted` are the
fields. `producer` and `consumer` are the two threads' program points. `Contents`
is the region in reading order; it is the refinement mapping to `BoundedFifo!queue`.

**Mixer.** `reader[c]` follows `reader_client` (limit check, register, poll,
read, push, finish). `mixer` is the section of the loop: `Receive`,
`ApplyFlushes`, `HaltAfterFlush` (are all rings empty?) and `StopAfterFlush`,
`ReadDone`, `DropFinished` (the retain reads `done` before the ring, hence two
steps), `Watchdog` and `IdleStop`, or `Pace`, `Mix`. Nothing is locked between
looking at the rings and halting the DMA, so a reader may push in between. The
backend is reduced to `running` and `delay`. The `IDLE_MS` timer is a flag
armed/elapsed here; durations are `IdlePlayback`'s subject. The limit check
uses `live`, as published last, so that two clients may both pass it.

**HdaStream.** A cell of the DMA ring is *silent*, *fresh* (written, not yet
read) or *played*. `Read` is the hardware: it hands the cell under LPIB to the
DAC and goes on. `left` is the part of a `Backend::push` that did not fit.
`caller` picks the writer: the mixer, or `Backend::play` for files.

**IdlePlayback.** `Tick` is 21 ms of clock and one unit of audio. The mixer's
loop body is one of `MixFlush`, `MixIdle`, `MixFull`, `MixPush` (followed by
`PushTail` after a restart). `quiet` and `waited` measure, for the properties.
`MixFlush` and `MixIdle` test and halt in one step: audio supplied between the two
is, for what the DMA does, as good as supplied after the halt (`Mixer` keeps them
apart).

**Session.** `phase` is how far the process has come: `ConfigurePci`, `Fence`,
`ResetLink` or `SkipReset`, `ProbeVendor`/`ProbeMore`, `Select`, `OpenStream`,
`InitVerb`, `Ready`; then `Mix` (any step of `IdlePlayback`), or `Play`, `PlayerRead`,
`SyncMuted`, `MuteVerb`, `EndOfFile`, `Drained`. `todo` holds the verbs the function
under way has still to issue. `sd`, `pci`, `reg` and `dma` are the hardware's and
survive `Exit`, which may happen at any point (error, signal, SIGKILL, played
out: none of them stops the DMA). A verb over the rings is answered in time
(`InTime`), is given an earlier verb's reply (`Mishears`), or fails with its own
still to come (`TimesOut`). `late` holds the replies still to come, in order,
`pending` those that have arrived and that nobody has taken; there may be up to
`MaxLate` of both. `misheard` remembers that a verb was given another's reply since
the link was last reset.

**Server.** `main` is the accept loop, which reads each connection's header itself.
`thread[c]` is a connection's thread, `sent` (the header is complete) and `gone` what
the client has done. `Status` is a command whose reply is written to the socket,
which blocks once the client has left `SockReplies` of them in it (`unread`); `Reply`
and `ReadReply` are the two ends. `Store` and `WriteLed` are the two halves of a mute command. The frames of a
payload go through `Resample`, whose counts the histories `received` and `produced`
add up. A crash loses everything but the LED.

**Playhead.** `pushed`, `anchored`, `elapsed` are `total_pushed`, `play_start` and the
time since; `ring` and `pipe` the audio there really is. `writei` is its three
steps (start the clock, push, count), between any two of which the drain
thread's `ZeroPushed` and `ClearStart` may come. `uncounted` measures what the
estimate has missed: backlog left over from before a reset, and ticks in which
the DAC played nothing.

**CommandEngine.** A verb is its number. `call` is the point `verb_raw` has
reached; `corb*`, `rirb`, `hw_wp`, `flight` are the two rings and the responses
still on the link; `ic`, `ir`, `busy`, `valid` the immediate-command registers.
The hardware may delay, lose or interleave responses with unsolicited ones.

**Shim.** `app` is the application thread inside a call; `drain` the drain
thread: top of loop (stop flag, `MUTE_CMD.swap`), `FLUSH_CMD.swap`, `pop`,
`send_frame`, and `connect`/`resend` of `reconnect_audiod`. A frame is its
length and its first byte's meaning, which is what the server's parse
distinguishes. `Commit` loads the fd and `Stash` puts the header away for a
reconnect; `Writei` swaps `LAST_SILENT` and `AnnounceSilence` stores the command:
another thread's step may come between. `Crash`, `Restart` and `Refuse` (client limit) may happen at any
time, any number of times, and handles are opened and closed without limit.

## 3. Runs

| Run | Kind | What it shows |
|---|---|---|
| `ring` | pass | FIFO refinement, no lost push/pop wakeup, blocked calls return |
| `ring_interrupt` | violation | `interrupt()` can be lost between the test and the wait |
| `mixer` | pass | two clients: no orphaned audio, `stopped` is truthful, and no flush costs another stream what it has queued, playing or not |
| `mixer_live` | pass | slots reclaimed, backpressure ends even after an underrun, audio pushed while a halt is decided is played, DMA halted when all left |
| `server` | pass | if clients go on sending what they began and reading their replies, every connection is accepted and SIGTERM ends the server; the mute LED is right after commands that did not overlap, resampled output does not depend on the chunks |
| `session` | pass | on four boards, through any number of processes: the programmed path matches the stream, no foreign DMA, no verb to an unexpected layout unless a verb was given another's reply; late replies get past the layout checks only of a codec whose widgets come that many checks early; amplifiers as believed, exact delay, clean first lap, DMA stops after the idle time and not before, bounded hold-up after an underrun, a drain plays out |
| `idle_stale` | violation | stale frames are replayed between the underrun and the watchdog |
| `command` | pass | order, at-most-twice, own response, bounded timeouts, every call returns |
| `command_mismatch` | violation | a late response is given to the next verb, and the shift persists |
| `shim` | pass | mute transitions survive the races up to the drain thread; one chunk at most gets ahead of a FLUSH that waits for it; only a reconnect makes `total_pushed` less than what is in the ring; `writei` returns, streams resume, `close` ends the reconnect loop |
| `shim_control` | violation | commands are framed with length 1, so the server never recognises them |
| `playhead` | pass | an application that waits for avail stays within the buffer up to what the estimate has missed; it gets avail for a write of up to `BufferSize - ServerFrames`, unless the clock was stopped under its count |

Each violation run contradicts a comment or document of the repository that the
matching entry of `findings` quotes.

Divergences that a property states as its exception or premise, and that have no run
of their own:

* `init_playback` checks six widgets so as to "fail loudly" on a codec of another
  layout (codec.rs). Replies that come after their verb's 10 ms stay in the RIRB, and
  each is handed to a later verb. If verbs of the probe time out, the checks are
  given the replies of the verbs before them, as many back as are outstanding; the
  first ones get those of the probe and of `set_power`, and an id or a 0 may read as
  the type of a converter (`AC_WID_AUD_OUT` is 0). A codec that has its widgets as
  many checks early (`EarlyLayout`) passes all six and is programmed.
  `OnlyExpectedLayout` excepts processes in which a verb was given another's reply
  (`misheard`). `ChecksResynchronise` says that such layouts are the only ones on
  which late replies get past the checks: on any other `init_playback` has caught up
  with its own replies, or failed, before it programs anything. That is not one layout
  but a family, and it grows with `MaxLate`.
* "An app can never write more than the advertised buffer ahead" (shim
  `lib.rs:617-619`). The playhead's clock runs on while the server is stalled, paused
  or gone: avail grows while nothing is played, and the backlog exceeds the advertised
  buffer by as much, less the server's baseline. A reconnect zeroes the count under
  what is in the ring, with the same effect. `AheadBounded` is the claim up to the
  sum of these (`uncounted`).
* The accept loop reads the header from a socket that blocks, so that the 2 s deadline
  of `read_header_tolerant` (`main.rs:588-612`) is never looked at: a client that
  opens and does not configure its PCM keeps all others, and SIGTERM, waiting.
  `Served` and `Terminates` are conditional on no client doing that for ever.
* "The server stops HDA DMA immediately" (`docs/av-sync.md:68`, of a FLUSH). A drop sets
  `FLUSH_CMD` for a drain thread that may be asleep in `pop`. The command then waits
  for the next write, and goes out behind one chunk of it (`FlushOvertakenOnce` is the
  bound); without another write it is never sent, and one whose sending fails is not
  repeated: what the server holds plays on. (Nor is it recognised: `shim_control`.)
* The comments of `dsp.rs:88-95` and `168-172` describe how consumed history is erased.
  `dsp.rs:181` compares frames with samples and never holds: the history grows by 8
  bytes a frame for as long as a client plays (`NothingIsTrimmed`). The trimming as
  described would break the output, since `pos` is not rebased with it (the mutant of
  `OutputsExact`).

Other facts the models reach:

* avail is never more than `BUFFER_SIZE - SERVER_FRAMES`, 4096 of the 8192 frames
  advertised (shim `lib.rs:631-633`): an application that waits for more waits for
  ever. `AlwaysResumes` is about those that wait for no more.
* `snd_pcm_prepare`, and a reconnect in the middle of a write, stop the clock and leave
  the count: delay stays what it was, and an application that waits for avail before
  it writes waits for ever (`excused` in `AlwaysResumes`). A write or a drop ends it.
* After a handle is closed its pending command is sent by the next handle's drain
  thread, before the header. The server takes it for a bad header and hangs up;
  `ReconnectResumes` shows that this heals. (What it promises, it promises up to the
  next hang-up: a server that refuses the client, or gets such a header, hangs up
  again, and the loop is entered once more.)
* A reply to STATUS is written with `write_all` to a socket that blocks. A PCM client
  that asks often enough and reads no answers blocks its reader thread, and SIGTERM's
  join with it (`Withholds`, the premise of `Terminates`).
* A flush that finds every ring empty halts the DMA, and with it up to 85 ms of the
  other streams' audio that the mixer has already written. And since a reader may push
  between that look and the halt, the DMA may be halted with audio just queued, which
  then starts it again (`HaltedAudioPlays`); so may the watchdog.
* `encode_rate` uses the multipliers 5 to 8, as `docs/hda-backend.md:79` and
  `docs/configuration.md:59` announce; HDA's format word reserves them. `RatesDecode`
  says what the fields of the word mean by the code's own table. What a codec makes of
  a reserved one is its own affair.

### Bounds

* `ring`: capacity 4 (3 asked for, so that rounding up is exercised), chunks of
  1, 2 and 4 bytes, offers of 1 and 3. Every wrap position and split occurs,
  a chunk can be as large as the ring, and pops leave parts behind. Unbounded
  behaviours; the proofs remove the bound.
* `mixer`: two clients with a limit of one, so that the stale limit check can
  admit both; rings of two frames; payloads of 1 byte (not a frame) and one
  frame; a DMA ring of 4, target 2. Clients are symmetric. `mixer_live`
  has one client, because symmetry is unsound for liveness and what it asks is of a
  single client against the mixer; that one sends payloads of a full ring as well.
* `session`: ring 6, target 2, writes of up to 2, idle time 4. In the code the ring is
  64 chunks of 1024 frames, the target 4 and the idle time 12 (21 ms units); the model
  keeps the order target < idle < ring, on which every outcome depends, and all
  positions and remainders of writes occur. Two codec addresses and four boards: none
  at all; an Intel codec of another layout at address 0 and the expected one at 1; one
  with a single wrong node; one whose widgets are two checks early and whose revision
  reads as a converter's type, so that two late replies get past all six. `MaxLate` is
  2: a third timeout in a row ends the rings. (Timeouts with mistaken successes in
  between could leave more; the theorem holds for every `MaxLate`.) The rate asked for
  (12345) is not supported, so that the nearest one is taken. Processes, failures,
  toggles of mute and pauses are unbounded. `idle_stale` has a ring of 7 and single
  units.
* `server`: two clients that connect as often as they like; 3:2 downsampling over
  two taps, payloads of no whole frame, one, and two and a byte; at most three
  frames a connection, in which the position wraps its denominator and every
  split of the input occurs; a socket that holds one unread reply.
* `playhead`: a buffer of 4 with a baseline of 2, writes of 1, 2 and 3 (the last is
  more than avail can ever be), a ring and pipeline that hold more than the buffer
  advertised. `MaxPushed` bounds the audio between two resets; `uncounted` saturates
  at 4, past which the property claims nothing.
* `command`: rings of 3 entries, which fill and overrun with 4 verbs and one
  unsolicited entry; the limit is the code's own value, 3. Verbs are bounded
  (`MaxVerbs`), so the run may end: deadlock is not checked there.
* `shim`: ring of 2 frames, writes of 2, drain chunks of 1 (a write finds the
  ring half full and waits), socket buffer of 3 items. `MaxPushed` bounds the
  counter between two drops; crashes, restarts, handles and calls are unbounded.

### Fairness and why the code justifies it

* `Ring!Fairness`: a thread inside an operation keeps running, and one that
  competes for the mutex over and over gets it (SF). `ConsumerLoops`: drain
  thread and mixer pop in a loop. No fairness on calls of the producer, on
  interrupts or on spurious wakeups.
* `Mixer!Fairness`: reader threads and the mixer thread run, the DAC clock and
  time advance. Nothing is assumed of clients: they may stop in mid-frame.
* `CommandEngine!FairSpec`: the calling thread runs and its deadline, tested on
  every turn of the loop, eventually is in the past (SF on `TimedOut`). Nothing
  is assumed of the hardware, which may stop altogether.
* `Shim!FairSpec`: a call that has begun goes on, the drain thread runs, a
  running server reads what is sent (that is, no other client keeps the accept loop
  in its header, the case `Server` excepts). Not assumed: that the application calls
  anything, or that a dead server returns. Properties that need it back say so
  (`<>[]up => ...`).
* `Server!FairSpec`: the main thread and each connection's thread run when they
  can. Nothing is assumed of clients and signals; that clients do not stop for
  ever inside a header or a frame, or with their socket full of replies, is a premise
  of the two properties (`Cooperative`), because the code does wait for them.
* `Playhead!FairSpec`: time passes and an application that polls sees that there is
  room. Nothing is assumed of the DAC, the server or the drain thread.

`HdaStream`, `IdlePlayback` and `Session` state safety only, with clocks as counters.

## 4. Proofs

### `RingProofs`

For every capacity, byte set, set of chunks and set of buffer lengths admitted
by `RingAssumption` (capacity positive, 0 is a byte, chunks non-empty sequences
of bytes, buffers non-empty):

| Theorem | States |
|---|---|
| `TypeCorrect` | `Spec => []TypeOK` |
| `RegionAlwaysConsistent` | `Spec => []RegionConsistent` |
| `ProducerNeverStranded` | `Spec => []NoStrandedProducer` |
| `ConsumerNeverStranded` | `Spec => []NoStrandedConsumer` |
| `RingImplementsFifo` | `Spec => Fifo!Spec` |

The argument. `TypeOK` is inductive by itself. `RegionConsistent`
(`write_pos` is `read_pos` moved on by `filled`) is inductive with it: a store
moves both ends of the equation, and two advances compose (`AdvanceTwice`) as
long as their sum stays within the capacity, which is what `PushFits` is for.
The two wakeup invariants need only `TypeOK`: each action either leaves the
sleeping thread's condition alone, or passes through the state whose notify is
outstanding. The refinement rests on both invariants: without `RegionConsistent`
the cells a push writes need not be the ones after the queue's last. `StoreAppends`
shows that the wrapping copy appends the chunk to `Contents` (an offset lands
in the chunk exactly when it is past the old fill, because advancing is
injective below the capacity, `AdvanceInjective`), `CopyTakes` that a pop takes
a prefix and leaves the rest, and every other step is a clear or a stutter.

### `MixerProofs`

For every finite set of clients and every limit, ring size, frame size and set
of payload lengths that `MixerAssumption` admits (sizes positive; payloads fit
in a ring; chunk <= target < DMA ring, as the code's constants are):

| Theorem | States |
|---|---|
| `TypeCorrect` | `Spec => []TypeOK` |
| `NoAudioIsOrphaned` | `Spec => []NoOrphanedAudio` |
| `StoppedIsHalted` | `Spec => []StoppedMeansHalted` |
| `FlushesAreOwn` | `Spec => OnlyOwnFlushDiscards` |

The argument. `TypeOK` is inductive; it needs that a tick takes whole frames out
of a ring and never more than it holds (`PopsBounded`). `NoOrphanedAudio` is
not inductive: dropping a stream whose `done` flag was read earlier is safe only
because the flag is set by a reader that has pushed for the last time. `DoneIsLast`
says so (a set flag means the reader is gone, and `finished` holds only such
streams), and `IInv` is the three together. The reader threads are one lemma,
the mixer steps that neither drop streams nor fill rings another
(`QuietKeepsIInv`), which leaves `Receive`, which moves streams from the channel
to the list, and `DropFinished`. `StoppedMeansHalted` is inductive by itself.
For `FlushesAreOwn`, only `ApplyFlushes` and `Mix` take from a ring, the first from
those whose own flag it resets; what the second takes is written to the DMA ring, whose
delay moves on by as much (round the ring, if the DAC has just passed `write_pos`).

### `HdaProofs`

For every ring, target below it, and size of writes (`HdaAssumption`), and for
both kinds of writer:

| Theorem | States |
|---|---|
| `HdaTypeCorrect` | `HdaSpec => []HdaTypeOK` |
| `DelayIsExact` | `HdaSpec => []PacedExactly` |
| `NoReplayInFirstLap` | `HdaSpec => []CleanFirstLap` |

The argument. After an underrun a write may land on fresh cells, so `owed` is
not the number of fresh cells, and that it never becomes negative needs
`Counted`: it is at least that number. `AtRest` (a stream that is not running is
at position 0) makes `Start`'s reset of LPIB harmless. With these two, `TypeOK`
is inductive (`Base`). `Paced` strengthens `PacedExactly` by what a push still has
to write: the target was measured before its first write, so it is `owed + left`
that stays below it. Its steps are facts about positions round the ring: a write
joins its span to the one in front of LPIB (`SpansJoin`, `AheadAdds`), a read
takes the first position off (`SpanLoses`, `AheadLoses`). For the first lap, the
invariant is that LPIB equals the number of frames read and nothing from there
on has been played.

The first two hold on `Session` as well, see below; the lemmas about single steps
are shared.

### `SessionProofs`

For every board with at most four addresses, every set of rates, and all sizes
that `HdaAssumption` and `IdleAssumption` admit (target < idle < ring), through
any number of processes, failed bring-ups and crashes:

| Theorem | States |
|---|---|
| `DelayIsExactForAll`, `NoReplayForAll` | `SessionSpec => []PacedExactly`, `[]CleanFirstLap` |
| `SilenceEnds` | `SessionSpec => []IdleStops` |
| `PausesDoNotAddUp` | `SessionSpec => HaltNotEarly` |
| `UnderrunsEnd` | `SessionSpec => []HeldUpBounded` |
| `ResetHaltsForeignDma` | `SessionSpec => []NoForeignDma` |
| `DrainIsComplete` | `SessionSpec => []DrainPlaysOut` |
| `AmplifiersAgree` | `SessionSpec => []MuteAsBelieved` |
| `PathAgrees` | `SessionSpec => []PathMatches` |
| `LayoutIsChecked` | `SessionSpec => []OnlyExpectedLayout` |
| `ChecksCatchUp` | `SessionSpec => []ChecksResynchronise` |
| `RatesDecode` | for every rate asked for, the one the hardware is given is supported, and its format word means it |

The argument. `Steps` sorts the steps once: while a process plays, the stream takes
a step of `HdaStream` or none, so `Base`, `Paced` and `FirstLap` of `HdaProofs` carry
over; elsewhere the ring is at rest, but RUN may be set up to the `srst`, which is
why `AtRest` is asked for only while playing (`Clean`). The watchdog's invariant,
`Watch`, relates its timer to the silence it is meant to measure: never ahead of
it (`NeverAhead`, whence `HaltNotEarly`) and at most one tick behind (`OneBehind`,
whence `IdleStops`). `HeldUp` says that the wait and the way the DMA still has to go
to `write_pos` make no more than one lap. `NoForeignDma` is inductive next to these,
since the descriptor changes with RUN. For the amplifiers the codec that was
picked must be there (`OnBoard`: only a codec that is there can answer, whoever
the answer belongs to), and `MuteInv` follows `set_mute` from verb to verb.

`PathMatches` speaks of registers that some thirty verbs set, any of which may fail, and
which earlier processes have set to something else. The invariant, `ProgramInv`, is that
the verbs still to come are the end of the programme (`Underway`) and that each one already
issued holds its register. It is inductive because the programme gives a register one
value only, so that no later verb undoes an earlier one; `ProgramCovers` finds in it what
`PathMatches` asks for. Afterwards nothing but `set_mute` writes to the codec, and that
to the DACs' amplifiers. `SetupInv` has the descriptor agree with the same tag and format
after each restart, and `RatesDecode` goes through the format word's fields for every
divisor, multiplier and base.

For the layout, `LayoutInv` collects what the checks passed so far say of the codec:
check k has heard node k or, while replies are outstanding, one of the `MaxLate` nodes
before it. It goes through because the replies outstanding are a queue (`LateInv`) and
the q-th of them, having at most `MaxLate - q` behind it, is that of a recent verb
(`FromProgram`): what was left over from the probe is gone after `MaxLate` checks. As
long as no verb was given another's reply all checks have heard their own nodes.

### `PlayheadProofs`

`PlayheadTypeCorrect`, and `NeverFarAhead`: `Spec => []AheadBounded`, for all sizes.
The strengthening says what the estimate is worth (`Counted`: the backlog is at
most what is counted less what has elapsed plus what was missed) and that a
write let through by avail keeps its room until it is in the ring (`Allowed`), even
if the estimate it was let through by is reset in between.

### `ShimProofs`

For all ring sizes, chunk sizes, socket sizes and sets of writes:

| Theorem | States |
|---|---|
| `ShimTypeCorrect` | `Spec => []TypeOK` |
| `SilenceIsAnnounced` | `Spec => []SilenceAnnounced` |
| `NothingIsHeard` | `Spec => [](heard = "none")` |
| `FlushIsOvertakenOnce` | `Spec => []FlushOvertakenOnce` |
| `ReconnectAloneUncovers` | `Spec => OnlyReconnectUncovers` |

`TypeOK` needs three facts more: a write under way has room below the bound
(`RoomKept`), there is a place in the socket's buffer for the header sent again
(`PlaceKept`), and a drain thread that sends has something to send (`Carries`).
The flush rests on `NoneAhead`: a drain thread asleep in `pop`, or one that carries
the flush, has let nothing past it.

### `ServerProofs`

For every ratio of rates, kernel length and set of payloads, and any number of
clients: `ChunksDoNotMatter` (`Spec => []OutputsExact`), `NothingIsTrimmed` (the
resampler's history is all it was ever given) and `LedIsTruthful`
(`Spec => []LedTruthful`). `Producible` is the cardinality of a set; that the set
is an interval from 0 (`MakesDownward`, `ProducibleCounts`) makes the counts of
successive calls add up (`CountsAdd`), which is the whole of the first theorem.
The LED needs that a connection is in one place, so that of a command being
applied alone nobody else writes (`InOnePlace`, `Alone`).

### `EngineProofs`

For rings of any size, any number of codecs and verbs and any timeout limit, and
a hardware that loses, delays and makes up responses: `EngineTypeCorrect`,
`TimeoutsAreBounded` (`[]TimeoutsBounded`), `VerbsInOrder` (`ExecutedInOrder`),
`VerbsAtMostTwice` (`[]AtMostTwice`) and `ResponsesAreOwn` (`[]OwnResponse`). The CORB is a queue of ever later verbs, all of
them later than the last one executed (`Ordered`); a second execution needs a
switch of engines with the verb out, after which the immediate-command interface
takes it once (`Once`).

That a response is the caller's own rests on `Exchange`: until a wait has timed out,
one command at most is out, and it is queued in the CORB, or its response is on the
link, or that is the one solicited entry of those the software has not read, or it is
lost; between calls there is none of this. The RIRB may overrun all the same, by
unsolicited entries: an entry that is written joins the unread ones at their end, or the
ring has gone round and none seems unread (`WriteJoins`), and neither brings an answer
back. Under PIO, `Immediate` says that the interface holds the verb waited for or its
response, whatever it did before.

### What is only model-checked

* Every liveness property (`ENABLED` is out of the provers' reach).
* That the four violation runs' properties fail, and where.

Every safety invariant and every action property of a passing run is a theorem.

## 5. Not modelled, and why

* Samples: mixing, gain, format conversion, filter kernels. They decide no
  control flow, except the number of frames a conversion yields, which is modelled.
* Volume, which is one store, and what STATUS reports (that its reply may block is
  modelled). (A NaN volume passes `clamp` and makes
  every sample 0, and `rate * div` in `encode_rate` overflows `u32` for rates from 2^29 on;
  neither is in the models, whose rates are a configuration's.)
* `snd_pcm_*` queries and stubs, the poll timer, mixer/ctl stubs, `dlopen` overrides,
  logging, the dumps and `selftest_tone`: no state of the stream.
* The jack sense (`output_path`), which chooses what is printed and asked for and
  not what is programmed; `--skip-codec-init`, which leaves out what is checked here.
* Address translation (`pagemap.rs`) and the entries of the BDL: that pinning may
  fail and that the pages go with the process is in `Session`; what the kernel
  makes of a virtual address is not this program's.
* A stuck `srst`, which the code does not notice, and a wrong slot's reaction to
  being made bus master: nothing in the source says what the hardware then does.
* The control tool and the loading of configuration files: one request and one
  reply; constants.
* Ring lengths chosen by configuration smaller than a client's payload: a push
  longer than the ring never returns (see the hazards); payloads are assumed to
  fit.
* In `Shim`, a lost `interrupt()` wakeup (it is `Ring`'s finding); for the same
  reason no property claims that `snd_pcm_close` returns.
* Two handles open at once in a process: the statics would then be shared by two
  drain threads. Two processes at once over one socket path or one controller.

## 6. Plan

What would come next, in order of worth:

1. Two handles in one process: `Shim` with two drain threads over one `FLUSH_CMD`
   and `MUTE_CMD`.
2. `parse_header`, the negotiation of CORB and RIRB sizes and the BDL fill as pure
   functions against reference definitions.
3. Flushes against audio pushed after them: a mixer whose rings keep apart what
   came before a flush and what came after.
