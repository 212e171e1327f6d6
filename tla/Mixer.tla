-------------------------------- MODULE Mixer --------------------------------
(***************************************************************************)
(* The server's client threads and its mixer thread: reader_client         *)
(* (server/src/main.rs) and mix_loop (server/src/mixer.rs), with the       *)
(* registration channel, the per-stream flags, the client limit, shutdown  *)
(* and the idle watchdog between them.                                     *)
(*                                                                         *)
(* A stream's ring is its byte count: Ring shows that it is a FIFO.  The   *)
(* backend is `running` and the delay_frames() it reports, which the DAC   *)
(* counts down and which jumps to the far end of the DMA ring when the DMA *)
(* passes write_pos: HdaStream models what is behind it.  The duration     *)
(* IDLE_MS is a flag of `dry_since`: IdlePlayback measures it.             *)
(***************************************************************************)
EXTENDS Integers, FiniteSets

CONSTANTS
  Clients,        (* connections, each made at most once                   *)
  MaxClients,     (* server.max_clients                                    *)
  RingBytes,      (* capacity of a client ring                             *)
  FrameBytes,     (* bytes of an S16 stereo frame                          *)
  Lens,           (* payload lengths a client may send                     *)
  ChunkFrames,    (* CHUNK_FRAMES: most a tick writes                      *)
  Target,         (* SHIM_SERVER_FRAMES: DMA occupancy aimed at            *)
  DmaFrames       (* frames of the physical DMA ring                       *)

ASSUME MixerAssumption ==
  /\ IsFiniteSet(Clients)
  /\ MaxClients \in Nat \ {0} /\ RingBytes \in Nat \ {0} /\ FrameBytes \in Nat \ {0}
  /\ Lens \subseteq 1 .. RingBytes
  /\ ChunkFrames \in Nat \ {0} /\ Target \in Nat /\ DmaFrames \in Nat
  /\ ChunkFrames <= Target /\ Target < DmaFrames

VARIABLES
  reader,      (* what each client's reader thread is doing                *)
  incoming,    (* length of the frame it is reading or pushing             *)
  queued,      (* bytes in the client's ring                               *)
  flush, done, (* the flags of its MixerStream                             *)
  channel,     (* streams sent to the mixer and not yet received           *)
  streams,     (* the mixer's own list                                     *)
  live,        (* the count published for the client limit                 *)
  mixer,       (* where mix_loop is                                        *)
  finished,    (* streams this tick has seen done                          *)
  writable,    (* frames this tick may write                               *)
  dry_since,   (* None, or armed, or armed IDLE_MS ago                     *)
  stopped,     (* the sticky "HDA stream halted" flag                      *)
  running,     (* the DMA is on                                            *)
  delay,       (* what delay_frames() would answer                         *)
  consumed,    (* the DAC has consumed a unit during this tick             *)
  shutdown     (* SIGTERM was received                                     *)

readers == <<reader, incoming, done>>
loop == <<streams, live, mixer, finished, writable, dry_since, stopped>>
vars == <<reader, incoming, queued, flush, done, channel, streams, live, mixer,
          finished, writable, dry_since, stopped, running, delay, consumed, shutdown>>

Init ==
  /\ reader = [c \in Clients |-> "none"]
  /\ incoming = [c \in Clients |-> 0]
  /\ queued = [c \in Clients |-> 0]
  /\ flush = [c \in Clients |-> FALSE]
  /\ done = [c \in Clients |-> FALSE]
  /\ channel = {} /\ streams = {} /\ live = 0
  /\ mixer = "receive" /\ finished = {} /\ writable = 0
  /\ dry_since = "none" /\ stopped = FALSE
  /\ running = FALSE /\ delay = 0 /\ consumed = FALSE
  /\ shutdown = FALSE

-----------------------------------------------------------------------------
(* The accept loop and the reader threads.                                 *)

ReaderStep(c, from, to) ==
  /\ reader[c] = from
  /\ reader' = [reader EXCEPT ![c] = to]

(* run_server has read a header with a rate and spawns the reader thread.  *)
Accept(c) ==
  /\ ~shutdown
  /\ ReaderStep(c, "none", "check")
  /\ UNCHANGED <<incoming, queued, flush, done, channel, loop, running, delay, consumed, shutdown>>

CheckLimit(c) ==
  /\ ReaderStep(c, "check", IF live >= MaxClients THEN "rejected" ELSE "register")
  /\ UNCHANGED <<incoming, queued, flush, done, channel, loop, running, delay, consumed, shutdown>>

Register(c) ==
  /\ ReaderStep(c, "register", "poll")
  /\ channel' = channel \cup {c}
  /\ UNCHANGED <<incoming, queued, flush, done, loop, running, delay, consumed, shutdown>>

(* The 250 ms poll returns and SHUTDOWN is set.                            *)
SeeShutdown(c) ==
  /\ shutdown
  /\ ReaderStep(c, "poll", "finish")
  /\ UNCHANGED <<incoming, queued, flush, done, channel, loop, running, delay, consumed, shutdown>>

(* A length prefix has started to arrive; from here to the end of the      *)
(* payload the thread is inside blocking reads.                            *)
StartFrame(c, n) ==
  /\ ~shutdown
  /\ ReaderStep(c, "poll", "read")
  /\ incoming' = [incoming EXCEPT ![c] = n]
  /\ UNCHANGED <<queued, flush, done, channel, loop, running, delay, consumed, shutdown>>

(* Mutant of ReadPayload: a payload of any length is pushed.               *)
ReadPayloadUnchecked(c) ==
  /\ incoming[c] > 0
  /\ ReaderStep(c, "read", "push")
  /\ UNCHANGED <<incoming, queued, flush, done, channel, loop, running, delay, consumed, shutdown>>

(* The rest of the payload arrives; one that is not whole frames is        *)
(* dropped (on the direct path; the conversions yield whole frames).       *)
ReadPayload(c) ==
  /\ incoming[c] > 0
  /\ IF incoming[c] % FrameBytes = 0
     THEN ReaderStep(c, "read", "push") /\ UNCHANGED incoming
     ELSE ReaderStep(c, "read", "poll") /\ incoming' = [incoming EXCEPT ![c] = 0]
  /\ UNCHANGED <<queued, flush, done, channel, loop, running, delay, consumed, shutdown>>

(* A zero length, and the opcode of FLUSH after it.                        *)
ReadFlush(c) ==
  /\ incoming[c] = 0
  /\ ReaderStep(c, "read", "poll")
  /\ flush' = [flush EXCEPT ![c] = TRUE]
  /\ UNCHANGED <<incoming, queued, done, channel, loop, running, delay, consumed, shutdown>>

(* Any other command: volume, mute and status are no state of this module. *)
ReadCommand(c) ==
  /\ incoming[c] = 0
  /\ ReaderStep(c, "read", "poll")
  /\ UNCHANGED <<incoming, queued, flush, done, channel, loop, running, delay, consumed, shutdown>>

(* End of file, an error or an unknown opcode ends the loop.               *)
Disconnect(c) ==
  /\ ReaderStep(c, "read", "finish")
  /\ incoming' = [incoming EXCEPT ![c] = 0]
  /\ UNCHANGED <<queued, flush, done, channel, loop, running, delay, consumed, shutdown>>

(* Mutant of Push: the ring is never filled to the last byte.              *)
PushOneShort(c) ==
  /\ queued[c] + incoming[c] < RingBytes
  /\ ReaderStep(c, "push", "poll")
  /\ queued' = [queued EXCEPT ![c] = @ + incoming[c]]
  /\ incoming' = [incoming EXCEPT ![c] = 0]
  /\ UNCHANGED <<flush, done, channel, loop, running, delay, consumed, shutdown>>

(* ring.push, once there is room.                                          *)
Push(c) ==
  /\ queued[c] + incoming[c] <= RingBytes
  /\ ReaderStep(c, "push", "poll")
  /\ queued' = [queued EXCEPT ![c] = @ + incoming[c]]
  /\ incoming' = [incoming EXCEPT ![c] = 0]
  /\ UNCHANGED <<flush, done, channel, loop, running, delay, consumed, shutdown>>

Finish(c) ==
  /\ ReaderStep(c, "finish", "gone")
  /\ done' = [done EXCEPT ![c] = TRUE]
  /\ UNCHANGED <<incoming, queued, flush, channel, loop, running, delay, consumed, shutdown>>

Shutdown ==
  /\ ~shutdown /\ shutdown' = TRUE
  /\ UNCHANGED <<readers, queued, flush, channel, loop, running, delay, consumed>>

-----------------------------------------------------------------------------
(* The mixer thread, one tick from "receive" to "receive".                 *)

MixerStep(from, to) == mixer = from /\ mixer' = to

Receive ==
  /\ MixerStep("receive", "flush")
  /\ streams' = streams \cup channel
  /\ channel' = {}
  /\ consumed' = FALSE
  /\ UNCHANGED <<readers, queued, flush, live, finished, writable, dry_since, stopped,
                 running, delay, shutdown>>

(* Mutant of StopImmediate: the ring accounting is not reset.              *)
StopKeepsDelay == running' = FALSE /\ UNCHANGED delay

(* backend.stop_immediate(): the DMA is off and the ring accounting reset. *)
StopImmediate == running' = FALSE /\ delay' = 0

(* Mutant of ApplyFlushes: every ring is cleared.                          *)
FlushEverybody ==
  LET asked == {s \in streams : flush[s]} IN
  /\ MixerStep("flush", IF asked = {} THEN "retain" ELSE "halt")
  /\ flush' = [s \in Clients |-> flush[s] /\ s \notin asked]
  /\ queued' = [s \in Clients |-> IF asked # {} /\ s \in streams THEN 0 ELSE queued[s]]
  /\ UNCHANGED <<readers, channel, streams, live, finished, writable, dry_since, stopped,
                 running, delay, consumed, shutdown>>

(* Every requested flush is taken and its ring cleared; if there was one   *)
(* the next step looks whether the DMA may be halted.                      *)
ApplyFlushes ==
  LET asked == {s \in streams : flush[s]} IN
  /\ MixerStep("flush", IF asked = {} THEN "retain" ELSE "halt")
  /\ flush' = [s \in Clients |-> flush[s] /\ s \notin asked]
  /\ queued' = [s \in Clients |-> IF s \in asked THEN 0 ELSE queued[s]]
  /\ UNCHANGED <<readers, channel, streams, live, finished, writable, dry_since, stopped,
                 running, delay, consumed, shutdown>>

(* The scan of the rings is one step: only this thread takes from a ring,  *)
(* so a ring found empty early in the scan can only have grown since, and  *)
(* "all empty" was true when the scan began.  A reader may push at any     *)
(* moment after it: what the test decides is done in a step of its own.    *)
Dry == \A s \in streams : queued[s] = 0

(* After a flush the DMA is to be halted if no stream has audio.           *)
HaltAfterFlush ==
  /\ MixerStep("halt", IF Dry /\ ~stopped THEN "stop" ELSE "retain")
  /\ dry_since' = "none"
  /\ UNCHANGED <<readers, queued, flush, channel, streams, live, finished, writable, stopped,
                 running, delay, consumed, shutdown>>

StopAfterFlush ==
  /\ MixerStep("stop", "retain")
  /\ StopImmediate /\ stopped' = TRUE
  /\ UNCHANGED <<readers, queued, flush, channel, streams, live, finished, writable,
                 dry_since, consumed, shutdown>>

(* Mutant of ReadDone: an empty ring is taken for a client that has left.  *)
ReadEmpty ==
  /\ MixerStep("retain", "drop")
  /\ finished' = {s \in streams : queued[s] = 0}
  /\ UNCHANGED <<readers, queued, flush, channel, streams, live, writable, dry_since, stopped,
                 running, delay, consumed, shutdown>>

(* retain reads a stream's done flag before its ring, so the two reads are *)
(* two steps.                                                              *)
ReadDone ==
  /\ MixerStep("retain", "drop")
  /\ finished' = {s \in streams : done[s]}
  /\ UNCHANGED <<readers, queued, flush, channel, streams, live, writable, dry_since, stopped,
                 running, delay, consumed, shutdown>>

DropFinished ==
  /\ MixerStep("drop", "watchdog")
  /\ streams' = {s \in streams : ~(s \in finished /\ queued[s] = 0)}
  /\ live' = Cardinality(streams')
  /\ finished' = {}
  /\ UNCHANGED <<readers, queued, flush, channel, writable, dry_since, stopped,
                 running, delay, consumed, shutdown>>

(* try_idle_stop would fire: the timer is armed and IDLE_MS old.           *)
IdleDue == ~stopped /\ dry_since = "elapsed"

(* Mutant of Watchdog: the timer is armed anew each time.                  *)
RearmAlways ==
  /\ Dry
  /\ MixerStep("watchdog", "receive")
  /\ dry_since' = IF stopped THEN dry_since ELSE "armed"
  /\ UNCHANGED <<readers, queued, flush, channel, streams, live, finished, writable, stopped,
                 running, delay, consumed, shutdown>>

(* try_idle_stop, from the no-streams branch and from the all-dry branch:  *)
(* Dry holds in both.  It arms the timer, or goes on to fire.              *)
Watchdog ==
  /\ Dry
  /\ MixerStep("watchdog", IF IdleDue THEN "idle_stop" ELSE "receive")
  /\ dry_since' = IF stopped \/ IdleDue THEN dry_since ELSE "armed"
  /\ UNCHANGED <<readers, queued, flush, channel, streams, live, finished, writable, stopped,
                 running, delay, consumed, shutdown>>

IdleStop ==
  /\ MixerStep("idle_stop", "receive")
  /\ StopImmediate /\ stopped' = TRUE /\ dry_since' = "none"
  /\ UNCHANGED <<readers, queued, flush, channel, streams, live, finished, writable, consumed, shutdown>>

MinOf(a, b) == IF a < b THEN a ELSE b

(* clamp(SHIM_SERVER_FRAMES - delay, 0, CHUNK_FRAMES)                      *)
Headroom == IF delay >= Target THEN 0 ELSE MinOf(Target - delay, ChunkFrames)

Pace ==
  /\ ~Dry
  /\ MixerStep("watchdog", IF Headroom = 0 THEN "receive" ELSE "mix")
  /\ dry_since' = "none"
  /\ writable' = Headroom
  /\ UNCHANGED <<readers, queued, flush, channel, streams, live, finished, stopped,
                 running, delay, consumed, shutdown>>

(* Whole frames this tick takes from stream s.                             *)
Pops(s) == IF s \in streams
           THEN MinOf(writable * FrameBytes, (queued[s] \div FrameBytes) * FrameBytes)
           ELSE 0

(* backend.push finds the DMA ring too full and backs off.                 *)
PushWaits == mixer = "mix" /\ writable > DmaFrames - delay

(* Pop, sum and push `writable` frames, silence where data is missing.     *)
(* push waits while the DMA ring has no room; play starts the DMA.  (The   *)
(* other branch is "Raced a concurrent clear"; only this thread clears.)   *)
Mix ==
  /\ ~PushWaits
  /\ MixerStep("mix", "receive")
  /\ IF \E s \in streams : Pops(s) > 0
     THEN /\ queued' = [s \in Clients |-> queued[s] - Pops(s)]
          /\ stopped' = FALSE
          /\ running' = TRUE
          /\ delay' = (delay + writable) % DmaFrames
     ELSE UNCHANGED <<queued, stopped, running, delay>>
  /\ UNCHANGED <<readers, flush, channel, streams, live, finished, writable, dry_since, consumed, shutdown>>

-----------------------------------------------------------------------------
(* The DAC consumes one unit; past write_pos the delay wraps.  The unit is *)
(* a CHUNK_FRAMES (21 ms) and a tick sleeps at most 10 ms, so the clock    *)
(* moves at most once a tick, unless push is waiting for room.             *)
Consume ==
  /\ running
  /\ ~consumed \/ PushWaits
  /\ consumed' = TRUE
  /\ delay' = (delay + DmaFrames - 1) % DmaFrames
  /\ UNCHANGED <<readers, queued, flush, channel, loop, running, shutdown>>

IdleElapses ==
  /\ dry_since = "armed" /\ dry_since' = "elapsed"
  /\ UNCHANGED <<readers, queued, flush, channel, streams, live, mixer, finished, writable,
                 stopped, running, delay, consumed, shutdown>>

Reader(c) == CheckLimit(c) \/ Register(c) \/ SeeShutdown(c) \/ Push(c) \/ Finish(c)
Client(c) == \/ Accept(c) \/ ReadPayload(c) \/ ReadFlush(c) \/ ReadCommand(c)
             \/ Disconnect(c)
             \/ \E n \in Lens \cup {0} : StartFrame(c, n)
Tick == \/ Receive \/ ApplyFlushes \/ HaltAfterFlush \/ StopAfterFlush
        \/ ReadDone \/ DropFinished \/ Watchdog \/ IdleStop \/ Pace \/ Mix

Next == \/ \E c \in Clients : Reader(c) \/ Client(c)
        \/ Shutdown
        \/ Tick \/ Consume \/ IdleElapses

Spec == Init /\ [][Next]_vars

(* Threads run, the DAC clock runs and time passes; what clients send, and *)
(* whether they send, is theirs.                                           *)
Fairness == /\ \A c \in Clients : WF_vars(Reader(c))
            /\ WF_vars(Tick) /\ WF_vars(Consume) /\ WF_vars(IdleElapses)
FairSpec == Spec /\ Fairness

-----------------------------------------------------------------------------
TypeOK ==
  /\ reader \in [Clients -> {"none", "check", "rejected", "register", "poll", "read",
                             "push", "finish", "gone"}]
  /\ incoming \in [Clients -> 0 .. RingBytes]
  /\ queued \in [Clients -> 0 .. RingBytes]
  /\ flush \in [Clients -> BOOLEAN] /\ done \in [Clients -> BOOLEAN]
  /\ channel \subseteq Clients /\ streams \subseteq Clients /\ finished \subseteq streams
  /\ live \in 0 .. Cardinality(Clients)
  /\ mixer \in {"receive", "flush", "halt", "stop", "retain", "drop", "watchdog",
                "idle_stop", "mix"}
  /\ writable \in 0 .. ChunkFrames
  /\ dry_since \in {"none", "armed", "elapsed"}
  /\ consumed \in BOOLEAN /\ stopped \in BOOLEAN /\ running \in BOOLEAN /\ shutdown \in BOOLEAN
  /\ delay \in 0 .. DmaFrames - 1

(* A slot is given up only when nothing can be in its ring any more: a     *)
(* client that is connected, or whose audio is still queued, is in the     *)
(* mixer's list or on its way there, although it leaves "passively", by a  *)
(* flag set from another thread.                                           *)
Attached(c) == reader[c] \in {"poll", "read", "push", "finish"} \/ queued[c] > 0
NoOrphanedAudio == \A c \in Clients : Attached(c) => c \in channel \cup streams

(* The sticky flag that suppresses further stops is set only while the DMA *)
(* really is off and its accounting reset: no path starts the DMA and      *)
(* leaves the watchdog disabled.                                           *)
StoppedMeansHalted == stopped => ~running /\ delay = 0

(* Audio leaves a client's ring only by a flush that this client asked     *)
(* for, or into a write of the mixer: the DMA runs, and what it has ahead  *)
(* of it moves on, round its ring, by at least the frames the client's     *)
(* ring has lost.  No client's flush costs another client the audio it has *)
(* queued.                                                                 *)
OnlyOwnFlushDiscards ==
  [][\A c \in Clients :
       queued'[c] < queued[c] =>
         \/ flush[c] /\ ~flush'[c]
         \/ /\ running'
            /\ \E n \in 0 .. ChunkFrames :
                 /\ delay' = (delay + n) % DmaFrames
                 /\ queued[c] - queued'[c] <= n * FrameBytes]_vars

(* "Clients leave passively: a slot is dropped once its done flag is set   *)
(* and its ring has drained" (mixer.rs), and it always comes to that.      *)
SlotReclaimed == \A c \in Clients : done[c] ~> c \notin channel \cup streams

(* Backpressure is temporary: a reader blocked on its full ring goes on,   *)
(* even after an underrun has made delay_frames() wrap.                    *)
PushReturns == \A c \in Clients : reader[c] = "push" ~> reader[c] = "poll"

(* A halt is decided on rings that were empty a moment ago, and a reader   *)
(* may have pushed since.  That audio is not stranded behind a stopped     *)
(* DMA: the mixer starts it again, unless the client flushes the audio.    *)
HaltedAudioPlays ==
  \A c \in Clients : queued[c] >= FrameBytes /\ ~running ~> running \/ queued[c] < FrameBytes

(* When no client is left the DMA does not loop over the ring for ever.    *)
AllGone == \A c \in Clients : reader[c] \in {"none", "gone", "rejected"}
IdleHalts == AllGone ~> ~running \/ ~AllGone

=============================================================================
