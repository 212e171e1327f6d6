------------------------------ MODULE HdaStream ------------------------------
(***************************************************************************)
(* The playback stream of the HDA controller: Stream (hda/src/stream.rs),  *)
(* HdaPlayback (hda/src/lib.rs) and the writers of Backend                 *)
(* (server/src/backend.rs) over a cyclic DMA ring that the DAC reads       *)
(* whether or not there is something new in it.  Positions and lengths are *)
(* frames; a cell is told apart by whether the DAC has yet to play what    *)
(* was last written to it.  A look at LPIB and the write that follows it   *)
(* are one step, microseconds against the milliseconds a frame of a model  *)
(* stands for, except where the code sleeps in between: in Stream::start   *)
(* and in the back-off of push.                                            *)
(***************************************************************************)
EXTENDS Integers, FiniteSets

CONSTANTS RingFrames,   (* RING_SIZE in frames                             *)
          Target,       (* SHIM_SERVER_FRAMES, the occupancy aimed at      *)
          MaxWrite      (* most frames a caller hands over at once:        *)
                        (* CHUNK_FRAMES for the mixer                      *)

ASSUME HdaAssumption ==
  /\ RingFrames \in Nat /\ Target \in Nat \ {0} /\ MaxWrite \in Nat \ {0}
  /\ Target < RingFrames

VARIABLES
  caller,      (* the process writes through the mixer, or plays a file    *)
  write_pos,   (* Stream.write_pos                                         *)
  lpib,        (* SD_LPIB, the DMA's read position                         *)
  dma,         (* SD_CTL.RUN: the DMA is reading                           *)
  running,     (* HdaPlayback.running                                      *)
  cell,        (* each frame of the ring: silent, fresh, or played before  *)
  dac,         (* the kind of frame the DAC got last                       *)
  owed,        (* frames accepted and neither played nor dropped           *)
  lap,         (* frames read since the last drop, up to one lap           *)
  left,        (* frames of the push under way still to be written         *)
  overtaken    (* since the last drop the DMA has read past write_pos      *)

ringVars == <<write_pos, cell, owed>>
dacVars == <<dac, lap, overtaken>>
hdaVars == <<caller, write_pos, lpib, dma, running, cell, dac, owed, lap, left, overtaken>>

Positions == 0 .. RingFrames - 1

HdaInit ==
  /\ caller \in {"mixer", "play"}
  /\ write_pos = 0 /\ lpib = 0
  /\ dma = FALSE /\ running = FALSE
  /\ cell = [i \in Positions |-> "silent"]
  /\ dac = "silent" /\ owed = 0 /\ lap = 0
  /\ left = 0 /\ overtaken = FALSE

-----------------------------------------------------------------------------
(* How many frames the position `to` lies ahead of `from`.                 *)
Ahead(from, to) == IF to >= from THEN to - from ELSE RingFrames - from + to

(* delay_bytes and free_space, in frames.                                  *)
DelayFrames == Ahead(lpib, write_pos)
FreeSpace == IF write_pos >= lpib THEN RingFrames - (write_pos - lpib) ELSE lpib - write_pos

MinOf(a, b) == IF a < b THEN a ELSE b

(* A position taken modulo the ring, and the n positions from p on.        *)
Wrap(p) == IF p >= RingFrames THEN p - RingFrames ELSE p
Span(p, n) == {i \in Positions : Ahead(p, i) < n}

(* HdaPlayback::start of a stream that is not running: reset, which puts   *)
(* LPIB back to 0, setup, and RUN.  It returns 100 us later.               *)
Start ==
  /\ ~running
  /\ running' = TRUE /\ dma' = TRUE /\ lpib' = 0
  /\ UNCHANGED <<ringVars, dacVars>>

(* Stream::write of `len` frames: as many as fit are copied in.            *)
Written(len) == MinOf(len, FreeSpace)

Write(len) ==
  /\ running
  /\ cell' = [i \in Positions |-> IF i \in Span(write_pos, Written(len)) THEN "fresh" ELSE cell[i]]
  /\ write_pos' = Wrap(write_pos + Written(len))
  /\ owed' = owed + Written(len)
  /\ UNCHANGED <<lpib, dma, running, dacVars>>

(* Mutants of DropAll: the ring is not zeroed; write_pos is not cleared.   *)
DropKeepsCells ==
  /\ dma' = FALSE /\ running' = FALSE
  /\ lpib' = 0 /\ write_pos' = 0
  /\ owed' = 0
  /\ dac' = "silent" /\ lap' = 0 /\ overtaken' = FALSE
  /\ UNCHANGED cell

DropKeepsWritePos ==
  /\ dma' = FALSE /\ running' = FALSE
  /\ lpib' = 0
  /\ cell' = [i \in Positions |-> "silent"] /\ owed' = 0
  /\ dac' = "silent" /\ lap' = 0 /\ overtaken' = FALSE
  /\ UNCHANGED write_pos

(* drop_all: stop, reset, forget the position and zero the ring.           *)
DropAll ==
  /\ dma' = FALSE /\ running' = FALSE
  /\ lpib' = 0 /\ write_pos' = 0
  /\ cell' = [i \in Positions |-> "silent"] /\ owed' = 0
  /\ dac' = "silent" /\ lap' = 0 /\ overtaken' = FALSE

(* The DMA hands the frame under LPIB to the DAC and moves on, for ever.   *)
Read ==
  /\ dma
  /\ dac' = cell[lpib]
  /\ cell' = [cell EXCEPT ![lpib] = IF @ = "fresh" THEN "played" ELSE @]
  /\ owed' = IF cell[lpib] = "fresh" THEN owed - 1 ELSE owed
  /\ lpib' = Wrap(lpib + 1)
  /\ lap' = MinOf(lap + 1, RingFrames)
  /\ overtaken' = (overtaken \/ lpib = write_pos)
  /\ UNCHANGED <<caller, write_pos, dma, running, left>>

-----------------------------------------------------------------------------
(* Mutant of Headroom: the room in the ring, not the way to the target.    *)
HeadroomOfRing == MinOf(FreeSpace, MaxWrite)

(* The frames a writer that finds this delay may write: mix_loop's         *)
(* `writable` and the headroom of Backend::play.                           *)
Headroom == MinOf(Target - DelayFrames, MaxWrite)

(* The mixer fills its headroom, with silence where data is missing;       *)
(* play_wav and play_stdin hand over what they have.                       *)
Lens == IF caller = "mixer" THEN {Headroom} ELSE 1 .. Headroom

(* The first write starts the stream, with the headroom found before that. *)
Begin ==
  /\ left = 0 /\ DelayFrames < Target
  /\ Start
  /\ left' \in Lens
  /\ UNCHANGED caller

(* A write to a running stream: the mixer's push of a tick, or one round   *)
(* of Backend::play.                                                       *)
Feed ==
  /\ left = 0 /\ DelayFrames < Target
  /\ \E len \in Lens : Write(len) /\ left' = len - Written(len)
  /\ UNCHANGED caller

(* What did not fit: push goes on with it without another look at the      *)
(* target, Backend::play looks again.                                      *)
WriteRest ==
  /\ left > 0 /\ FreeSpace > 0
  /\ Write(left)
  /\ left' = IF caller = "mixer" THEN left - Written(left) ELSE 0
  /\ UNCHANGED caller

(* The mixer halts the DMA between two pushes.                             *)
StopImmediate ==
  /\ caller = "mixer" /\ left = 0
  /\ DropAll
  /\ UNCHANGED <<caller, left>>

HdaNext == Begin \/ Feed \/ WriteRest \/ StopImmediate \/ Read
HdaSpec == HdaInit /\ [][HdaNext]_hdaVars

-----------------------------------------------------------------------------
Fresh == {i \in Positions : cell[i] = "fresh"}

HdaTypeOK ==
  /\ caller \in {"mixer", "play"}
  /\ write_pos \in Positions /\ lpib \in Positions
  /\ dma \in BOOLEAN /\ running \in BOOLEAN
  /\ cell \in [Positions -> {"silent", "fresh", "played"}]
  /\ dac \in {"silent", "fresh", "played"}
  /\ owed \in Nat /\ lap \in 0 .. RingFrames
  /\ left \in 0 .. Target /\ overtaken \in BOOLEAN

(* As long as the DMA has not run past write_pos, what is owed lies in one *)
(* piece in front of LPIB, delay_frames counts it exactly, and there is    *)
(* never more of it than the target: the delay the mixer and the shim's    *)
(* playhead reckon with is the truth, through every wrap of both positions.*)
PacedExactly ==
  ~overtaken => /\ Fresh = Span(lpib, owed)
                /\ DelayFrames = owed /\ owed <= Target

(* "Zero every byte of the DMA ring so a restart after a drop never        *)
(* re-plays stale audio" (stream.rs, zero_ring): within the first lap      *)
(* after a drop the DAC is given nothing it has been given before, even if *)
(* the DMA runs ahead of the first write.                                  *)
CleanFirstLap == lap < RingFrames => dac # "played"

=============================================================================
