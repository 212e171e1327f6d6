---------------------------- MODULE IdlePlayback ----------------------------
(***************************************************************************)
(* The mixer's pacing and idle watchdog (mix_loop and try_idle_stop,       *)
(* server/src/mixer.rs) over the DMA ring of HdaStream, in time.  The unit *)
(* is one of which MaxWrite make CHUNK_FRAMES (21 ms of audio), both on    *)
(* the ring and on the clock; a mixer that has nothing to do sleeps 2 to   *)
(* 10 ms, so it goes round at least once between two ticks.  All client    *)
(* rings together are the number of units queued in them.                  *)
(***************************************************************************)
EXTENDS HdaStream

CONSTANTS Idle,         (* IDLE_MS                                         *)
          MaxQueued     (* most units the client rings hold                *)

ASSUME IdleAssumption ==
  /\ Idle \in Nat /\ MaxQueued \in Nat \ {0}
  /\ Target < Idle /\ Idle < RingFrames

VARIABLES
  queued,      (* units in the client rings                                *)
  flush,       (* some stream's flush flag                                 *)
  dry_since,   (* ticks since dry_since was set, or None                   *)
  stopped,     (* the sticky "HDA stream halted" flag                      *)
  mixed,       (* the mixer has gone round since the last tick             *)
  quiet,       (* ticks for which nothing has been queued or mixed         *)
  waited       (* ticks for which something was queued and nothing mixed   *)

None == -1

vars == <<hdaVars, queued, flush, dry_since, stopped, mixed, quiet, waited>>

Init ==
  /\ HdaInit /\ caller = "mixer"
  /\ queued = 0 /\ flush = FALSE /\ dry_since = None /\ stopped = FALSE
  /\ mixed = FALSE /\ quiet = 0 /\ waited = 0

-----------------------------------------------------------------------------
(* A reader thread pushes.                                                 *)
Supply ==
  /\ queued < MaxQueued
  /\ queued' = queued + 1
  /\ quiet' = 0
  /\ UNCHANGED <<hdaVars, flush, dry_since, stopped, mixed, waited>>

(* A reader thread asks for a flush.                                       *)
RequestFlush ==
  /\ ~flush /\ flush' = TRUE
  /\ UNCHANGED <<hdaVars, queued, dry_since, stopped, mixed, quiet, waited>>

Halt == StopImmediate /\ stopped' = TRUE

(* A tick that finds a flush requested: that stream's ring is cleared, and *)
(* the DMA is halted if that leaves all of them dry.  The rest of the loop *)
(* body is still to come.                                                  *)
MixFlush ==
  /\ left = 0 /\ flush /\ flush' = FALSE
  /\ queued' \in 0 .. queued /\ dry_since' = None
  /\ IF queued' = 0 /\ ~stopped THEN Halt ELSE UNCHANGED <<hdaVars, stopped>>
  /\ mixed' = FALSE
  /\ waited' = IF queued' = 0 THEN 0 ELSE waited
  /\ UNCHANGED quiet

(* Mutant of TryIdleStop: not reached while the DMA ring reads as full.    *)
TryIdleStopWhenWritable ==
  \/ (stopped \/ DelayFrames >= Target) /\ UNCHANGED <<hdaVars, dry_since, stopped>>
  \/ /\ ~stopped /\ DelayFrames < Target /\ dry_since >= Idle
     /\ Halt /\ dry_since' = None
  \/ /\ ~stopped /\ DelayFrames < Target /\ dry_since < Idle
     /\ dry_since' = IF dry_since = None THEN 0 ELSE dry_since
     /\ UNCHANGED <<hdaVars, stopped>>

(* try_idle_stop: arm the timer, or fire once it is Idle old.              *)
TryIdleStop ==
  \/ stopped /\ UNCHANGED <<hdaVars, dry_since, stopped>>
  \/ ~stopped /\ dry_since >= Idle /\ Halt /\ dry_since' = None
  \/ /\ ~stopped /\ dry_since < Idle
     /\ dry_since' = IF dry_since = None THEN 0 ELSE dry_since
     /\ UNCHANGED <<hdaVars, stopped>>

(* No streams, or all of them dry.                                         *)
MixIdle ==
  /\ left = 0 /\ queued = 0
  /\ TryIdleStop
  /\ mixed' = TRUE
  /\ UNCHANGED <<queued, flush, quiet, waited>>

(* The occupancy is at the target, or seems to be.                         *)
MixFull ==
  /\ left = 0 /\ queued > 0 /\ DelayFrames >= Target
  /\ dry_since' = None
  /\ mixed' = TRUE
  /\ UNCHANGED <<hdaVars, queued, flush, stopped, quiet, waited>>

(* Mutant of MixPush: the dry timer runs on.                               *)
MixPushKeepsTimer ==
  /\ queued > 0
  /\ Begin \/ Feed
  /\ queued' = queued - MinOf(queued, Headroom)
  /\ stopped' = FALSE
  /\ mixed' = TRUE /\ quiet' = 0 /\ waited' = 0
  /\ UNCHANGED <<flush, dry_since>>

(* Take what there is of the headroom, make up the rest with silence, and  *)
(* push it; on a halted stream Begin and then PushTail.                    *)
MixPush ==
  /\ queued > 0
  /\ Begin \/ Feed
  /\ queued' = queued - MinOf(queued, Headroom)
  /\ dry_since' = None /\ stopped' = FALSE
  /\ mixed' = TRUE /\ quiet' = 0 /\ waited' = 0
  /\ UNCHANGED flush

PushTail ==
  /\ WriteRest
  /\ UNCHANGED <<queued, flush, dry_since, stopped, mixed, quiet, waited>>

(* Time passes and the DAC takes a unit: never in the 100 us that start    *)
(* takes, and not without the mixer having gone round.                     *)
Tick ==
  /\ mixed /\ left = 0
  /\ Read \/ (~dma /\ UNCHANGED hdaVars)
  /\ mixed' = FALSE
  /\ dry_since' = IF dry_since = None THEN None ELSE MinOf(dry_since + 1, Idle)
  /\ quiet' = IF queued = 0 THEN MinOf(quiet + 1, Idle + 2) ELSE 0
  /\ waited' = IF queued = 0 THEN 0 ELSE MinOf(waited + 1, RingFrames)
  /\ UNCHANGED <<queued, flush, stopped>>

Next == Supply \/ RequestFlush \/ MixFlush \/ MixIdle \/ MixFull \/ MixPush \/ PushTail \/ Tick
Spec == Init /\ [][Next]_vars

-----------------------------------------------------------------------------
(* "After all clients go dry for 250 ms the mixer stops the HDA stream"    *)
(* (docs/hda-backend.md): the DMA runs on for one tick more than Idle at   *)
(* most, also while LPIB has passed write_pos and the delay reads as full, *)
(* the state in which the watchdog once did not run.                       *)
IdleStops == quiet > Idle + 1 => ~dma

(* Audio that arrives during an underrun is held up until the DMA has come *)
(* round to the target again, and for no longer than that: one lap less    *)
(* the target, and the tick in which it arrived.                           *)
HeldUpBounded == waited <= RingFrames - Target + 1

(* "... so DMA doesn't wrap the ring and replay stale audio"               *)
(* (docs/hda-backend.md).                                                  *)
NoStaleReplay == dac # "played"

=============================================================================
