------------------------------ MODULE Playhead ------------------------------
(***************************************************************************)
(* The playhead of the shim (pcm_delay_avail, shim/src/lib.rs): delay and  *)
(* avail are extrapolated from a count of what the application has written *)
(* and a clock that runs from its first write, whatever the server does    *)
(* meanwhile.  Here the application writes as much as avail allows, the    *)
(* drain thread's reconnect resets counter and clock under way, and beside *)
(* the estimate there is what it estimates: the audio in the shim's ring   *)
(* and in the pipeline behind it, down to the DAC.  One unit of audio is   *)
(* what the DAC plays in one tick.                                         *)
(***************************************************************************)
EXTENDS Integers

CONSTANTS BufferSize, ServerFrames,  (* BUFFER_SIZE, SERVER_FRAMES         *)
          RingSize,     (* shim.ring_buffer_size                           *)
          PipeSize,     (* what socket, client ring and DMA ring hold      *)
          Writes,       (* sizes of writes                                 *)
          MaxPushed,    (* bound: audio pushed between two resets          *)
          MaxMissed     (* bound: see uncounted                            *)

ASSUME PlayheadAssumption ==
  /\ BufferSize \in Nat /\ ServerFrames \in Nat /\ ServerFrames <= BufferSize
  /\ RingSize \in Nat /\ PipeSize \in Nat /\ MaxPushed \in Nat
  /\ MaxMissed \in Nat /\ MaxMissed > ServerFrames
  /\ Writes \subseteq Nat

VARIABLES
  app,         (* what the application thread is doing                     *)
  want,        (* the size of the write it is about                        *)
  pushed,      (* total_pushed                                             *)
  anchored,    (* play_start is set                                        *)
  elapsed,     (* ticks since play_start                                   *)
  link,        (* the drain thread: streaming, or how far a reconnect is   *)
  ring,        (* in the shim's ring                                       *)
  pipe,        (* behind it                                                *)
  uncounted,   (* history: audio ahead of the DAC and not in the estimate; *)
               (* once it is MaxMissed, that or more until a drop          *)
  excused      (* history: see AlwaysResumes                               *)

estimate == <<pushed, anchored, elapsed>>
vars == <<app, want, estimate, link, ring, pipe, uncounted, excused>>

MaxOf(a, b) == IF a > b THEN a ELSE b
MinOf(a, b) == IF a < b THEN a ELSE b

Init ==
  /\ app = "idle" /\ want = 0
  /\ pushed = 0 /\ anchored = FALSE /\ elapsed = 0
  /\ link = "up" /\ ring = 0 /\ pipe = 0
  /\ uncounted = 0 /\ excused = FALSE

(* Mutant of Unplayed: without the server's baseline.                      *)
UnplayedByApp == MaxOf(pushed - elapsed, 0)

(* pcm_delay_avail                                                         *)
Unplayed == MaxOf(pushed - elapsed, 0) + ServerFrames
Delay == MinOf(Unplayed, BufferSize)
Avail == BufferSize - Delay

(* Written, though perhaps not added to total_pushed yet.                  *)
Written(count) == count + (IF app = "count" THEN want ELSE 0)

(* What an estimate of (count, time) leaves out of a backlog.              *)
LeftOut(backlog, count, time) == MaxOf(backlog - (Written(count) - time), 0)

(* Resetting the estimate under a backlog that stays adds to what it has   *)
(* missed, and takes nothing from it.                                      *)
Missed(count, time) ==
  MinOf(MaxOf(uncounted, LeftOut(ring + pipe, count, time)), MaxMissed)

-----------------------------------------------------------------------------
(* The application asks for avail until there is room for its next write.  *)
Poll(n) ==
  /\ app = "idle" /\ app' = "poll" /\ want' = n
  /\ pushed + n <= MaxPushed
  /\ UNCHANGED <<estimate, link, ring, pipe, uncounted, excused>>

Ready ==
  /\ app = "poll" /\ want <= Avail
  /\ app' = "anchor"
  /\ UNCHANGED <<want, estimate, link, ring, pipe, uncounted, excused>>

(* snd_pcm_writei: the clock is started if it does not run, the ring is    *)
(* pushed to, once it has room, and the write is counted.                  *)
Anchor ==
  /\ app = "anchor" /\ app' = "push"
  /\ anchored' = TRUE /\ excused' = FALSE
  /\ UNCHANGED <<want, pushed, elapsed, link, ring, pipe, uncounted>>

Push ==
  /\ app = "push" /\ ring + want <= RingSize
  /\ ring' = ring + want /\ app' = "count"
  /\ UNCHANGED <<want, estimate, link, pipe, uncounted, excused>>

Count ==
  /\ app = "count" /\ app' = "idle"
  /\ pushed' = pushed + want
  /\ UNCHANGED <<want, anchored, elapsed, link, ring, pipe, uncounted, excused>>

(* snd_pcm_prepare stops the clock and leaves the count.                   *)
Prepare ==
  /\ app = "idle"
  /\ anchored' = FALSE /\ elapsed' = 0 /\ excused' = TRUE
  /\ uncounted' = Missed(pushed, 0)
  /\ UNCHANGED <<app, want, pushed, link, ring, pipe>>

(* Mutant of Drop: the count is left as it is.                             *)
DropKeepsCount ==
  /\ app = "idle"
  /\ ring' = 0 /\ anchored' = FALSE /\ elapsed' = 0 /\ excused' = FALSE
  /\ uncounted' = MinOf(LeftOut(pipe, pushed, 0), MaxMissed)
  /\ UNCHANGED <<app, want, pushed, link, pipe>>

(* snd_pcm_drop empties the ring and resets both.                          *)
Drop ==
  /\ app = "idle"
  /\ ring' = 0 /\ pushed' = 0 /\ anchored' = FALSE /\ elapsed' = 0 /\ excused' = FALSE
  /\ uncounted' = MinOf(LeftOut(pipe, 0, 0), MaxMissed)
  /\ UNCHANGED <<app, want, link, pipe>>

-----------------------------------------------------------------------------
(* The drain thread hands a unit on.                                       *)
Forward ==
  /\ link = "up" /\ ring > 0 /\ pipe < PipeSize
  /\ ring' = ring - 1 /\ pipe' = pipe + 1
  /\ UNCHANGED <<app, want, estimate, link, uncounted, excused>>

(* The server goes, and what it had with it.                               *)
Crash ==
  /\ link = "up" /\ link' = "down" /\ pipe' = 0
  /\ UNCHANGED <<app, want, estimate, ring, uncounted, excused>>

(* reconnect_audiod, connected again: total_pushed, then play_start.  What *)
(* is in the ring stays, and a write may be under way.                     *)
ZeroPushed ==
  /\ link = "down" /\ link' = "zeroed"
  /\ pushed' = 0
  /\ uncounted' = Missed(0, elapsed)
  /\ UNCHANGED <<app, want, anchored, elapsed, ring, pipe, excused>>

ClearStart ==
  /\ link = "zeroed" /\ link' = "up"
  /\ anchored' = FALSE /\ elapsed' = 0
  /\ uncounted' = Missed(pushed, 0)
  /\ excused' = (app \in {"push", "count"} \/ pushed > 0)
  /\ UNCHANGED <<app, want, pushed, ring, pipe>>

(* The server discards for a flush.                                        *)
Discard ==
  /\ pipe > 0 /\ pipe' = 0
  /\ UNCHANGED <<app, want, estimate, link, ring, uncounted, excused>>

(* A tick: the DAC plays a unit, or does not: it has none yet or no more,  *)
(* or other things to do.  The clock runs on.  Past MaxPushed it makes no  *)
(* difference any more.                                                    *)
Tick(plays) ==
  /\ plays => pipe > 0
  /\ pipe' = IF plays THEN pipe - 1 ELSE pipe
  /\ LET runs == anchored /\ elapsed < MaxPushed IN
       /\ elapsed' = IF runs THEN elapsed + 1 ELSE elapsed
       /\ uncounted' = CASE runs /\ ~plays -> MinOf(uncounted + 1, MaxMissed)
                         [] plays /\ ~runs /\ uncounted < MaxMissed ->
                              MaxOf(uncounted - 1, 0)
                         [] OTHER -> uncounted
  /\ UNCHANGED <<app, want, pushed, anchored, link, ring, excused>>

Time == \E plays \in BOOLEAN : Tick(plays)
Writei == Anchor \/ Push \/ Count
Next ==
  \/ \E n \in Writes : Poll(n)
  \/ Ready \/ Writei \/ Prepare \/ Drop
  \/ Forward \/ Crash \/ ZeroPushed \/ ClearStart \/ Discard
  \/ Time

Spec == Init /\ [][Next]_vars
FairSpec == Spec /\ WF_vars(Ready) /\ WF_vars(Time)

-----------------------------------------------------------------------------
TypeOK ==
  /\ app \in {"idle", "poll", "anchor", "push", "count"} /\ want \in Writes \cup {0}
  /\ pushed \in Nat /\ anchored \in BOOLEAN /\ elapsed \in Nat
  /\ link \in {"up", "down", "zeroed"}
  /\ ring \in Nat /\ pipe \in Nat /\ uncounted \in Nat /\ excused \in BOOLEAN

(* "delay + avail == BUFFER_SIZE, so an app can never write more than the  *)
(* advertised buffer ahead" (pcm_delay_avail): it is ahead of the DAC by   *)
(* no more than that as long as what the estimate misses, audio left over  *)
(* from before a reset and ticks in which the DAC had nothing to play,     *)
(* comes to no more than the baseline.  A stall or a pause longer than     *)
(* that is added to the backlog, until a drop.                             *)
AheadBounded == uncounted <= ServerFrames => ring + pipe <= BufferSize

(* An application that waits for room gets it, if it waits for no more     *)
(* than avail can ever be: the server's baseline is always part of delay,  *)
(* so that is BufferSize less ServerFrames, half of the buffer the shim    *)
(* advertises, and one that waits for more waits for ever.  Besides that   *)
(* only a clock that was stopped and the count not reset with it, by a     *)
(* prepare or by a reconnect during a write, leaves it waiting.            *)
AlwaysResumes ==
  app = "poll" /\ want <= BufferSize - ServerFrames /\ ~excused ~> app # "poll" \/ excused

=============================================================================
