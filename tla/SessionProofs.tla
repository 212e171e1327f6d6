---------------------------- MODULE SessionProofs ----------------------------
(***************************************************************************)
(* Theorems about Session: the mixer's timing (IdlePlayback) and the DMA   *)
(* ring (HdaStream) through any number of processes over the same          *)
(* hardware, for all sizes, boards and rates; and the bring-up of the      *)
(* codec, verb by verb: what is checked, programmed and kept.              *)
(***************************************************************************)
EXTENDS Session, HdaProofs, SequenceTheorems, WellFoundedInduction

-----------------------------------------------------------------------------
(* The mixer's loop is made of the steps of the stream.                    *)
LEMMA MixerMovesStream == [Next]_vars => [HdaNext]_hdaVars
BY DEF Next, vars, HdaNext, hdaVars, Supply, RequestFlush, MixFlush, Halt, MixIdle, TryIdleStop,
       MixFull, MixPush, PushTail, Tick

(* HdaPlayback.running says what SD_CTL.RUN does.                          *)
Truthful == dma <=> running

LEMMA TruthfulNext == Truthful /\ [HdaNext]_hdaVars => Truthful'
BY DEF Truthful, HdaNext, hdaVars, Begin, Start, Feed, WriteRest, Write, StopImmediate, DropAll, Read

-----------------------------------------------------------------------------
(* The watchdog.  Types by kind, and then the timer against what it is     *)
(* meant to measure: while nothing is queued and the DMA runs, the timer   *)
(* is armed by the first round that finds this, so it lags one tick behind *)
(* the silence at most; and it is never ahead of it.                       *)
Ticks == /\ queued \in Nat /\ quiet \in Nat /\ waited \in Nat
         /\ dry_since \in None .. Idle
Signs == flush \in BOOLEAN /\ stopped \in BOOLEAN /\ mixed \in BOOLEAN
NeverAhead == /\ queued > 0 => quiet = 0
              /\ queued = 0 => dry_since <= quiet
OneBehind ==
  /\ stopped => ~dma
  /\ dma /\ mixed => dry_since < Idle
  /\ dma /\ queued = 0 /\ dry_since = None => quiet <= 1 /\ (mixed => quiet = 0)
  /\ dma /\ queued = 0 /\ dry_since # None => quiet <= dry_since + 1
Watch == Ticks /\ Signs /\ NeverAhead /\ OneBehind

(* What is taken off the queue, and what is left of it.                    *)
LEMMA PushTakes ==
  ASSUME HdaTypeOK, Ticks, MixPush
  PROVE  queued' \in Nat
<1>1. DelayFrames \in Nat /\ DelayFrames < Target
  BY DelayType, HdaAssumption DEF MixPush, Begin, Feed, Positions
<1>2. Headroom \in Nat
  BY <1>1, HdaAssumption DEF Headroom, MinOf
<1> QED
  BY <1>2 DEF MixPush, MinOf, Ticks

LEMMA TicksNext == HdaTypeOK /\ Ticks /\ [Next]_vars => Ticks'
<1> SUFFICES ASSUME HdaTypeOK, Ticks, [Next]_vars PROVE Ticks'
  OBVIOUS
<1>0. Idle \in Nat /\ 0 \in None .. Idle /\ None \in None .. Idle
  BY IdleAssumption DEF None
<1>1. CASE Supply
  BY <1>1 DEF Supply, Ticks
<1>2. CASE RequestFlush
  BY <1>2 DEF RequestFlush, Ticks
<1>3. CASE MixFlush
  BY <1>0, <1>3 DEF MixFlush, Ticks
<1>4. CASE MixIdle
  BY <1>0, <1>4 DEF MixIdle, TryIdleStop, Ticks
<1>5. CASE MixFull
  BY <1>0, <1>5 DEF MixFull, Ticks
<1>6. CASE MixPush
  BY <1>0, <1>6, PushTakes DEF MixPush, Ticks
<1>7. CASE PushTail
  BY <1>7 DEF PushTail, Ticks
<1>8. CASE Tick
  BY <1>0, <1>8, HdaAssumption DEF Tick, MinOf, Ticks, None
<1>9. CASE UNCHANGED vars
  BY <1>9 DEF vars, Ticks
<1> QED
  BY <1>1, <1>2, <1>3, <1>4, <1>5, <1>6, <1>7, <1>8, <1>9 DEF Next

LEMMA SignsNext == Signs /\ [Next]_vars => Signs'
BY DEF Signs, Next, vars, Supply, RequestFlush, MixFlush, Halt, MixIdle, TryIdleStop,
       MixFull, MixPush, PushTail, Tick

LEMMA NeverAheadNext == Ticks /\ NeverAhead /\ [Next]_vars => NeverAhead'
<1> SUFFICES ASSUME Ticks, NeverAhead, [Next]_vars PROVE NeverAhead'
  OBVIOUS
<1>1. CASE Supply
  BY <1>1 DEF Supply, NeverAhead, Ticks
<1>2. CASE RequestFlush
  BY <1>2 DEF RequestFlush, NeverAhead
<1>3. CASE MixFlush
  BY <1>3 DEF MixFlush, NeverAhead, Ticks, None
<1>4. CASE MixIdle
  BY <1>4 DEF MixIdle, TryIdleStop, NeverAhead, Ticks, None
<1>5. CASE MixFull
  BY <1>5 DEF MixFull, NeverAhead, None
<1>6. CASE MixPush
  BY <1>6 DEF MixPush, NeverAhead, None
<1>7. CASE PushTail
  BY <1>7 DEF PushTail, NeverAhead
<1>8. CASE Tick
  BY <1>8, IdleAssumption DEF Tick, NeverAhead, Ticks, MinOf, None
<1>9. CASE UNCHANGED vars
  BY <1>9 DEF vars, NeverAhead
<1> QED
  BY <1>1, <1>2, <1>3, <1>4, <1>5, <1>6, <1>7, <1>8, <1>9 DEF Next

LEMMA OneBehindNext == Watch /\ [Next]_vars => OneBehind'
<1> SUFFICES ASSUME Ticks, Signs, NeverAhead, OneBehind, [Next]_vars PROVE OneBehind'
  BY DEF Watch
<1>0. Idle \in Nat /\ 0 < Idle
  BY IdleAssumption, HdaAssumption
<1>1. CASE Supply
  BY <1>1 DEF Supply, OneBehind, Ticks, hdaVars
<1>2. CASE RequestFlush
  BY <1>2 DEF RequestFlush, OneBehind, hdaVars
<1>3. CASE MixFlush
  <2>1. CASE queued' = 0 /\ ~stopped
    BY <1>0, <1>3, <2>1 DEF MixFlush, Halt, StopImmediate, DropAll, OneBehind
  <2>2. CASE ~(queued' = 0 /\ ~stopped)
    BY <1>0, <1>3, <2>2 DEF MixFlush, OneBehind, Ticks, hdaVars, None
  <2> QED
    BY <2>1, <2>2
<1>4. CASE MixIdle
  <2>1. CASE stopped
    BY <1>4, <2>1 DEF MixIdle, TryIdleStop, Halt, StopImmediate, DropAll, OneBehind, hdaVars
  <2>2. CASE ~stopped /\ dry_since >= Idle
    <3>1. ~dma'
      BY <1>0, <1>4, <2>2 DEF MixIdle, TryIdleStop, Halt, StopImmediate, DropAll, Ticks
    <3> QED
      BY <3>1 DEF OneBehind
  <2>3. CASE ~stopped /\ ~(dry_since >= Idle)
    BY <1>0, <1>4, <2>3 DEF MixIdle, TryIdleStop, OneBehind, Ticks, hdaVars, None
  <2> QED
    BY <2>1, <2>2, <2>3
<1>5. CASE MixFull
  BY <1>0, <1>5 DEF MixFull, OneBehind, hdaVars, None
<1>6. CASE MixPush
  BY <1>0, <1>6 DEF MixPush, OneBehind, None
<1>7. CASE PushTail
  BY <1>7 DEF PushTail, WriteRest, Write, OneBehind
<1>8. CASE Tick
  <2>1. dma' = dma
    BY <1>8 DEF Tick, Read, hdaVars
  <2> QED
    BY <1>0, <1>8, <2>1 DEF Tick, OneBehind, NeverAhead, Ticks, MinOf, None
<1>9. CASE UNCHANGED vars
  BY <1>9 DEF vars, hdaVars, OneBehind
<1> QED
  BY <1>1, <1>2, <1>3, <1>4, <1>5, <1>6, <1>7, <1>8, <1>9 DEF Next

LEMMA WatchNext == HdaTypeOK /\ Watch /\ [Next]_vars => Watch'
BY TicksNext, SignsNext, NeverAheadNext, OneBehindNext DEF Watch

LEMMA WatchStops == Watch => IdleStops
BY IdleAssumption DEF Watch, Ticks, OneBehind, NeverAhead, IdleStops, None

(* A step that halts the DMA is a flush, or the watchdog's.                *)
LEMMA WatchWaits == Watch /\ [Next]_vars => (dma /\ ~dma' => quiet >= Idle \/ flush)
<1> SUFFICES ASSUME Watch, [Next]_vars, dma, ~dma' PROVE quiet >= Idle \/ flush
  OBVIOUS
<1>1. MixFlush \/ MixIdle
  BY DEF Next, vars, hdaVars, Supply, RequestFlush, MixFull, MixPush, Begin, Start, Feed, Write,
         PushTail, WriteRest, Tick, Read
<1>2. CASE MixFlush
  BY <1>2 DEF MixFlush
<1>3. CASE MixIdle
  <2>1. queued = 0 /\ dry_since >= Idle
    BY <1>3 DEF MixIdle, TryIdleStop, hdaVars
  <2> QED
    BY <2>1, IdleAssumption DEF Watch, NeverAhead, Ticks, None
<1> QED
  BY <1>1, <1>2, <1>3

-----------------------------------------------------------------------------
(* Audio held up.  Its wait and the way the DMA still has to go to         *)
(* write_pos make no more than a lap, from the tick in which it arrived;   *)
(* a round of the mixer that lets it wait has found the target reached.    *)
HeldUp ==
  /\ queued = 0 => waited = 0
  /\ left > 0 => waited = 0
  /\ waited > 0 => /\ waited + DelayFrames <= RingFrames
                   /\ mixed => DelayFrames >= Target
                   /\ ~mixed => DelayFrames >= Target - 1 \/ waited = 1

LEMMA HeldUpNext == Base /\ Truthful /\ Ticks /\ Signs /\ HeldUp /\ [Next]_vars => HeldUp'
<1> SUFFICES ASSUME Base, Truthful, Ticks, Signs, HeldUp, [Next]_vars PROVE HeldUp'
  OBVIOUS
<1>0. /\ DelayFrames \in Nat /\ DelayFrames < RingFrames /\ left \in Nat
      /\ RingFrames \in Nat /\ Target \in Nat /\ 0 < Target /\ Target < RingFrames
  BY DelayType, HdaAssumption DEF Base, HdaTypeOK, Positions
<1>1. UNCHANGED hdaVars => DelayFrames' = DelayFrames /\ left' = left
  BY DEF hdaVars, DelayFrames, Ahead
<1>2. CASE Supply
  BY <1>1, <1>2 DEF Supply, HeldUp, Ticks
<1>3. CASE RequestFlush
  BY <1>1, <1>3 DEF RequestFlush, HeldUp
<1>4. CASE MixFlush
  <2>1. CASE queued' = 0
    BY <1>4, <2>1 DEF MixFlush, HeldUp
  <2>2. CASE queued' # 0
    BY <1>0, <1>1, <1>4, <2>2 DEF MixFlush, HeldUp, Ticks, Signs
  <2> QED
    BY <2>1, <2>2
<1>5. CASE MixIdle
  BY <1>5 DEF MixIdle, HeldUp
<1>6. CASE MixFull
  BY <1>0, <1>1, <1>6 DEF MixFull, HeldUp, Ticks
<1>7. CASE MixPush
  BY <1>7 DEF MixPush, HeldUp
<1>8. CASE PushTail
  BY <1>0, <1>8 DEF PushTail, WriteRest, HeldUp
<1>9. CASE Tick
  <2>1. left = 0 /\ left' = 0 /\ mixed /\ ~mixed' /\ queued' = queued
    BY <1>1, <1>9 DEF Tick, Read
  <2>2. CASE queued = 0
    BY <1>9, <2>1, <2>2 DEF Tick, HeldUp
  <2>3. CASE queued # 0 /\ waited = 0
    <3>1. waited' = 1
      BY <1>0, <1>9, <2>3 DEF Tick, MinOf
    <3>2. DelayFrames' \in Nat /\ DelayFrames' < RingFrames
      <4>1. HdaTypeOK'
        BY BaseNext, MixerMovesStream DEF Base
      <4>2. lpib' \in Positions /\ write_pos' \in Positions
        BY <4>1 DEF HdaTypeOK, Positions
      <4>3. DelayFrames' = Ahead(lpib', write_pos')
        BY DEF DelayFrames, Ahead
      <4>4. Ahead(lpib', write_pos') \in Positions
        BY <4>2, AheadType
      <4> QED
        BY <4>3, <4>4, HdaAssumption DEF Positions
    <3>3. queued' # 0
      BY <2>1, <2>3
    <3>4. waited' + DelayFrames' <= RingFrames
      <4>1. \A d \in Nat : d < RingFrames => 1 + d <= RingFrames
        BY <1>0
      <4> QED
        BY <3>1, <3>2, <4>1
    <3> QED
      BY <2>1, <3>1, <3>3, <3>4 DEF HeldUp
  <2>4. CASE queued # 0 /\ waited # 0
    <3>1. /\ DelayFrames >= Target /\ waited + DelayFrames <= RingFrames
          /\ waited \in Nat /\ waited > 0
      BY <2>1, <2>4 DEF HeldUp, Ticks
    <3>2. lpib # write_pos
      BY <1>0, <3>1 DEF DelayFrames, Ahead, Base, HdaTypeOK, Positions
    <3>3. Read
      BY <1>9, <3>2 DEF Tick, Base, AtRest, Truthful
    <3>4. DelayFrames' = DelayFrames - 1
      BY <3>2, <3>3, AheadLoses DEF Read, DelayFrames, Ahead, Base, HdaTypeOK
    <3>5. waited' = waited + 1
      BY <1>0, <1>9, <2>4, <3>1 DEF Tick, MinOf
    <3> QED
      BY <1>0, <2>1, <2>4, <3>1, <3>4, <3>5 DEF HeldUp
  <2> QED
    BY <2>2, <2>3, <2>4
<1>10. CASE UNCHANGED vars
  BY <1>1, <1>10 DEF vars, HeldUp
<1> QED
  BY <1>2, <1>3, <1>4, <1>5, <1>6, <1>7, <1>8, <1>9, <1>10 DEF Next

LEMMA HeldUpIsBounded == HdaTypeOK /\ Ticks /\ HeldUp => HeldUpBounded
BY DelayType, HdaAssumption DEF Ticks, HeldUp, HeldUpBounded, Positions

-----------------------------------------------------------------------------
(* Processes.  While one plays, the stream takes HdaStream's steps; the    *)
(* steps outside are few, and are told apart here once and for all.        *)
Playing == phase \in {"ready", "drain"}
Before == {"off", "pci", "fence", "link", "probe", "select", "stream", "codec", "opened", "failed"}

Plays == Playing /\ phase' = phase /\ [HdaNext]_hdaVars
(* Steps of the bring-up, of set_mute and of the end of a file.            *)
Elsewhere ==
  /\ UNCHANGED hdaVars
  /\ \/ phase' = phase
     \/ phase \in Before /\ phase' \in Before \ {"codec", "opened"}
     \/ phase = "codec" /\ phase' = "opened"
     \/ phase = "opened" /\ phase' = "ready"
     \/ phase = "ready" /\ phase' = "drain"

LEMMA MixPlays == Mix => Plays
BY MixerMovesStream DEF Mix, Plays, Playing, vars

LEMMA OthersPlay == Play \/ PlayerRead => Plays
BY DEF Play, PlayerRead, Played, Plays, Playing, HdaNext

LEMMA BringUpIsElsewhere ==
  ConfigurePci \/ Fence \/ ResetStuck \/ SkipReset \/ ProbeVendor \/ ProbeMore \/ Select
    \/ PinFails \/ InitVerb \/ Ready => Elsewhere
BY DEF ConfigurePci, Fence, ResetStuck, SkipReset, LinkUp, ProbeVendor, ProbeMore, NextSlot, Select,
       PinFails, InitVerb, Ready, Elsewhere, Before

LEMMA MuteIsElsewhere == ToggleMute \/ SyncMuted \/ MuteVerb \/ EndOfFile => Elsewhere
BY DEF ToggleMute, SyncMuted, MuteVerb, EndOfFile, Elsewhere

LEMMA Steps ==
  ASSUME [SessionNext]_sessionVars
  PROVE  Launch \/ Exit \/ ResetLink \/ OpenStream \/ Drained \/ Plays \/ Elsewhere
<1>1. UNCHANGED sessionVars => Elsewhere
  BY DEF sessionVars, Elsewhere
<1> QED
  BY <1>1, MixPlays, OthersPlay, BringUpIsElsewhere, MuteIsElsewhere DEF SessionNext

-----------------------------------------------------------------------------
(* The stream through the lives of processes.  RUN may be set all through  *)
(* the bring-up, up to the srst; the rest starts from nothing.             *)
Cleared ==
  /\ caller \in {"mixer", "play"}
  /\ write_pos = 0 /\ lpib = 0 /\ running = FALSE /\ left = 0
  /\ cell = [i \in Positions |-> "silent"] /\ dac = "silent"
  /\ owed = 0 /\ lap = 0 /\ overtaken = FALSE

Sound == HdaTypeOK /\ Counted /\ Paced /\ FirstLap
Phases == phase \in Before \cup {"ready", "drain", "drained"}
Clean == /\ phase \in Before => ~running /\ lpib = 0 /\ write_pos = 0 /\ lap = 0
         /\ phase \in {"codec", "opened"} => ~dma
         /\ Playing => AtRest /\ Truthful
StreamInv == Sound /\ Phases /\ Clean

LEMMA ClearedIsSound == Cleared /\ dma \in BOOLEAN => Sound
<1> SUFFICES ASSUME Cleared, dma \in BOOLEAN PROVE Sound
  OBVIOUS
<1>a. cell \in [Positions -> {"silent", "fresh", "played"}] /\ Fresh = {}
  BY DEF Cleared, Fresh
<1>b. 0 \in Positions /\ 0 \in 0 .. Target /\ 0 \in 0 .. RingFrames
  BY HdaAssumption DEF Positions
<1>1. HdaTypeOK
  BY <1>a, <1>b DEF Cleared, HdaTypeOK
<1>2. Counted
  BY <1>a, FS_EmptySet DEF Cleared, Counted
<1>3. Paced
  <2>1. Span(lpib, owed) = {} /\ DelayFrames = 0
    BY HdaAssumption DEF Cleared, Span, DelayFrames, Ahead, Positions
  <2> QED
    BY <1>a, <2>1, HdaAssumption DEF Cleared, Paced
<1>4. FirstLap
  BY DEF Cleared, FirstLap, Positions
<1> QED
  BY <1>1, <1>2, <1>3, <1>4 DEF Sound

LEMMA StreamInit == SessionInit => StreamInv
<1> SUFFICES ASSUME SessionInit PROVE StreamInv
  OBVIOUS
<1>1. Cleared /\ dma \in BOOLEAN
  BY DEF SessionInit, Init, HdaInit, Cleared
<1>2. Phases /\ Clean
  BY <1>1 DEF SessionInit, Phases, Clean, Before, Playing, Cleared
<1> QED
  BY <1>1, <1>2, ClearedIsSound DEF StreamInv

LEMMA SameIsSound ==
  ASSUME Sound, caller' \in {"mixer", "play"}, dma' \in BOOLEAN, running' \in BOOLEAN,
         UNCHANGED <<ringVars, dacVars, lpib, left>>
  PROVE  Sound'
<1>1. HdaTypeOK'
  BY DEF Sound, HdaTypeOK, ringVars, dacVars
<1>2. Counted' /\ Paced' /\ FirstLap'
  BY DEF Sound, Counted, Paced, FirstLap, Fresh, Span, DelayFrames, Ahead, ringVars, dacVars
<1> QED
  BY <1>1, <1>2 DEF Sound

LEMMA StreamNext == StreamInv /\ [SessionNext]_sessionVars => StreamInv'
<1> SUFFICES ASSUME StreamInv, [SessionNext]_sessionVars PROVE StreamInv'
  OBVIOUS
<1>0. Sound /\ Phases /\ Clean /\ HdaTypeOK
  BY DEF StreamInv, Sound
<1>1. CASE Launch
  <2>1. Sound'
    BY <1>0, <1>1, SameIsSound DEF Launch, HdaTypeOK
  <2>2. Phases' /\ Clean'
    BY <1>0, <1>1 DEF Launch, Phases, Clean, Before, Playing, ringVars, dacVars
  <2> QED
    BY <2>1, <2>2 DEF StreamInv
<1>2. CASE Exit
  <2>1. Cleared' /\ (dma \in BOOLEAN)'
    BY <1>0, <1>2 DEF Exit, Cleared, HdaTypeOK, Positions
  <2>2. Sound'
    BY <2>1, ClearedIsSound, PTL
  <2>3. Phases' /\ Clean'
    BY <1>2 DEF Exit, Phases, Clean, Before, Playing
  <2> QED
    BY <2>2, <2>3 DEF StreamInv
<1>3. CASE ResetLink \/ OpenStream
  <2>1. Sound'
    BY <1>0, <1>3, SameIsSound DEF ResetLink, OpenStream, HdaTypeOK
  <2>2. Phases' /\ Clean'
    BY <1>0, <1>3
       DEF ResetLink, OpenStream, LinkUp, Phases, Clean, Before, Playing, ringVars, dacVars
  <2> QED
    BY <2>1, <2>2 DEF StreamInv
<1>4. CASE Drained
  <2>1. Sound'
    BY <1>0, <1>4, SameIsSound DEF Drained, HdaTypeOK
  <2>2. Phases' /\ Clean'
    BY <1>0, <1>4 DEF Drained, Phases, Clean, Before, Playing
  <2> QED
    BY <2>1, <2>2 DEF StreamInv
<1>5. CASE Plays
  <2>1. Base /\ Paced /\ FirstLap /\ Truthful
    BY <1>0, <1>5 DEF Plays, Clean, Sound, Base
  <2>2. Base' /\ Paced' /\ FirstLap' /\ Truthful'
    BY <1>5, <2>1, BaseNext, PacedNext, FirstLapNext, TruthfulNext DEF Plays
  <2>3. Phases' /\ Clean'
    BY <1>0, <1>5, <2>2 DEF Plays, Playing, Phases, Clean, Before, Base
  <2> QED
    BY <2>2, <2>3 DEF StreamInv, Sound, Base
<1>6. CASE Elsewhere
  <2>1. Sound'
    BY <1>0, <1>6, SameIsSound DEF Elsewhere, hdaVars, ringVars, dacVars, HdaTypeOK
  <2>2. Phases'
    BY <1>0, <1>6 DEF Elsewhere, Phases, Before
  <2>3. (AtRest /\ Truthful)' <=> AtRest /\ Truthful
    BY <1>6 DEF Elsewhere, hdaVars, AtRest, Truthful
  <2>4. Clean'
    BY <1>0, <1>6, <2>3 DEF Elsewhere, hdaVars, Clean, Before, Playing, AtRest, Truthful
  <2> QED
    BY <2>1, <2>2, <2>4 DEF StreamInv
<1> QED
  BY <1>1, <1>2, <1>3, <1>4, <1>5, <1>6, Steps

(* Through restarts, stalled bring-ups and crashes at any point, the delay *)
(* reported is exactly the audio in front of the DAC until it is overtaken.*)
THEOREM DelayIsExactForAll == SessionSpec => []PacedExactly
<1>1. StreamInv => PacedExactly
  BY HdaAssumption DEF StreamInv, Sound, Paced, PacedExactly, HdaTypeOK
<1> QED
  BY <1>1, StreamInit, StreamNext, PTL DEF SessionSpec

(* No process's DAC gets anything for a second time in the first lap after *)
(* its start or after a drop.                                              *)
THEOREM NoReplayForAll == SessionSpec => []CleanFirstLap
<1>1. StreamInv => CleanFirstLap
  BY DEF StreamInv, Sound, FirstLap, CleanFirstLap
<1> QED
  BY <1>1, StreamInit, StreamNext, PTL DEF SessionSpec

-----------------------------------------------------------------------------
(* Only a process that mixes has a watchdog; in all others, and before the *)
(* mixer is ready, its variables are as at the start.                      *)
Mixing == phase = "ready" /\ caller = "mixer"
Unarmed == /\ queued = 0 /\ dry_since = None /\ quiet = 0 /\ waited = 0
           /\ flush = FALSE /\ stopped = FALSE /\ mixed = FALSE
IdleInv == Watch /\ HeldUp /\ (~Mixing => Unarmed)

LEMMA UnarmedIsFine == Unarmed => Watch /\ HeldUp
<1> SUFFICES ASSUME Unarmed PROVE Watch /\ HeldUp
  OBVIOUS
<1>1. Ticks
  BY IdleAssumption DEF Unarmed, Ticks, None
<1>2. Signs
  BY DEF Unarmed, Signs
<1>3. NeverAhead /\ OneBehind /\ HeldUp
  BY DEF Unarmed, NeverAhead, OneBehind, HeldUp, None
<1> QED
  BY <1>1, <1>2, <1>3 DEF Watch

LEMMA IdleSteps ==
  ASSUME [SessionNext]_sessionVars
  PROVE  Exit \/ Mix \/ (UNCHANGED idleVars /\ (Mixing => UNCHANGED <<hdaVars, phase>>))
<1>1. ConfigurePci \/ Fence \/ ResetStuck \/ ResetLink \/ SkipReset \/ ProbeVendor \/ ProbeMore
        \/ Select \/ PinFails \/ OpenStream \/ InitVerb \/ Ready \/ Launch
        => UNCHANGED idleVars /\ ~Mixing
  BY DEF ConfigurePci, Fence, ResetStuck, ResetLink, SkipReset, ProbeVendor, ProbeMore,
         Select, PinFails, OpenStream, InitVerb, Ready, Launch, Mixing
<1>2. Play \/ PlayerRead \/ ToggleMute \/ SyncMuted \/ EndOfFile \/ Drained
        => UNCHANGED idleVars /\ ~Mixing
  BY DEF Play, PlayerRead, Played, ToggleMute, SyncMuted, EndOfFile, Drained, Mixing
<1>3. MuteVerb \/ UNCHANGED sessionVars => UNCHANGED <<idleVars, hdaVars, phase>>
  BY DEF MuteVerb, sessionVars
<1> QED
  BY <1>1, <1>2, <1>3 DEF SessionNext

LEMMA IdleInit == SessionInit => IdleInv
<1>1. SessionInit => Unarmed
  BY DEF SessionInit, Init, Unarmed
<1> QED
  BY <1>1, UnarmedIsFine DEF IdleInv

LEMMA IdleNext == StreamInv /\ IdleInv /\ [SessionNext]_sessionVars => IdleInv'
<1> SUFFICES ASSUME StreamInv, IdleInv, [SessionNext]_sessionVars PROVE IdleInv'
  OBVIOUS
<1>0. Unarmed' => Watch' /\ HeldUp'
  BY UnarmedIsFine, PTL
<1>1. CASE Exit
  <2>1. Unarmed'
    BY <1>1 DEF Exit, Unarmed
  <2> QED
    BY <1>0, <2>1 DEF IdleInv
<1>2. CASE Mix
  <2>1. Base /\ Truthful /\ Watch /\ HeldUp /\ Next
    BY <1>2 DEF Mix, StreamInv, Sound, Clean, Playing, Base, IdleInv
  <2>2. Watch'
    BY <2>1, WatchNext DEF Base
  <2>3. HeldUp'
    BY <2>1, HeldUpNext DEF Watch
  <2>4. caller' = caller
    BY <2>1, MixerMovesStream
       DEF HdaNext, hdaVars, Begin, Feed, WriteRest, StopImmediate, Read
  <2>5. Mixing'
    BY <1>2, <2>4 DEF Mix, Mixing
  <2> QED
    BY <2>2, <2>3, <2>5 DEF IdleInv
<1>3. CASE UNCHANGED idleVars /\ ~Mixing
  <2>1. Unarmed'
    BY <1>3 DEF IdleInv, Unarmed, idleVars
  <2> QED
    BY <1>0, <2>1 DEF IdleInv
<1>4. CASE UNCHANGED idleVars /\ UNCHANGED <<hdaVars, phase>>
  <2>1. Watch' <=> Watch
    BY <1>4 DEF Watch, Ticks, Signs, NeverAhead, OneBehind, idleVars, hdaVars
  <2>2. HeldUp' <=> HeldUp
    BY <1>4 DEF HeldUp, DelayFrames, Ahead, idleVars, hdaVars
  <2>3. (Mixing' <=> Mixing) /\ (Unarmed' <=> Unarmed)
    BY <1>4 DEF Mixing, Unarmed, idleVars, hdaVars
  <2> QED
    BY <2>1, <2>2, <2>3 DEF IdleInv
<1> QED
  BY <1>1, <1>2, <1>3, <1>4, IdleSteps

(* The DMA stops within the idle time and a tick of the last audio, also   *)
(* when it has overtaken the writes and the ring reads as full, whatever   *)
(* the sizes and however often it was started and stopped before.          *)
THEOREM SilenceEnds == SessionSpec => []IdleStops
<1>1. IdleInv => IdleStops
  BY WatchStops DEF IdleInv
<1> QED
  BY <1>1, StreamInit, StreamNext, IdleInit, IdleNext, PTL DEF SessionSpec

(* Pauses shorter than the idle time never add up to a halt.               *)
THEOREM PausesDoNotAddUp == SessionSpec => HaltNotEarly
<1>1. IdleInv /\ [SessionNext]_sessionVars
        => [phase = "ready" /\ caller = "mixer" /\ dma /\ ~dma' => quiet >= Idle \/ flush]_sessionVars
  <2> SUFFICES ASSUME IdleInv, [SessionNext]_sessionVars, Mixing, dma, ~dma'
               PROVE  quiet >= Idle \/ flush
    BY DEF Mixing
  <2>1. Mix
    BY IdleSteps DEF Exit, hdaVars
  <2> QED
    BY <2>1, WatchWaits DEF Mix, IdleInv
<1> QED
  BY <1>1, StreamInit, StreamNext, IdleInit, IdleNext, PTL DEF SessionSpec, HaltNotEarly

(* Audio that meets an underrun waits for one lap less the target at most, *)
(* and the tick in which it arrived.                                       *)
THEOREM UnderrunsEnd == SessionSpec => []HeldUpBounded
<1>1. StreamInv /\ IdleInv => HeldUpBounded
  BY HeldUpIsBounded DEF StreamInv, Sound, IdleInv, Watch
<1> QED
  BY <1>1, StreamInit, StreamNext, IdleInit, IdleNext, PTL DEF SessionSpec

-----------------------------------------------------------------------------
(* Whose pages the DMA reads.  The descriptor changes with RUN, so that    *)
(* NoForeignDma is inductive next to what is known of RUN and of stopped.  *)
LEMMA PagesNext == StreamInv /\ IdleInv /\ NoForeignDma /\ [SessionNext]_sessionVars => NoForeignDma'
<1> SUFFICES ASSUME StreamInv, IdleInv, NoForeignDma, [SessionNext]_sessionVars PROVE NoForeignDma'
  OBVIOUS
<1>0. Phases /\ Clean
  BY DEF StreamInv
<1>1. CASE Launch \/ Exit \/ ConfigurePci \/ Fence \/ ResetStuck
  BY <1>1 DEF Launch, Exit, ConfigurePci, Fence, ResetStuck, NoForeignDma, Opened, hardware, hdaVars
<1>2. CASE ResetLink \/ SkipReset
  BY <1>2 DEF ResetLink, SkipReset, LinkUp, NoForeignDma, Opened, hdaVars
<1>3. CASE ProbeVendor \/ ProbeMore \/ Select \/ PinFails
  BY <1>3 DEF ProbeVendor, ProbeMore, NextSlot, Select, PinFails, NoForeignDma, Opened, hardware, hdaVars
<1>4. CASE OpenStream
  BY <1>4 DEF OpenStream, NoForeignDma
<1>5. CASE InitVerb \/ Ready
  <2>1. ~dma'
    BY <1>0, <1>5 DEF InitVerb, Ready, Clean, hdaVars
  <2> QED
    BY <2>1 DEF NoForeignDma
<1>6. CASE Mix \/ Play \/ PlayerRead
  <2> SUFFICES ASSUME dma' PROVE sd'.pages = "ours"
    BY DEF NoForeignDma
  <2>1. Playing /\ Truthful /\ Plays /\ Descriptor /\ Truthful'
    BY <1>0, <1>6, MixPlays, OthersPlay, TruthfulNext
       DEF Mix, Play, PlayerRead, Played, Plays, Clean, Playing
  <2>2. running' /\ ~running => sd' = Setup
    BY <2>1 DEF Descriptor
  <2>3. CASE dma
    <3>1. sd.pages = "ours"
      BY <2>1, <2>3 DEF NoForeignDma, Playing, Opened
    <3>2. ~(stopped' /\ ~stopped)
      <4>1. CASE Mix
        BY <2>1, <4>1 DEF Mix, IdleInv, Mixing, Watch, OneBehind, Next, Supply, RequestFlush, MixFlush,
             Halt, StopImmediate, DropAll, MixIdle, TryIdleStop, MixFull, MixPush, PushTail, Tick
      <4>2. CASE Play \/ PlayerRead
        BY <4>2 DEF Play, PlayerRead, Played, idleVars
      <4> QED
        BY <1>6, <4>1, <4>2
    <3> QED
      BY <2>1, <2>3, <3>1, <3>2 DEF Descriptor, Truthful
  <2>4. CASE ~dma
    BY <2>1, <2>2, <2>4 DEF Truthful, Setup
  <2> QED
    BY <2>3, <2>4
<1>7. CASE ToggleMute \/ SyncMuted \/ MuteVerb \/ EndOfFile
  BY <1>7 DEF ToggleMute, SyncMuted, MuteVerb, EndOfFile, NoForeignDma, Opened, hardware, hdaVars
<1>8. CASE Drained
  BY <1>8 DEF Drained, NoForeignDma
<1>9. CASE UNCHANGED sessionVars
  BY <1>9 DEF sessionVars, NoForeignDma, Opened, hardware, hdaVars
<1> QED
  BY <1>1, <1>2, <1>3, <1>4, <1>5, <1>6, <1>7, <1>8, <1>9 DEF SessionNext

(* From the link reset on, or under --skip-reset from the srst of its own  *)
(* stream on, no process lets the DMA read pages that are not its own.     *)
THEOREM ResetHaltsForeignDma == SessionSpec => []NoForeignDma
<1>1. SessionInit => NoForeignDma
  BY DEF SessionInit, NoForeignDma
<1> QED
  BY <1>1, StreamInit, StreamNext, IdleInit, IdleNext, PagesNext, PTL DEF SessionSpec

-----------------------------------------------------------------------------
(* drain ends only when everything has been played, unless the DMA had     *)
(* overtaken the writes.                                                   *)
THEOREM DrainIsComplete == SessionSpec => []DrainPlaysOut
<1>1. SessionInit => DrainPlaysOut
  BY DEF SessionInit, DrainPlaysOut
<1>2. StreamInv /\ DrainPlaysOut /\ [SessionNext]_sessionVars => DrainPlaysOut'
  <2> SUFFICES ASSUME StreamInv, DrainPlaysOut, [SessionNext]_sessionVars PROVE DrainPlaysOut'
    OBVIOUS
  <2>1. CASE Launch \/ Exit \/ ResetLink \/ OpenStream
    BY <2>1 DEF Launch, Exit, ResetLink, OpenStream, LinkUp, DrainPlaysOut
  <2>2. CASE Drained
    BY <2>2 DEF Drained, DrainPlaysOut, StreamInv, Sound, Paced, ringVars, dacVars
  <2>3. CASE Plays
    BY <2>3 DEF Plays, Playing, DrainPlaysOut
  <2>4. CASE Elsewhere
    BY <2>4 DEF Elsewhere, hdaVars, Before, DrainPlaysOut
  <2> QED
    BY <2>1, <2>2, <2>3, <2>4, Steps
<1> QED
  BY <1>1, <1>2, StreamInit, StreamNext, PTL DEF SessionSpec

-----------------------------------------------------------------------------
(* The two verbs of set_mute, and how far they have got.                   *)
Amp(m) == DefaultGain + (IF m THEN AmpMute ELSE 0)
Second(m) == <<Verb(3, "out_amp", Amp(m))>>
Set(nid, m) == RegIs(cad, nid, "out_amp", Amp(m))

LEMMA AmpTells == ASSUME NEW m \in BOOLEAN PROVE (Amp(m) >= AmpMute) = m
BY DEF Amp, DefaultGain, AmpMute

LEMMA FirstVerb ==
  ASSUME NEW m
  PROVE  /\ SetMute(m) # <<>> /\ Len(SetMute(m)) = 2 /\ Tail(SetMute(m)) = Second(m)
         /\ Head(SetMute(m)) = Verb(2, "out_amp", Amp(m))
BY DEF SetMute, Second, Amp

LEMMA SecondVerb ==
  ASSUME NEW m
  PROVE  /\ Second(m) # <<>> /\ Len(Second(m)) = 1 /\ Tail(Second(m)) = <<>>
         /\ Head(Second(m)) = Verb(3, "out_amp", Amp(m))
BY DEF Second

-----------------------------------------------------------------------------
(* Which codec was picked.  Only a codec that is there can answer, whoever *)
(* the answer belongs to; under --skip-reset the one address that is       *)
(* probed may have nobody behind it.                                       *)
Found == {None} \cup Present
OnBoard ==
  /\ IsBoard(board)
  /\ phase = "probe" => /\ slot \in codec_mask
                        /\ codec_mask \subseteq Present \/ (codec_mask = {0} /\ late = <<>> /\ pending = <<>>)
  /\ pick \in [realtek : Found, fallback : Found]
  /\ phase \in {"stream", "codec", "opened"} \/ Opened => cad \in Present

LEMMA PresentType == IsBoard(board) => Present \subseteq 0 .. 3
BY SessionAssumption DEF IsBoard, Present

LEMMA LowestExists ==
  ASSUME NEW S \in SUBSET (0 .. 3), S # {}
  PROVE  (CHOOSE c \in S : \A d \in S : c <= d) \in S
<1>1. \E c \in S : \A d \in S : c <= d
  <2>1. \A d \in S : d = 0 \/ d = 1 \/ d = 2 \/ d = 3
    OBVIOUS
  <2>2. CASE 0 \in S
    <3>1. \A d \in S : 0 <= d
      BY <2>1
    <3> QED
      BY <2>2, <3>1
  <2>3. CASE 0 \notin S /\ 1 \in S
    BY <2>1, <2>3
  <2>4. CASE 0 \notin S /\ 1 \notin S /\ 2 \in S
    BY <2>1, <2>4
  <2>5. CASE 0 \notin S /\ 1 \notin S /\ 2 \notin S
    <3>1. 3 \in S /\ \A d \in S : d = 3
      BY <2>1, <2>5
    <3>2. \A d \in S : 3 <= d
      BY <3>1
    <3> QED
      BY <3>1, <3>2
  <2> QED
    BY <2>2, <2>3, <2>4, <2>5
<1> QED
  BY <1>1

(* A verb to an address without a codec comes back with nothing.           *)
LEMMA NobodyAnswers ==
  ASSUME NEW c, NEW v, NEW r, Cmd(c, v, r), c \notin Present, late = <<>>, pending = <<>>
  PROVE  r = Failed /\ late' = <<>> /\ pending' = <<>>
<1>1. Sent(c, v) = {late} /\ Len(late) = 0
  BY DEF Sent
<1>2. ~InTime(c, v, r) /\ ~Mishears(c, v, r)
  BY <1>1 DEF InTime, Mishears
<1>3. TimesOut(c, v, r) => r = Failed /\ late' = <<>> /\ pending' = <<>>
  <2> SUFFICES ASSUME TimesOut(c, v, r) PROVE late' = <<>>
    BY DEF TimesOut
  <2>1. late' = SubSeq(late, 1, 0)
    BY <1>1 DEF TimesOut
  <2> QED
    BY <2>1, SubSeqEmpty
<1> QED
  BY <1>2, <1>3 DEF Cmd, ByPio

LEMMA OnBoardNext == OnBoard /\ [SessionNext]_sessionVars => OnBoard'
<1> SUFFICES ASSUME OnBoard, [SessionNext]_sessionVars PROVE OnBoard'
  OBVIOUS
<1>0. board' = board /\ Present' = Present /\ Found' = Found
  BY DEF SessionNext, sessionVars, hardware, Launch, Exit, ConfigurePci, Fence, ResetStuck, ResetLink,
     SkipReset, ProbeVendor, ProbeMore, Select, PinFails, OpenStream, InitVerb, Ready, Mix, Play,
     PlayerRead, Played, ToggleMute, SyncMuted, MuteVerb, EndOfFile, Drained, Present, Found
<1>1. CASE Launch \/ ConfigurePci \/ Fence \/ ResetStuck \/ PinFails \/ ToggleMute \/ SyncMuted
           \/ EndOfFile \/ Drained \/ MuteVerb \/ Mix \/ Play \/ PlayerRead \/ OpenStream
           \/ UNCHANGED sessionVars
  BY <1>0, <1>1 DEF OnBoard, Opened, sessionVars, hardware, probing, Launch, ConfigurePci, Fence,
     ResetStuck, PinFails, ToggleMute, SyncMuted, EndOfFile, Drained, MuteVerb, Mix, Play, PlayerRead,
     Played, OpenStream
<1>2. CASE Exit
  BY <1>0, <1>2 DEF Exit, OnBoard, Opened, NoPick, Found
<1>3. CASE ResetLink
  <2>1. PICK mask \in SUBSET Present : LinkUp(mask)
    BY <1>3 DEF ResetLink
  <2>2. codec_mask' \subseteq Present /\ (phase' = "probe" => slot' \in codec_mask')
    BY <1>3, <2>1, LowestExists, PresentType DEF LinkUp, OnBoard, ResetLink
  <2>3. phase' \in {"probe", "failed"} /\ pick' = pick
    BY <1>3, <2>1 DEF LinkUp, ResetLink
  <2> QED
    BY <1>0, <2>2, <2>3 DEF OnBoard, Opened
<1>4. CASE SkipReset
  <2>1. codec_mask' = {0} /\ phase' = "probe" /\ slot' = 0 /\ pick' = pick
      /\ late' = <<>> /\ pending' = <<>>
    BY <1>4 DEF SkipReset, LinkUp
  <2> QED
    BY <1>0, <2>1 DEF OnBoard, Opened
<1>5. CASE ProbeVendor \/ ProbeMore
  <2>1. PICK r \in Outcomes : Cmd(slot, Head(todo), r)
    BY <1>5 DEF ProbeVendor, ProbeMore
  <2>2. /\ phase = "probe" /\ codec_mask' = codec_mask /\ slot \in codec_mask
        /\ codec_mask \subseteq Present \/ (codec_mask = {0} /\ late = <<>> /\ pending = <<>>)
    BY <1>5 DEF ProbeVendor, ProbeMore, OnBoard
  <2>3. codec_mask' \subseteq Present \/ (codec_mask' = {0} /\ late' = <<>> /\ pending' = <<>>)
    <3>1. CASE codec_mask \subseteq Present
      BY <2>2, <3>1
    <3>2. CASE codec_mask = {0} /\ late = <<>> /\ pending = <<>> /\ 0 \notin Present
      <4>1. slot = 0
        BY <2>2, <3>2
      <4>2. late' = <<>> /\ pending' = <<>>
        BY <2>1, <3>2, <4>1, NobodyAnswers
      <4> QED
        BY <2>2, <3>2, <4>2
    <3> QED
      BY <2>2, <3>1, <3>2
  <2>4. phase' \in {"probe", "select"} /\ (slot' = slot \/ slot' \in codec_mask)
    <3>1. codec_mask \subseteq 0 .. 3
      BY <2>2, PresentType DEF OnBoard
    <3>2. NextSlot => slot' \in codec_mask \/ UNCHANGED slot
      <4> DEFINE rest == {c \in codec_mask : c > slot}
      <4>1. rest # {} => (CHOOSE c \in rest : \A d \in rest : c <= d) \in rest
        BY <3>1, LowestExists
      <4> QED
        BY <4>1 DEF NextSlot
    <3> QED
      BY <1>5, <3>2 DEF ProbeVendor, ProbeMore, NextSlot
  <2>5. pick' \in [realtek : Found, fallback : Found]
    <3>1. CASE ProbeMore
      BY <3>1 DEF ProbeMore, OnBoard
    <3>2. CASE ProbeVendor /\ pick' # pick
      <4>1. PICK q \in Outcomes : Cmd(slot, Head(todo), q) /\ q # Failed /\ pick' = Picked(q)
        BY <3>2 DEF ProbeVendor
      <4>2. slot \in Present
        <5>1. slot \notin Present => late = <<>> /\ pending = <<>>
          BY <2>2
        <5> QED
          BY <4>1, <5>1, NobodyAnswers
      <4> QED
        BY <4>1, <4>2 DEF Picked, OnBoard, Found
    <3> QED
      BY <1>5, <3>1, <3>2 DEF OnBoard
  <2> QED
    BY <1>0, <2>2, <2>3, <2>4, <2>5 DEF OnBoard, Opened
<1>6. CASE InitVerb
  <2>1. phase' \in {"codec", "opened", "failed"}
    BY <1>6 DEF InitVerb
  <2>2. cad \in Present /\ cad' = cad /\ pick' = pick
    BY <1>6 DEF InitVerb, OnBoard, probing
  <2> QED
    BY <1>0, <2>1, <2>2 DEF OnBoard, Opened
<1>7. CASE Select
  BY <1>0, <1>7 DEF Select, OnBoard, Opened, hardware, NoPick, Found
<1>8. CASE Ready
  BY <1>0, <1>8 DEF Ready, OnBoard, Opened
<1> QED
  BY <1>1, <1>2, <1>3, <1>4, <1>5, <1>6, <1>7, <1>8 DEF SessionNext

LEMMA ExecuteSets ==
  ASSUME NEW nid, NEW value, Execute(cad, Verb(nid, "out_amp", value)), cad \in Present
  PROVE  /\ reg'[<<cad, nid, "out_amp">>] = value
         /\ <<cad, nid, "out_amp">> \in DOMAIN reg'
         /\ \A k \in DOMAIN reg : /\ k \in DOMAIN reg'
                                  /\ k # <<cad, nid, "out_amp">> => reg'[k] = reg[k]
BY DEF Execute, Verb, Setting

(* Where set_mute is: before its first verb, between the two, or done; it  *)
(* is only done, or given up, that it can be asked for again.              *)
Idling == todo = <<>> /\ (hw_mute /\ ~mute_failed => Set(2, muted_applied) /\ Set(3, muted_applied))
Muting == \E m \in BOOLEAN : todo = SetMute(m) \/ (todo = Second(m) /\ Set(2, m))
MuteInv == /\ muted \in BOOLEAN /\ muted_applied \in BOOLEAN
           /\ Opened => Idling \/ (phase = "ready" /\ Muting)
           /\ phase \in Before => ~hw_mute

(* A verb of set_mute, carried out.                                        *)
LEMMA MuteVerbDone ==
  ASSUME MuteInv, OnBoard, MuteVerb, Execute(cad, Head(todo)), Applied(Head(todo)), mute_failed' = mute_failed
  PROVE  MuteInv'
<1>0. /\ phase = "ready" /\ todo # <<>> /\ phase' = phase /\ cad' = cad /\ muted' = muted
      /\ cad \in Present /\ Opened /\ Opened'
  BY DEF MuteVerb, OnBoard, Opened, probing
<1>1. PICK m \in BOOLEAN : todo = SetMute(m) \/ (todo = Second(m) /\ Set(2, m))
  BY <1>0 DEF MuteInv, Idling, Muting
<1>2. CASE todo = SetMute(m)
  <2>1. todo' = Second(m) /\ muted_applied' = muted_applied /\ hw_mute' = hw_mute
    BY <1>2, FirstVerb DEF Applied
  <2>2. Set(2, m)'
    BY <1>0, <1>2, FirstVerb, ExecuteSets DEF Set, RegIs, Amp
  <2> QED
    BY <1>0, <2>1, <2>2 DEF MuteInv, Muting, Second, Before
<1>3. CASE todo = Second(m) /\ Set(2, m)
  <2>1. todo' = <<>> /\ hw_mute' = TRUE /\ muted_applied' = (Amp(m) >= AmpMute)
    <3>0. Head(todo) = Verb(3, "out_amp", Amp(m)) /\ Tail(todo) = <<>> /\ Len(todo) = 1
      BY <1>3, SecondVerb
    <3>1. Head(todo).value = Amp(m) /\ Tail(todo) = <<>> /\ ~(Len(todo) > 1)
      BY <3>0 DEF Verb
    <3>2. muted_applied' = (Head(todo).value >= AmpMute)
      BY <3>1, Zenon DEF Applied
    <3>3. todo' = <<>> /\ hw_mute' = TRUE
      BY <3>1 DEF Applied
    <3> QED
      BY <3>1, <3>2, <3>3, Zenon
  <2>2. muted_applied' = m
    BY <2>1, AmpTells
  <2>3. Set(3, m)' /\ Set(2, m)'
    BY <1>0, <1>3, SecondVerb, ExecuteSets DEF Set, RegIs, Amp
  <2> QED
    BY <1>0, <2>1, <2>2, <2>3 DEF MuteInv, Idling, Before
<1> QED
  BY <1>1, <1>2, <1>3

LEMMA MuteNext == MuteInv /\ OnBoard /\ [SessionNext]_sessionVars => MuteInv'
<1> SUFFICES ASSUME MuteInv, OnBoard, [SessionNext]_sessionVars PROVE MuteInv'
  OBVIOUS
<1>1. CASE Launch \/ ConfigurePci \/ Fence \/ ResetStuck \/ ResetLink \/ SkipReset \/ ProbeVendor
           \/ ProbeMore \/ Select \/ PinFails \/ OpenStream \/ InitVerb
  <2>1. phase \in Before /\ phase' \in Before /\ UNCHANGED muting
    BY <1>1 DEF Launch, ConfigurePci, Fence, ResetStuck, ResetLink, SkipReset, LinkUp, ProbeVendor,
       ProbeMore, NextSlot, Select, PinFails, OpenStream, InitVerb, Before
  <2> QED
    BY <2>1 DEF MuteInv, muting, Before, Opened
<1>2. CASE Exit
  BY <1>2 DEF Exit, MuteInv, Opened
<1>3. CASE Ready
  <2>1. phase' = "ready" /\ ~hw_mute' /\ muted' = muted /\ muted_applied' = muted_applied
    BY <1>3 DEF Ready, MuteInv, Before, muting
  <2>2. todo' = SetMute(FALSE) \/ todo' = <<>>
    BY <1>3 DEF Ready
  <2>3. CASE todo' = SetMute(FALSE)
    BY <2>1, <2>3 DEF MuteInv, Muting, SetMute, Before
  <2>4. CASE todo' = <<>>
    BY <2>1, <2>4 DEF MuteInv, Idling, Before
  <2> QED
    BY <2>2, <2>3, <2>4
<1>4. CASE Mix \/ Play \/ PlayerRead \/ EndOfFile \/ Drained \/ UNCHANGED sessionVars
  <2>1. UNCHANGED <<muting, reg, todo, cad>>
    BY <1>4 DEF Mix, Play, PlayerRead, Played, EndOfFile, Drained, sessionVars, hardware, probing
  <2>2. /\ phase \in Before <=> phase' \in Before
        /\ Opened <=> Opened'
        /\ phase = "ready" /\ todo # <<>> => phase' = "ready"
    BY <1>4 DEF Mix, Play, PlayerRead, Played, EndOfFile, Drained, sessionVars, Before, Opened
  <2>3. Idling' <=> Idling
    BY <2>1 DEF Idling, Set, RegIs, Amp, muting
  <2>4. Muting' <=> Muting
    BY <2>1 DEF Muting, Set, RegIs, Amp, SetMute, Second
  <2>5. Muting => todo # <<>>
    BY FirstVerb, SecondVerb DEF Muting
  <2> QED
    BY <2>1, <2>2, <2>3, <2>4, <2>5 DEF MuteInv, muting
<1>5. CASE ToggleMute
  <2>1. /\ UNCHANGED <<reg, todo, cad, phase, hw_mute, muted_applied, mute_failed>>
        /\ muted' \in BOOLEAN
    BY <1>5 DEF ToggleMute, hardware, probing, MuteInv
  <2>2. (Idling' <=> Idling) /\ (Muting' <=> Muting) /\ (Opened' <=> Opened)
    BY <2>1 DEF Idling, Muting, Set, RegIs, Amp, SetMute, Second, Opened
  <2> QED
    BY <2>1, <2>2 DEF MuteInv
<1>6. CASE SyncMuted
  <2>1. phase = "ready" /\ phase' = phase /\ todo = <<>> /\ hw_mute' = hw_mute /\ muted' = muted
    BY <1>6 DEF SyncMuted
  <2>2. CASE hw_mute
    <3>1. todo' = SetMute(muted) /\ muted_applied' = muted_applied
      BY <1>6, <2>2 DEF SyncMuted
    <3>2. Muting'
      BY <2>1, <3>1 DEF Muting, MuteInv, SetMute
    <3> QED
      BY <2>1, <3>1, <3>2 DEF MuteInv, Before
  <2>3. CASE ~hw_mute
    <3>1. todo' = <<>> /\ muted_applied' = muted
      BY <1>6, <2>1, <2>3 DEF SyncMuted
    <3> QED
      BY <2>1, <2>3, <3>1 DEF MuteInv, Idling, Before
  <2> QED
    BY <2>2, <2>3
<1>7. CASE MuteVerb
  <2>1. CASE Execute(cad, Head(todo)) /\ Applied(Head(todo)) /\ UNCHANGED mute_failed
    BY <1>7, <2>1, MuteVerbDone
  <2>2. CASE todo' = <<>> /\ mute_failed' = TRUE /\ UNCHANGED <<hw_mute, muted_applied>>
    BY <1>7, <2>2 DEF MuteVerb, MuteInv, Idling, Before
  <2> QED
    BY <1>7, <2>1, <2>2 DEF MuteVerb
<1> QED
  BY <1>1, <1>2, <1>3, <1>4, <1>5, <1>6, <1>7 DEF SessionNext

LEMMA MuteInit == SessionInit => MuteInv /\ OnBoard
<1> SUFFICES ASSUME SessionInit PROVE MuteInv /\ OnBoard
  OBVIOUS
<1>1. phase = "off" /\ muted = FALSE /\ muted_applied = FALSE /\ hw_mute = FALSE /\ pick = NoPick
  BY DEF SessionInit
<1>2. IsBoard(board)
  BY SessionAssumption DEF SessionInit
<1>3. MuteInv
  BY <1>1 DEF MuteInv, Opened
<1>4. OnBoard
  BY <1>1, <1>2 DEF OnBoard, Opened, NoPick, Found
<1> QED
  BY <1>3, <1>4

(* As long as no set_mute of the process has failed, and no verb got       *)
(* another's reply, both amplifiers are muted, or not, as the player       *)
(* believes, however the wish has changed in the meantime and between the  *)
(* two verbs.                                                              *)
THEOREM AmplifiersAgree == SessionSpec => []MuteAsBelieved
<1>1. MuteInv => MuteAsBelieved
  BY FirstVerb, SecondVerb DEF MuteInv, Idling, Muting, MuteAsBelieved, Set, Amp, Dacs
<1> QED
  BY <1>1, MuteInit, OnBoardNext, MuteNext, PTL DEF SessionSpec


-----------------------------------------------------------------------------
(* The rates.  encode_rate finds an encoding of every rate that has one,   *)
(* and what the hardware decodes from the format is the rate again.        *)

(* Every non-empty set of numbers has a least element.                     *)
LEMMA LeastNumber ==
  ASSUME NEW S \in SUBSET Nat, S # {}
  PROVE  \E n \in S : \A m \in S : n <= m
<1> DEFINE less == {p \in Nat \X Nat : p[1] < p[2]}
<1>1. IsWellFoundedOn(less, Nat)
  <2>1. OpToRel(<, Nat) = less
    BY Zenon DEF OpToRel
  <2> QED
    BY NatLessThanWellFounded, <2>1, Zenon
<1> HIDE DEF less
<1>2. \E n \in S : \A m \in S : ~ (<<m, n>> \in less)
  BY <1>1, WFMin
<1>3. \A m, n \in Nat : ~ (<<m, n>> \in less) => n <= m
  BY DEF less
<1> QED
  BY <1>2, <1>3

Encoding == [base : 1 .. 2, mult : Factors, div : Factors]
Rank(e) == e.base * 64 + e.mult * 8 + e.div

(* The order in which encode_rate tries the encodings is that of their     *)
(* ranks, so that there is a first.                                        *)
LEMMA RankOrders ==
  ASSUME NEW e \in Encoding, NEW f \in Encoding
  PROVE  Rank(e) \in Nat /\ (Rank(e) <= Rank(f) => Earlier(e, f))
BY DEF Encoding, Rank, Earlier, Factors

LEMMA EncodeRateType ==
  ASSUME NEW r, RateSupported(r)
  PROVE  EncodeRate(r) \in Encodings(r)
<1> DEFINE ranks == {Rank(e) : e \in Encodings(r)}
<1>1. Encodings(r) # {} /\ Encodings(r) \subseteq Encoding
  BY DEF RateSupported, Encodings, Encoding
<1>2. ranks # {} /\ ranks \subseteq Nat
  BY <1>1, RankOrders
<1>3. PICK n \in ranks : \A m \in ranks : n <= m
  BY <1>2, LeastNumber
<1>4. PICK e \in Encodings(r) : n = Rank(e)
  BY <1>3
<1>5. \A f \in Encodings(r) : Earlier(e, f)
  BY <1>1, <1>3, <1>4, RankOrders
<1> QED
  BY <1>4, <1>5 DEF EncodeRate

(* The fields of a format are the factors it was put together from.        *)
LEMMA FieldsOfFormat ==
  ASSUME NEW e \in Encoding
  PROVE  LET fmt == 17 + (e.div - 1) * 256 + (e.mult - 1) * 2048 + (e.base - 1) * 16384 IN
         /\ ((fmt \div 16384) % 2) + 1 = e.base
         /\ ((fmt \div 2048) % 8) + 1 = e.mult
         /\ ((fmt \div 256) % 8) + 1 = e.div
<1>1. /\ e.div - 1 \in 0 .. 7 /\ e.mult - 1 \in 0 .. 7 /\ e.base - 1 \in 0 .. 1
  BY DEF Encoding, Factors
<1>2. ASSUME NEW d \in 0 .. 7, NEW m \in 0 .. 7, NEW b \in 0 .. 1
      PROVE  LET fmt == 17 + d * 256 + m * 2048 + b * 16384 IN
             /\ (fmt \div 16384) % 2 = b /\ (fmt \div 2048) % 8 = m /\ (fmt \div 256) % 8 = d
  OBVIOUS
<1> QED
  BY <1>1, <1>2 DEF Encoding, Factors

LEMMA DividesOut ==
  ASSUME NEW r \in Nat, NEW d \in Factors
  PROVE  (r * d) \div d = r
BY DEF Factors

LEMMA SupportedDecodes ==
  ASSUME NEW r \in Nat, RateSupported(r)
  PROVE  RateOf(FormatVal(r)) = r
<1> DEFINE e == EncodeRate(r)
<1>1. e \in Encoding /\ Bases[e.base] * e.mult = r * e.div
  BY EncodeRateType DEF Encodings, Encoding
<1>2. RateOf(FormatVal(r)) = (Bases[e.base] * e.mult) \div e.div
  BY <1>1, FieldsOfFormat DEF RateOf, FormatVal
<1> QED
  BY <1>1, <1>2, DividesOut DEF Encoding

(* An encoding of each rate that nearest_hda_rate may return.              *)
LEMMA HdaRatesSupported == \A r \in HdaRates : RateSupported(r)
<1> DEFINE E(b, m, d) == [base |-> b, mult |-> m, div |-> d]
<1>0. Bases[1] = 48000 /\ Bases[2] = 44100
  BY DEF Bases
<1>1. \A b \in 1 .. 2 : \A m, d \in Factors : \A r :
        Bases[b] * m = r * d => E(b, m, d) \in Encodings(r)
  BY DEF Encodings
<1> HIDE DEF E
<1>2. E(1, 4, 1) \in Encodings(192000)
  BY <1>0, <1>1 DEF Factors
<1>3. E(2, 4, 1) \in Encodings(176400)
  BY <1>0, <1>1 DEF Factors
<1>4. E(1, 2, 1) \in Encodings(96000)
  BY <1>0, <1>1 DEF Factors
<1>5. E(2, 2, 1) \in Encodings(88200)
  BY <1>0, <1>1 DEF Factors
<1>6. E(1, 1, 1) \in Encodings(48000)
  BY <1>0, <1>1 DEF Factors
<1>7. E(2, 1, 1) \in Encodings(44100)
  BY <1>0, <1>1 DEF Factors
<1>8. E(1, 2, 3) \in Encodings(32000)
  BY <1>0, <1>1 DEF Factors
<1>9. E(1, 1, 2) \in Encodings(24000)
  BY <1>0, <1>1 DEF Factors
<1>10. E(2, 1, 2) \in Encodings(22050)
  BY <1>0, <1>1 DEF Factors
<1>11. E(1, 1, 3) \in Encodings(16000)
  BY <1>0, <1>1 DEF Factors
<1>12. E(1, 1, 4) \in Encodings(12000)
  BY <1>0, <1>1 DEF Factors
<1>13. E(2, 1, 4) \in Encodings(11025)
  BY <1>0, <1>1 DEF Factors
<1>14. E(1, 1, 6) \in Encodings(8000)
  BY <1>0, <1>1 DEF Factors
<1> QED
  BY <1>2, <1>3, <1>4, <1>5, <1>6, <1>7, <1>8, <1>9, <1>10, <1>11, <1>12, <1>13, <1>14 DEF HdaRates, RateSupported

LEMMA HdaRatesBounded == HdaRates # {} /\ \A s \in HdaRates : s \in Nat /\ s < 200000
BY DEF HdaRates

(* The distance, and at one distance the rate, as one number.              *)
LEMMA NearestIsHdaRate ==
  ASSUME NEW r \in Nat
  PROVE  NearestHdaRate(r) \in HdaRates
<1> DEFINE Badness(s) == Off(r, s) * 200000 + s
<1>1. \A s \in HdaRates : s \in Nat /\ s < 200000 /\ Off(r, s) \in Nat
  BY HdaRatesBounded DEF Off
<1>2. \A s \in HdaRates : Badness(s) \in Nat
  BY <1>1
<1>3. \A s, t \in HdaRates :
        Badness(s) <= Badness(t) => Off(r, s) < Off(r, t) \/ (Off(r, s) = Off(r, t) /\ s <= t)
  BY <1>1
<1> HIDE DEF Badness
<1> DEFINE all == {Badness(s) : s \in HdaRates}
<1>4. all # {} /\ all \subseteq Nat
  BY <1>2, HdaRatesBounded
<1> HIDE DEF all
<1>5. PICK n \in all : \A m \in all : n <= m
  BY <1>4, LeastNumber
<1>6. PICK s \in HdaRates : n = Badness(s)
  BY <1>5 DEF all
<1>7. \A t \in HdaRates : Badness(s) <= Badness(t)
  BY <1>5, <1>6 DEF all
<1>8. \A t \in HdaRates :
        Off(r, s) < Off(r, t) \/ (Off(r, s) = Off(r, t) /\ s <= t)
  BY <1>3, <1>7
<1> QED
  BY <1>8 DEF NearestHdaRate

LEMMA HardwareRateSupported ==
  ASSUME NEW r \in Nat
  PROVE  HardwareRate(r) \in Nat /\ RateSupported(HardwareRate(r))
BY NearestIsHdaRate, HdaRatesSupported, HdaRatesBounded DEF HardwareRate

(* The rate the hardware is asked for, whatever rate a file or the         *)
(* configuration names, has an encoding, and the encoding read back as the *)
(* code's own table defines it means this rate.  That table has the        *)
(* multipliers 5 to 8, which the format word of the HDA standard reserves: *)
(* what a codec makes of one of them is not said here.                     *)
THEOREM RatesDecode ==
  ASSUME NEW r \in Nat
  PROVE  RateSupported(HardwareRate(r)) /\ RateOf(FormatVal(HardwareRate(r))) = HardwareRate(r)
BY HardwareRateSupported, SupportedDecodes

-----------------------------------------------------------------------------
(* init_playback as a sequence: which verb is where, and that no register  *)
(* is given two values.                                                    *)
VerbType == [nid : Nat, op : Reading \cup Setting \cup {"no_amp"}, value : Nat]

LEMMA VerbTyped ==
  ASSUME NEW nid \in Nat, NEW op \in Reading \cup Setting \cup {"no_amp"}, NEW value \in Nat
  PROVE  /\ Verb(nid, op, value) \in VerbType
         /\ Verb(nid, op, value).nid = nid /\ Verb(nid, op, value).op = op
         /\ Verb(nid, op, value).value = value
BY DEF Verb, VerbType

LEMMA RangeOfThree ==
  ASSUME NEW a \in VerbType, NEW b \in VerbType, NEW c \in VerbType
  PROVE  /\ <<a, b, c>> \in Seq(VerbType) /\ Len(<<a, b, c>>) = 3
         /\ Range(<<a, b, c>>) = {a, b, c}
BY DEF Range

LEMMA RangeOfFour ==
  ASSUME NEW a \in VerbType, NEW b \in VerbType, NEW c \in VerbType, NEW d \in VerbType
  PROVE  /\ <<a, b, c, d>> \in Seq(VerbType) /\ Len(<<a, b, c, d>>) = 4
         /\ Range(<<a, b, c, d>>) = {a, b, c, d}
BY DEF Range

LEMMA DacProgramme ==
  ASSUME NEW nid \in Nat, NEW fmt \in Nat, NEW tag \in Nat
  PROVE  /\ ProgramDac(nid, fmt, tag) \in Seq(VerbType) /\ Len(ProgramDac(nid, fmt, tag)) = 4
         /\ Range(ProgramDac(nid, fmt, tag)) =
              {Verb(nid, "power", D0), Verb(nid, "stream", tag),
               Verb(nid, "format", fmt), Verb(nid, "out_amp", DefaultGain)}
<1>1. /\ Verb(nid, "power", D0) \in VerbType /\ Verb(nid, "stream", tag) \in VerbType
      /\ Verb(nid, "format", fmt) \in VerbType /\ Verb(nid, "out_amp", DefaultGain) \in VerbType
  BY DEF Verb, VerbType, Setting, D0, DefaultGain
<1> QED
  BY <1>1, RangeOfFour DEF ProgramDac

LEMMA MuxProgramme ==
  ASSUME NEW nid \in Nat, NEW input \in Nat
  PROVE  /\ ProgramMux(nid, input) \in Seq(VerbType) /\ Len(ProgramMux(nid, input)) = 3
         /\ Range(ProgramMux(nid, input)) =
              {Verb(nid, "power", D0), Verb(nid, "select", input), Verb(nid, "no_amp", input)}
<1>1. /\ Verb(nid, "power", D0) \in VerbType /\ Verb(nid, "select", input) \in VerbType
      /\ Verb(nid, "no_amp", input) \in VerbType
  BY DEF Verb, VerbType, Setting, D0
<1> QED
  BY <1>1, RangeOfThree DEF ProgramMux

LEMMA PinProgramme ==
  ASSUME NEW nid \in Nat, NEW control \in Nat
  PROVE  /\ ProgramPin(nid, control) \in Seq(VerbType) /\ Len(ProgramPin(nid, control)) = 4
         /\ Range(ProgramPin(nid, control)) =
              {Verb(nid, "power", D0), Verb(nid, "pin", control),
               Verb(nid, "eapd", Eapd), Verb(nid, "out_amp", 0)}
<1>1. /\ Verb(nid, "power", D0) \in VerbType /\ Verb(nid, "pin", control) \in VerbType
      /\ Verb(nid, "eapd", Eapd) \in VerbType /\ Verb(nid, "out_amp", 0) \in VerbType
  BY DEF Verb, VerbType, Setting, D0, Eapd
<1> QED
  BY <1>1, RangeOfFour DEF ProgramPin

LEMMA Joined ==
  ASSUME NEW s \in Seq(VerbType), NEW t \in Seq(VerbType)
  PROVE  /\ s \o t \in Seq(VerbType) /\ Len(s \o t) = Len(s) + Len(t)
         /\ Range(s \o t) = Range(s) \cup Range(t)
BY ConcatProperties, RangeConcatenation

LEMMA ThreeJoined ==
  ASSUME NEW a \in Seq(VerbType), NEW b \in Seq(VerbType), NEW c \in Seq(VerbType)
  PROVE  /\ a \o b \o c \in Seq(VerbType) /\ Len(a \o b \o c) = Len(a) + Len(b) + Len(c)
         /\ \A v : v \in Range(a \o b \o c) <=> v \in Range(a) \/ v \in Range(b) \/ v \in Range(c)
<1>1. a \o b \in Seq(VerbType)
  BY Joined, Zenon
<1>2. (a \o b) \o c \in Seq(VerbType)
  BY <1>1, Joined, Zenon
<1>3. Len(a \o b) = Len(a) + Len(b)
  BY Joined, Zenon
<1>4. Len((a \o b) \o c) = Len(a \o b) + Len(c)
  BY <1>1, Joined, Zenon
<1>5. Range(a \o b) = Range(a) \cup Range(b)
  BY Joined, Zenon
<1>6. Range((a \o b) \o c) = Range(a \o b) \cup Range(c)
  BY <1>1, Joined, Zenon
<1>7. Len(a \o b \o c) = Len(a) + Len(b) + Len(c)
  BY <1>3, <1>4
<1>8. \A v : v \in Range(a \o b \o c) <=> v \in Range(a) \/ v \in Range(b) \/ v \in Range(c)
  BY <1>5, <1>6, Zenon
<1> QED
  BY <1>2, <1>7, <1>8, Zenon

LEMMA ProgrammingIs ==
  ASSUME NEW fmt \in Nat, NEW tag \in Nat
  PROVE  /\ Programming(fmt, tag) \in Seq(VerbType) /\ Len(Programming(fmt, tag)) = 22
         /\ \A v : v \in Range(Programming(fmt, tag)) <=>
              \/ v \in Range(ProgramDac(2, fmt, tag)) \/ v \in Range(ProgramMux(12, 0))
              \/ v \in Range(ProgramPin(20, PinOut)) \/ v \in Range(ProgramDac(3, fmt, tag))
              \/ v \in Range(ProgramMux(13, 1)) \/ v \in Range(ProgramPin(21, PinOut + PinHp))
<1>0. /\ 2 \in Nat /\ 3 \in Nat /\ 12 \in Nat /\ 0 \in Nat /\ 13 \in Nat /\ 1 \in Nat /\ 20 \in Nat
      /\ PinOut \in Nat /\ 21 \in Nat /\ PinOut + PinHp \in Nat
  BY DEF PinOut, PinHp
<1> DEFINE a == ProgramDac(2, fmt, tag)
           b == ProgramMux(12, 0)
           c == ProgramPin(20, PinOut)
           d == ProgramDac(3, fmt, tag)
           e == ProgramMux(13, 1)
           f == ProgramPin(21, PinOut + PinHp)
           p == Programming(fmt, tag)
<1>1. a \in Seq(VerbType) /\ Len(a) = 4
  BY <1>0, DacProgramme, Zenon
<1>2. b \in Seq(VerbType) /\ Len(b) = 3
  BY <1>0, MuxProgramme, Zenon
<1>3. c \in Seq(VerbType) /\ Len(c) = 4
  BY <1>0, PinProgramme, Zenon
<1>4. d \in Seq(VerbType) /\ Len(d) = 4
  BY <1>0, DacProgramme, Zenon
<1>5. e \in Seq(VerbType) /\ Len(e) = 3
  BY <1>0, MuxProgramme, Zenon
<1>6. f \in Seq(VerbType) /\ Len(f) = 4
  BY <1>0, PinProgramme, Zenon
<1>7. p = a \o b \o c \o d \o e \o f
  BY DEF Programming
<1> HIDE DEF a, b, c, d, e, f, p
<1>8a. a \o b \o c \in Seq(VerbType)
  BY <1>1, <1>2, <1>3, ThreeJoined, Zenon
<1>8b. Len(a \o b \o c) = Len(a) + Len(b) + Len(c)
  BY <1>1, <1>2, <1>3, ThreeJoined, Zenon
<1>8c. \A v : v \in Range(a \o b \o c) <=> v \in Range(a) \/ v \in Range(b) \/ v \in Range(c)
  BY <1>1, <1>2, <1>3, ThreeJoined, Zenon
<1>9a. (a \o b \o c) \o d \o e \in Seq(VerbType)
  BY <1>4, <1>5, <1>8a, ThreeJoined, Zenon
<1>9b. Len((a \o b \o c) \o d \o e) = Len(a \o b \o c) + Len(d) + Len(e)
  BY <1>4, <1>5, <1>8a, ThreeJoined, Zenon
<1>9c. \A v : v \in Range((a \o b \o c) \o d \o e) <=>
         v \in Range(a \o b \o c) \/ v \in Range(d) \/ v \in Range(e)
  BY <1>4, <1>5, <1>8a, ThreeJoined, Zenon
<1>10a. ((a \o b \o c) \o d \o e) \o f \in Seq(VerbType)
  BY <1>6, <1>9a, Joined, Zenon
<1>10b. Len(((a \o b \o c) \o d \o e) \o f) = Len((a \o b \o c) \o d \o e) + Len(f)
  BY <1>6, <1>9a, Joined, Zenon
<1>10c. Range(((a \o b \o c) \o d \o e) \o f) = Range((a \o b \o c) \o d \o e) \cup Range(f)
  BY <1>6, <1>9a, Joined, Zenon
<1>11. Len(p) = 22
  <2>1. Len(a \o b \o c) = 4 + 3 + 4
    BY <1>1, <1>2, <1>3, <1>8b, Zenon
  <2>2. Len((a \o b \o c) \o d \o e) = Len(a \o b \o c) + 4 + 3
    BY <1>4, <1>5, <1>9b, Zenon
  <2>3. Len(p) = Len((a \o b \o c) \o d \o e) + 4
    BY <1>6, <1>7, <1>10b, Zenon
  <2> QED
    BY <2>1, <2>2, <2>3
<1>12. p \in Seq(VerbType)
  BY <1>7, <1>10a, Zenon
<1>13. \A v : v \in Range(p) <=>
              \/ v \in Range(a) \/ v \in Range(b) \/ v \in Range(c)
              \/ v \in Range(d) \/ v \in Range(e) \/ v \in Range(f)
  BY <1>7, <1>8c, <1>9c, <1>10c, Zenon
<1> QED
  BY <1>11, <1>12, <1>13 DEF a, b, c, d, e, f, p

(* What a verb of the programming leaves in a register of a node.          *)
Goal(nid, op, fmt, tag) ==
  CASE op = "power" -> D0
    [] op = "stream" -> tag
    [] op = "format" -> fmt
    [] op = "select" -> nid - 12
    [] op = "pin" -> IF nid = 20 THEN PinOut ELSE PinOut + PinHp
    [] op = "eapd" -> Eapd
    [] op = "out_amp" -> IF nid \in Dacs THEN DefaultGain ELSE 0

LEMMA GoalOf ==
  ASSUME NEW nid, NEW fmt, NEW tag
  PROVE  /\ Goal(nid, "power", fmt, tag) = D0 /\ Goal(nid, "stream", fmt, tag) = tag
         /\ Goal(nid, "format", fmt, tag) = fmt /\ Goal(nid, "select", fmt, tag) = nid - 12
         /\ Goal(nid, "pin", fmt, tag) = IF nid = 20 THEN PinOut ELSE PinOut + PinHp
         /\ Goal(nid, "eapd", fmt, tag) = Eapd
         /\ Goal(nid, "out_amp", fmt, tag) = IF nid \in Dacs THEN DefaultGain ELSE 0
BY DEF Goal

Fits(v, fmt, tag) ==
  /\ v.nid \in Path /\ v.op \notin Reading
  /\ v.op \in Setting => v.value = Goal(v.nid, v.op, fmt, tag)

LEMMA DacFits ==
  ASSUME NEW nid \in Dacs, NEW fmt \in Nat, NEW tag \in Nat, NEW v \in Range(ProgramDac(nid, fmt, tag))
  PROVE  Fits(v, fmt, tag)
<1>0. nid \in Nat
  BY DEF Dacs
<1>1. v \in {Verb(nid, "power", D0), Verb(nid, "stream", tag),
             Verb(nid, "format", fmt), Verb(nid, "out_amp", DefaultGain)}
  BY <1>0, DacProgramme, Zenon
<1> QED
  BY <1>1, GoalOf DEF Fits, Verb, Path, Reading, Ids

LEMMA MuxFits ==
  ASSUME NEW fmt \in Nat, NEW tag \in Nat, NEW nid \in Muxes, NEW v \in Range(ProgramMux(nid, nid - 12))
  PROVE  Fits(v, fmt, tag)
<1>0. nid \in Nat /\ nid - 12 \in Nat
  BY DEF Muxes
<1>1. v \in {Verb(nid, "power", D0), Verb(nid, "select", nid - 12), Verb(nid, "no_amp", nid - 12)}
  BY <1>0, MuxProgramme, Zenon
<1> QED
  BY <1>1, GoalOf DEF Fits, Verb, Path, Reading, Ids, Setting

LEMMA PinFits ==
  ASSUME NEW fmt \in Nat, NEW tag \in Nat, NEW nid \in Pins,
         NEW control, control = IF nid = 20 THEN PinOut ELSE PinOut + PinHp,
         NEW v \in Range(ProgramPin(nid, control))
  PROVE  Fits(v, fmt, tag)
<1>0. nid \in Nat /\ control \in Nat /\ nid \notin Dacs
  BY DEF Pins, PinOut, PinHp, Dacs
<1>1. v \in {Verb(nid, "power", D0), Verb(nid, "pin", control),
             Verb(nid, "eapd", Eapd), Verb(nid, "out_amp", 0)}
  BY <1>0, PinProgramme, Zenon
<1> QED
  BY <1>0, <1>1, GoalOf DEF Fits, Verb, Path, Reading, Ids

LEMMA ProgrammingFits ==
  ASSUME NEW fmt \in Nat, NEW tag \in Nat, NEW v \in Range(Programming(fmt, tag))
  PROVE  Fits(v, fmt, tag)
<1>1. \/ v \in Range(ProgramDac(2, fmt, tag)) \/ v \in Range(ProgramMux(12, 0))
      \/ v \in Range(ProgramPin(20, PinOut)) \/ v \in Range(ProgramDac(3, fmt, tag))
      \/ v \in Range(ProgramMux(13, 1)) \/ v \in Range(ProgramPin(21, PinOut + PinHp))
  BY ProgrammingIs, Zenon
<1>2. /\ 2 \in Dacs /\ 3 \in Dacs /\ 12 \in Muxes /\ 13 \in Muxes /\ 20 \in Pins /\ 21 \in Pins
      /\ 12 - 12 = 0 /\ 13 - 12 = 1
  BY DEF Dacs, Muxes, Pins
<1>3. v \in Range(ProgramDac(2, fmt, tag)) \/ v \in Range(ProgramDac(3, fmt, tag)) => Fits(v, fmt, tag)
  BY <1>2, DacFits, Zenon
<1>4. v \in Range(ProgramMux(12, 0)) => Fits(v, fmt, tag)
  <2> SUFFICES ASSUME v \in Range(ProgramMux(12, 12 - 12)) PROVE Fits(v, fmt, tag)
    BY <1>2
  <2> QED
    BY <1>2, MuxFits, Zenon
<1>5. v \in Range(ProgramMux(13, 1)) => Fits(v, fmt, tag)
  <2> SUFFICES ASSUME v \in Range(ProgramMux(13, 13 - 12)) PROVE Fits(v, fmt, tag)
    BY <1>2
  <2> QED
    BY <1>2, MuxFits, Zenon
<1>6. v \in Range(ProgramPin(20, PinOut)) => Fits(v, fmt, tag)
  BY <1>2, PinFits
<1>7. v \in Range(ProgramPin(21, PinOut + PinHp)) => Fits(v, fmt, tag)
  BY <1>2, PinFits
<1> QED
  BY <1>1, <1>3, <1>4, <1>5, <1>6, <1>7, Zenon

(* What PathMatches asks of the codec, register by register.               *)
Wanted(fmt, tag) ==
  {Verb(nid, "power", D0) : nid \in Path}
    \cup {Verb(nid, "stream", tag) : nid \in Dacs} \cup {Verb(nid, "format", fmt) : nid \in Dacs}
    \cup {Verb(nid, "select", nid - 12) : nid \in Muxes}
    \cup {Verb(20, "pin", PinOut), Verb(21, "pin", PinOut + PinHp)}
    \cup {Verb(nid, "eapd", Eapd) : nid \in Pins} \cup {Verb(nid, "out_amp", 0) : nid \in Pins}

LEMMA ProgrammingCovers ==
  ASSUME NEW fmt \in Nat, NEW tag \in Nat
  PROVE  Wanted(fmt, tag) \subseteq Range(Programming(fmt, tag))
<1>0. /\ 2 \in Nat /\ 3 \in Nat /\ 12 \in Nat /\ 0 \in Nat /\ 13 \in Nat /\ 1 \in Nat /\ 20 \in Nat
      /\ PinOut \in Nat /\ 21 \in Nat /\ PinOut + PinHp \in Nat
  BY DEF PinOut, PinHp
<1> SUFFICES ASSUME NEW v \in Wanted(fmt, tag) PROVE v \in Range(Programming(fmt, tag))
  OBVIOUS
<1>1. \/ v \in Range(ProgramDac(2, fmt, tag)) \/ v \in Range(ProgramDac(3, fmt, tag))
      \/ v \in Range(ProgramMux(12, 0)) \/ v \in Range(ProgramMux(13, 1))
      \/ v \in Range(ProgramPin(20, PinOut)) \/ v \in Range(ProgramPin(21, PinOut + PinHp))
  <2>1. \A nid \in {2, 3} : Range(ProgramDac(nid, fmt, tag)) =
          {Verb(nid, "power", D0), Verb(nid, "stream", tag),
           Verb(nid, "format", fmt), Verb(nid, "out_amp", DefaultGain)}
    BY <1>0, DacProgramme
  <2>2. /\ Range(ProgramMux(12, 0)) =
             {Verb(12, "power", D0), Verb(12, "select", 0), Verb(12, "no_amp", 0)}
        /\ Range(ProgramMux(13, 1)) =
             {Verb(13, "power", D0), Verb(13, "select", 1), Verb(13, "no_amp", 1)}
    BY <1>0, MuxProgramme
  <2>3. Range(ProgramPin(20, PinOut)) =
          {Verb(20, "power", D0), Verb(20, "pin", PinOut), Verb(20, "eapd", Eapd), Verb(20, "out_amp", 0)}
    BY <1>0, PinProgramme
  <2>4. Range(ProgramPin(21, PinOut + PinHp)) =
          {Verb(21, "power", D0), Verb(21, "pin", PinOut + PinHp), Verb(21, "eapd", Eapd),
           Verb(21, "out_amp", 0)}
    BY <1>0, PinProgramme
  <2> QED
    BY <2>1, <2>2, <2>3, <2>4 DEF Wanted, Path, Dacs, Muxes, Pins
<1> QED
  BY <1>1, ProgrammingIs, Zenon

LEMMA ChecksAre ==
  /\ Checks \in Seq(VerbType) /\ Len(Checks) = 6
  /\ \A k \in 1 .. 6 : Checks[k].op = "caps" /\ Checks[k].nid \in Path
  /\ \A nid \in Path : \E k \in 1 .. 6 : Checks[k].nid = nid
BY DEF Checks, VerbType, Verb, Reading, Path, Dacs, Muxes, Pins

LEMMA JoinedAt ==
  ASSUME NEW s \in Seq(VerbType), NEW t \in Seq(VerbType)
  PROVE  /\ \A i \in 1 .. Len(s) : (s \o t)[i] = s[i]
         /\ \A i \in 1 .. Len(t) : (s \o t)[i + Len(s)] = t[i]
<1> DEFINE m == Len(s)
           n == Len(t)
           u == s \o t
<1>1. \A i \in 1 .. m + n : u[i] = IF i <= m THEN s[i] ELSE t[i - m]
  BY ConcatProperties
<1>2. m \in Nat /\ n \in Nat
  OBVIOUS
<1> HIDE DEF m, n, u
<1>3. \A i \in 1 .. m : u[i] = s[i]
  BY <1>1, <1>2
<1>4. \A i \in 1 .. n : u[i + m] = t[i]
  <2> TAKE i \in 1 .. n
  <2>1. i + m \in 1 .. m + n /\ ~(i + m <= m) /\ (i + m) - m = i
    BY <1>2
  <2>2. u[i + m] = IF i + m <= m THEN s[i + m] ELSE t[(i + m) - m]
    BY <1>1, <2>1, Zenon
  <2> QED
    BY <2>1, <2>2, Zenon
<1> QED
  BY <1>3, <1>4 DEF m, n, u

(* init_playback, verb by verb.                                            *)
LEMMA ProgramIs ==
  ASSUME NEW fmt \in Nat, NEW tag \in Nat
  PROVE  /\ InitPlayback(fmt, tag) \in Seq(VerbType) /\ Len(InitPlayback(fmt, tag)) = 29
         /\ InitPlayback(fmt, tag)[1] = Verb(AFG, "power", D0)
         /\ \A k \in 1 .. 6 : InitPlayback(fmt, tag)[k + 1] = Checks[k]
         /\ \A k \in 1 .. 22 : InitPlayback(fmt, tag)[k + 7] = Programming(fmt, tag)[k]
<1> DEFINE a == <<Verb(AFG, "power", D0)>>
           b == Checks
           c == Programming(fmt, tag)
           q == a \o b
<1>0. 1 \in Nat /\ 6 \in Nat /\ 7 \in Nat /\ 22 \in Nat /\ 1 + 6 = 7 /\ 7 + 22 = 29
  OBVIOUS
<1>1. a \in Seq(VerbType) /\ Len(a) = 1 /\ a[1] = Verb(AFG, "power", D0)
  BY DEF Verb, VerbType, AFG, D0, Setting
<1>2. b \in Seq(VerbType) /\ Len(b) = 6
  BY ChecksAre
<1>3. c \in Seq(VerbType) /\ Len(c) = 22
  BY ProgrammingIs
<1>4. InitPlayback(fmt, tag) = q \o c
  BY DEF InitPlayback
<1> HIDE DEF a, b, c
<1>5. q \in Seq(VerbType)
  BY <1>1, <1>2, Joined, Zenon
<1>6. Len(q) = 7
  <2>1. Len(q) = Len(a) + Len(b)
    BY <1>1, <1>2, Joined, Zenon
  <2> QED
    BY <1>1, <1>2, <2>1
<1>7. \A i \in 1 .. 1 : q[i] = a[i]
  <2>1. \A i \in 1 .. Len(a) : q[i] = a[i]
    BY <1>1, <1>2, JoinedAt, Zenon
  <2> QED
    BY <1>1, <2>1, Zenon
<1>8. \A i \in 1 .. 6 : q[i + 1] = b[i]
  <2>1. \A i \in 1 .. Len(b) : q[i + Len(a)] = b[i]
    BY <1>1, <1>2, JoinedAt, Zenon
  <2> QED
    BY <1>1, <1>2, <2>1, Zenon
<1> HIDE DEF q
<1>9. q \o c \in Seq(VerbType)
  BY <1>3, <1>5, Joined, Zenon
<1>10. Len(q \o c) = 29
  <2>1. Len(q \o c) = Len(q) + Len(c)
    BY <1>3, <1>5, Joined, Zenon
  <2> QED
    BY <1>3, <1>6, <2>1
<1>11. \A i \in 1 .. 7 : (q \o c)[i] = q[i]
  <2>1. \A i \in 1 .. Len(q) : (q \o c)[i] = q[i]
    BY <1>3, <1>5, JoinedAt, Zenon
  <2> QED
    BY <1>6, <2>1, Zenon
<1>12. \A i \in 1 .. 22 : (q \o c)[i + 7] = c[i]
  <2>1. \A i \in 1 .. Len(c) : (q \o c)[i + Len(q)] = c[i]
    BY <1>3, <1>5, JoinedAt, Zenon
  <2> QED
    BY <1>3, <1>6, <2>1, Zenon
<1> DEFINE p == q \o c
<1>13. (p \in Seq(VerbType) /\ Len(p) = 29) /\ InitPlayback(fmt, tag) = p
  BY <1>4, <1>9, <1>10, Zenon
<1>14. (\A i \in 1 .. 7 : p[i] = q[i]) /\ (\A i \in 1 .. 22 : p[i + 7] = c[i])
  BY <1>11, <1>12, Zenon
<1> HIDE DEF p
<1>15. p[1] = a[1]
  BY <1>7, <1>14
<1>16. \A k \in 1 .. 6 : p[k + 1] = b[k]
  BY <1>8, <1>14
<1> QED
  BY <1>1, <1>13, <1>14, <1>15, <1>16 DEF b, c

-----------------------------------------------------------------------------
(* What a process holds to from Launch, from ConfigurePci and from the     *)
(* srst of its stream on.                                                  *)
RateInv == phase # "off" => rate \in Nat /\ RateSupported(rate)
BusInv == /\ pci \subseteq {"snoop", "master"}
          /\ phase \notin {"off", "pci", "failed"} => pci = {"snoop", "master"}
SetupInv == phase \in {"codec", "opened"} \/ (Opened /\ dma) => sd = Setup

LEMMA RateNext == RateInv /\ [SessionNext]_sessionVars => RateInv'
<1> SUFFICES ASSUME RateInv, [SessionNext]_sessionVars PROVE RateInv'
  OBVIOUS
<1>1. CASE Launch
  <2>1. PICK r \in Nat : rate' = HardwareRate(r)
    BY <1>1, SessionAssumption DEF Launch
  <2> QED
    BY <2>1, HardwareRateSupported DEF RateInv
<1>2. CASE Exit
  BY <1>2 DEF Exit, RateInv
<1>3. CASE ~Launch /\ ~Exit
  <2>1. rate' = rate /\ (phase = "off" => phase' = "off")
    BY <1>3 DEF SessionNext, sessionVars, ConfigurePci, Fence, ResetStuck, ResetLink, SkipReset, LinkUp,
       ProbeVendor, ProbeMore, NextSlot, Select, PinFails, OpenStream, InitVerb, Ready, Mix, Play,
       PlayerRead, Played, ToggleMute, SyncMuted, MuteVerb, EndOfFile, Drained
  <2> QED
    BY <2>1 DEF RateInv
<1> QED
  BY <1>1, <1>2, <1>3

LEMMA BusNext == BusInv /\ [SessionNext]_sessionVars => BusInv'
<1> SUFFICES ASSUME BusInv, [SessionNext]_sessionVars PROVE BusInv'
  OBVIOUS
<1>1. CASE ConfigurePci
  BY <1>1 DEF ConfigurePci, BusInv
<1>2. CASE Launch \/ Exit
  BY <1>2 DEF Launch, Exit, BusInv, hardware
<1>3. CASE ~ConfigurePci /\ ~Launch /\ ~Exit
  <2>1. /\ pci' = pci
        /\ phase \in {"off", "pci", "failed"} => phase' = phase
    BY <1>3 DEF SessionNext, sessionVars, hardware, Fence, ResetStuck, ResetLink, SkipReset, LinkUp,
       ProbeVendor, ProbeMore, NextSlot, Select, PinFails, OpenStream, InitVerb, Ready, Mix, Play,
       PlayerRead, Played, ToggleMute, SyncMuted, MuteVerb, EndOfFile, Drained
  <2> QED
    BY <2>1 DEF BusInv
<1> QED
  BY <1>1, <1>2, <1>3

LEMMA BoardIsFixed == [SessionNext]_sessionVars => board' = board /\ Present' = Present /\ Tag' = Tag
BY DEF SessionNext, sessionVars, hardware, Launch, Exit, ConfigurePci, Fence, ResetStuck, ResetLink,
     SkipReset, ProbeVendor, ProbeMore, Select, PinFails, OpenStream, InitVerb, Ready, Mix, Play,
     PlayerRead, Played, ToggleMute, SyncMuted, MuteVerb, EndOfFile, Drained, Present, Tag

(* From the srst of the stream on, the process keeps what it had.          *)
Bringing == phase \in {"codec", "opened"} \/ Opened
Kept == UNCHANGED <<board, rate, cad, Present, Tag, Setup>>

LEMMA BringingSteps ==
  ASSUME [SessionNext]_sessionVars, Bringing'
  PROVE  \/ OpenStream /\ Kept
         \/ Bringing /\ Kept
<1>1. board' = board /\ Present' = Present /\ Tag' = Tag
  BY BoardIsFixed
<1>2. \/ OpenStream \/ InitVerb \/ Ready \/ Mix \/ Play \/ PlayerRead \/ ToggleMute \/ SyncMuted
      \/ MuteVerb \/ EndOfFile \/ Drained \/ UNCHANGED sessionVars
  BY DEF SessionNext, Bringing, Opened, Launch, Exit, ConfigurePci, Fence, ResetStuck, ResetLink,
     SkipReset, LinkUp, ProbeVendor, ProbeMore, NextSlot, Select, PinFails
<1>3. rate' = rate /\ cad' = cad
  BY <1>2 DEF OpenStream, InitVerb, Ready, Mix, Play, PlayerRead, Played, ToggleMute, SyncMuted,
     MuteVerb, EndOfFile, Drained, sessionVars, probing
<1>4. Setup' = Setup
  BY <1>1, <1>3 DEF Setup
<1>5. OpenStream \/ Bringing
  BY <1>2 DEF InitVerb, Ready, Mix, Play, PlayerRead, ToggleMute, SyncMuted,
     MuteVerb, EndOfFile, Drained, sessionVars, Bringing, Opened
<1> QED
  BY <1>1, <1>3, <1>4, <1>5 DEF Kept

LEMMA SetupNext == StreamInv /\ IdleInv /\ SetupInv /\ [SessionNext]_sessionVars => SetupInv'
<1> SUFFICES ASSUME StreamInv, IdleInv, SetupInv, [SessionNext]_sessionVars,
                    phase' \in {"codec", "opened"} \/ (Opened' /\ dma')
             PROVE  sd' = Setup'
  BY DEF SetupInv
<1>0. Phases /\ Clean
  BY DEF StreamInv
<1>1. (OpenStream /\ Kept) \/ (Bringing /\ Kept)
  BY BringingSteps DEF Bringing, Opened
<1>2. Setup' = Setup
  BY <1>1 DEF Kept
<1>3. CASE OpenStream
  BY <1>2, <1>3 DEF OpenStream
<1>4. CASE InitVerb \/ Ready
  <2>1. phase \in {"codec", "opened"} /\ sd' = sd
    BY <1>4 DEF InitVerb, Ready
  <2> QED
    BY <1>2, <2>1 DEF SetupInv
<1>5. CASE Mix \/ Play \/ PlayerRead
  <2>0. dma'
    BY <1>5 DEF Mix, Play, PlayerRead, Played
  <2>1. Playing /\ Truthful /\ Plays /\ Descriptor /\ Truthful'
    BY <1>0, <1>5, MixPlays, OthersPlay, TruthfulNext
       DEF Mix, Play, PlayerRead, Played, Plays, Clean, Playing
  <2>2. running' /\ ~running => sd' = Setup
    BY <2>1 DEF Descriptor
  <2>3. CASE dma
    <3>1. sd = Setup
      BY <2>1, <2>3 DEF SetupInv, Playing, Opened
    <3>2. ~(stopped' /\ ~stopped)
      <4>1. CASE Mix
        BY <2>0, <2>1, <4>1 DEF Mix, IdleInv, Mixing, Watch, OneBehind, Next, Supply, RequestFlush, MixFlush,
             Halt, StopImmediate, DropAll, MixIdle, TryIdleStop, MixFull, MixPush, PushTail, Tick
      <4>2. CASE Play \/ PlayerRead
        BY <4>2 DEF Play, PlayerRead, Played, idleVars
      <4> QED
        BY <1>5, <4>1, <4>2
    <3> QED
      BY <1>2, <2>1, <2>3, <3>1, <3>2 DEF Descriptor, Truthful
  <2>4. CASE ~dma
    BY <1>2, <2>0, <2>1, <2>2, <2>4 DEF Truthful
  <2> QED
    BY <2>3, <2>4
<1>6. CASE ToggleMute \/ SyncMuted \/ MuteVerb \/ EndOfFile \/ Drained \/ UNCHANGED sessionVars
  BY <1>2, <1>6 DEF ToggleMute, SyncMuted, MuteVerb, EndOfFile, Drained, SetupInv, Opened, hardware,
     hdaVars, sessionVars
<1>7. CASE Launch \/ Exit \/ ConfigurePci \/ Fence \/ ResetStuck \/ ResetLink \/ SkipReset \/ ProbeVendor
           \/ ProbeMore \/ Select \/ PinFails
  BY <1>7 DEF Launch, Exit, ConfigurePci, Fence, ResetStuck, ResetLink, SkipReset, LinkUp, ProbeVendor,
     ProbeMore, NextSlot, Select, PinFails, Opened
<1> QED
  BY <1>3, <1>4, <1>5, <1>6, <1>7 DEF SessionNext

-----------------------------------------------------------------------------
(* The programme, verb by verb: what has been issued is set, and stays so. *)
(* init_playback as this process issues it, and how far it has come.       *)
Program == InitPlayback(FormatVal(rate), Tag)
Done == 29 - Len(todo)
Underway ==
  /\ todo \in Seq(VerbType) /\ Len(todo) \in 1 .. 29
  /\ \A i \in 1 .. Len(todo) : todo[i] = Program[Done + i]

IsSet(v) == RegIs(cad, v.nid, v.op, v.value)
ByMute(v) == v.op = "out_amp" /\ v.nid \in Dacs
ProgramInv ==
  /\ phase = "codec" => /\ Underway
                        /\ \A j \in 1 .. Done : Program[j].op \in Setting => IsSet(Program[j])
  /\ phase = "opened" \/ Opened =>
       \A j \in 1 .. 29 : Program[j].op \in Setting /\ ~ByMute(Program[j]) => IsSet(Program[j])

LEMMA ParametersType ==
  ASSUME RateInv, IsBoard(board), phase # "off"
  PROVE  FormatVal(rate) \in Nat /\ Tag \in Nat
<1> DEFINE e == EncodeRate(rate)
<1>1. RateSupported(rate) /\ e \in Encodings(rate)
  BY EncodeRateType DEF RateInv
<1>2. /\ FormatVal(rate) = 17 + (e.div - 1) * 256 + (e.mult - 1) * 2048 + (e.base - 1) * 16384
      /\ e.div \in 1 .. 8 /\ e.mult \in 1 .. 8 /\ e.base \in 1 .. 2
  BY <1>1 DEF FormatVal, Encodings, Factors
<1> HIDE DEF e
<1>3. FormatVal(rate) \in Nat
  BY <1>2
<1> QED
  BY <1>3 DEF IsBoard, Tag

LEMMA ProgrammingRange ==
  ASSUME NEW fmt \in Nat, NEW tag \in Nat
  PROVE  Range(Programming(fmt, tag)) = {Programming(fmt, tag)[i] : i \in 1 .. 22}
<1> DEFINE p == Programming(fmt, tag)
<1>1. p \in Seq(VerbType) /\ Len(p) = 22
  BY ProgrammingIs, Zenon
<1> HIDE DEF p
<1>2. Range(p) = {p[i] : i \in 1 .. Len(p)}
  BY <1>1, RangeEquality
<1> QED
  BY <1>1, <1>2 DEF p

(* One register is given one value only, however often it is set.          *)
LEMMA ProgramAgrees ==
  ASSUME NEW fmt \in Nat, NEW tag \in Nat, NEW j \in 1 .. 29, NEW k \in 1 .. 29
  PROVE  LET p == InitPlayback(fmt, tag) IN
         /\ p[j] \in VerbType
         /\ p[j].op \in Setting /\ p[j].nid = p[k].nid /\ p[j].op = p[k].op => p[j].value = p[k].value
<1> DEFINE p == InitPlayback(fmt, tag)
<1> HIDE DEF p
<1>1. p \in Seq(VerbType) /\ Len(p) = 29
  BY ProgramIs, Zenon DEF p
<1>2. ASSUME NEW i \in 1 .. 29
      PROVE  \/ p[i] = Verb(AFG, "power", D0)
             \/ p[i].op = "caps"
             \/ Fits(p[i], fmt, tag)
  <2>1. CASE i = 1
    BY <2>1, ProgramIs, Zenon DEF p
  <2>2. CASE i \in 2 .. 7
    <3>1. i - 1 \in 1 .. 6 /\ (i - 1) + 1 = i
      BY <2>2
    <3>2. p[(i - 1) + 1] = Checks[i - 1]
      BY <3>1, ProgramIs, Zenon DEF p
    <3> QED
      BY <3>1, <3>2, ChecksAre
  <2>3. CASE i \in 8 .. 29
    <3>1. i - 7 \in 1 .. 22 /\ (i - 7) + 7 = i
      BY <2>3
    <3>2. p[(i - 7) + 7] = Programming(fmt, tag)[i - 7]
      BY <3>1, ProgramIs, Zenon DEF p
    <3>3. Programming(fmt, tag)[i - 7] \in Range(Programming(fmt, tag))
      BY <3>1, ProgrammingRange
    <3> QED
      BY <3>1, <3>2, <3>3, ProgrammingFits
  <2> QED
    BY <1>2, <2>1, <2>2, <2>3
<1>3. Verb(AFG, "power", D0).nid = AFG /\ Verb(AFG, "power", D0).value = D0 /\ AFG \notin Path
  BY DEF Verb, AFG, Path, Dacs, Muxes, Pins
<1>4. "caps" \notin Setting
  BY DEF Setting
<1>5. p[j] \in VerbType
  <2>1. j \in 1 .. Len(p)
    BY <1>1
  <2> QED
    BY <1>1, <2>1, ElementOfSeq, Zenon
<1>6. p[j].op \in Setting /\ p[j].nid = p[k].nid /\ p[j].op = p[k].op => p[j].value = p[k].value
  <2> SUFFICES ASSUME p[j].op \in Setting, p[j].nid = p[k].nid, p[j].op = p[k].op
               PROVE  p[j].value = p[k].value
    OBVIOUS
  <2>1. p[j] = Verb(AFG, "power", D0) \/ Fits(p[j], fmt, tag)
    BY <1>2, <1>4
  <2>2. p[k] = Verb(AFG, "power", D0) \/ Fits(p[k], fmt, tag)
    BY <1>2, <1>4
  <2> QED
    BY <1>3, <2>1, <2>2 DEF Fits
<1> QED
  BY <1>5, <1>6 DEF p

(* What is wanted of the codec is in the programme.                        *)
LEMMA ProgramCovers ==
  ASSUME NEW fmt \in Nat, NEW tag \in Nat, NEW v \in Wanted(fmt, tag)
  PROVE  \E j \in 1 .. 29 : InitPlayback(fmt, tag)[j] = v
<1>1. v \in Range(Programming(fmt, tag))
  BY ProgrammingCovers
<1>2. PICK k \in 1 .. 22 : Programming(fmt, tag)[k] = v
  BY <1>1, ProgrammingRange
<1>3. k + 7 \in 1 .. 29
  OBVIOUS
<1>4. InitPlayback(fmt, tag)[k + 7] = v
  BY <1>2, ProgramIs, Zenon
<1> QED
  BY <1>3, <1>4

LEMMA ExecuteDoes ==
  ASSUME NEW v, Execute(cad, v), cad \in Present, cad' = cad
  PROVE  /\ v.op \in Setting => IsSet(v)'
         /\ \A w : IsSet(w) /\ (w.nid # v.nid \/ w.op # v.op \/ w.value = v.value \/ v.op \notin Setting)
                     => IsSet(w)'
BY DEF Execute, IsSet, RegIs

LEMMA Heeded ==
  ASSUME NEW c, NEW v, NEW r, Cmd(c, v, r), r # Failed
  PROVE  Execute(c, v)
BY DEF Cmd, ByPio, InTime, Mishears, TimesOut

LEMMA Countdown ==
  ASSUME NEW n \in 1 .. 29
  PROVE  29 - n \in 0 .. 28 /\ (n = 1 => 29 - n = 28) /\ (n > 1 => n - 1 \in 1 .. 29)
OBVIOUS

(* The verb that is issued next, and what is left after it.                *)
LEMMA NextVerb ==
  ASSUME Underway
  PROVE  /\ Head(todo) = Program[Done + 1] /\ Done \in 0 .. 28
         /\ Len(todo) = 1 => Done = 28
         /\ Len(todo) > 1 /\ todo' = Tail(todo) /\ Program' = Program => Underway' /\ Done' = Done + 1
<1>1. todo \in Seq(VerbType) /\ Len(todo) \in 1 .. 29 /\ todo # <<>>
  BY DEF Underway
<1>2. \A i \in 1 .. Len(todo) : todo[i] = Program[Done + i]
  BY DEF Underway
<1>3. Head(todo) = todo[1] /\ 1 \in 1 .. Len(todo)
  BY <1>1
<1>n. Len(todo) \in 1 .. 29
  BY <1>1
<1>4. Done \in 0 .. 28 /\ (Len(todo) = 1 => Done = 28)
  BY <1>n, Countdown, Zenon DEF Done
<1>5. ASSUME Len(todo) > 1, todo' = Tail(todo), Program' = Program
      PROVE  Underway' /\ Done' = Done + 1
  <2>1. todo' \in Seq(VerbType) /\ Len(todo') = Len(todo) - 1
    BY <1>1, <1>5
  <2>2. \A i \in 1 .. Len(todo') : todo'[i] = todo[i + 1]
    BY <1>1, <1>5, HeadTailProperties
  <2>3. Done' = Done + 1
    BY <1>1, <2>1 DEF Done
  <2>4. ASSUME NEW i \in 1 .. Len(todo')
        PROVE  todo'[i] = Program'[Done' + i]
    <3>1. i + 1 \in 1 .. Len(todo)
      BY <1>1, <2>1
    <3>2. todo[i + 1] = Program[Done + (i + 1)]
      BY <1>2, <3>1, Zenon
    <3>3. Done' + i = Done + (i + 1)
      BY <1>4, <2>3
    <3> QED
      BY <1>5, <2>2, <3>2, <3>3, Zenon
  <2>n. Len(todo') = Len(todo) - 1
    BY <2>1
  <2>5. Len(todo') \in 1 .. 29
    BY <1>n, <1>5, <2>n, Countdown, Zenon
  <2> QED
    BY <2>1, <2>3, <2>4, <2>5 DEF Underway
<1> QED
  BY <1>2, <1>3, <1>4, <1>5

LEMMA ProgramKept ==
  ASSUME Kept
  PROVE  Program' = Program
BY DEF Kept, Program

LEMMA ProgramOpens ==
  ASSUME RateInv, OnBoard, OpenStream, Kept
  PROVE  Underway' /\ Done' = 0
<1>0. phase # "off" /\ IsBoard(board)
  BY DEF OpenStream, OnBoard
<1> DEFINE p == InitPlayback(FormatVal(rate), Tag)
<1>1. p \in Seq(VerbType) /\ Len(p) = 29
  BY <1>0, ParametersType, ProgramIs, Zenon
<1>2. todo' = p /\ Program' = p
  BY DEF OpenStream, Kept, Program
<1> HIDE DEF p
<1>3. Len(todo') = 29 /\ Done' = 0
  BY <1>1, <1>2 DEF Done
<1>4. \A i \in 1 .. 29 : todo'[i] = Program'[Done' + i]
  <2> TAKE i \in 1 .. 29
  <2>1. 0 + i = i
    OBVIOUS
  <2> QED
    BY <1>2, <1>3, <2>1, Zenon
<1> QED
  BY <1>1, <1>2, <1>3, <1>4 DEF Underway

(* A verb of init_playback that is accepted has been carried out, and sets *)
(* nothing to anything else than a verb before it did.                     *)
LEMMA VerbDone ==
  ASSUME RateInv, OnBoard, phase = "codec", cad' = cad, Program' = Program,
         Underway, \A j \in 1 .. Done : Program[j].op \in Setting => IsSet(Program[j]),
         NEW r, Cmd(cad, Head(todo), r), r # Failed
  PROVE  \A j \in 1 .. Done + 1 : Program[j].op \in Setting => IsSet(Program[j])'
<1>0. /\ phase # "off" /\ IsBoard(board) /\ cad \in Present
      /\ FormatVal(rate) \in Nat /\ Tag \in Nat
  BY ParametersType DEF OnBoard
<1>1. Head(todo) = Program[Done + 1] /\ Done \in 0 .. 28
  BY NextVerb
<1>2. Execute(cad, Program[Done + 1])
  BY <1>1, Heeded
<1> DEFINE v == Program[Done + 1]
<1>3. ASSUME NEW j \in 1 .. Done + 1, Program[j].op \in Setting
      PROVE  IsSet(Program[j])'
  <2>1. j \in 1 .. 29 /\ Done + 1 \in 1 .. 29
    BY <1>1
  <2>2. CASE j = Done + 1
    BY <1>0, <1>2, <1>3, <2>2, ExecuteDoes
  <2>3. CASE j # Done + 1
    <3>1. j \in 1 .. Done
      BY <1>1, <2>3
    <3>2. IsSet(Program[j])
      BY <1>3, <3>1
    <3>3. Program[j].nid = v.nid /\ Program[j].op = v.op => Program[j].value = v.value
      BY <1>0, <1>3, <2>1, ProgramAgrees DEF Program
    <3> QED
      BY <1>0, <1>2, <3>2, <3>3, ExecuteDoes
  <2> QED
    BY <2>2, <2>3
<1> QED
  BY <1>3

LEMMA ProgramNext ==
  RateInv /\ OnBoard /\ MuteInv /\ ProgramInv /\ [SessionNext]_sessionVars => ProgramInv'
<1> SUFFICES ASSUME RateInv, OnBoard, MuteInv, ProgramInv, [SessionNext]_sessionVars, Bringing'
             PROVE  ProgramInv'
  BY DEF ProgramInv, Bringing, Opened
<1>0. (OpenStream /\ Kept) \/ (Bringing /\ Kept)
  BY BringingSteps
<1>1. Program' = Program /\ cad' = cad
  BY <1>0, ProgramKept DEF Kept
<1>2. CASE OpenStream
  <2>1. Underway' /\ Done' = 0
    BY <1>0, <1>2, ProgramOpens, BringingSteps DEF Kept, Bringing, OpenStream, Opened
  <2>2. \A j \in 1 .. Done' : Program'[j].op \in Setting => IsSet(Program[j])'
    BY <2>1
  <2> QED
    BY <1>1, <1>2, <2>1, <2>2 DEF ProgramInv, OpenStream, Opened
<1>3. CASE InitVerb
  <2>0. phase = "codec" /\ phase' \in {"codec", "opened"}
    BY <1>3 DEF InitVerb, Bringing, Opened
  <2>1. PICK r \in Outcomes : /\ Cmd(cad, Head(todo), r) /\ r # Failed
                              /\ todo' = Tail(todo)
                              /\ phase' = IF Len(todo) = 1 THEN "opened" ELSE phase
    BY <1>3, <2>0 DEF InitVerb, Accepts
  <2>2. Underway /\ \A j \in 1 .. Done : Program[j].op \in Setting => IsSet(Program[j])
    BY <2>0 DEF ProgramInv
  <2>3. \A j \in 1 .. Done + 1 : Program[j].op \in Setting => IsSet(Program[j])'
    BY <1>1, <2>0, <2>1, <2>2, VerbDone
  <2>4. CASE Len(todo) = 1
    <3>1. Done = 28
      BY <2>2, <2>4, NextVerb
    <3>2. \A j \in 1 .. 29 : Program[j].op \in Setting => IsSet(Program[j])'
      BY <2>3, <3>1
    <3> QED
      BY <1>1, <2>1, <2>4, <3>2 DEF ProgramInv
  <2>5. CASE Len(todo) # 1
    <3>1. Len(todo) > 1
      BY <2>2, <2>5 DEF Underway
    <3>2. Underway' /\ Done' = Done + 1
      BY <1>1, <2>1, <2>2, <3>1, NextVerb
    <3> QED
      BY <1>1, <2>0, <2>1, <2>3, <2>5, <3>2 DEF ProgramInv, Opened
  <2> QED
    BY <2>4, <2>5
<1>4. CASE MuteVerb
  <2>1. phase = "ready" /\ phase' = phase /\ cad \in Present /\ todo # <<>>
    BY <1>4 DEF MuteVerb, OnBoard, Opened
  <2>2. \A j \in 1 .. 29 : Program[j].op \in Setting /\ ~ByMute(Program[j]) => IsSet(Program[j])
    BY <2>1 DEF ProgramInv, Opened
  <2>3. Head(todo).op = "out_amp" /\ Head(todo).nid \in Dacs
    <3>1. PICK m \in BOOLEAN : todo = SetMute(m) \/ todo = Second(m)
      BY <2>1 DEF MuteInv, Opened, Idling, Muting
    <3> QED
      BY <3>1, FirstVerb, SecondVerb DEF Verb, Dacs
  <2>4. Execute(cad, Head(todo)) \/ UNCHANGED reg
    BY <1>4 DEF MuteVerb
  <2>5. \A j \in 1 .. 29 : Program[j].op \in Setting /\ ~ByMute(Program[j]) => IsSet(Program[j])'
    <3>1. CASE UNCHANGED reg
      BY <1>1, <2>2, <3>1 DEF IsSet, RegIs
    <3>2. CASE Execute(cad, Head(todo))
      BY <1>1, <2>1, <2>2, <2>3, <3>2, ExecuteDoes DEF ByMute
    <3> QED
      BY <2>4, <3>1, <3>2
  <2> QED
    BY <1>1, <2>1, <2>5 DEF ProgramInv
<1>5. CASE Ready \/ Mix \/ Play \/ PlayerRead \/ ToggleMute \/ SyncMuted \/ EndOfFile \/ Drained
  <2>1. (phase = "opened" \/ Opened) /\ Opened' /\ reg' = reg
    BY <1>5 DEF Ready, Mix, Play, PlayerRead, Played, ToggleMute, SyncMuted, EndOfFile, Drained,
       Opened, hardware
  <2>2. phase' # "codec"
    BY <2>1 DEF Opened
  <2> QED
    BY <1>1, <2>1, <2>2 DEF ProgramInv, IsSet, RegIs
<1>6. CASE UNCHANGED sessionVars
  <2>1. phase' = phase /\ todo' = todo /\ reg' = reg
    BY <1>6 DEF sessionVars, hardware
  <2>2. Done' = Done /\ (Underway' <=> Underway)
    BY <1>1, <2>1 DEF Done, Underway
  <2> QED
    BY <1>1, <2>1, <2>2 DEF ProgramInv, IsSet, RegIs, Opened
<1>7. CASE Launch \/ Exit \/ ConfigurePci \/ Fence \/ ResetStuck \/ ResetLink \/ SkipReset \/ ProbeVendor
           \/ ProbeMore \/ Select \/ PinFails
  BY <1>7 DEF Launch, Exit, ConfigurePci, Fence, ResetStuck, ResetLink, SkipReset, LinkUp, ProbeVendor,
     ProbeMore, NextSlot, Select, PinFails, Bringing, Opened
<1> QED
  BY <1>2, <1>3, <1>4, <1>5, <1>6, <1>7 DEF SessionNext

LEMMA PathIsWanted ==
  ASSUME RateInv, OnBoard, ProgramInv, Opened, NEW v \in Wanted(FormatVal(rate), Tag),
         v.op \in Setting /\ ~ByMute(v)
  PROVE  IsSet(v)
<1>1. FormatVal(rate) \in Nat /\ Tag \in Nat
  BY ParametersType DEF OnBoard, Opened
<1>2. PICK j \in 1 .. 29 : Program[j] = v
  BY <1>1, ProgramCovers DEF Program
<1> QED
  BY <1>2 DEF ProgramInv

LEMMA PathFollows == RateInv /\ BusInv /\ SetupInv /\ OnBoard /\ ProgramInv => PathMatches
<1> SUFFICES ASSUME RateInv, BusInv, SetupInv, OnBoard, ProgramInv, Opened, dma
             PROVE  /\ sd.pages = "ours" /\ RateOf(sd.fmt) = rate /\ pci = {"snoop", "master"}
                    /\ \A nid \in Path \cup {AFG} : RegIs(cad, nid, "power", D0)
                    /\ \A nid \in Dacs : RegIs(cad, nid, "stream", sd.tag) /\ RegIs(cad, nid, "format", sd.fmt)
                    /\ \A nid \in Muxes : RegIs(cad, nid, "select", nid - 12)
                    /\ \A nid \in Pins : /\ \E on \in {PinOut, PinOut + PinHp} : RegIs(cad, nid, "pin", on)
                                         /\ RegIs(cad, nid, "eapd", Eapd) /\ RegIs(cad, nid, "out_amp", 0)
  BY DEF PathMatches
<1> DEFINE fmt == FormatVal(rate)
<1>1. fmt \in Nat /\ Tag \in Nat
  BY ParametersType DEF OnBoard, Opened
<1>2. sd.pages = "ours" /\ sd.fmt = fmt /\ sd.tag = Tag /\ RateOf(fmt) = rate
  BY SupportedDecodes DEF SetupInv, Setup, RateInv, Opened
<1>3. pci = {"snoop", "master"}
  BY DEF BusInv, Opened
<1>4. \A nid, op, value : Verb(nid, op, value).nid = nid /\ Verb(nid, op, value).op = op
                          /\ Verb(nid, op, value).value = value
  BY DEF Verb
<1>5. \A nid, op, value :
        Verb(nid, op, value) \in Wanted(fmt, Tag) /\ op \in Setting /\ ~(op = "out_amp" /\ nid \in Dacs)
          => RegIs(cad, nid, op, value)
  BY <1>4, PathIsWanted DEF IsSet, ByMute
<1>6. RegIs(cad, AFG, "power", D0)
  <2>1. Program[1] = Verb(AFG, "power", D0)
    BY <1>1, ProgramIs, Zenon DEF Program
  <2>2. 1 \in 1 .. 29 /\ "power" \in Setting /\ "power" # "out_amp"
    BY DEF Setting
  <2> QED
    BY <1>4, <2>1, <2>2 DEF ProgramInv, IsSet, ByMute
<1> HIDE DEF fmt
<1>7. \A nid \in Path : RegIs(cad, nid, "power", D0)
  BY <1>5 DEF Wanted, Setting
<1>8. \A nid \in Dacs : RegIs(cad, nid, "stream", Tag) /\ RegIs(cad, nid, "format", fmt)
  BY <1>5 DEF Wanted, Setting
<1>9. \A nid \in Muxes : RegIs(cad, nid, "select", nid - 12)
  BY <1>5 DEF Wanted, Setting
<1>10. \A nid \in Pins : /\ \E on \in {PinOut, PinOut + PinHp} : RegIs(cad, nid, "pin", on)
                         /\ RegIs(cad, nid, "eapd", Eapd) /\ RegIs(cad, nid, "out_amp", 0)
  BY <1>5 DEF Wanted, Setting, Pins, Dacs
<1> QED
  BY <1>2, <1>3, <1>6, <1>7, <1>8, <1>9, <1>10

LEMMA BringUpInit ==
  SessionInit => MuteInv /\ OnBoard /\ RateInv /\ BusInv /\ SetupInv /\ ProgramInv
<1>1. SessionInit => RateInv /\ BusInv /\ SetupInv /\ ProgramInv
  BY DEF SessionInit, RateInv, BusInv, SetupInv, ProgramInv, Opened
<1> QED
  BY <1>1, MuteInit

(* Whatever earlier processes have left in the controller and the codec,   *)
(* and whichever verbs have failed, while a process plays its stream and   *)
(* the codec agree on tag, format and rate, and the path is open; unless a *)
(* verb got another's reply.                                               *)
THEOREM PathAgrees == SessionSpec => []PathMatches
BY BringUpInit, StreamInit, StreamNext, IdleInit, IdleNext, MuteNext, OnBoardNext, RateNext, BusNext,
   SetupNext, ProgramNext, PathFollows, PTL DEF SessionSpec

-----------------------------------------------------------------------------
(* The checks, and what is known of the codec once they are passed.        *)

(* Probing only reads.                                                     *)
Queries == {q \in Seq(VerbType) : q # <<>> /\ \A i \in 1 .. Len(q) : q[i].op \in Reading}
ProbeInv == phase = "probe" => todo \in Queries
(* The replies outstanding, in the order in which they will be heard.      *)
Voices == {Own(c, v) : c \in Present, v \in VerbType}
Item == [cad : Present, reply : Voices]
Outstanding == Len(pending) + Len(late)
Coming(q) == IF q <= Len(pending) THEN pending[q] ELSE late[q - Len(pending)].reply
LateInv == /\ late \in Seq(Item) /\ pending \in Seq(Voices)
           /\ Outstanding <= MaxLate
           /\ Outstanding # 0 => engine = "corb"

(* What is known of the codec's layout once check k has been passed: that  *)
(* k has heard what it expects, or, while replies are outstanding, that    *)
(* some check up to MaxLate before it would tell k what it expects.  The   *)
(* reply that is the q-th to come has waited for q others at most since    *)
(* its verb, so that those that were late when init_playback began are     *)
(* gone, the later in the queue the sooner.                                *)
Heard(codec, k) == codec.layout[Checks[k].nid]
FromProgram(q) ==
  Done + q > MaxLate =>
    \E j \in 1 .. Done : j >= Done + q - MaxLate /\ Coming(q) = Own(cad, Program[j])
LayoutInv ==
  phase = "codec" =>
    /\ ~misheard => \A k \in 1 .. 6 : k < Done => Heard(board.codec[cad], k) \in Expected(Checks[k].nid)
    /\ \A q \in 1 .. Outstanding : FromProgram(q)
    /\ Outstanding # 0 =>
         \A k \in 1 .. 6 : k < Done /\ k > MaxLate =>
           \E n \in 1 .. MaxLate : n < k /\ Heard(board.codec[cad], k - n) \in Expected(Checks[k].nid)

LEMMA ReadingVerb ==
  ASSUME NEW nid \in Nat, NEW op \in Reading
  PROVE  Verb(nid, op, 0) \in VerbType /\ Verb(nid, op, 0).op \in Reading
BY DEF Verb, VerbType

LEMMA QueriesRead ==
  ASSUME NEW q \in Queries
  PROVE  /\ Head(q).op \in Reading
         /\ Append(Tail(q), Verb(AFG, "subsystem_afg", 0)) \in Queries
         /\ Len(q) > 1 => Tail(q) \in Queries
<1> DEFINE d == Verb(AFG, "subsystem_afg", 0)
           t == Tail(q)
<1>0. d \in VerbType /\ d.op \in Reading
  BY ReadingVerb DEF AFG, Reading, Ids
<1>1. q \in Seq(VerbType) /\ q # <<>> /\ \A i \in 1 .. Len(q) : q[i].op \in Reading
  BY DEF Queries
<1>2. Head(q).op \in Reading
  BY <1>1
<1>3. t \in Seq(VerbType) /\ Len(t) = Len(q) - 1 /\ \A i \in 1 .. Len(t) : t[i] = q[i + 1]
  BY <1>1, HeadTailProperties
<1>4. \A i \in 1 .. Len(t) : t[i].op \in Reading
  <2> TAKE i \in 1 .. Len(t)
  <2>1. i + 1 \in 1 .. Len(q)
    BY <1>1, <1>3
  <2> QED
    BY <1>1, <1>3, <2>1
<1> HIDE DEF d, t
<1>5. /\ Append(t, d) \in Seq(VerbType) /\ Len(Append(t, d)) = Len(t) + 1
      /\ \A i \in 1 .. Len(t) : Append(t, d)[i] = t[i]
      /\ Append(t, d)[Len(t) + 1] = d
  BY <1>0, <1>3, AppendProperties
<1>6. Append(t, d) \in Queries
  <2>1. Append(t, d) # <<>>
    BY <1>3, <1>5
  <2>2. \A i \in 1 .. Len(t) + 1 : Append(t, d)[i].op \in Reading
    <3> TAKE i \in 1 .. Len(t) + 1
    <3>1. i \in 1 .. Len(t) \/ i = Len(t) + 1
      BY <1>3
    <3> QED
      BY <1>0, <1>4, <1>5, <3>1, Zenon
  <2> QED
    BY <1>5, <2>1, <2>2 DEF Queries
<1>7. Len(q) > 1 => t \in Queries
  <2> SUFFICES ASSUME Len(q) > 1 PROVE t # <<>>
    BY <1>3, <1>4 DEF Queries
  <2> QED
    BY <1>1, <1>3
<1> QED
  BY <1>2, <1>6, <1>7 DEF d, t

LEMMA QueriesBegin ==
  /\ <<Verb(0, "vendor", 0)>> \in Queries
  /\ <<Verb(0, "subsystem", 0), Verb(0, "revision", 0)>> \in Queries
<1> DEFINE a == Verb(0, "vendor", 0)
           b == Verb(0, "subsystem", 0)
           c == Verb(0, "revision", 0)
<1>1. /\ a \in VerbType /\ b \in VerbType /\ c \in VerbType
      /\ a.op \in Reading /\ b.op \in Reading /\ c.op \in Reading
  BY ReadingVerb DEF Reading, Ids
<1> HIDE DEF a, b, c
<1>2. <<a>> \in Queries
  BY <1>1 DEF Queries
<1>3. <<b, c>> \in Queries
  BY <1>1 DEF Queries
<1> QED
  BY <1>2, <1>3 DEF a, b, c

LEMMA ProbeNext == ProbeInv /\ [SessionNext]_sessionVars => ProbeInv'
<1> SUFFICES ASSUME ProbeInv, [SessionNext]_sessionVars, phase' = "probe" PROVE todo' \in Queries
  BY DEF ProbeInv
<1>1. CASE ProbeVendor
  BY <1>1, QueriesBegin DEF ProbeVendor, NextSlot
<1>2. CASE ProbeMore
  <2>1. todo \in Queries
    BY <1>2 DEF ProbeMore, ProbeInv
  <2> QED
    BY <1>2, <2>1, QueriesBegin, QueriesRead DEF ProbeMore, NextSlot
<1>3. CASE ResetLink \/ SkipReset
  BY <1>3, QueriesBegin DEF ResetLink, SkipReset, LinkUp
<1>4. CASE ~ProbeVendor /\ ~ProbeMore /\ ~ResetLink /\ ~SkipReset
  <2>1. phase = "probe" /\ todo' = todo
    BY <1>4 DEF SessionNext, sessionVars, Launch, Exit, ConfigurePci, Fence, ResetStuck, Select, PinFails,
       OpenStream, InitVerb, Ready, Mix, Play, PlayerRead, Played, ToggleMute, SyncMuted, MuteVerb,
       EndOfFile, Drained
  <2> QED
    BY <2>1 DEF ProbeInv
<1> QED
  BY <1>1, <1>2, <1>3, <1>4

(* What is to come when v has been sent.                                   *)
LEMMA SentIs ==
  ASSUME late \in Seq(Item), NEW c, NEW v \in VerbType, NEW out \in Sent(c, v)
  PROVE  /\ out \in Seq(Item) /\ Len(out) \in Nat
         /\ \A i \in 1 .. Len(late) : out[i] = late[i]
         /\ \/ Len(out) = Len(late)
            \/ /\ Len(out) = Len(late) + 1 /\ c \in Present
               /\ out[Len(late) + 1].reply = Own(c, v)
<1>1. CASE out = late
  BY <1>1
<1>2. CASE out # late
  <2> DEFINE x == [cad |-> c, reply |-> Own(c, v)]
  <2>1. out = Append(late, x) /\ c \in Present
    BY <1>2 DEF Sent
  <2>2. x \in Item /\ x.reply = Own(c, v)
    BY <2>1 DEF Item, Voices
  <2> HIDE DEF x
  <2> QED
    BY <2>1, <2>2, AppendProperties
<1> QED
  BY <1>1, <1>2

(* Of a queue of replies the first m are gone.                             *)
LEMMA Behind ==
  ASSUME NEW out \in Seq(Item), NEW m \in 0 .. Len(out)
  PROVE  LET rest == SubSeq(out, m + 1, Len(out)) IN
         /\ rest \in Seq(Item) /\ Len(rest) = Len(out) - m
         /\ \A i \in 1 .. Len(rest) : rest[i] = out[m + i]
<1> DEFINE n == Len(out)
           rest == SubSeq(out, m + 1, n)
<1>1. n \in Nat /\ m \in 0 .. n
  OBVIOUS
<1>2. \A i \in m + 1 .. n : out[i] \in Item
  BY <1>1
<1>3. m + 1 \in Int /\ n \in Int
  BY <1>1
<1>4. /\ rest \in Seq(Item)
      /\ Len(rest) = IF m + 1 <= n THEN n - (m + 1) + 1 ELSE 0
      /\ \A i \in 1 .. n - (m + 1) + 1 : rest[i] = out[(m + 1) + i - 1]
  BY <1>2, <1>3, SubSeqProperties
<1> HIDE DEF n, rest
<1>5. Len(rest) = n - m /\ n - (m + 1) + 1 = n - m
  BY <1>1, <1>4
<1>6. \A i \in 1 .. Len(rest) : rest[i] = out[m + i]
  <2> TAKE i \in 1 .. Len(rest)
  <2>1. (m + 1) + i - 1 = m + i
    BY <1>1, <1>5
  <2> QED
    BY <1>4, <1>5, <2>1
<1> QED
  BY <1>4, <1>5, <1>6 DEF n, rest

(* A verb that mishears is given one of the replies outstanding; and each  *)
(* that is then outstanding is its own, in no later a place than MaxLate,  *)
(* or has come forward.                                                    *)
LEMMA MishearsMoves ==
  ASSUME LateInv, MaxLate \in Nat, NEW c, NEW v \in VerbType, NEW r, Mishears(c, v, r)
  PROVE  /\ late' \in Seq(Item) /\ pending' \in Seq(Voices)
         /\ Outstanding' <= Outstanding
         /\ \E q \in 1 .. Outstanding : r = Coming(q)
         /\ \A p \in 1 .. Outstanding' :
              \/ \E q \in p + 1 .. Outstanding : Coming(p)' = Coming(q)
              \/ p <= Outstanding /\ Coming(p)' = Own(c, v)
<1>0. late \in Seq(Item) /\ pending \in Seq(Voices) /\ Len(late) \in Nat /\ Len(pending) \in Nat
  BY DEF LateInv
<1>1. PICK out \in Sent(c, v) :
        \/ /\ pending # <<>> /\ r = Head(pending)
           /\ pending' = Tail(pending) /\ late' = out
        \/ /\ pending = <<>>
           /\ \E j \in 1 .. Len(late) : \E m \in j .. Len(out) :
                /\ r = out[j].reply
                /\ pending' = [i \in 1 .. m - j |-> out[j + i].reply]
                /\ late' = SubSeq(out, m + 1, Len(out))
  BY DEF Mishears
<1>2. /\ out \in Seq(Item) /\ Len(out) \in Nat
      /\ \A i \in 1 .. Len(late) : out[i] = late[i]
      /\ \/ Len(out) = Len(late)
         \/ Len(out) = Len(late) + 1 /\ out[Len(late) + 1].reply = Own(c, v)
  BY <1>0, SentIs
<1>3. CASE pending # <<>> /\ r = Head(pending) /\ pending' = Tail(pending) /\ late' = out
  <2>1. /\ pending' \in Seq(Voices) /\ Len(pending') = Len(pending) - 1 /\ Len(pending) >= 1
        /\ \A i \in 1 .. Len(pending') : pending'[i] = pending[i + 1]
        /\ r = pending[1]
    BY <1>0, <1>3, HeadTailProperties, EmptySeq
  <2>2. late' \in Seq(Item) /\ Outstanding' <= Outstanding
    BY <1>0, <1>2, <1>3, <2>1 DEF Outstanding
  <2>3. r = Coming(1) /\ 1 \in 1 .. Outstanding
    BY <1>0, <2>1 DEF Coming, Outstanding
  <2>4. ASSUME NEW p \in 1 .. Outstanding'
        PROVE  \/ \E q \in p + 1 .. Outstanding : Coming(p)' = Coming(q)
               \/ p <= Outstanding /\ Coming(p)' = Own(c, v)
    <3>0. /\ p <= Len(pending') + Len(out) /\ p \in Nat /\ p >= 1
          /\ Outstanding = Len(pending) + Len(late)
          /\ Coming(p)' = IF p <= Len(pending') THEN pending'[p] ELSE out[p - Len(pending')].reply
      BY <1>0, <1>2, <1>3, <2>1 DEF Outstanding, Coming
    <3>1. CASE p <= Len(pending')
      <4>1. p + 1 \in p + 1 .. Outstanding /\ p + 1 <= Len(pending)
        BY <1>0, <2>1, <3>0, <3>1
      <4>2. Coming(p)' = Coming(p + 1)
        BY <2>1, <3>0, <3>1, <4>1 DEF Coming
      <4> QED
        BY <4>1, <4>2
    <3>2. CASE p > Len(pending') /\ p - Len(pending') <= Len(late)
      <4>1. /\ p + 1 \in p + 1 .. Outstanding /\ ~(p + 1 <= Len(pending))
            /\ p - Len(pending') = (p + 1) - Len(pending)
            /\ p - Len(pending') \in 1 .. Len(late)
        BY <1>0, <2>1, <3>0, <3>2
      <4>2. Coming(p)' = late[p - Len(pending')].reply
        BY <1>2, <3>0, <3>2, <4>1
      <4>3. Coming(p + 1) = late[(p + 1) - Len(pending)].reply
        BY <4>1 DEF Coming
      <4> QED
        BY <4>1, <4>2, <4>3
    <3>3. CASE p - Len(pending') > Len(late)
      <4>1. Len(out) = Len(late) + 1 /\ p - Len(pending') = Len(late) + 1 /\ ~(p <= Len(pending'))
        BY <1>0, <1>2, <2>1, <3>0, <3>3
      <4>2. Coming(p)' = Own(c, v) /\ p <= Outstanding
        BY <1>0, <1>2, <2>1, <3>0, <4>1
      <4> QED
        BY <4>2
    <3> QED
      BY <1>0, <2>1, <3>0, <3>1, <3>2, <3>3
  <2> QED
    BY <2>1, <2>2, <2>3, <2>4
<1>4. CASE pending = <<>> /\ \E j \in 1 .. Len(late) : \E m \in j .. Len(out) :
             /\ r = out[j].reply
             /\ pending' = [i \in 1 .. m - j |-> out[j + i].reply]
             /\ late' = SubSeq(out, m + 1, Len(out))
  <2>a. PICK j \in 1 .. Len(late) : \E m \in j .. Len(out) :
             /\ r = out[j].reply
             /\ pending' = [i \in 1 .. m - j |-> out[j + i].reply]
             /\ late' = SubSeq(out, m + 1, Len(out))
    BY <1>4
  <2>1. PICK m \in j .. Len(out) :
             /\ r = out[j].reply
             /\ pending' = [i \in 1 .. m - j |-> out[j + i].reply]
             /\ late' = SubSeq(out, m + 1, Len(out))
    BY <2>a
  <2>2. /\ late' \in Seq(Item) /\ Len(late') = Len(out) - m
        /\ \A i \in 1 .. Len(late') : late'[i] = out[m + i]
    <3>1. m \in 0 .. Len(out)
      BY <1>2, <2>1
    <3> QED
      BY <1>2, <2>1, <3>1, Behind
  <2>3. pending' \in Seq(Voices) /\ Len(pending') = m - j
    <3>1. m - j \in Nat /\ \A i \in 1 .. m - j : j + i \in 1 .. Len(out)
      BY <1>0, <1>2, <2>1
    <3>2. \A i \in 1 .. m - j : out[j + i].reply \in Voices
      <4> TAKE i \in 1 .. m - j
      <4>1. out[j + i] \in Item
        BY <1>2, <3>1
      <4> QED
        BY <4>1 DEF Item
    <3> QED
      BY <2>1, <3>1, <3>2
  <2>4. Len(pending) = 0 /\ Outstanding = Len(late) /\ \A q \in 1 .. Len(late) : Coming(q) = late[q].reply
    <3>1. Len(pending) = 0
      BY <1>4
    <3>2. \A q \in 1 .. Len(late) : q - 0 = q /\ ~(q <= 0)
      BY <1>0
    <3> QED
      BY <1>0, <3>1, <3>2 DEF Outstanding, Coming
  <2>5. Outstanding' = Len(out) - j /\ Outstanding' <= Outstanding
    BY <1>0, <1>2, <2>1, <2>2, <2>3, <2>4 DEF Outstanding
  <2>6. j \in 1 .. Outstanding /\ r = Coming(j)
    BY <1>0, <1>2, <2>1, <2>4
  <2>7. ASSUME NEW p \in 1 .. Outstanding'
        PROVE  \/ \E q \in p + 1 .. Outstanding : Coming(p)' = Coming(q)
               \/ p <= Outstanding /\ Coming(p)' = Own(c, v)
    <3>0. p \in Nat /\ p >= 1 /\ p <= Len(out) - j /\ j + p \in 1 .. Len(out) /\ p + 1 <= j + p
      BY <1>0, <1>2, <2>1, <2>5
    <3>1. Coming(p)' = out[j + p].reply
      <4>1. CASE p <= Len(pending')
        <5>1. p \in 1 .. m - j
          BY <2>3, <3>0, <4>1
        <5> QED
          BY <2>1, <4>1, <5>1 DEF Coming
      <4>2. CASE p > Len(pending')
        <5>1. p - Len(pending') \in 1 .. Len(late') /\ m + (p - Len(pending')) = j + p
          BY <1>0, <1>2, <2>1, <2>2, <2>3, <3>0, <4>2
        <5>2. late'[p - Len(pending')] = out[j + p]
          BY <2>2, <5>1
        <5>3. ~(p <= Len(pending'))
          BY <1>0, <1>2, <2>1, <2>3, <3>0, <4>2
        <5> QED
          BY <5>2, <5>3 DEF Coming
      <4> QED
        BY <1>0, <1>2, <2>1, <2>3, <3>0, <4>1, <4>2
    <3>2. CASE j + p <= Len(late)
      <4>1. j + p \in p + 1 .. Outstanding /\ Coming(j + p) = out[j + p].reply
        BY <1>0, <1>2, <2>1, <2>4, <3>0, <3>2
      <4> QED
        BY <3>1, <4>1
    <3>3. CASE j + p > Len(late)
      <4>1. j + p = Len(late) + 1 /\ Len(out) = Len(late) + 1 /\ p <= Outstanding
        <5>1. Len(out) = Len(late) \/ Len(out) = Len(late) + 1
          BY <1>2
        <5>2. Outstanding = Len(late) /\ j \in Nat /\ j >= 1
          BY <1>0, <2>4
        <5> QED
          BY <1>0, <3>0, <3>3, <5>1, <5>2
      <4> QED
        BY <1>2, <3>1, <4>1
    <3> QED
      BY <1>0, <2>1, <3>0, <3>2, <3>3
  <2> QED
    BY <2>2, <2>3, <2>5, <2>6, <2>7
<1> QED
  BY <1>1, <1>3, <1>4

(* What is outstanding has been sent to this board.                        *)
NothingComes == late = <<>> /\ pending = <<>>

LEMMA NoneOutstanding == NothingComes => LateInv /\ Outstanding = 0
<1> SUFFICES ASSUME late = <<>>, pending = <<>> PROVE LateInv /\ Outstanding = 0
  BY DEF NothingComes
<1>1. Outstanding = 0 /\ late \in Seq(Item) /\ pending \in Seq(Voices)
  BY DEF Outstanding
<1> QED
  BY <1>1, SessionAssumption DEF LateInv

(* What a verb hears.                                                      *)
LEMMA CmdHears ==
  ASSUME LateInv, board' = board, NEW c, NEW v \in VerbType, NEW r, Cmd(c, v, r)
  PROVE  /\ LateInv'
         /\ misheard => misheard'
         /\ Execute(c, v) \/ UNCHANGED reg
         /\ r # Failed /\ ~misheard' => r = Own(c, v)
         /\ r # Failed /\ Outstanding' # 0 => Mishears(c, v, r)
<1>0. MaxLate \in Nat /\ Item' = Item /\ Voices' = Voices
  BY SessionAssumption DEF Item, Voices, Present, Own
<1>e. late' = <<>> /\ pending' = <<>> => LateInv' /\ Outstanding' = 0
  <2>1. NothingComes' => LateInv' /\ (Outstanding = 0)'
    BY NoneOutstanding, PTL
  <2> QED
    BY <2>1 DEF NothingComes
<1>1. CASE engine = "pio" /\ ByPio(c, v, r) /\ UNCHANGED <<engine, late, pending, misheard>>
  <2>1. LateInv' /\ Outstanding' = 0
    <3>1. Outstanding' = Outstanding /\ Outstanding = 0
      BY <1>1 DEF LateInv, Outstanding
    <3> QED
      BY <1>0, <1>1, <3>1 DEF LateInv
  <2> QED
    BY <1>1, <2>1 DEF ByPio
<1>2. CASE engine = "corb" /\ InTime(c, v, r) /\ UNCHANGED engine
  BY <1>2, <1>e DEF InTime
<1>3. CASE engine = "corb" /\ Mishears(c, v, r) /\ UNCHANGED engine
  <2>1. late' \in Seq(Item) /\ pending' \in Seq(Voices) /\ Outstanding' <= Outstanding
    BY <1>0, <1>3, MishearsMoves
  <2>2. Outstanding \in Nat /\ Outstanding' \in Nat /\ Outstanding <= MaxLate
    BY <2>1 DEF LateInv, Outstanding
  <2>3. LateInv'
    BY <1>0, <1>3, <2>1, <2>2 DEF LateInv
  <2> QED
    BY <1>3, <2>3 DEF Mishears
<1>4. CASE engine = "corb" /\ TimesOut(c, v, r) /\ UNCHANGED engine
  <2>1. PICK out \in Sent(c, v), m \in 0 .. Len(late) :
          late' = SubSeq(out, m + 1, Len(out)) /\ Len(late') <= MaxLate
    BY <1>4 DEF TimesOut
  <2>2. out \in Seq(Item) /\ m \in 0 .. Len(out)
    BY <2>1, SentIs DEF LateInv
  <2>3. late' \in Seq(Item) /\ pending' = <<>> /\ r = Failed
    BY <1>4, <2>1, <2>2, Behind DEF TimesOut
  <2>4. pending' \in Seq(Voices) /\ Outstanding' = Len(late')
    BY <2>3 DEF Outstanding
  <2> QED
    BY <1>0, <1>4, <2>1, <2>3, <2>4 DEF LateInv, TimesOut
<1>5. CASE engine = "corb" /\ engine' = "pio" /\ late' = <<>> /\ pending' = <<>> /\ ByPio(c, v, r)
           /\ UNCHANGED misheard
  BY <1>5, <1>e DEF ByPio
<1> QED
  BY <1>1, <1>2, <1>3, <1>4, <1>5 DEF Cmd

(* The verb under way, where there is one.                                 *)
LEMMA VerbUnderWay ==
  ASSUME ProbeInv, ProgramInv, phase \in {"probe", "codec"}
  PROVE  Head(todo) \in VerbType
<1>1. phase = "probe" => todo \in Seq(VerbType) /\ todo # <<>>
  BY DEF ProbeInv, Queries
<1>2. phase = "codec" => todo \in Seq(VerbType) /\ todo # <<>>
  <2> SUFFICES ASSUME phase = "codec" PROVE todo \in Seq(VerbType) /\ todo # <<>>
    OBVIOUS
  <2>1. Underway
    BY DEF ProgramInv
  <2>2. todo \in Seq(VerbType) /\ Len(todo) \in 1 .. 29
    BY <2>1, Zenon DEF Underway
  <2>3. Len(<<>>) = 0 /\ 0 \notin 1 .. 29
    OBVIOUS
  <2> QED
    BY <2>2, <2>3, Zenon
<1> QED
  BY <1>1, <1>2, HeadTailProperties

LEMMA LateNext ==
  LateInv /\ OnBoard /\ ProbeInv /\ ProgramInv /\ [SessionNext]_sessionVars => LateInv'
<1> SUFFICES ASSUME LateInv, OnBoard, ProbeInv, ProgramInv, [SessionNext]_sessionVars PROVE LateInv'
  OBVIOUS
<1>0. board' = board
  BY BoardIsFixed
<1>1. CASE ProbeVendor \/ ProbeMore \/ InitVerb
  <2>1. \E c, r : Cmd(c, Head(todo), r)
    BY <1>1 DEF ProbeVendor, ProbeMore, InitVerb
  <2>2. Head(todo) \in VerbType
    BY <1>1, VerbUnderWay DEF ProbeVendor, ProbeMore, InitVerb
  <2> QED
    BY <1>0, <2>1, <2>2, CmdHears
<1>2. CASE Exit \/ ResetLink \/ SkipReset \/ Ready
  <2>1. NothingComes'
    BY <1>2 DEF Exit, ResetLink, SkipReset, Ready, NothingComes
  <2> QED
    BY <2>1, NoneOutstanding, PTL
<1>3. CASE ~ProbeVendor /\ ~ProbeMore /\ ~InitVerb /\ ~Exit /\ ~ResetLink /\ ~SkipReset /\ ~Ready
  <2>1. UNCHANGED <<late, pending, engine>>
    BY <1>3 DEF SessionNext, sessionVars, hardware, Launch, ConfigurePci, Fence, ResetStuck, Select,
       PinFails, OpenStream, Mix, Play, PlayerRead, Played, ToggleMute, SyncMuted, MuteVerb,
       EndOfFile, Drained
  <2>2. Item' = Item /\ Voices' = Voices
    BY <1>0 DEF Item, Voices, Present, Own
  <2> QED
    BY <2>1, <2>2 DEF LateInv, Outstanding
<1> QED
  BY <1>1, <1>2, <1>3

(* Where the checks stand in the programme.                                *)
LEMMA ProgramChecks ==
  ASSUME RateInv, OnBoard, phase = "codec"
  PROVE  /\ Program[1].nid = AFG /\ Program[1].op = "power"
         /\ \A k \in 1 .. 6 : Program[k + 1] = Checks[k]
         /\ cad \in Present /\ board.codec[cad] \in CodecType
<1>1. FormatVal(rate) \in Nat /\ Tag \in Nat
  BY ParametersType DEF OnBoard
<1>2. Program[1] = Verb(AFG, "power", D0) /\ \A k \in 1 .. 6 : Program[k + 1] = Checks[k]
  BY <1>1, ProgramIs, Zenon DEF Program
<1> QED
  BY <1>2 DEF Verb, OnBoard, IsBoard, Present

(* An expected layout is one whose six checks are passed.                  *)
LEMMA ChecksTell ==
  ASSUME NEW codec, \A k \in 1 .. 6 : Heard(codec, k) \in Expected(Checks[k].nid)
  PROVE  ExpectedLayout(codec.layout)
BY ChecksAre DEF Heard, ExpectedLayout

LEMMA CheckHears ==
  ASSUME NEW codec \in CodecType, NEW k \in 1 .. 6
  PROVE  Answer(codec, Checks[k]) = Heard(codec, k) /\ WidgetType(Heard(codec, k)) = Heard(codec, k)
<1>1. Checks[k].op = "caps" /\ Checks[k].nid \in Path
  BY ChecksAre
<1>2. Heard(codec, k) \in {"OUT", "MIX", "SEL", "PIN"}
  BY <1>1 DEF Heard, CodecType
<1> QED
  BY <1>1, <1>2 DEF Answer, Ids, Heard, WidgetType

(* The next verb, where it is a check, and how far the checks have got.    *)
LEMMA CheckIssued ==
  ASSUME RateInv, OnBoard, phase = "codec", Underway
  PROVE  /\ Head(todo).op = "caps" => Done \in 1 .. 6 \/ Done >= 7
         /\ Done \in 1 .. 6 => Head(todo) = Checks[Done]
         /\ Done = 0 => Head(todo).nid = AFG
<1>1. Head(todo) = Program[Done + 1] /\ Done \in 0 .. 28
  BY NextVerb
<1>2. /\ Program[1].nid = AFG /\ Program[1].op = "power"
      /\ \A k \in 1 .. 6 : Program[k + 1] = Checks[k]
  BY ProgramChecks
<1> QED
  BY <1>1, <1>2

(* The outstanding replies after a verb of the programme has misheard.     *)
LEMMA ProgramComes ==
  ASSUME LateInv, MaxLate \in Nat, cad' = cad, board' = board, Program' = Program,
         Done \in 0 .. 28, Done' = Done + 1, Program[Done + 1] \in VerbType,
         \A q \in 1 .. Outstanding : FromProgram(q),
         NEW r, Mishears(cad, Program[Done + 1], r)
  PROVE  \A p \in 1 .. Outstanding' : FromProgram(p)'
<1>1. Outstanding \in Nat /\ Outstanding <= MaxLate
  BY DEF LateInv, Outstanding
<1> TAKE p \in 1 .. Outstanding'
<1>2. \/ \E q \in p + 1 .. Outstanding : Coming(p)' = Coming(q)
      \/ p <= Outstanding /\ Coming(p)' = Own(cad, Program[Done + 1])
  BY MishearsMoves
<1>3. p \in Nat /\ p >= 1
  <2>1. Outstanding' \in Nat
    BY MishearsMoves DEF Outstanding
  <2> QED
    BY <2>1
<1> SUFFICES ASSUME Done' + p > MaxLate
             PROVE  \E j \in 1 .. Done' : j >= Done' + p - MaxLate /\ Coming(p)' = Own(cad, Program[j])
  BY DEF FromProgram, Own
<1>4. CASE \E q \in p + 1 .. Outstanding : Coming(p)' = Coming(q)
  <2>1. PICK q \in p + 1 .. Outstanding : Coming(p)' = Coming(q)
    BY <1>4
  <2>2. q \in 1 .. Outstanding /\ Done + q >= Done' + p /\ Done + q > MaxLate
    BY <1>1, <1>3, <2>1
  <2>3. PICK j \in 1 .. Done : j >= Done + q - MaxLate /\ Coming(q) = Own(cad, Program[j])
    BY <2>2 DEF FromProgram
  <2>4. j \in 1 .. Done' /\ j >= Done' + p - MaxLate
    BY <1>1, <1>3, <2>2, <2>3
  <2> QED
    BY <2>1, <2>3, <2>4
<1>5. CASE p <= Outstanding /\ Coming(p)' = Own(cad, Program[Done + 1])
  <2>1. Done' \in 1 .. Done' /\ Done' >= Done' + p - MaxLate
    BY <1>1, <1>3, <1>5
  <2> QED
    BY <1>5, <2>1
<1> QED
  BY <1>2, <1>4, <1>5

(* What a check past the first MaxLate hears while replies are outstanding.*)
LEMMA LateCheckHears ==
  ASSUME LateInv, MaxLate \in Nat, RateInv, OnBoard, phase = "codec", Program[Done + 1] \in VerbType,
         Done \in 1 .. 6, Done > MaxLate,
         \A q \in 1 .. Outstanding : FromProgram(q),
         NEW r, Mishears(cad, Program[Done + 1], r)
  PROVE  \E n \in 1 .. MaxLate : n < Done /\ r = Heard(board.codec[cad], Done - n)
<1>1. PICK q \in 1 .. Outstanding : r = Coming(q)
  BY MishearsMoves
<1>2. PICK j \in 1 .. Done : j >= Done + q - MaxLate /\ r = Own(cad, Program[j])
  BY <1>1 DEF FromProgram, LateInv, Outstanding
<1> DEFINE n == Done + 1 - j
<1>3. Outstanding \in Nat
  BY DEF LateInv, Outstanding
<1>4. n \in 1 .. MaxLate /\ n < Done /\ Done - n \in 1 .. 6 /\ (Done - n) + 1 = j
  BY <1>1, <1>2, <1>3
<1>5. Program[j] = Checks[Done - n] /\ board.codec[cad] \in CodecType
  BY <1>4, ProgramChecks
<1>6. r = Heard(board.codec[cad], Done - n)
  BY <1>2, <1>4, <1>5, CheckHears DEF Own
<1> QED
  BY <1>4, <1>6

LEMMA LayoutNext ==
  RateInv /\ OnBoard /\ ProgramInv /\ LateInv /\ LayoutInv /\ [SessionNext]_sessionVars => LayoutInv'
<1> SUFFICES ASSUME RateInv, OnBoard, ProgramInv, LateInv, LayoutInv, [SessionNext]_sessionVars,
                    phase' = "codec"
             PROVE  LayoutInv'
  BY DEF LayoutInv
<1>0. (OpenStream /\ Kept) \/ (Bringing /\ Kept)
  BY BringingSteps DEF Bringing
<1>1. Program' = Program /\ cad' = cad /\ board' = board
  BY <1>0, ProgramKept DEF Kept
<1>m. MaxLate \in Nat /\ Outstanding \in Nat /\ Outstanding <= MaxLate
  BY SessionAssumption DEF LateInv, Outstanding
<1>2. CASE OpenStream
  <2>1. Done' = 0
    BY <1>0, <1>2, ProgramOpens, BringingSteps DEF Kept, Bringing, OpenStream, Opened
  <2>2. \A k \in 1 .. 6 : ~(k < Done')
    BY <2>1
  <2>3. Outstanding' = Outstanding
    BY <1>2 DEF OpenStream, Outstanding
  <2>4. \A q \in 1 .. Outstanding' : ~(Done' + q > MaxLate)
    BY <1>m, <2>1, <2>3
  <2>5. \A q \in 1 .. Outstanding' : FromProgram(q)'
    BY <2>4 DEF FromProgram
  <2> QED
    BY <2>2, <2>5 DEF LayoutInv
<1>3. CASE InitVerb
  <2>0. phase = "codec" /\ IsBoard(board) /\ cad \in Present
    BY <1>3 DEF InitVerb, OnBoard
  <2>1. PICK r \in Outcomes : /\ Cmd(cad, Head(todo), r) /\ Accepts(Head(todo), r)
                              /\ todo' = Tail(todo) /\ Len(todo) # 1
    BY <1>3, <2>0 DEF InitVerb
  <2>2. Underway /\ Len(todo) > 1
    <3>1. Underway
      BY <2>0 DEF ProgramInv
    <3>2. Len(todo) \in 1 .. 29
      BY <3>1, Zenon DEF Underway
    <3>3. \A n \in 1 .. 29 : n # 1 => n > 1
      OBVIOUS
    <3> QED
      BY <2>1, <3>1, <3>2, <3>3, Zenon
  <2>3. Underway' /\ Done' = Done + 1 /\ Head(todo) = Program[Done + 1] /\ Done \in 0 .. 28
    BY <1>1, <2>1, <2>2, NextVerb
  <2>v. Program[Done + 1] \in VerbType
    <3>1. todo \in Seq(VerbType) /\ todo # <<>>
      BY <2>2 DEF Underway
    <3> QED
      BY <2>3, <3>1, HeadTailProperties
  <2>4. /\ misheard => misheard'
        /\ ~misheard' => r = Own(cad, Head(todo))
        /\ Outstanding' # 0 => Mishears(cad, Program[Done + 1], r)
    BY <1>1, <2>1, <2>3, <2>v, CmdHears DEF Accepts
  <2> DEFINE codec == board.codec[cad]
  <2>5. codec \in CodecType /\ \A k \in 1 .. 6 : Own(cad, Checks[k]) = Heard(codec, k)
    BY <2>0, ProgramChecks, CheckHears DEF Own
  <2>6. \A k \in 1 .. 6 : k = Done => Head(todo) = Checks[k] /\ WidgetType(r) \in Expected(Checks[k].nid)
    BY <2>0, <2>1, <2>2, CheckIssued, ChecksAre DEF Accepts
  <2>7. ASSUME ~misheard', NEW k \in 1 .. 6, k < Done'
        PROVE  Heard(codec, k) \in Expected(Checks[k].nid)
    <3>1. CASE k < Done
      BY <2>0, <2>4, <2>7, <3>1 DEF LayoutInv
    <3>2. CASE k = Done
      <4>1. r = Heard(codec, k)
        BY <2>4, <2>5, <2>6, <2>7, <3>2
      <4> QED
        BY <2>5, <2>6, <3>2, <4>1, CheckHears
    <3> QED
      BY <2>3, <2>7, <3>1, <3>2
  <2>8. \A q \in 1 .. Outstanding : FromProgram(q)
    BY <2>0 DEF LayoutInv
  <2>9. \A p \in 1 .. Outstanding' : FromProgram(p)'
    <3>1. CASE Outstanding' # 0
      BY <1>1, <1>m, <2>3, <2>4, <2>v, <2>8, <3>1, ProgramComes
    <3>2. CASE Outstanding' = 0
      BY <3>2
    <3> QED
      BY <3>1, <3>2
  <2>10. ASSUME Outstanding' # 0, NEW k \in 1 .. 6, k < Done', k > MaxLate
         PROVE  \E n \in 1 .. MaxLate : n < k /\ Heard(codec, k - n) \in Expected(Checks[k].nid)
    <3>1. CASE k < Done
      <4>1. Outstanding # 0
        <5>1. \E q \in 1 .. Outstanding : r = Coming(q)
          BY <1>m, <2>4, <2>10, <2>v, MishearsMoves
        <5> QED
          BY <5>1
      <4> QED
        BY <2>0, <2>10, <3>1, <4>1 DEF LayoutInv
    <3>2. CASE k = Done
      <4>1. PICK n \in 1 .. MaxLate : n < k /\ r = Heard(codec, k - n)
        BY <1>m, <2>0, <2>4, <2>8, <2>10, <2>v, <3>2, LateCheckHears
      <4>2. WidgetType(r) = r
        <5>1. k - n \in 1 .. 6
          BY <1>m, <4>1
        <5> QED
          BY <2>5, <4>1, <5>1, CheckHears
      <4> QED
        BY <2>6, <3>2, <4>1, <4>2
    <3> QED
      BY <2>3, <2>10, <3>1, <3>2
  <2> QED
    BY <1>1, <2>7, <2>9, <2>10 DEF LayoutInv
<1>4. CASE UNCHANGED sessionVars
  <2>1. UNCHANGED <<phase, misheard, late, pending, todo>> /\ Done' = Done
    BY <1>4 DEF sessionVars, hardware, Done
  <2>2. Outstanding' = Outstanding /\ \A q : FromProgram(q)' <=> FromProgram(q)
    BY <1>1, <2>1 DEF Outstanding, FromProgram, Coming, Own
  <2> QED
    BY <1>1, <2>1, <2>2 DEF LayoutInv
<1>5. OpenStream \/ InitVerb \/ UNCHANGED sessionVars
  BY DEF SessionNext, Launch, Exit, ConfigurePci, Fence, ResetStuck, ResetLink, SkipReset, LinkUp,
     ProbeVendor, ProbeMore, NextSlot, Select, PinFails, Ready, Mix, Play, PlayerRead, Played, ToggleMute,
     SyncMuted, MuteVerb, EndOfFile, Drained
<1> QED
  BY <1>2, <1>3, <1>4, <1>5

(* A verb sets at most the one register it names.                          *)
LEMMA LayoutKept ==
  ASSUME OnlyExpectedLayout, board' = board, ~misheard, NEW c, NEW v,
         Execute(c, v) \/ UNCHANGED reg,
         c \in Present /\ v.op \in Setting /\ v.nid # AFG /\ v.op # "out_amp"
           => ExpectedLayout(board.codec[c].layout)
  PROVE  OnlyExpectedLayout'
<1> DEFINE K == <<c, v.nid, v.op>>
<1>1. CASE reg' = reg
  BY <1>1 DEF OnlyExpectedLayout
<1>2. CASE Execute(c, v) /\ reg' # reg
  <2>1. c \in Present /\ v.op \in Setting /\ DOMAIN reg' = DOMAIN reg \cup {K}
    BY <1>2 DEF Execute
  <2>2. K[1] = c /\ K[2] = v.nid /\ K[3] = v.op
    OBVIOUS
  <2> QED
    BY <2>1, <2>2 DEF OnlyExpectedLayout
<1> QED
  BY <1>1, <1>2

LEMMA RegistersNext ==
  RateInv /\ OnBoard /\ MuteInv /\ ProbeInv /\ ProgramInv /\ LateInv /\ LayoutInv
    /\ OnlyExpectedLayout /\ [SessionNext]_sessionVars => OnlyExpectedLayout'
<1> SUFFICES ASSUME RateInv, OnBoard, MuteInv, ProbeInv, ProgramInv, LateInv, LayoutInv,
                    OnlyExpectedLayout, [SessionNext]_sessionVars, ~misheard'
             PROVE  OnlyExpectedLayout'
  BY DEF OnlyExpectedLayout
<1>0. board' = board /\ IsBoard(board)
  BY BoardIsFixed DEF OnBoard
<1>1. CASE ProbeVendor \/ ProbeMore
  <2>1. PICK r \in Outcomes : Cmd(slot, Head(todo), r)
    BY <1>1 DEF ProbeVendor, ProbeMore
  <2>2. Head(todo).op \notin Setting
    BY <1>1, QueriesRead DEF ProbeVendor, ProbeMore, ProbeInv, Reading, Ids, Setting
  <2>v. Head(todo) \in VerbType
    BY <1>1, VerbUnderWay DEF ProbeVendor, ProbeMore
  <2>3. ~misheard /\ (Execute(slot, Head(todo)) \/ UNCHANGED reg)
    BY <1>0, <2>1, <2>v, CmdHears
  <2> QED
    BY <1>0, <2>2, <2>3, LayoutKept
<1>2. CASE InitVerb
  <2>0. phase = "codec"
    BY <1>2 DEF InitVerb
  <2>1. PICK r \in Outcomes : Cmd(cad, Head(todo), r)
    BY <1>2 DEF InitVerb
  <2>v. Head(todo) \in VerbType
    BY <2>0, VerbUnderWay
  <2>2. ~misheard /\ (Execute(cad, Head(todo)) \/ UNCHANGED reg)
    BY <1>0, <2>1, <2>v, CmdHears
  <2>3. Underway /\ Done \in 0 .. 28
    BY <2>0, NextVerb DEF ProgramInv
  <2>4. CASE Done = 0
    BY <1>0, <2>0, <2>2, <2>3, <2>4, CheckIssued, LayoutKept
  <2>5. CASE Done \in 1 .. 6
    <3>1. Head(todo).op = "caps"
      BY <2>0, <2>3, <2>5, CheckIssued, ChecksAre
    <3>2. Head(todo).op \notin Setting
      BY <3>1 DEF Setting
    <3> QED
      BY <1>0, <2>2, <3>2, LayoutKept
  <2>6. CASE Done >= 7
    <3>1. \A k \in 1 .. 6 : k < Done
      BY <2>3, <2>6
    <3>2. \A k \in 1 .. 6 : Heard(board.codec[cad], k) \in Expected(Checks[k].nid)
      BY <2>0, <2>2, <3>1 DEF LayoutInv
    <3>3. ExpectedLayout(board.codec[cad].layout)
      BY <3>2, ChecksTell
    <3> QED
      BY <1>0, <2>2, <3>3, LayoutKept
  <2> QED
    BY <2>3, <2>4, <2>5, <2>6
<1>3. CASE MuteVerb
  <2>1. phase = "ready" /\ todo # <<>> /\ misheard' = misheard
    BY <1>3 DEF MuteVerb
  <2>2. Head(todo).op = "out_amp"
    <3>1. PICK m \in BOOLEAN : todo = SetMute(m) \/ todo = Second(m)
      BY <2>1 DEF MuteInv, Opened, Idling, Muting
    <3> QED
      BY <3>1, FirstVerb, SecondVerb DEF Verb
  <2>3. Execute(cad, Head(todo)) \/ UNCHANGED reg
    BY <1>3 DEF MuteVerb
  <2> QED
    BY <1>0, <2>1, <2>2, <2>3, LayoutKept
<1>4. CASE ResetLink
  BY <1>4 DEF ResetLink, OnlyExpectedLayout
<1>5. CASE ~ProbeVendor /\ ~ProbeMore /\ ~InitVerb /\ ~MuteVerb /\ ~ResetLink
  <2>1. UNCHANGED <<reg, misheard>>
    BY <1>5 DEF SessionNext, sessionVars, hardware, Launch, Exit, ConfigurePci, Fence, ResetStuck,
       SkipReset, Select, PinFails, OpenStream, Ready, Mix, Play, PlayerRead, Played, ToggleMute,
       SyncMuted, EndOfFile, Drained
  <2> QED
    BY <1>0, <2>1 DEF OnlyExpectedLayout
<1> QED
  BY <1>1, <1>2, <1>3, <1>4, <1>5

LEMMA LayoutInit == SessionInit => ProbeInv /\ LateInv /\ LayoutInv /\ OnlyExpectedLayout
BY NoneOutstanding DEF SessionInit, NothingComes, ProbeInv, LayoutInv, OnlyExpectedLayout

(* No widget of a codec whose layout is not the expected one is programmed,*)
(* by this process or one before, as long as no verb got another's reply.  *)
THEOREM LayoutIsChecked == SessionSpec => []OnlyExpectedLayout
BY BringUpInit, LayoutInit, MuteNext, OnBoardNext, RateNext, ProgramNext, ProbeNext, LateNext,
   LayoutNext, RegistersNext, PTL DEF SessionSpec

LEMMA ChecksAgree ==
  RateInv /\ OnBoard /\ ProgramInv /\ LateInv /\ LayoutInv => ChecksResynchronise
<1> SUFFICES ASSUME RateInv, OnBoard, ProgramInv, LateInv, LayoutInv, phase = "codec",
                    Len(todo) <= Len(Programming(0, 0)), ~(late = <<>> /\ pending = <<>>)
             PROVE  EarlyLayout(board.codec[cad].layout)
  BY DEF ChecksResynchronise
<1>1. Len(Programming(0, 0)) = 22
  BY ProgrammingIs
<1>2. Done \in 0 .. 28 /\ Done = 29 - Len(todo) /\ Len(todo) \in 1 .. 29
  BY NextVerb DEF ProgramInv, Underway, Done
<1>3. Done >= 7
  <2> DEFINE n == Len(todo)
  <2>1. n <= 22 /\ n \in 1 .. 29 /\ Done = 29 - n
    BY <1>1, <1>2
  <2> HIDE DEF n
  <2> QED
    BY <2>1
<1>4. \A k \in 1 .. 6 : k < Done
  BY <1>2, <1>3
<1>5. Outstanding # 0 /\ MaxLate \in Nat
  BY EmptySeq, SessionAssumption DEF LateInv, Outstanding
<1>6. \A k \in 1 .. 6 : k > MaxLate =>
        \E n \in 1 .. MaxLate : Heard(board.codec[cad], k - n) \in Expected(Checks[k].nid)
  BY <1>4, <1>5 DEF LayoutInv
<1>7. Len(Checks) = 6 /\ \A k \in MaxLate + 1 .. 6 : k \in 1 .. 6 /\ k > MaxLate
  BY <1>5, ChecksAre
<1> QED
  BY <1>6, <1>7 DEF EarlyLayout, Heard

(* Replies that were late when the checks began are not heard past them,   *)
(* but by a codec that has its widgets as many checks early as replies may *)
(* be late.                                                                *)
THEOREM ChecksCatchUp == SessionSpec => []ChecksResynchronise
BY BringUpInit, LayoutInit, MuteNext, OnBoardNext, RateNext, ProgramNext, ProbeNext, LateNext,
   LayoutNext, ChecksAgree, PTL DEF SessionSpec

=============================================================================
