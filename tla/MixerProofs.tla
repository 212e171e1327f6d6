---------------------------- MODULE MixerProofs ----------------------------
(***************************************************************************)
(* Theorems about Mixer, for any number of clients, any limit and any      *)
(* sizes of the rings.                                                     *)
(***************************************************************************)
EXTENDS Mixer, TLAPS, FiniteSetTheorems

(* A tick takes whole frames, and never more than a ring holds.            *)
LEMMA WholeFrames ==
  ASSUME NEW q \in Nat
  PROVE  (q \div FrameBytes) * FrameBytes \in 0 .. q
BY MixerAssumption, Z3

LEMMA PopsBounded ==
  ASSUME TypeOK, NEW s \in Clients
  PROVE  Pops(s) \in 0 .. queued[s]
<1>1. queued[s] \in Nat /\ queued[s] \in 0 .. RingBytes
  BY MixerAssumption DEF TypeOK
<1>2. (queued[s] \div FrameBytes) * FrameBytes \in 0 .. queued[s]
  BY <1>1, WholeFrames
<1>3. writable * FrameBytes \in Nat
  BY MixerAssumption DEF TypeOK
<1> QED
  BY <1>1, <1>2, <1>3 DEF Pops, MinOf

(* The delay stays within the DMA ring, wrapping included.                 *)
LEMMA DelayWraps ==
  ASSUME NEW n \in Int
  PROVE  n % DmaFrames \in 0 .. DmaFrames - 1
BY MixerAssumption, Z3

LEMMA InitTypeOK == Init => TypeOK
<1>1. Cardinality(Clients) \in Nat
  BY MixerAssumption, FS_CardinalityType
<1>2. Init => /\ 0 \in 0 .. Cardinality(Clients) /\ 0 \in 0 .. ChunkFrames
              /\ 0 \in 0 .. DmaFrames - 1 /\ 0 \in 0 .. RingBytes
  BY <1>1, MixerAssumption
<1>3. Init => /\ incoming \in [Clients -> 0 .. RingBytes] /\ queued \in [Clients -> 0 .. RingBytes]
              /\ flush \in [Clients -> BOOLEAN] /\ done \in [Clients -> BOOLEAN]
  BY <1>2 DEF Init
<1>4. Init => /\ consumed \in BOOLEAN /\ stopped \in BOOLEAN
              /\ running \in BOOLEAN /\ shutdown \in BOOLEAN
  BY DEF Init
<1> QED
  BY <1>2, <1>3, <1>4 DEF Init, TypeOK

LEMMA NextTypeOK == TypeOK /\ [Next]_vars => TypeOK'
<1> SUFFICES ASSUME TypeOK, [Next]_vars
             PROVE  TypeOK'
  OBVIOUS
<1> USE MixerAssumption DEF TypeOK
<1>1. ASSUME NEW c \in Clients, Reader(c) PROVE TypeOK'
  <2>1. CASE CheckLimit(c)
    BY <2>1 DEF CheckLimit, ReaderStep, loop
  <2>2. CASE Register(c)
    BY <2>2 DEF Register, ReaderStep, loop
  <2>3. CASE SeeShutdown(c)
    BY <2>3 DEF SeeShutdown, ReaderStep, loop
  <2>4. CASE Push(c)
    BY <2>4 DEF Push, ReaderStep, loop
  <2>5. CASE Finish(c)
    BY <2>5 DEF Finish, ReaderStep, loop
  <2> QED
    BY <1>1, <2>1, <2>2, <2>3, <2>4, <2>5 DEF Reader
<1>2. ASSUME NEW c \in Clients, Client(c) PROVE TypeOK'
  <2>1. CASE Accept(c)
    BY <2>1 DEF Accept, ReaderStep, loop
  <2>2. CASE ReadPayload(c)
    BY <2>2 DEF ReadPayload, ReaderStep, loop
  <2>3. CASE ReadFlush(c)
    BY <2>3 DEF ReadFlush, ReaderStep, loop
  <2>4. CASE ReadCommand(c)
    BY <2>4 DEF ReadCommand, ReaderStep, loop
  <2>5. CASE Disconnect(c)
    BY <2>5 DEF Disconnect, ReaderStep, loop
  <2>6. ASSUME NEW n \in Lens \cup {0}, StartFrame(c, n) PROVE TypeOK'
    BY <2>6 DEF StartFrame, ReaderStep, loop
  <2> QED
    BY <1>2, <2>1, <2>2, <2>3, <2>4, <2>5, <2>6 DEF Client
<1>3. CASE Shutdown
  BY <1>3 DEF Shutdown, loop, readers
<1>4. CASE Receive
  BY <1>4 DEF Receive, MixerStep, readers
<1>5. CASE ApplyFlushes
  BY <1>5 DEF ApplyFlushes, MixerStep, readers
<1>6. CASE HaltAfterFlush
  BY <1>6 DEF HaltAfterFlush, MixerStep, readers
<1>6a. CASE StopAfterFlush
  <2>1. running' \in BOOLEAN /\ stopped' \in BOOLEAN
    BY <1>6a DEF StopAfterFlush, StopImmediate
  <2>2. delay' \in 0 .. DmaFrames - 1
    BY <1>6a DEF StopAfterFlush, StopImmediate
  <2> QED
    BY <1>6a, <2>1, <2>2 DEF StopAfterFlush, MixerStep, readers
<1>7. CASE ReadDone
  BY <1>7 DEF ReadDone, MixerStep, readers
<1>8. CASE DropFinished
  <2>1. streams' \subseteq Clients
    BY <1>8 DEF DropFinished
  <2>2. Cardinality(streams') \in 0 .. Cardinality(Clients)
    BY <2>1, FS_Subset, FS_CardinalityType
  <2>3. finished' \subseteq streams' /\ live' \in 0 .. Cardinality(Clients)
    BY <1>8, <2>2 DEF DropFinished
  <2> QED
    BY <1>8, <2>1, <2>3 DEF DropFinished, MixerStep, readers
<1>9. CASE Watchdog
  BY <1>9 DEF Watchdog, MixerStep, readers
<1>9a. CASE IdleStop
  <2>1. running' \in BOOLEAN /\ stopped' \in BOOLEAN
    BY <1>9a DEF IdleStop, StopImmediate
  <2>2. delay' \in 0 .. DmaFrames - 1
    BY <1>9a DEF IdleStop, StopImmediate
  <2> QED
    BY <1>9a, <2>1, <2>2 DEF IdleStop, MixerStep, readers
<1>10. CASE Pace
  BY <1>10 DEF Pace, Headroom, MinOf, MixerStep, readers
<1>11. CASE Mix
  <2>1. \A s \in Clients : Pops(s) \in 0 .. queued[s]
    BY PopsBounded
  <2>2. queued' \in [Clients -> 0 .. RingBytes]
    BY <1>11, <2>1 DEF Mix
  <2>3. delay + writable \in Int
    OBVIOUS
  <2>4. (delay + writable) % DmaFrames \in 0 .. DmaFrames - 1
    BY <2>3, DelayWraps
  <2>5. delay' \in 0 .. DmaFrames - 1
    BY <1>11, <2>4 DEF Mix
  <2>6. stopped' \in BOOLEAN /\ running' \in BOOLEAN
    BY <1>11 DEF Mix
  <2> QED
    BY <1>11, <2>2, <2>5, <2>6 DEF Mix, MixerStep, readers
<1>12. CASE Consume
  <2>1. delay + DmaFrames - 1 \in Int
    OBVIOUS
  <2>2. (delay + DmaFrames - 1) % DmaFrames \in 0 .. DmaFrames - 1
    BY <2>1, DelayWraps
  <2>3. delay' \in 0 .. DmaFrames - 1
    BY <1>12, <2>2 DEF Consume
  <2>4. consumed' \in BOOLEAN
    BY <1>12 DEF Consume
  <2> QED
    BY <1>12, <2>3, <2>4 DEF Consume, readers, loop
<1>13. CASE IdleElapses
  BY <1>13 DEF IdleElapses, readers
<1>14. CASE UNCHANGED vars
  BY <1>14 DEF vars
<1> QED
  BY <1>1, <1>2, <1>3, <1>4, <1>5, <1>6, <1>6a, <1>7, <1>8, <1>9, <1>9a, <1>10,
     <1>11, <1>12, <1>13, <1>14 DEF Next, Tick

(* Every variable keeps its type: in particular a client ring never holds  *)
(* more than its capacity or less than nothing, and the published count    *)
(* and the delay stay within their bounds.                                 *)
THEOREM TypeCorrect == Spec => []TypeOK
BY InitTypeOK, NextTypeOK, PTL DEF Spec

-----------------------------------------------------------------------------
(* What makes leaving by a flag safe: the flag is set only by a reader     *)
(* that has ended, and the mixer drops only what it has seen set.          *)
DoneIsLast == /\ \A c \in Clients : done[c] => reader[c] = "gone"
              /\ \A s \in finished : done[s]

IInv == TypeOK /\ DoneIsLast /\ NoOrphanedAudio

(* A reader thread alone: it changes its own entries only.                 *)
LEMMA ReaderKeepsIInv ==
  ASSUME IInv, TypeOK', NEW c \in Clients, Reader(c) \/ Client(c)
  PROVE  DoneIsLast' /\ NoOrphanedAudio'
<1> USE DEF IInv, TypeOK, DoneIsLast, NoOrphanedAudio, Attached, ReaderStep, loop
<1>1. CASE CheckLimit(c)
  BY <1>1 DEF CheckLimit
<1>2. CASE Register(c)
  BY <1>2 DEF Register
<1>3. CASE SeeShutdown(c)
  BY <1>3 DEF SeeShutdown
<1>4. CASE Push(c)
  BY <1>4 DEF Push
<1>5. CASE Finish(c)
  BY <1>5 DEF Finish
<1>6. CASE Accept(c)
  BY <1>6 DEF Accept
<1>7. CASE ReadPayload(c)
  BY <1>7 DEF ReadPayload
<1>8. CASE ReadFlush(c)
  BY <1>8 DEF ReadFlush
<1>9. CASE ReadCommand(c)
  BY <1>9 DEF ReadCommand
<1>10. CASE Disconnect(c)
  BY <1>10 DEF Disconnect
<1>11. ASSUME NEW n \in Lens \cup {0}, StartFrame(c, n)
       PROVE  DoneIsLast' /\ NoOrphanedAudio'
  BY <1>11 DEF StartFrame
<1> QED
  BY <1>1, <1>2, <1>3, <1>4, <1>5, <1>6, <1>7, <1>8, <1>9, <1>10, <1>11
     DEF Reader, Client

(* A step of the mixer that takes no stream from its list or its channel   *)
(* and puts nothing into a ring.                                           *)
LEMMA QuietKeepsIInv ==
  ASSUME IInv, TypeOK',
         UNCHANGED <<readers, channel, streams>>,
         finished' \subseteq {s \in Clients : done[s]},
         \A s \in Clients : queued'[s] > 0 => queued[s] > 0
  PROVE  DoneIsLast' /\ NoOrphanedAudio'
BY DEF IInv, TypeOK, DoneIsLast, NoOrphanedAudio, Attached, readers

(* No stream is dropped while its client is connected or its ring holds    *)
(* audio, however the reader's last push and its done flag fall between    *)
(* the mixer's two reads.                                                  *)
THEOREM NoAudioIsOrphaned == Spec => []NoOrphanedAudio
<1>1. Init => IInv
  <2>1. Init => TypeOK
    BY InitTypeOK
  <2>2. Init => DoneIsLast /\ NoOrphanedAudio
    BY DEF Init, DoneIsLast, NoOrphanedAudio, Attached
  <2> QED
    BY <2>1, <2>2 DEF IInv
<1>2. IInv /\ [Next]_vars => IInv'
  <2> SUFFICES ASSUME IInv, [Next]_vars
               PROVE  DoneIsLast' /\ NoOrphanedAudio'
    BY NextTypeOK DEF IInv
  <2>0. TypeOK /\ TypeOK' /\ finished \subseteq {s \in Clients : done[s]}
    BY NextTypeOK DEF IInv, TypeOK, DoneIsLast
  <2>1. ASSUME NEW c \in Clients, Reader(c) \/ Client(c)
        PROVE  DoneIsLast' /\ NoOrphanedAudio'
    BY <2>0, <2>1, ReaderKeepsIInv
  <2>2. CASE Shutdown \/ IdleElapses \/ Consume \/ UNCHANGED vars
    BY <2>0, <2>2, QuietKeepsIInv DEF Shutdown, IdleElapses, Consume, vars, readers, loop
  <2>3. CASE Receive
    BY <2>0, <2>3 DEF Receive, IInv, DoneIsLast, NoOrphanedAudio, Attached, readers
  <2>4. CASE ApplyFlushes
    <3>1. \A s \in Clients : queued'[s] > 0 => queued[s] > 0
      BY <2>4 DEF ApplyFlushes
    <3> QED
      BY <2>0, <2>4, <3>1, QuietKeepsIInv DEF ApplyFlushes
  <2>5. CASE HaltAfterFlush \/ StopAfterFlush \/ Watchdog \/ IdleStop \/ Pace
    BY <2>0, <2>5, QuietKeepsIInv DEF HaltAfterFlush, StopAfterFlush, Watchdog, IdleStop, Pace
  <2>6. CASE ReadDone
    <3>1. finished' \subseteq {s \in Clients : done[s]}
      BY <2>0, <2>6 DEF ReadDone, TypeOK
    <3> QED
      BY <2>0, <2>6, <3>1, QuietKeepsIInv DEF ReadDone
  <2>7. CASE DropFinished
    <3>1. \A c \in Clients : c \in streams /\ c \notin streams' => ~Attached(c)
      BY <2>0, <2>7 DEF DropFinished, IInv, DoneIsLast, Attached, TypeOK
    <3>2. \A c \in Clients : Attached(c)' => Attached(c)
      BY <2>7 DEF DropFinished, Attached, readers
    <3> QED
      BY <2>0, <2>7, <3>1, <3>2 DEF DropFinished, IInv, DoneIsLast, NoOrphanedAudio, readers
  <2>8. CASE Mix
    <3>1. ASSUME NEW s \in Clients, queued'[s] > 0
          PROVE  queued[s] > 0
      <4>1. Pops(s) \in 0 .. queued[s] /\ queued[s] \in Nat
        BY <2>0, PopsBounded, MixerAssumption DEF TypeOK
      <4>2. queued'[s] = queued[s] - Pops(s) \/ queued'[s] = queued[s]
        BY <2>8, <3>1 DEF Mix
      <4> QED
        BY <3>1, <4>1, <4>2
    <3> QED
      BY <2>0, <2>8, <3>1, QuietKeepsIInv DEF Mix
  <2> QED
    BY <2>1, <2>2, <2>3, <2>4, <2>5, <2>6, <2>7, <2>8 DEF Next, Tick
<1>3. IInv => NoOrphanedAudio
  BY DEF IInv
<1> QED
  BY <1>1, <1>2, <1>3, PTL DEF Spec

-----------------------------------------------------------------------------
(* The sticky flag is never left set while the DMA runs: each path that    *)
(* starts it clears the flag, so the watchdog is not disabled by a stop    *)
(* that a later push has undone.                                           *)
THEOREM StoppedIsHalted == Spec => []StoppedMeansHalted
<1>1. Init => StoppedMeansHalted
  BY DEF Init, StoppedMeansHalted
<1>2. StoppedMeansHalted /\ [Next]_vars => StoppedMeansHalted'
  <2> SUFFICES ASSUME StoppedMeansHalted, [Next]_vars
               PROVE  StoppedMeansHalted'
    OBVIOUS
  <2> USE DEF StoppedMeansHalted
  <2>1. ASSUME NEW c \in Clients, Reader(c) \/ Client(c)
        PROVE  UNCHANGED <<stopped, running, delay>>
    BY <2>1 DEF Reader, Client, CheckLimit, Register, SeeShutdown, Push, Finish,
                Accept, ReadPayload, ReadFlush, ReadCommand, Disconnect, StartFrame, loop
  <2>2. CASE \/ Shutdown \/ IdleElapses \/ Receive \/ ApplyFlushes \/ HaltAfterFlush
             \/ ReadDone \/ DropFinished \/ Watchdog \/ Pace
    BY <2>2 DEF Shutdown, IdleElapses, Receive, ApplyFlushes, HaltAfterFlush, ReadDone,
                DropFinished, Watchdog, Pace, loop
  <2>3. CASE StopAfterFlush
    BY <2>3 DEF StopAfterFlush, StopImmediate
  <2>4. CASE IdleStop
    BY <2>4 DEF IdleStop, StopImmediate
  <2>5. CASE Mix
    BY <2>5 DEF Mix
  <2>6. CASE Consume
    BY <2>6 DEF Consume, loop
  <2>7. CASE UNCHANGED vars
    BY <2>7 DEF vars
  <2> QED
    BY <2>1, <2>2, <2>3, <2>4, <2>5, <2>6, <2>7 DEF Next, Tick
<1> QED
  BY <1>1, <1>2, PTL DEF Spec

(* A ring loses audio only by a flush its own client asked for, or into    *)
(* the DMA, by no more than the frames the DMA gains: no client's call     *)
(* discards another's audio, whether the stream is playing or not.         *)
THEOREM FlushesAreOwn == Spec => OnlyOwnFlushDiscards
<1>1. TypeOK /\ [Next]_vars =>
        \A c \in Clients :
          queued'[c] < queued[c] =>
            \/ flush[c] /\ ~flush'[c]
            \/ /\ running'
               /\ \E n \in 0 .. ChunkFrames :
                    /\ delay' = (delay + n) % DmaFrames
                    /\ queued[c] - queued'[c] <= n * FrameBytes
  <2> SUFFICES ASSUME TypeOK, [Next]_vars, NEW c \in Clients, queued'[c] < queued[c]
               PROVE  \/ flush[c] /\ ~flush'[c]
                      \/ /\ running'
                         /\ \E n \in 0 .. ChunkFrames :
                              /\ delay' = (delay + n) % DmaFrames
                              /\ queued[c] - queued'[c] <= n * FrameBytes
    OBVIOUS
  <2>0. /\ \A s \in Clients : queued[s] \in Nat /\ incoming[s] \in Nat
        /\ queued[c] \in Nat /\ ~(queued[c] < queued[c])
        /\ queued \in [Clients -> 0 .. RingBytes] /\ flush \in [Clients -> BOOLEAN]
    BY MixerAssumption DEF TypeOK
  <2>1. queued' # queued
    BY <2>0
  <2>2. ASSUME NEW r \in Clients, Push(r) PROVE FALSE
    <3>1. queued' = [queued EXCEPT ![r] = @ + incoming[r]]
      BY <2>2 DEF Push
    <3> QED
      BY <2>0, <3>1
  <2>3. ASSUME NEW r \in Clients, Reader(r) \/ Client(r), ~Push(r)
        PROVE  queued' = queued
    BY <2>3 DEF Reader, Client, CheckLimit, Register, SeeShutdown, Finish, Accept,
                ReadPayload, ReadFlush, ReadCommand, Disconnect, StartFrame
  <2>4. CASE ApplyFlushes
    BY <2>0, <2>4 DEF ApplyFlushes
  <2>5. CASE Mix
    <3>1. Mix /\ queued' # queued
      BY <2>1, <2>5
    <3>2. /\ queued' = [s \in Clients |-> queued[s] - Pops(s)]
          /\ running' /\ delay' = (delay + writable) % DmaFrames
      BY <3>1 DEF Mix
    <3>3. writable \in 0 .. ChunkFrames /\ writable * FrameBytes \in Int
      BY MixerAssumption DEF TypeOK
    <3>4. Pops(c) \in 0 .. queued[c]
      BY PopsBounded
    <3>5. Pops(c) <= writable * FrameBytes
      <4>1. (queued[c] \div FrameBytes) * FrameBytes \in 0 .. queued[c]
        BY <2>0, WholeFrames
      <4>2. 0 <= writable * FrameBytes
        BY <3>3, MixerAssumption
      <4> QED
        BY <2>0, <3>3, <4>1, <4>2 DEF Pops, MinOf
    <3>6. queued[c] - queued'[c] <= writable * FrameBytes
      <4>1. queued'[c] = queued[c] - Pops(c)
        BY <3>2
      <4> QED
        BY <2>0, <3>3, <3>4, <3>5, <4>1
    <3> QED
      BY <3>2, <3>3, <3>6
  <2>6. ASSUME \/ Shutdown \/ IdleElapses \/ Consume \/ Receive \/ HaltAfterFlush
               \/ StopAfterFlush \/ ReadDone \/ DropFinished \/ Watchdog \/ IdleStop
               \/ Pace \/ UNCHANGED vars
        PROVE  queued' = queued
    BY <2>6 DEF Shutdown, IdleElapses, Consume, Receive, HaltAfterFlush, StopAfterFlush,
                ReadDone, DropFinished, Watchdog, IdleStop, Pace, vars
  <2> QED
    BY <2>1, <2>2, <2>3, <2>4, <2>5, <2>6 DEF Next, Tick
<1> QED
  BY <1>1, TypeCorrect, PTL DEF Spec, OnlyOwnFlushDiscards

=============================================================================
