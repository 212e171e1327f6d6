--------------------------- MODULE PlayheadProofs ---------------------------
(***************************************************************************)
(* An application that waits for avail is never further ahead of the DAC   *)
(* than the advertised buffer, for all sizes, by as much as the estimate   *)
(* has missed.  The strengthening says what the estimate is worth          *)
(* (Counted), and that a write let through by avail keeps its room until   *)
(* it is in the ring (Allowed), even if the estimate it was let through by *)
(* is reset in between.                                                    *)
(***************************************************************************)
EXTENDS Playhead, TLAPS

OutOfReach == uncounted = MaxMissed

Pending == IF app \in {"anchor", "push"} THEN want ELSE 0

Counted == ring + pipe <= Written(pushed) - elapsed + uncounted \/ OutOfReach

Allowed ==
  ring + pipe + Pending <= BufferSize - ServerFrames + uncounted \/ OutOfReach

IInv ==
  /\ TypeOK
  /\ uncounted <= MaxMissed
  /\ Counted
  /\ Allowed

-----------------------------------------------------------------------------
LEMMA Initially == Init => IInv
<1> SUFFICES ASSUME Init
             PROVE  IInv
  OBVIOUS
<1>1. TypeOK
  BY DEF Init, TypeOK
<1>2. Written(pushed) = 0 /\ Pending = 0
  BY DEF Init, Written, Pending
<1>3. uncounted <= MaxMissed /\ Counted /\ Allowed
  BY <1>2, PlayheadAssumption DEF Init, Counted, Allowed
<1> QED
  BY <1>1, <1>3 DEF IInv

(* What avail lets through fits beside what the estimate knows of.         *)
LEMMA ReadyAllowed ==
  ASSUME IInv, Ready
  PROVE  IInv'
<1> USE PlayheadAssumption DEF IInv, TypeOK, estimate
<1>1. /\ want \in Nat /\ pushed \in Nat /\ elapsed \in Nat /\ ring \in Nat /\ pipe \in Nat
      /\ uncounted \in Nat /\ app = "poll" /\ app' = "anchor"
      /\ UNCHANGED <<want, pushed, anchored, elapsed, link, ring, pipe, uncounted, excused>>
  BY DEF Ready
<1>2. want <= BufferSize - MinOf(MaxOf(pushed - elapsed, 0) + ServerFrames, BufferSize)
  BY DEF Ready, Avail, Delay, Unplayed
<1>3. want <= BufferSize - ServerFrames - MaxOf(pushed - elapsed, 0) \/ want = 0
  BY <1>1, <1>2 DEF MinOf, MaxOf
<1>4. Counted /\ Allowed /\ Written(pushed) = pushed /\ Pending = 0
  BY <1>1 DEF Written, Pending
<1>5. Allowed'
  BY <1>1, <1>3, <1>4 DEF Allowed, Counted, Pending, OutOfReach, MaxOf
<1>6. Counted'
  BY <1>1, <1>4 DEF Counted, Written, OutOfReach
<1> QED
  BY <1>1, <1>5, <1>6

(* The steps of a write move audio from one term to the next.              *)
LEMMA WriteKeeps ==
  ASSUME IInv, Writei \/ \E n \in Writes : Poll(n)
  PROVE  IInv'
<1> USE PlayheadAssumption DEF IInv, TypeOK, estimate, Counted, Allowed, Pending, Written,
                               OutOfReach
<1>1. ASSUME NEW n \in Writes, Poll(n) PROVE IInv'
  BY <1>1 DEF Poll
<1>2. CASE Anchor
  BY <1>2 DEF Anchor
<1>3. CASE Push
  BY <1>3 DEF Push
<1>4. CASE Count
  BY <1>4 DEF Count
<1> QED
  BY <1>1, <1>2, <1>3, <1>4 DEF Writei

(* A reset under a backlog that stays: what the new estimate leaves out is *)
(* missed from here on.                                                    *)
LEMMA ResetKeeps ==
  ASSUME IInv, Prepare \/ ZeroPushed \/ ClearStart
  PROVE  IInv'
<1> USE PlayheadAssumption DEF IInv, TypeOK, estimate
<1>1. ring \in Nat /\ pipe \in Nat /\ want \in Nat /\ Pending \in Nat
  BY DEF Pending
<1>2. ASSUME NEW count \in Nat, NEW time \in Nat, NEW written \in Nat, NEW missed,
             missed = MinOf(MaxOf(uncounted, MaxOf(ring + pipe - (written - time), 0)),
                            MaxMissed)
      PROVE  /\ missed \in Nat /\ missed <= MaxMissed
             /\ uncounted <= missed
             /\ ring + pipe <= written - time + missed \/ missed = MaxMissed
  BY <1>1, <1>2 DEF MaxOf, MinOf
<1>3. ASSUME NEW count \in Nat, NEW time \in Nat,
             uncounted' = Missed(count, time), pushed' = count, elapsed' = time,
             UNCHANGED <<app, want, ring, pipe>>
      PROVE  uncounted' \in Nat /\ uncounted' <= MaxMissed /\ Counted' /\ Allowed'
  <2>1. /\ Written(count) = Written(pushed)' /\ Pending' = Pending
        /\ Written(count) \in Nat
    BY <1>1, <1>3 DEF Written, Pending
  <2>2. uncounted' = MinOf(MaxOf(uncounted, MaxOf(ring + pipe - (Written(count) - time), 0)),
                           MaxMissed)
    BY <1>1, <1>3, <2>1 DEF Missed, LeftOut, MaxOf, MinOf
  <2>3. /\ uncounted' \in Nat /\ uncounted' <= MaxMissed
        /\ uncounted <= uncounted'
        /\ ring + pipe <= Written(count) - time + uncounted' \/ uncounted' = MaxMissed
    BY <1>2, <1>3, <2>1, <2>2
  <2>4. Counted'
    BY <1>3, <2>1, <2>3 DEF Counted, OutOfReach
  <2>5. Allowed'
    BY <1>1, <1>3, <2>1, <2>3 DEF Allowed, OutOfReach
  <2> QED
    BY <2>3, <2>4, <2>5
<1>4. CASE Prepare
  BY <1>3, <1>4 DEF Prepare
<1>5. CASE ZeroPushed
  BY <1>3, <1>5 DEF ZeroPushed
<1>6. CASE ClearStart
  BY <1>3, <1>6 DEF ClearStart
<1> QED
  BY <1>4, <1>5, <1>6

LEMMA DropKeeps ==
  ASSUME IInv, Drop
  PROVE  IInv'
<1> USE PlayheadAssumption DEF IInv, TypeOK
<1>1. /\ app = "idle" /\ UNCHANGED <<app, want, link, pipe>>
      /\ ring' = 0 /\ pushed' = 0 /\ elapsed' = 0
      /\ anchored' = FALSE /\ excused' = FALSE
  BY DEF Drop
<1>2. Written(pushed)' = 0 /\ Pending' = 0
  BY <1>1 DEF Written, Pending
<1>3. uncounted' = MinOf(MaxOf(pipe - (0 - 0), 0), MaxMissed)
  <2>1. Written(0) = 0
    BY <1>1 DEF Written
  <2> QED
    BY <2>1 DEF Drop, LeftOut
<1>4. uncounted' \in Nat /\ uncounted' <= MaxMissed /\ (pipe <= uncounted' \/ OutOfReach')
  BY <1>3 DEF MinOf, MaxOf, OutOfReach
<1>5. Counted'
  BY <1>1, <1>2, <1>4 DEF Counted
<1>6. Allowed'
  <2>1. ring' + pipe' + Pending' = pipe
    BY <1>1, <1>2
  <2> QED
    BY <1>4, <2>1 DEF Allowed
<1>7. TypeOK'
  BY <1>1, <1>4
<1> QED
  BY <1>4, <1>5, <1>6, <1>7

LEMMA PipelineKeeps ==
  ASSUME IInv, Forward \/ Crash \/ Discard
  PROVE  IInv'
<1> USE PlayheadAssumption DEF IInv, TypeOK, estimate, Counted, Allowed, Pending, Written,
                               OutOfReach
<1>1. CASE Forward
  BY <1>1 DEF Forward
<1>2. CASE Crash
  BY <1>2 DEF Crash
<1>3. CASE Discard
  BY <1>3 DEF Discard
<1> QED
  BY <1>1, <1>2, <1>3

(* A tick in which clock and DAC do not both move or both stand is made up *)
(* for by what is missed.                                                  *)
LEMMA TickKeeps ==
  ASSUME IInv, NEW plays \in BOOLEAN, Tick(plays)
  PROVE  IInv'
<1> USE PlayheadAssumption DEF IInv, TypeOK, estimate
<1>1. /\ pushed \in Nat /\ elapsed \in Nat /\ ring \in Nat /\ pipe \in Nat
      /\ uncounted \in Nat /\ want \in Nat
      /\ UNCHANGED <<app, want, pushed, anchored, link, ring, excused>>
  BY DEF Tick
<1>2. Written(pushed)' = Written(pushed) /\ Pending' = Pending
      /\ Written(pushed) \in Nat /\ Pending \in Nat
  BY <1>1 DEF Written, Pending
<1>3. CASE plays
  <2>1. pipe > 0 /\ pipe' = pipe - 1
    BY <1>3 DEF Tick
  <2>2. CASE anchored /\ elapsed < MaxPushed
    <3>1. elapsed' = elapsed + 1 /\ uncounted' = uncounted
      BY <1>3, <2>2 DEF Tick
    <3> QED
      BY <1>1, <1>2, <2>1, <3>1 DEF Counted, Allowed, OutOfReach
  <2>3. CASE ~(anchored /\ elapsed < MaxPushed)
    <3>1. elapsed' = elapsed
      BY <2>3 DEF Tick
    <3>2. uncounted' = IF uncounted < MaxMissed THEN MaxOf(uncounted - 1, 0) ELSE uncounted
      BY <1>3, <2>3 DEF Tick
    <3>3. \/ uncounted = MaxMissed /\ uncounted' = MaxMissed
          \/ uncounted = 0 /\ uncounted' = 0
          \/ uncounted < MaxMissed /\ uncounted' = uncounted - 1 /\ uncounted' \in Nat
      BY <1>1, <3>2 DEF MaxOf
    <3>4. Allowed'
      BY <1>1, <1>2, <2>1, <3>3 DEF Allowed, OutOfReach
    <3>5. Counted'
      BY <1>1, <1>2, <2>1, <3>1, <3>3 DEF Counted, OutOfReach
    <3> QED
      BY <1>1, <2>1, <3>1, <3>3, <3>4, <3>5
  <2> QED
    BY <2>2, <2>3
<1>4. CASE ~plays
  <2>1. pipe' = pipe
    BY <1>4 DEF Tick
  <2>2. CASE anchored /\ elapsed < MaxPushed
    <3>1. elapsed' = elapsed + 1 /\ uncounted' = MinOf(uncounted + 1, MaxMissed)
      BY <1>4, <2>2 DEF Tick
    <3>2. \/ uncounted' = MaxMissed
          \/ uncounted' = uncounted + 1 /\ uncounted' <= MaxMissed
      BY <1>1, <3>1 DEF MinOf
    <3>3. Counted' /\ Allowed'
      BY <1>1, <1>2, <2>1, <3>1, <3>2 DEF Counted, Allowed, OutOfReach
    <3> QED
      BY <1>1, <2>1, <3>1, <3>2, <3>3
  <2>3. CASE ~(anchored /\ elapsed < MaxPushed)
    <3>1. elapsed' = elapsed /\ uncounted' = uncounted
      BY <1>4, <2>3 DEF Tick
    <3> QED
      BY <1>1, <1>2, <2>1, <3>1 DEF Counted, Allowed, OutOfReach
  <2> QED
    BY <2>2, <2>3
<1> QED
  BY <1>3, <1>4

LEMMA Stutter ==
  ASSUME IInv, UNCHANGED vars
  PROVE  IInv'
BY DEF vars, IInv, TypeOK, estimate, Counted, Allowed, Pending, Written, OutOfReach

LEMMA Inductive == Spec => []IInv
<1>1. IInv /\ [Next]_vars => IInv'
  BY ReadyAllowed, WriteKeeps, ResetKeeps, DropKeeps, PipelineKeeps, TickKeeps, Stutter
     DEF Next, Time
<1> QED
  BY Initially, <1>1, PTL DEF Spec

-----------------------------------------------------------------------------
(* Counters, clock and history keep their types, for all sizes.            *)
THEOREM PlayheadTypeCorrect == Spec => []TypeOK
<1>1. IInv => TypeOK
  BY DEF IInv
<1> QED
  BY Inductive, <1>1, PTL

(* delay + avail == BUFFER_SIZE keeps an application that waits for avail  *)
(* within the advertised buffer (pcm_delay_avail), for any buffer,         *)
(* baseline, ring and pipeline, through reconnects and resets at any point *)
(* of a write.                                                             *)
THEOREM NeverFarAhead == Spec => []AheadBounded
<1>1. IInv => AheadBounded
  <2> SUFFICES ASSUME IInv, uncounted <= ServerFrames
               PROVE  ring + pipe <= BufferSize
    BY DEF AheadBounded
  <2>1. ~OutOfReach /\ Pending \in Nat
    BY PlayheadAssumption DEF IInv, TypeOK, estimate, OutOfReach, Pending
  <2> QED
    BY <2>1, PlayheadAssumption DEF IInv, TypeOK, Allowed
<1> QED
  BY Inductive, <1>1, PTL

=============================================================================
