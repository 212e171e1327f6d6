------------------------------ MODULE HdaProofs ------------------------------
(***************************************************************************)
(* Theorems about HdaStream, for a ring, a target and writes of any size.  *)
(***************************************************************************)
EXTENDS HdaStream, TLAPS, FiniteSetTheorems

-----------------------------------------------------------------------------
(* Arithmetic round the ring.                                              *)

LEMMA AheadType ==
  ASSUME NEW p \in Positions, NEW q \in Positions
  PROVE  Ahead(p, q) \in Positions
BY HdaAssumption DEF Ahead, Positions

LEMMA WrapType ==
  ASSUME NEW p \in Positions, NEW n \in 0 .. RingFrames
  PROVE  Wrap(p + n) \in Positions
BY HdaAssumption DEF Wrap, Positions

(* Moving the far end on by w makes the distance w greater, as long as the *)
(* sum does not come round to the start.                                   *)
LEMMA AheadAdds ==
  ASSUME NEW p \in Positions, NEW q \in Positions, NEW w \in Nat,
         Ahead(p, q) + w < RingFrames
  PROVE  Ahead(p, Wrap(q + w)) = Ahead(p, q) + w
BY HdaAssumption DEF Ahead, Wrap, Positions

(* The near end moving on by one takes one off.                            *)
LEMMA AheadLoses ==
  ASSUME NEW p \in Positions, NEW q \in Positions, p # q
  PROVE  Ahead(Wrap(p + 1), q) = Ahead(p, q) - 1
BY HdaAssumption DEF Ahead, Wrap, Positions

(* A span and the one that begins where it ends are one span.              *)
LEMMA SpansJoin ==
  ASSUME NEW p \in Positions, NEW q \in Positions, NEW w \in Nat,
         Ahead(p, q) + w <= RingFrames
  PROVE  Span(p, Ahead(p, q)) \cup Span(q, w) = Span(p, Ahead(p, q) + w)
<1>1. ASSUME NEW i \in Positions
      PROVE  Ahead(p, i) < Ahead(p, q) \/ Ahead(q, i) < w <=> Ahead(p, i) < Ahead(p, q) + w
  BY HdaAssumption DEF Ahead, Positions
<1> QED
  BY <1>1 DEF Span

(* A span without its first position is the span of the next one.          *)
LEMMA SpanLoses ==
  ASSUME NEW p \in Positions, NEW n \in 1 .. RingFrames
  PROVE  p \in Span(p, n) /\ Span(p, n) \ {p} = Span(Wrap(p + 1), n - 1)
<1>1. Ahead(p, p) = 0
  BY DEF Ahead, Positions
<1>2. ASSUME NEW i \in Positions
      PROVE  Ahead(p, i) < n /\ i # p <=> Ahead(Wrap(p + 1), i) < n - 1
  BY HdaAssumption DEF Ahead, Wrap, Positions
<1> QED
  BY <1>1, <1>2 DEF Span

(* A span of n positions has at most n of them.                            *)
LEMMA SpanSize ==
  ASSUME NEW p \in Positions, NEW n \in Nat
  PROVE  IsFiniteSet(Span(p, n)) /\ Cardinality(Span(p, n)) <= n
<1>1. IsFiniteSet(0 .. n - 1) /\ Cardinality(0 .. n - 1) = n
  BY FS_Interval
<1> DEFINE f == [i \in Span(p, n) |-> Ahead(p, i)]
<1>2. f \in Injection(Span(p, n), 0 .. n - 1)
  <2>1. \A i \in Span(p, n) : i \in Positions /\ Ahead(p, i) \in 0 .. n - 1
    BY AheadType DEF Span, Positions
  <2>2. \A i, j \in Positions : Ahead(p, i) = Ahead(p, j) => i = j
    BY HdaAssumption DEF Ahead, Positions
  <2> QED
    BY <2>1, <2>2 DEF Injection, IsInjective
<1> QED
  BY <1>1, <1>2, FS_Injection

-----------------------------------------------------------------------------
(* Types, with two facts the arithmetic of the steps needs: what is owed   *)
(* covers the fresh cells, so that reading one takes it to no less than 0, *)
(* and a stream that is not running is at the start of its ring.           *)
Counted == /\ IsFiniteSet(Fresh) /\ Cardinality(Fresh) <= owed
AtRest == /\ dma => running
          /\ ~running => lpib = 0 /\ write_pos = 0 /\ lap = 0
Base == HdaTypeOK /\ Counted /\ AtRest

LEMMA DelayType ==
  ASSUME HdaTypeOK
  PROVE  DelayFrames \in Positions /\ FreeSpace = RingFrames - DelayFrames
BY HdaAssumption DEF HdaTypeOK, DelayFrames, FreeSpace, Ahead, Positions

LEMMA WrittenType ==
  ASSUME HdaTypeOK, NEW len \in Nat
  PROVE  Written(len) \in 0 .. len /\ Written(len) <= FreeSpace
BY DelayType, HdaAssumption DEF Written, MinOf, Positions

LEMMA LensType ==
  ASSUME HdaTypeOK, DelayFrames < Target, NEW len \in Lens
  PROVE  len \in 1 .. Target - DelayFrames /\ len \in 1 .. Target
BY DelayType, HdaAssumption DEF Lens, Headroom, MinOf, Positions

(* What a write leaves as it was, and what it does to the fresh cells.     *)
LEMMA WriteEffect ==
  ASSUME HdaTypeOK, NEW len \in Nat, Write(len)
  PROVE  /\ write_pos' \in Positions
         /\ cell' \in [Positions -> {"silent", "fresh", "played"}]
         /\ Fresh' = Fresh \cup Span(write_pos, Written(len))
         /\ owed' = owed + Written(len) /\ owed' \in Nat
<1>1. Written(len) \in 0 .. RingFrames
  BY WrittenType, DelayType, HdaAssumption DEF Positions
<1>2. write_pos' \in Positions
  BY <1>1, WrapType DEF Write, HdaTypeOK
<1>3. cell' \in [Positions -> {"silent", "fresh", "played"}]
  BY DEF Write, HdaTypeOK
<1>4. Fresh' = Fresh \cup Span(write_pos, Written(len))
  BY DEF Write, Fresh, Span
<1> QED
  BY <1>1, <1>2, <1>3, <1>4 DEF Write, HdaTypeOK

LEMMA WriteKeepsBase ==
  ASSUME Base, NEW len \in Nat, Write(len), caller' = caller, left' \in 0 .. Target
  PROVE  Base'
<1>1. HdaTypeOK
  BY DEF Base
<1>2. HdaTypeOK'
  BY <1>1, WriteEffect DEF HdaTypeOK, Write, dacVars
<1>3. Counted'
  <2>1. Written(len) \in Nat
    BY <1>1, WrittenType
  <2>2. /\ IsFiniteSet(Span(write_pos, Written(len)))
        /\ Cardinality(Span(write_pos, Written(len))) <= Written(len)
    BY <1>1, <2>1, SpanSize DEF HdaTypeOK
  <2> DEFINE S == Span(write_pos, Written(len))
  <2> HIDE DEF S
  <2>3. /\ IsFiniteSet(Fresh) /\ IsFiniteSet(S) /\ IsFiniteSet(Fresh \cap S)
        /\ Cardinality(Fresh) \in Nat /\ Cardinality(S) \in Nat /\ Cardinality(Fresh \cap S) \in Nat
    BY <2>2, FS_CardinalityType, FS_Intersection DEF Base, Counted, S
  <2>4. /\ IsFiniteSet(Fresh \cup S)
        /\ Cardinality(Fresh \cup S) = Cardinality(Fresh) + Cardinality(S) - Cardinality(Fresh \cap S)
    BY <2>3, FS_Union
  <2>5. Cardinality(S) <= Written(len) /\ Cardinality(Fresh) <= owed /\ owed \in Nat
    BY <1>1, <2>2 DEF Base, Counted, S, HdaTypeOK
  <2>6. Fresh' = Fresh \cup S /\ owed' = owed + Written(len)
    BY <1>1, WriteEffect DEF S
  <2> QED
    BY <2>1, <2>3, <2>4, <2>5, <2>6 DEF Counted
<1>4. AtRest'
  BY DEF Base, AtRest, Write, dacVars
<1> QED
  BY <1>2, <1>3, <1>4 DEF Base

(* What reading a cell does: at most the one under LPIB stops being fresh. *)
LEMMA ReadEffect ==
  ASSUME HdaTypeOK, Read
  PROVE  /\ lpib' \in Positions
         /\ cell' \in [Positions -> {"silent", "fresh", "played"}]
         /\ Fresh' = Fresh \ {lpib}
         /\ owed' = IF lpib \in Fresh THEN owed - 1 ELSE owed
<1>1. lpib' \in Positions
  BY WrapType, HdaAssumption DEF Read, HdaTypeOK, Positions
<1>2. cell' \in [Positions -> {"silent", "fresh", "played"}]
  BY DEF Read, HdaTypeOK
<1>3. Fresh' = Fresh \ {lpib}
  BY DEF Read, HdaTypeOK, Fresh
<1>4. owed' = IF lpib \in Fresh THEN owed - 1 ELSE owed
  BY DEF Read, HdaTypeOK, Fresh
<1> QED
  BY <1>1, <1>2, <1>3, <1>4

LEMMA BaseInit == HdaInit => Base
<1> SUFFICES ASSUME HdaInit PROVE Base
  OBVIOUS
<1>a. cell \in [Positions -> {"silent", "fresh", "played"}]
  BY DEF HdaInit
<1>b. 0 \in Positions /\ 0 \in 0 .. Target /\ 0 \in 0 .. RingFrames
  BY HdaAssumption DEF Positions
<1>1. HdaTypeOK
  BY <1>a, <1>b DEF HdaInit, HdaTypeOK
<1>2. Fresh = {}
  BY DEF HdaInit, Fresh
<1> QED
  BY <1>1, <1>2, FS_EmptySet DEF Base, Counted, AtRest, HdaInit

LEMMA BaseNext == Base /\ [HdaNext]_hdaVars => Base'
<1> SUFFICES ASSUME Base, [HdaNext]_hdaVars PROVE Base'
  OBVIOUS
<1>0. HdaTypeOK /\ Counted /\ AtRest
  BY DEF Base
<1>1. CASE Begin
  <2>1. left' \in 0 .. Target
    BY <1>0, <1>1, LensType DEF Begin
  <2>2. HdaTypeOK' /\ AtRest'
    BY <1>0, <1>1, <2>1, HdaAssumption
       DEF Begin, Start, ringVars, dacVars, HdaTypeOK, AtRest, Positions
  <2>3. Counted'
    BY <1>0, <1>1 DEF Begin, Start, ringVars, Counted, Fresh
  <2> QED
    BY <2>2, <2>3 DEF Base
<1>2. CASE Feed
  <2>1. PICK len \in Lens : Write(len) /\ left' = len - Written(len)
    BY <1>2 DEF Feed
  <2>2. len \in 1 .. Target /\ Target \in Nat
    BY <1>0, <1>2, LensType, HdaAssumption DEF Feed
  <2>3. left' \in 0 .. Target
    BY <1>0, <2>1, <2>2, WrittenType
  <2> QED
    BY <1>2, <2>1, <2>2, <2>3, WriteKeepsBase DEF Feed
<1>3. CASE WriteRest
  <2>1. left \in Nat /\ left <= Target /\ Target \in Nat
    BY <1>0, HdaAssumption DEF HdaTypeOK
  <2>2. left' \in 0 .. Target
    BY <1>0, <1>3, <2>1, WrittenType DEF WriteRest
  <2> QED
    BY <1>3, <2>1, <2>2, WriteKeepsBase DEF WriteRest
<1>4. CASE StopImmediate
  <2>1. Fresh' = {}
    BY <1>4 DEF StopImmediate, DropAll, Fresh
  <2>2. cell' \in [Positions -> {"silent", "fresh", "played"}]
    BY <1>4 DEF StopImmediate, DropAll
  <2>3. 0 \in Positions /\ 0 \in 0 .. RingFrames
    BY HdaAssumption DEF Positions
  <2>4. HdaTypeOK' /\ AtRest' /\ owed' = 0
    BY <1>0, <1>4, <2>2, <2>3 DEF StopImmediate, DropAll, HdaTypeOK, AtRest
  <2> QED
    BY <2>1, <2>4, FS_EmptySet DEF Base, Counted
<1>5. CASE Read
  <2>1. /\ IsFiniteSet(Fresh \ {lpib}) /\ Cardinality(Fresh) \in Nat
        /\ Cardinality(Fresh \ {lpib}) = IF lpib \in Fresh THEN Cardinality(Fresh) - 1
                                                           ELSE Cardinality(Fresh)
    BY <1>0, FS_RemoveElement, FS_CardinalityType DEF Counted
  <2>2. /\ Fresh' = Fresh \ {lpib} /\ lpib' \in Positions
        /\ cell' \in [Positions -> {"silent", "fresh", "played"}]
        /\ owed' = IF lpib \in Fresh THEN owed - 1 ELSE owed
    BY <1>0, <1>5, ReadEffect
  <2>3. Cardinality(Fresh \ {lpib}) \in Nat
    BY <2>1, FS_CardinalityType
  <2>4. owed' \in Nat /\ Counted'
    BY <1>0, <2>1, <2>2, <2>3 DEF Counted, HdaTypeOK
  <2>5. lap' \in 0 .. RingFrames
    BY <1>0, <1>5, HdaAssumption DEF Read, MinOf, HdaTypeOK
  <2>6. dac' \in {"silent", "fresh", "played"} /\ overtaken' \in BOOLEAN
    BY <1>0, <1>5 DEF Read, HdaTypeOK
  <2>7. HdaTypeOK'
    BY <1>0, <1>5, <2>2, <2>4, <2>5, <2>6 DEF Read, HdaTypeOK
  <2>8. AtRest'
    BY <1>0, <1>5 DEF Read, AtRest
  <2> QED
    BY <2>4, <2>7, <2>8 DEF Base
<1>6. CASE UNCHANGED hdaVars
  BY <1>0, <1>6 DEF hdaVars, HdaTypeOK, Counted, AtRest, Fresh, Base
<1> QED
  BY <1>1, <1>2, <1>3, <1>4, <1>5, <1>6 DEF HdaNext

(* Both positions stay inside the ring, a push never leaves more than the  *)
(* target unwritten, and no more frames are played than were accepted,     *)
(* underruns included.                                                     *)
THEOREM HdaTypeCorrect == HdaSpec => []HdaTypeOK
<1>1. Base => HdaTypeOK
  BY DEF Base
<1> QED
  BY <1>1, BaseInit, BaseNext, PTL DEF HdaSpec

-----------------------------------------------------------------------------
(* Pacing.  The frames that a push under way has still to write count      *)
(* towards the target: it was measured before the first of them.           *)
Paced == ~overtaken => /\ Fresh = Span(lpib, owed)
                       /\ DelayFrames = owed /\ owed + left <= Target

(* A write behind the owed frames makes one piece with them.               *)
LEMMA WriteKeepsPaced ==
  ASSUME HdaTypeOK, Paced, NEW len \in Nat, Write(len), left' \in Nat,
         ~overtaken => owed + len <= Target /\ left' <= len - Written(len)
  PROVE  Paced'
<1> SUFFICES ASSUME ~overtaken
             PROVE  /\ Fresh' = Span(lpib, owed')
                    /\ DelayFrames' = owed' /\ owed' + left' <= Target
  BY DEF Paced, Write, dacVars, Span, Ahead
<1> DEFINE w == Written(len)
<1>1. /\ lpib \in Positions /\ write_pos \in Positions /\ owed \in Nat
      /\ Ahead(lpib, write_pos) = owed /\ Fresh = Span(lpib, owed)
  BY DEF HdaTypeOK, Paced, DelayFrames
<1>2. w \in 0 .. len
  BY WrittenType
<1>3. owed + w <= Target /\ owed + w < RingFrames /\ owed + w + left' <= Target
  BY <1>1, <1>2, HdaAssumption
<1>4. /\ owed' = owed + w /\ Fresh' = Fresh \cup Span(write_pos, w)
      /\ lpib' = lpib /\ write_pos' = Wrap(write_pos + w)
  BY WriteEffect DEF Write
<1> HIDE DEF w
<1>5. w \in Nat
  BY <1>2
<1>6. Fresh' = Span(lpib, owed + w)
  <2>1. Ahead(lpib, write_pos) + w <= RingFrames
    BY <1>1, <1>3, <1>5, HdaAssumption
  <2>2. Span(lpib, Ahead(lpib, write_pos)) \cup Span(write_pos, w)
          = Span(lpib, Ahead(lpib, write_pos) + w)
    <3>1. lpib \in Positions /\ write_pos \in Positions
      BY <1>1
    <3> QED
      BY <3>1, <1>5, <2>1, SpansJoin
  <2> QED
    BY <1>1, <1>4, <2>2
<1>7. Ahead(lpib, Wrap(write_pos + w)) = owed + w
  BY <1>1, <1>3, <1>5, AheadAdds
<1> QED
  BY <1>3, <1>4, <1>6, <1>7 DEF DelayFrames, Ahead

LEMMA PacedNext == Base /\ Paced /\ [HdaNext]_hdaVars => Paced'
<1> SUFFICES ASSUME Base, Paced, [HdaNext]_hdaVars PROVE Paced'
  OBVIOUS
<1>0. HdaTypeOK /\ AtRest
  BY DEF Base
<1>1. CASE Begin
  <2>1. left' \in 1 .. Target - DelayFrames /\ DelayFrames \in Nat /\ Target \in Nat
    BY <1>0, <1>1, LensType, DelayType, HdaAssumption DEF Begin, Positions
  <2>2. lpib' = lpib /\ write_pos' = write_pos /\ cell' = cell /\ owed' = owed /\ overtaken' = overtaken
    BY <1>0, <1>1 DEF Begin, Start, ringVars, dacVars, AtRest
  <2> QED
    BY <2>1, <2>2 DEF Paced, Fresh, Span, DelayFrames, Ahead
<1>2. CASE Feed
  <2>1. PICK len \in Lens : Write(len) /\ left' = len - Written(len)
    BY <1>2 DEF Feed
  <2>2. len \in 1 .. Target - DelayFrames /\ DelayFrames \in Nat /\ Target \in Nat
    BY <1>0, <1>2, LensType, DelayType, HdaAssumption DEF Feed, Positions
  <2>3. left' \in Nat
    BY <1>0, <2>1, <2>2, WrittenType
  <2>4. ~overtaken => owed + len <= Target
    BY <2>2 DEF Paced
  <2> QED
    BY <1>0, <2>1, <2>2, <2>3, <2>4, WriteKeepsPaced
<1>3. CASE WriteRest
  <2>1. left \in Nat /\ Target \in Nat
    BY <1>0, HdaAssumption DEF HdaTypeOK
  <2>2. left' \in Nat /\ left' <= left - Written(left)
    BY <1>0, <1>3, <2>1, WrittenType DEF WriteRest
  <2> QED
    BY <1>0, <1>3, <2>1, <2>2, WriteKeepsPaced DEF WriteRest, Paced
<1>4. CASE StopImmediate
  <2>1. Fresh' = {} /\ owed' = 0 /\ lpib' = 0 /\ write_pos' = 0 /\ left' = 0
    BY <1>4 DEF StopImmediate, DropAll, Fresh
  <2>2. Span(0, 0) = {} /\ Ahead(0, 0) = 0
    BY HdaAssumption DEF Span, Ahead, Positions
  <2>3. Span(lpib', owed') = {} /\ DelayFrames' = 0
    BY <2>1, <2>2 DEF DelayFrames
  <2> QED
    BY <2>1, <2>3, HdaAssumption DEF Paced
<1>5. CASE Read
  <2> SUFFICES ASSUME ~overtaken, lpib # write_pos
               PROVE  /\ Fresh' = Span(lpib', owed')
                      /\ DelayFrames' = owed' /\ owed' + left' <= Target
    BY <1>0, <1>5 DEF Read, Paced, HdaTypeOK
  <2>1. /\ lpib \in Positions /\ write_pos \in Positions /\ owed \in Nat /\ left \in Nat
        /\ Ahead(lpib, write_pos) = owed /\ Fresh = Span(lpib, owed)
        /\ owed + left <= Target
    BY <1>0, HdaAssumption DEF HdaTypeOK, Paced, DelayFrames
  <2>2. owed \in 1 .. RingFrames
    BY <2>1, HdaAssumption DEF Ahead, Positions
  <2>3. lpib \in Fresh /\ Fresh \ {lpib} = Span(Wrap(lpib + 1), owed - 1)
    BY <2>1, <2>2, SpanLoses
  <2>4. /\ Fresh' = Fresh \ {lpib} /\ owed' = owed - 1 /\ lpib' = Wrap(lpib + 1)
        /\ write_pos' = write_pos /\ left' = left
    BY <1>0, <1>5, <2>3, ReadEffect DEF Read
  <2>5. Ahead(Wrap(lpib + 1), write_pos) = owed - 1
    BY <2>1, AheadLoses
  <2>6. DelayFrames' = owed'
    BY <2>4, <2>5 DEF DelayFrames
  <2>7. owed' + left' <= Target
    BY <2>1, <2>4, HdaAssumption
  <2> QED
    BY <2>3, <2>4, <2>6, <2>7
<1>6. CASE UNCHANGED hdaVars
  BY <1>6 DEF hdaVars, Paced, Fresh, Span, DelayFrames, Ahead
<1> QED
  BY <1>1, <1>2, <1>3, <1>4, <1>5, <1>6 DEF HdaNext

LEMMA PacedInit == HdaInit => Paced
<1> SUFFICES ASSUME HdaInit PROVE Paced
  OBVIOUS
<1>1. Fresh = {} /\ Span(lpib, owed) = {} /\ DelayFrames = 0
  BY HdaAssumption DEF HdaInit, Fresh, Span, DelayFrames, Ahead, Positions
<1> QED
  BY <1>1, HdaAssumption DEF HdaInit, Paced

(* Until the DMA runs past write_pos, the delay reported is exactly the    *)
(* audio in front of the DAC, in one piece, and never above the target,    *)
(* whatever the sizes of the ring, the target and the writes.              *)
THEOREM DelayIsExact == HdaSpec => []PacedExactly
<1>1. Base /\ Paced => PacedExactly
  BY HdaAssumption DEF Base, Paced, PacedExactly, HdaTypeOK
<1> QED
  BY <1>1, PacedInit, BaseInit, BaseNext, PacedNext, PTL DEF HdaSpec

-----------------------------------------------------------------------------
(* The first lap.  Until it ends, LPIB is the number of frames read, and   *)
(* nothing from there on has been played.                                  *)
FirstLap == lap < RingFrames => /\ lpib = lap /\ dac # "played"
                                /\ \A i \in Positions : i >= lap => cell[i] # "played"

LEMMA FirstLapNext == Base /\ FirstLap /\ [HdaNext]_hdaVars => FirstLap'
<1> SUFFICES ASSUME Base, FirstLap, [HdaNext]_hdaVars PROVE FirstLap'
  OBVIOUS
<1>0. HdaTypeOK /\ AtRest
  BY DEF Base
<1>1. CASE Begin
  BY <1>0, <1>1 DEF Begin, Start, ringVars, dacVars, AtRest, FirstLap
<1>2. ASSUME NEW len \in Nat, Write(len) PROVE FirstLap'
  BY <1>2 DEF Write, dacVars, FirstLap
<1>3. CASE Feed
  BY <1>0, <1>2, <1>3, LensType DEF Feed
<1>4. CASE WriteRest
  BY <1>0, <1>2, <1>4, HdaAssumption DEF WriteRest, HdaTypeOK
<1>5. CASE StopImmediate
  <2>1. lap' = 0 /\ lpib' = 0 /\ dac' = "silent" /\ cell' = [i \in Positions |-> "silent"]
    BY <1>5 DEF StopImmediate, DropAll
  <2> QED
    BY <2>1 DEF FirstLap
<1>6. CASE Read
  <2> SUFFICES ASSUME lap' < RingFrames
               PROVE  /\ lpib' = lap' /\ dac' # "played"
                      /\ \A i \in Positions : i >= lap' => cell'[i] # "played"
    BY DEF FirstLap
  <2>1. lap' = lap + 1 /\ lap + 1 < RingFrames /\ lap \in Nat
    BY <1>0, <1>6, HdaAssumption DEF Read, MinOf, HdaTypeOK
  <2>2. lpib = lap /\ dac # "played" /\ \A i \in Positions : i >= lap => cell[i] # "played"
    BY <2>1, HdaAssumption DEF FirstLap
  <2>3. lpib' = lap'
    BY <1>6, <2>1, <2>2, HdaAssumption DEF Read, Wrap
  <2>4. dac' # "played"
    BY <1>0, <1>6, <2>1, <2>2 DEF Read, HdaTypeOK
  <2>5. ASSUME NEW i \in Positions, i >= lap'
        PROVE  cell'[i] # "played"
    <3>1. i \in Int /\ i # lpib /\ i >= lap
      BY <2>1, <2>2, <2>5 DEF Positions
    <3> QED
      BY <1>0, <1>6, <2>2, <3>1 DEF Read, HdaTypeOK
  <2> QED
    BY <2>3, <2>4, <2>5
<1>7. CASE UNCHANGED hdaVars
  BY <1>7 DEF hdaVars, FirstLap
<1> QED
  BY <1>1, <1>3, <1>4, <1>5, <1>6, <1>7 DEF HdaNext

LEMMA FirstLapInit == HdaInit => FirstLap
BY DEF HdaInit, FirstLap, Positions

(* After a drop the DAC is given nothing for a second time before it has   *)
(* gone once round the ring, however far it runs ahead of the writes.      *)
THEOREM NoReplayInFirstLap == HdaSpec => []CleanFirstLap
<1>1. FirstLap => CleanFirstLap
  BY DEF FirstLap, CleanFirstLap
<1> QED
  BY <1>1, BaseInit, BaseNext, FirstLapInit, FirstLapNext, PTL DEF HdaSpec

=============================================================================
