----------------------------- MODULE RingProofs -----------------------------
(***************************************************************************)
(* Proofs about Ring: type correctness, the region invariant, the absence  *)
(* of lost wakeups between push and pop, and the refinement of BoundedFifo *)
(* for every capacity, byte set, chunk set and buffer length.              *)
(***************************************************************************)
EXTENDS Ring, SequenceTheorems, TLAPS

(* Positions stay inside the ring.                                         *)
LEMMA AdvanceInCells ==
  ASSUME NEW p \in Cells, NEW n \in 0 .. Cap
  PROVE  Advance(p, n) \in Cells
BY RingAssumption DEF Advance, Cells

(* Two moves are one move, as long as together they stay within a lap.     *)
LEMMA AdvanceTwice ==
  ASSUME NEW p \in Cells, NEW m \in 0 .. Cap, NEW n \in 0 .. Cap, m + n <= Cap
  PROVE  Advance(Advance(p, m), n) = Advance(p, m + n)
BY RingAssumption DEF Advance, Cells

(* Within a lap, different distances from a position are different cells.  *)
LEMMA AdvanceInjective ==
  ASSUME NEW p \in Cells, NEW m \in 0 .. Cap - 1, NEW n \in 0 .. Cap - 1,
         Advance(p, m) = Advance(p, n)
  PROVE  m = n
BY RingAssumption DEF Advance, Cells

(* copy_out hands the caller a sequence of bytes.                          *)
LEMMA ReadIsBytes ==
  ASSUME TypeOK, NEW m \in 0 .. filled
  PROVE  [k \in 1 .. m |-> buf[Advance(read_pos, k - 1)]] \in Seq(Byte)
<1>1. ASSUME NEW k \in 1 .. m
      PROVE  buf[Advance(read_pos, k - 1)] \in Byte
  <2>1. k - 1 \in 0 .. Cap
    BY RingAssumption DEF TypeOK
  <2>2. Advance(read_pos, k - 1) \in Cells
    BY <2>1, AdvanceInCells DEF TypeOK
  <2> QED
    BY <2>2 DEF TypeOK
<1>2. m \in Nat
  BY RingAssumption DEF TypeOK
<1>3. [k \in 1 .. m |-> buf[Advance(read_pos, k - 1)]] \in [1 .. m -> Byte]
  BY <1>1
<1> QED
  BY <1>2, <1>3

(* What an interrupted pop or a try_pop of an empty ring returns.          *)
LEMMA EmptyIsBytes == <<>> \in Seq(Byte)
OBVIOUS

(* The buffer keeps its type when data is copied in.                       *)
LEMMA CopyInType ==
  ASSUME TypeOK, data \in Seq(Byte), filled + Len(data) <= Cap
  PROVE  CopyIn(write_pos, data) \in [Cells -> Byte]
<1> SUFFICES ASSUME NEW i \in Cells
             PROVE  (IF write_pos <= i /\ i < write_pos + Len(data)
                     THEN data[i - write_pos + 1]
                     ELSE IF i + Cap < write_pos + Len(data)
                     THEN data[i + Cap - write_pos + 1]
                     ELSE buf[i]) \in Byte
  BY DEF CopyIn
<1> USE RingAssumption DEF TypeOK, Cells
<1>1. Len(data) \in 0 .. Cap
  OBVIOUS
<1>2. CASE write_pos <= i /\ i < write_pos + Len(data)
  BY <1>1, <1>2
<1>3. CASE ~(write_pos <= i /\ i < write_pos + Len(data)) /\ i + Cap < write_pos + Len(data)
  BY <1>1, <1>3
<1>4. CASE ~(write_pos <= i /\ i < write_pos + Len(data)) /\ ~(i + Cap < write_pos + Len(data))
  BY <1>1, <1>4
<1> QED
  BY <1>2, <1>3, <1>4

-----------------------------------------------------------------------------
(* Every variable keeps its type: in particular the two positions never    *)
(* leave the buffer and `filled` never exceeds the capacity.               *)
THEOREM TypeCorrect == Spec => []TypeOK
<1>1. Init => TypeOK
  <2> SUFFICES ASSUME Init PROVE TypeOK
    OBVIOUS
  <2>1. ret \in Seq(Byte)
    BY EmptyIsBytes DEF Init
  <2>2. interrupted \in BOOLEAN
    BY DEF Init
  <2>3. buf \in [Cells -> Byte]
    BY RingAssumption DEF Init
  <2> QED
    BY <2>1, <2>2, <2>3, RingAssumption DEF Init, TypeOK, Cells
<1>2. TypeOK /\ [Next]_vars => TypeOK'
  <2> SUFFICES ASSUME TypeOK, [Next]_vars
               PROVE  TypeOK'
    OBVIOUS
  <2> USE RingAssumption DEF TypeOK, inner
  <2>1. CASE \E d \in Chunks : PushCall(d)
    BY <2>1 DEF PushCall
  <2>2. CASE \E n \in Wants : PopCall(n) \/ TryPopCall(n)
    BY <2>2 DEF PopCall, TryPopCall
  <2>3. CASE PushWait
    BY <2>3 DEF PushWait
  <2>4. CASE PushStore
    <3>1. data \in Seq(Byte) /\ filled + Len(data) \in 0 .. Cap /\ Len(data) \in 0 .. Cap
      BY <2>4 DEF PushStore, PushFits
    <3>2. buf' \in [Cells -> Byte]
      BY <2>4, <3>1, CopyInType DEF PushStore
    <3>3. write_pos' \in Cells
      BY <2>4, <3>1, AdvanceInCells DEF PushStore
    <3>4. filled' \in 0 .. Cap
      BY <2>4, <3>1 DEF PushStore
    <3> QED
      BY <2>4, <3>2, <3>3, <3>4 DEF PushStore
  <2>5. CASE PushNotify
    BY <2>5 DEF PushNotify
  <2>6. CASE InterruptStore
    BY <2>6 DEF InterruptStore
  <2>7. CASE InterruptNotify
    BY <2>7 DEF InterruptNotify
  <2>8. CASE PopInterrupted
    <3>1. interrupted' \in BOOLEAN
      BY <2>8 DEF PopInterrupted
    <3>2. ret' \in Seq(Byte)
      BY <2>8, EmptyIsBytes DEF PopInterrupted
    <3> QED
      BY <2>8, <3>1, <3>2 DEF PopInterrupted
  <2>9. CASE TryPopEmpty
    BY <2>9 DEF TryPopEmpty
  <2>10. CASE PopFoundNothing
    BY <2>10 DEF PopFoundNothing
  <2>11. CASE PopWait
    BY <2>11 DEF PopWait
  <2>12. CASE PopCopy
    <3>1. ToRead \in 0 .. filled /\ ToRead \in 0 .. Cap
      BY <2>12 DEF PopCopy, ToRead
    <3>2. ret' \in Seq(Byte)
      BY <2>12, <3>1, ReadIsBytes DEF PopCopy
    <3>3. read_pos' \in Cells
      BY <2>12, <3>1, AdvanceInCells DEF PopCopy
    <3> QED
      BY <2>12, <3>1, <3>2, <3>3 DEF PopCopy
  <2>13. CASE PopNotify
    BY <2>13 DEF PopNotify
  <2>14. CASE Clear
    BY <2>14 DEF Clear, Cells
  <2>15. CASE SpuriousWakeup
    BY <2>15 DEF SpuriousWakeup
  <2>16. CASE UNCHANGED vars
    BY <2>16 DEF vars
  <2> QED
    BY <2>1, <2>2, <2>3, <2>4, <2>5, <2>6, <2>7, <2>8, <2>9, <2>10, <2>11,
       <2>12, <2>13, <2>14, <2>15, <2>16 DEF Next, Call, Push, Pop
<1> QED
  BY <1>1, <1>2, PTL DEF Spec

(* read_pos, write_pos and filled always delimit the same region of the    *)
(* buffer, across every wrap of either position and every clear.           *)
THEOREM RegionAlwaysConsistent == Spec => []RegionConsistent
<1>1. Init => RegionConsistent
  BY RingAssumption DEF Init, RegionConsistent, Advance
<1>2. TypeOK /\ RegionConsistent /\ [Next]_vars => RegionConsistent'
  <2> SUFFICES ASSUME TypeOK, RegionConsistent, [Next]_vars
               PROVE  RegionConsistent'
    OBVIOUS
  <2>1. CASE PushStore
    <3>1. Len(data) \in 0 .. Cap /\ filled + Len(data) <= Cap
      BY <2>1, RingAssumption DEF PushStore, PushFits, TypeOK
    <3>2. Advance(Advance(read_pos, filled), Len(data)) = Advance(read_pos, filled + Len(data))
      BY <3>1, AdvanceTwice DEF TypeOK
    <3> QED
      BY <2>1, <3>2 DEF PushStore, RegionConsistent, Advance
  <2>2. CASE PopCopy
    <3>1. ToRead \in 0 .. Cap /\ filled - ToRead \in 0 .. Cap /\ ToRead + (filled - ToRead) = filled
      BY <2>2, RingAssumption DEF PopCopy, ToRead, TypeOK
    <3>2. Advance(Advance(read_pos, ToRead), filled - ToRead) = Advance(read_pos, filled)
      BY <3>1, AdvanceTwice DEF TypeOK
    <3> QED
      BY <2>2, <3>2 DEF PopCopy, RegionConsistent, Advance
  <2>3. CASE Clear
    BY <2>3, RingAssumption DEF Clear, RegionConsistent, Advance
  <2>4. CASE UNCHANGED inner
    BY <2>4 DEF inner, RegionConsistent, Advance
  <2> QED
    BY <2>1, <2>2, <2>3, <2>4
       DEF Next, vars, inner, Call, Push, Pop, PushCall, PopCall, TryPopCall, PushWait,
           PushNotify, InterruptStore, InterruptNotify, PopInterrupted, TryPopEmpty,
           PopFoundNothing, PopWait, PopNotify, SpuriousWakeup
<1> QED
  BY <1>1, <1>2, TypeCorrect, PTL DEF Spec

(* A push asleep on space_avail either does not fit or is about to be      *)
(* woken, although pop notifies only after it has released the mutex.      *)
THEOREM ProducerNeverStranded == Spec => []NoStrandedProducer
<1>1. Init => NoStrandedProducer
  BY DEF Init, NoStrandedProducer
<1>2. TypeOK /\ NoStrandedProducer /\ [Next]_vars => NoStrandedProducer'
  <2> SUFFICES ASSUME TypeOK, NoStrandedProducer, [Next]_vars
               PROVE  NoStrandedProducer'
    OBVIOUS
  <2> USE DEF NoStrandedProducer, PushFits, inner
  <2>1. CASE Call
    BY <2>1 DEF Call, PushCall, PopCall, TryPopCall
  <2>2. CASE Push
    BY <2>2 DEF Push, PushWait, PushStore, PushNotify
  <2>3. CASE PopInterrupted \/ TryPopEmpty \/ PopFoundNothing \/ PopWait
    BY <2>3 DEF PopInterrupted, TryPopEmpty, PopFoundNothing, PopWait
  <2>4. CASE PopCopy \/ PopNotify
    BY <2>4 DEF PopCopy, PopNotify
  <2>5. CASE InterruptStore \/ InterruptNotify
    BY <2>5 DEF InterruptStore, InterruptNotify
  <2>6. CASE Clear \/ SpuriousWakeup
    BY <2>6 DEF Clear, SpuriousWakeup
  <2>7. CASE UNCHANGED vars
    BY <2>7 DEF vars
  <2> QED
    BY <2>1, <2>2, <2>3, <2>4, <2>5, <2>6, <2>7 DEF Next, Pop
<1> QED
  BY <1>1, <1>2, TypeCorrect, PTL DEF Spec

(* A pop asleep on data_avail either finds an empty ring or is about to be *)
(* woken, although push notifies only after it has released the mutex.     *)
THEOREM ConsumerNeverStranded == Spec => []NoStrandedConsumer
<1>1. Init => NoStrandedConsumer
  BY DEF Init, NoStrandedConsumer
<1>2. TypeOK /\ NoStrandedConsumer /\ [Next]_vars => NoStrandedConsumer'
  <2> SUFFICES ASSUME TypeOK, NoStrandedConsumer, [Next]_vars
               PROVE  NoStrandedConsumer'
    OBVIOUS
  <2> USE DEF NoStrandedConsumer, inner
  <2>1. CASE Call
    BY <2>1 DEF Call, PushCall, PopCall, TryPopCall
  <2>2. CASE Push
    BY <2>2 DEF Push, PushWait, PushStore, PushNotify, MutexFree
  <2>3. CASE PopInterrupted \/ TryPopEmpty \/ PopFoundNothing \/ PopWait
    BY <2>3 DEF PopInterrupted, TryPopEmpty, PopFoundNothing, PopWait
  <2>4. CASE PopCopy \/ PopNotify
    BY <2>4 DEF PopCopy, PopNotify
  <2>5. CASE InterruptStore \/ InterruptNotify
    BY <2>5 DEF InterruptStore, InterruptNotify
  <2>6. CASE Clear \/ SpuriousWakeup
    BY <2>6 DEF Clear, SpuriousWakeup
  <2>7. CASE UNCHANGED vars
    BY <2>7 DEF vars
  <2> QED
    BY <2>1, <2>2, <2>3, <2>4, <2>5, <2>6, <2>7 DEF Next, Pop
<1> QED
  BY <1>1, <1>2, TypeCorrect, PTL DEF Spec

-----------------------------------------------------------------------------
(* The queue the ring stands for, as a sequence.                           *)
LEMMA ContentsIsQueue ==
  ASSUME TypeOK
  PROVE  Contents \in Seq(Byte) /\ Len(Contents) = filled /\ DOMAIN Contents = 1 .. filled
<1>1. filled \in Nat
  BY RingAssumption DEF TypeOK
<1>2. Contents \in Seq(Byte)
  BY ReadIsBytes, <1>1 DEF Contents
<1>3. DOMAIN Contents = 1 .. filled
  BY DEF Contents
<1> QED
  BY <1>1, <1>2, <1>3

(* An empty region is the empty queue.                                     *)
LEMMA EmptyContents ==
  ASSUME filled = 0
  PROVE  Contents = <<>>
BY DEF Contents

(* A push that fits appends its data, wrapped or not.                      *)
LEMMA StoreAppends ==
  ASSUME TypeOK, RegionConsistent, PushStore
  PROVE  Contents' = Contents \o data
<1> USE RingAssumption
<1> DEFINE L == Len(data)
<1>1. data \in Seq(Byte) /\ L \in 0 .. Cap /\ filled + L \in 0 .. Cap /\ filled \in 0 .. Cap
  BY DEF PushStore, PushFits, TypeOK
<1>2. /\ filled' = filled + L /\ read_pos' = read_pos
      /\ buf' = CopyIn(write_pos, data)
      /\ write_pos = Advance(read_pos, filled)
      /\ read_pos \in Cells /\ write_pos \in Cells
  BY DEF PushStore, RegionConsistent, TypeOK
<1>3. Contents' = [k \in 1 .. filled + L |-> buf'[Advance(read_pos, k - 1)]]
  BY <1>2 DEF Contents, Advance
<1>4. Contents \o data = [k \in 1 .. filled + L |->
                            IF k <= filled THEN Contents[k] ELSE data[k - filled]]
  <2>1. Contents \in Seq(Byte) /\ Len(Contents) = filled
    BY ContentsIsQueue
  <2>2. /\ Contents \o data \in Seq(Byte)
        /\ Len(Contents \o data) = filled + L
        /\ \A k \in 1 .. filled + L :
             (Contents \o data)[k] = IF k <= filled THEN Contents[k] ELSE data[k - filled]
    BY <1>1, <2>1, ConcatProperties
  <2>3. ASSUME NEW s \in Seq(Byte)
        PROVE  s = [k \in 1 .. Len(s) |-> s[k]]
    OBVIOUS
  <2> QED
    BY <2>2, <2>3
<1>5. ASSUME NEW k \in 1 .. filled + L
      PROVE  buf'[Advance(read_pos, k - 1)]
               = (IF k <= filled THEN Contents[k] ELSE data[k - filled])
  <2> DEFINE c == Advance(read_pos, k - 1)
  <2>1. c \in Cells
    BY <1>1, <1>2, AdvanceInCells
  <2>2. buf'[c] = IF write_pos <= c /\ c < write_pos + L THEN data[c - write_pos + 1]
                  ELSE IF c + Cap < write_pos + L THEN data[c + Cap - write_pos + 1]
                  ELSE buf[c]
    BY <1>2, <2>1 DEF CopyIn
  <2>3. CASE k <= filled
    <3>1. ~(write_pos <= c /\ c < write_pos + L) /\ ~(c + Cap < write_pos + L)
      BY <1>1, <1>2, <2>3 DEF Advance, Cells
    <3>2. Contents[k] = buf[c]
      BY <1>1, <2>3 DEF Contents
    <3> QED
      BY <2>2, <2>3, <3>1, <3>2
  <2>4. CASE ~(k <= filled)
    <3>1. CASE write_pos <= c /\ c < write_pos + L
      <4>1. c - write_pos + 1 = k - filled
        BY <1>1, <1>2, <2>4, <3>1 DEF Advance, Cells
      <4> QED
        BY <2>2, <2>4, <3>1, <4>1
    <3>2. CASE ~(write_pos <= c /\ c < write_pos + L)
      <4>1. c + Cap < write_pos + L /\ c + Cap - write_pos + 1 = k - filled
        BY <1>1, <1>2, <2>4, <3>2 DEF Advance, Cells
      <4> QED
        BY <2>2, <2>4, <3>2, <4>1
    <3> QED
      BY <3>1, <3>2
  <2> QED
    BY <2>3, <2>4
<1> QED
  BY <1>3, <1>4, <1>5

(* copy_out removes from the front of the queue what it returns.           *)
LEMMA CopyTakes ==
  ASSUME TypeOK, PopCopy
  PROVE  /\ ret' = SubSeq(Contents, 1, ToRead)
         /\ Contents' = SubSeq(Contents, ToRead + 1, Len(Contents))
<1> USE RingAssumption
<1>1. /\ ToRead \in 1 .. filled /\ filled \in 0 .. Cap /\ filled > 0
      /\ filled' = filled - ToRead /\ read_pos \in Cells
      /\ read_pos' = Advance(read_pos, ToRead) /\ buf' = buf
  BY DEF PopCopy, ToRead, TypeOK
<1>2. Contents \in Seq(Byte) /\ Len(Contents) = filled
  BY ContentsIsQueue
<1>3. SubSeq(Contents, 1, ToRead) = [k \in 1 .. ToRead |-> Contents[k]]
  BY <1>1, <1>2
<1>4. ret' = [k \in 1 .. ToRead |-> buf[Advance(read_pos, k - 1)]]
  BY DEF PopCopy
<1>5. \A k \in 1 .. filled : Contents[k] = buf[Advance(read_pos, k - 1)]
  BY DEF Contents
<1>6. ret' = SubSeq(Contents, 1, ToRead)
  BY <1>1, <1>3, <1>4, <1>5
<1>7. SubSeq(Contents, ToRead + 1, Len(Contents))
        = [k \in 1 .. filled - ToRead |-> Contents[k + ToRead]]
  BY <1>1, <1>2
<1>8. Contents' = [k \in 1 .. filled - ToRead |->
                     buf[Advance(Advance(read_pos, ToRead), k - 1)]]
  BY <1>1 DEF Contents, Advance
<1>9. ASSUME NEW k \in 1 .. filled - ToRead
      PROVE  buf[Advance(Advance(read_pos, ToRead), k - 1)] = Contents[k + ToRead]
  <2>1. /\ ToRead \in 0 .. Cap /\ k - 1 \in 0 .. Cap /\ ToRead + (k - 1) <= Cap
        /\ k + ToRead \in 1 .. filled /\ ToRead + (k - 1) = (k + ToRead) - 1
    BY <1>1
  <2>2. Advance(Advance(read_pos, ToRead), k - 1) = Advance(read_pos, ToRead + (k - 1))
    BY <1>1, <2>1, AdvanceTwice
  <2> QED
    BY <1>5, <2>1, <2>2
<1>10. Contents' = SubSeq(Contents, ToRead + 1, Len(Contents))
  BY <1>7, <1>8, <1>9
<1> QED
  BY <1>6, <1>10

(* The detailed ring implements the bounded FIFO: every critical section   *)
(* is one abstract step, and parking, waking and notifying are invisible.  *)
THEOREM RingImplementsFifo == Spec => RingIsFifo
<1>1. Init => Fifo!Init
  BY EmptyContents DEF Init, Fifo!Init
<1>2. TypeOK /\ RegionConsistent /\ [Next]_vars => [Fifo!Next]_Fifo!vars
  <2> SUFFICES ASSUME TypeOK, RegionConsistent, [Next]_vars
               PROVE  [Fifo!Next]_Fifo!vars
    OBVIOUS
  <2>1. CASE PushStore
    <3>1. data \in Chunks
      BY <2>1 DEF PushStore, TypeOK
    <3>2. Len(Contents) + Len(data) <= Cap
      BY <2>1, ContentsIsQueue DEF PushStore, PushFits
    <3>3. Fifo!Put(data)
      BY <2>1, <3>2, StoreAppends DEF PushStore, Fifo!Put
    <3> QED
      BY <3>1, <3>3 DEF Fifo!Next
  <2>2. CASE PopCopy
    <3>1. want \in Wants /\ filled \in Nat /\ filled > 0
      BY <2>2, RingAssumption DEF PopCopy, TypeOK
    <3>2. Contents # <<>> /\ Len(Contents) = filled
      BY <3>1, ContentsIsQueue
    <3>3. Fifo!Take(want)
      BY <2>2, <3>2, CopyTakes DEF PopCopy, Fifo!Take, ToRead
    <3> QED
      BY <3>1, <3>3 DEF Fifo!Next
  <2>3. CASE PopInterrupted
    <3>1. Contents' = Contents
      BY <2>3 DEF PopInterrupted, inner, Contents, Advance
    <3> QED
      BY <2>3, <3>1 DEF PopInterrupted, Fifo!Next, Fifo!TakeNothing
  <2>4. CASE TryPopEmpty
    <3>1. Contents' = Contents
      BY <2>4 DEF TryPopEmpty, inner, Contents, Advance
    <3>2. Contents = <<>>
      BY <2>4, EmptyContents DEF TryPopEmpty
    <3> QED
      BY <2>4, <3>1, <3>2 DEF TryPopEmpty, Fifo!Next, Fifo!TakeNothing
  <2>5. CASE Clear
    <3>1. Contents' = <<>>
      BY <2>5 DEF Clear, Contents
    <3> QED
      BY <2>5, <3>1 DEF Clear, Fifo!Next, Fifo!Reset
  <2>6. CASE InterruptStore
    <3>1. Contents' = Contents
      BY <2>6 DEF InterruptStore, inner, Contents, Advance
    <3> QED
      BY <2>6, <3>1 DEF InterruptStore, Fifo!Next, Fifo!Interrupt
  <2>7. CASE UNCHANGED <<inner, interrupted, ret>>
    <3>1. Contents' = Contents
      BY <2>7 DEF inner, Contents, Advance
    <3> QED
      BY <2>7, <3>1 DEF Fifo!vars
  <2> QED
    BY <2>1, <2>2, <2>3, <2>4, <2>5, <2>6, <2>7
       DEF Next, vars, inner, Call, Push, Pop, PushCall, PopCall, TryPopCall, PushWait,
           PushNotify, InterruptNotify, PopFoundNothing, PopWait, PopNotify, SpuriousWakeup
<1> QED
  BY <1>1, <1>2, TypeCorrect, RegionAlwaysConsistent, PTL
     DEF Spec, RingIsFifo, Fifo!Spec

=============================================================================
