----------------------------- MODULE ServerProofs -----------------------------
(***************************************************************************)
(* For all rates, taps and payloads, the resampler's output does not       *)
(* depend on how its input is split, and its history is never trimmed; for *)
(* any number of clients, the mute LED is right after commands that did    *)
(* not overlap.                                                            *)
(*                                                                         *)
(* The first rests on what Producible counts: the outputs that can be made *)
(* from a position on are the first so many (Producible is a cardinality,  *)
(* and the set is an interval), so counts of successive calls add up.      *)
(***************************************************************************)
EXTENDS Server, FiniteSetTheorems, TLAPS

(* Output k from pos on has all its taps within so many frames.            *)
Makes(pos, k, frames) == Base(pos + k * StepNum) + Taps <= frames

LEMMA DivBounds ==
  ASSUME NEW x \in Nat, NEW d \in Nat \ {0}
  PROVE  x \div d \in Nat /\ (x \div d) * d <= x /\ x < (x \div d) * d + d
OBVIOUS

LEMMA DivMonotone ==
  ASSUME NEW x \in Nat, NEW y \in Nat, NEW d \in Nat \ {0}, x <= y
  PROVE  x \div d <= y \div d
BY DivBounds

LEMMA TimesMonotone ==
  ASSUME NEW a \in Nat, NEW b \in Nat, NEW d \in Nat, a <= b
  PROVE  a * d <= b * d /\ a * d \in Nat
OBVIOUS

LEMMA TimesGrows ==
  ASSUME NEW a \in Nat, NEW d \in Nat \ {0}
  PROVE  a <= a * d
OBVIOUS

LEMMA TimesAdds ==
  ASSUME NEW a \in Nat, NEW b \in Nat, NEW d \in Nat
  PROVE  (a + b) * d = a * d + b * d
OBVIOUS

(* An output that can be made is within the range that Producible counts.  *)
LEMMA MakesBounded ==
  ASSUME NEW pos \in Nat, NEW k \in Nat, NEW frames \in Nat, Makes(pos, k, frames)
  PROVE  k \in 0 .. frames * StepDen
<1> DEFINE x == pos + k * StepNum
           b == x \div StepDen
<1>1. x \in Nat /\ k <= x
  BY TimesGrows, TimesMonotone, ResamplerAssumption
<1>2. b \in Nat /\ x < b * StepDen + StepDen
  BY <1>1, DivBounds, ResamplerAssumption
<1>3. b + 1 <= frames
  BY <1>2, ResamplerAssumption DEF Makes, Base
<1>4. (b + 1) * StepDen <= frames * StepDen /\ frames * StepDen \in Nat
  BY <1>2, <1>3, TimesMonotone, ResamplerAssumption
<1>5. (b + 1) * StepDen = b * StepDen + StepDen /\ b * StepDen \in Nat
  BY <1>2, TimesAdds, TimesMonotone, ResamplerAssumption
<1> HIDE DEF x, b
<1>6. k < frames * StepDen
  BY <1>1, <1>2, <1>4, <1>5, ResamplerAssumption
<1> QED
  BY <1>4, <1>6

(* Whoever can make an output can make the ones before it.                 *)
LEMMA MakesDownward ==
  ASSUME NEW pos \in Nat, NEW j \in Nat, NEW k \in Nat, NEW frames \in Nat,
         j <= k, Makes(pos, k, frames)
  PROVE  Makes(pos, j, frames)
<1>1. j * StepNum <= k * StepNum /\ j * StepNum \in Nat /\ k * StepNum \in Nat
  BY TimesMonotone, ResamplerAssumption
<1>2. pos + j * StepNum \in Nat /\ pos + k * StepNum \in Nat
      /\ pos + j * StepNum <= pos + k * StepNum
  BY <1>1
<1>3. Base(pos + j * StepNum) <= Base(pos + k * StepNum)
  BY <1>2, DivMonotone, ResamplerAssumption DEF Base
<1>4. Base(pos + j * StepNum) \in Nat /\ Base(pos + k * StepNum) \in Nat
  BY <1>2, DivBounds, ResamplerAssumption DEF Base
<1> QED
  BY <1>3, <1>4, ResamplerAssumption DEF Makes

(* The outputs that can be made are the first Producible many.             *)
LEMMA ProducibleCounts ==
  ASSUME NEW pos \in Nat, NEW frames \in Nat
  PROVE  /\ Producible(pos, frames) \in Nat
         /\ \A k \in Nat : Makes(pos, k, frames) <=> k < Producible(pos, frames)
<1> DEFINE A == {k \in 0 .. frames * StepDen : Makes(pos, k, frames)}
           p == Cardinality(A)
<1>1. frames * StepDen \in Nat
  BY TimesMonotone, ResamplerAssumption
<1>2. IsFiniteSet(A) /\ p \in Nat
  <2>1. IsFiniteSet(0 .. frames * StepDen)
    BY <1>1, FS_Interval
  <2>2. IsFiniteSet(A)
    BY <2>1, FS_Subset
  <2> QED
    BY <2>2, FS_CardinalityType
<1>3. Producible(pos, frames) = p
  BY DEF Producible, Makes
<1>4. \A k \in Nat : Makes(pos, k, frames) <=> k \in A
  BY MakesBounded
<1>5. A \subseteq 0 .. p - 1
  <2> SUFFICES ASSUME NEW k \in A
               PROVE  k < p
    BY <1>1, <1>2
  <2>1. 0 .. k \subseteq A
    BY <1>1, <1>4, MakesDownward
  <2>2. k \in Nat
    BY <1>1
  <2>3. Cardinality(0 .. k) = k + 1
    BY <2>2, FS_Interval
  <2>4. Cardinality(0 .. k) <= p
    <3> HIDE DEF A
    <3> QED
      BY <1>2, <2>1, FS_Subset
  <2> QED
    BY <1>2, <2>2, <2>3, <2>4
<1>6. A = 0 .. p - 1
  <2>1. IsFiniteSet(0 .. p - 1) /\ Cardinality(0 .. p - 1) = p
    BY <1>2, FS_Interval
  <2> QED
    BY <1>5, <2>1, FS_Subset
<1> HIDE DEF A, p
<1> QED
  BY <1>2, <1>3, <1>4, <1>6

(* What one call makes of all the input, two make of its parts.            *)
LEMMA CountsAdd ==
  ASSUME NEW before \in Nat, NEW input \in Nat
  PROVE  LET p == Producible(0, before) IN
         Producible(0, before + input) = p + Producible(p * StepNum, before + input)
<1> DEFINE p == Producible(0, before)
           F == before + input
           q == Producible(0, F)
           b == Producible(p * StepNum, F)
<1>1. p \in Nat /\ \A k \in Nat : Makes(0, k, before) <=> k < p
  BY ProducibleCounts
<1>2. F \in Nat /\ q \in Nat /\ \A k \in Nat : Makes(0, k, F) <=> k < q
  BY ProducibleCounts
<1>3. p * StepNum \in Nat
  BY <1>1, TimesMonotone, ResamplerAssumption
<1>4. b \in Nat /\ \A k \in Nat : Makes(p * StepNum, k, F) <=> k < b
  BY <1>2, <1>3, ProducibleCounts
<1>5. \A k \in Nat : Makes(p * StepNum, k, F) <=> Makes(0, p + k, F)
  <2> SUFFICES ASSUME NEW k \in Nat
               PROVE  p * StepNum + k * StepNum = 0 + (p + k) * StepNum
    BY DEF Makes
  <2> QED
    BY <1>1, TimesAdds, ResamplerAssumption
<1>6. \A k \in Nat : Makes(0, k, before) => Makes(0, k, F)
  <2> SUFFICES ASSUME NEW k \in Nat, Makes(0, k, before)
               PROVE  Makes(0, k, F)
    OBVIOUS
  <2>1. k * StepNum \in Nat
    BY TimesMonotone, ResamplerAssumption
  <2>2. Base(0 + k * StepNum) \in Nat
    BY <2>1, DivBounds, ResamplerAssumption DEF Base
  <2> QED
    BY <2>2, ResamplerAssumption DEF Makes
<1> HIDE DEF p, q, b, F
<1>7. p <= q
  <2> SUFFICES ASSUME p > q
               PROVE  FALSE
    BY <1>1, <1>2
  <2> QED
    BY <1>1, <1>2, <1>6
<1>8. \A k \in Nat : k < b <=> p + k < q
  <2> SUFFICES ASSUME NEW k \in Nat
               PROVE  k < b <=> p + k < q
    OBVIOUS
  <2>1. p + k \in Nat
    BY <1>1
  <2>2. k < b <=> Makes(p * StepNum, k, F)
    BY <1>4
  <2>3. p + k < q <=> Makes(0, p + k, F)
    BY <1>2, <2>1
  <2> QED
    BY <1>5, <2>2, <2>3
<1>9. q - p \in Nat /\ ~(b < q - p) /\ ~(q - p < b)
  <2>1. q - p \in Nat /\ p + (q - p) = q
    BY <1>1, <1>2, <1>7
  <2>2. q - p < b <=> q < q
    BY <1>8, <2>1
  <2>3. b < b <=> p + b < q
    BY <1>4, <1>8
  <2> QED
    BY <1>1, <1>2, <1>4, <2>1, <2>2, <2>3
<1>10. q = p + b
  BY <1>1, <1>2, <1>4, <1>9
<1> QED
  BY <1>10 DEF p, q, b, F

-----------------------------------------------------------------------------
(* A resampler that was given so many frames in all, in whatever parts, and*)
(* has made so many of them.                                               *)
Exact(r, frames, made) ==
  /\ frames \in Nat /\ made \in Nat
  /\ r.hist = frames /\ r.pos = made * StepNum
  /\ r.off \in Nat /\ r.off <= frames
  /\ made = Producible(0, frames)

LEMMA NewIsExact == Exact(NewResampler, 0, 0)
<1>1. Producible(0, 0) \in Nat /\ (Makes(0, 0, 0) <=> 0 < Producible(0, 0))
  BY ProducibleCounts
<1>2. ~Makes(0, 0, 0)
  <2>1. 0 + 0 * StepNum = 0
    BY ResamplerAssumption
  <2>2. 0 \div StepDen \in Nat
    BY DivBounds, ResamplerAssumption
  <2> QED
    BY <2>1, <2>2, ResamplerAssumption DEF Makes, Base
<1>3. 0 = 0 * StepNum
  BY ResamplerAssumption
<1> QED
  BY <1>1, <1>2, <1>3 DEF Exact, NewResampler

(* The dead prefix never outweighs anything as Trims counts it: what is    *)
(* retired leaves the kernel's context behind it.                          *)
LEMMA ResampleIsExact ==
  ASSUME NEW r, NEW frames, NEW made, NEW input \in Nat, Exact(r, frames, made)
  PROVE  Exact(Resample(r, input), frames + input, made + Outputs(r, input))
<1> DEFINE total == frames + input
           more == Producible(made * StepNum, total)
           pos == r.pos + more * StepNum
           off == MaxOf(r.off, MinOf(Base(pos), MaxOf(total - Keep, 0)))
<1>1. made \in Nat /\ frames \in Nat /\ total \in Nat /\ made * StepNum \in Nat
  BY TimesMonotone, ResamplerAssumption DEF Exact
<1>2. more \in Nat /\ Producible(0, total) = made + more
  BY <1>1, ProducibleCounts, CountsAdd DEF Exact
<1>3. Outputs(r, input) = more /\ r.hist + input = total /\ r.pos = made * StepNum
  BY DEF Exact, Outputs
<1>4. pos = (made + more) * StepNum /\ pos \in Nat
  BY <1>1, <1>2, <1>3, TimesAdds, TimesMonotone, ResamplerAssumption
<1>5. Base(pos) \in Nat
  BY <1>4, DivBounds, ResamplerAssumption DEF Base
<1> HIDE DEF pos, more
<1>6. off \in Nat /\ off <= total
  BY <1>1, <1>5, ResamplerAssumption DEF MaxOf, MinOf, Exact
<1>7. ~Trims(off, total)
  BY <1>1, <1>6 DEF Trims
<1>8. Resample(r, input) = [pos |-> pos, hist |-> total, off |-> off]
  BY <1>3, <1>7 DEF Resample, pos, more
<1> HIDE DEF off, total
<1>9. made + more \in Nat
  BY <1>1, <1>2
<1> QED
  BY <1>1, <1>2, <1>3, <1>4, <1>6, <1>8, <1>9 DEF Exact, total

-----------------------------------------------------------------------------
(* A connection is in one place: in the backlog, with the accept loop, or  *)
(* with its thread.                                                        *)
Threads == {"none", "start", "idle", "reading", "reply", "mute", "unmute"}

CTyped ==
  /\ sock \in [Clients -> {"none", "queued", "open"}]
  /\ thread \in [Clients -> Threads]
  /\ backlog \in Seq(Clients)

InOnePlace ==
  /\ \A c \in Clients : thread[c] # "none" => sock[c] = "open"
  /\ \A i \in 1 .. Len(backlog) : sock[backlog[i]] = "queued"
  /\ \A i, j \in 1 .. Len(backlog) : backlog[i] = backlog[j] => i = j
  /\ main = "header" => current \in Clients /\ sock[current] = "open" /\ thread[current] = "none"

CInv == CTyped /\ InOnePlace

LEMMA ClosesInOnePlace ==
  ASSUME CInv, NEW c \in Clients, Close(c), backlog' = backlog,
         sock[c] = "open",
         main' = "header" => main = "header" /\ current' = current /\ c # current
  PROVE  CInv'
BY DEF CInv, CTyped, InOnePlace, Close, None, Threads

LEMMA GoneInOnePlace == ASSUME Gone PROVE CInv'
BY DEF Gone, CInv, CTyped, InOnePlace, None, Threads

LEMMA ConnectionsInit == Init => CInv
BY DEF Init, CInv, CTyped, InOnePlace, None, Threads

LEMMA MainKeepsConnections ==
  ASSUME CInv, Main
  PROVE  CInv'
<1> USE DEF CInv, CTyped, InOnePlace, None, Threads
<1>1. CASE CheckShutdown
  BY <1>1 DEF CheckShutdown
<1>2. CASE Accept /\ backlog = <<>>
  BY <1>2 DEF Accept
<1>3. CASE Accept /\ backlog # <<>>
  <2> DEFINE h == Head(backlog)
             t == Tail(backlog)
  <2>1. /\ h \in Clients /\ h = backlog[1] /\ t \in Seq(Clients) /\ Len(t) = Len(backlog) - 1
        /\ Len(backlog) \in Nat /\ Len(backlog) >= 1
        /\ \A i \in 1 .. Len(t) : t[i] = backlog[i + 1] /\ i + 1 \in 1 .. Len(backlog)
    BY <1>3
  <2>2. /\ main' = "header" /\ current' = h /\ backlog' = t
        /\ sock' = [sock EXCEPT ![h] = "open"] /\ thread' = thread
    BY <1>3 DEF Accept
  <2> HIDE DEF h, t
  <2>3. sock[h] = "queued" /\ thread[h] = "none"
    BY <2>1
  <2>4. \A i \in 1 .. Len(t) : t[i] # h /\ sock[t[i]] = "queued" /\ t[i] \in Clients
    BY <2>1
  <2>5. \A i, j \in 1 .. Len(t) : t[i] = t[j] => i = j
    BY <2>1
  <2>6. CTyped'
    BY <2>1, <2>2
  <2>7. InOnePlace'
    BY <2>1, <2>2, <2>3, <2>4, <2>5
  <2> QED
    BY <2>6, <2>7
<1>4. CASE Dispatch
  BY <1>4, ClosesInOnePlace DEF Dispatch, NextClient
<1>5. CASE HeaderFails
  BY <1>5, ClosesInOnePlace DEF HeaderFails, NextClient
<1>6. CASE Exit
  BY <1>6, GoneInOnePlace DEF Exit
<1> QED
  BY <1>1, <1>2, <1>3, <1>4, <1>5, <1>6 DEF Main

LEMMA ThreadKeepsConnections ==
  ASSUME CInv, NEW c \in Clients, Thread(c) \/ FinishFrame(c) \/ StartFrame(c)
  PROVE  CInv'
<1>1. CASE Close(c) /\ thread[c] # "none" /\ UNCHANGED others
  BY <1>1, ClosesInOnePlace DEF others, CInv, CTyped, InOnePlace
<1>2. CASE /\ thread[c] # "none" /\ UNCHANGED <<others, sock>>
           /\ \E t \in Threads : thread' = [thread EXCEPT ![c] = t]
  BY <1>2 DEF others, CInv, CTyped, InOnePlace
<1>3. CASE Admit(c) \/ WriteLed(c) \/ Reply(c)
  BY <1>2, <1>3 DEF Admit, WriteLed, Reply, ApplyingMute, To, Threads
<1>4. CASE Refuse(c) \/ SeeShutdown(c) \/ EndOfFile(c)
  BY <1>1, <1>4 DEF Refuse, SeeShutdown, EndOfFile
<1>5. ASSUME NEW on \in BOOLEAN, Store(c, on) PROVE CInv'
  BY <1>2, <1>5 DEF Store, Threads
<1>6. CASE Status(c) \/ OtherCommand(c) \/ BadCommand(c)
  BY <1>1, <1>2, <1>6 DEF Status, OtherCommand, BadCommand, To, Threads
<1>7. ASSUME NEW len \in Lens, Payload(c, len) PROVE CInv'
  BY <1>2, <1>7 DEF Payload, To, Threads
<1>8. CASE StartFrame(c)
  BY <1>2, <1>8 DEF StartFrame, To, Threads
<1> QED
  BY <1>3, <1>4, <1>5, <1>6, <1>7, <1>8 DEF Thread, FinishFrame

LEMMA ConnectKeepsConnections ==
  ASSUME CInv, NEW c \in Clients, Connect(c)
  PROVE  CInv'
<1> USE DEF CInv, CTyped, InOnePlace
<1> DEFINE n == Len(backlog)
<1>1. /\ sock[c] = "none" /\ sock' = [sock EXCEPT ![c] = "queued"]
      /\ backlog' = Append(backlog, c) /\ UNCHANGED <<main, current, thread>>
  BY DEF Connect, Open, None
<1>2. /\ n \in Nat /\ backlog' \in Seq(Clients) /\ Len(backlog') = n + 1
      /\ backlog'[n + 1] = c /\ \A i \in 1 .. n : backlog'[i] = backlog[i]
  BY <1>1
<1>3. \A i \in 1 .. n : backlog[i] # c /\ backlog[i] \in Clients
  BY <1>1
<1> HIDE DEF n
<1>4. \A i \in 1 .. n + 1 : i \in 1 .. n \/ i = n + 1
  BY <1>2
<1>5. \A i \in 1 .. Len(backlog') : sock'[backlog'[i]] = "queued"
  BY <1>1, <1>2, <1>3, <1>4 DEF n
<1>6. \A i, j \in 1 .. Len(backlog') : backlog'[i] = backlog'[j] => i = j
  BY <1>1, <1>2, <1>3, <1>4 DEF n
<1> QED
  BY <1>1, <1>2, <1>5, <1>6

LEMMA ConnectionsKept ==
  ASSUME CInv, [Next]_vars
  PROVE  CInv'
<1>1. CASE UNCHANGED <<main, current, backlog, sock, thread>>
  BY <1>1 DEF CInv, CTyped, InOnePlace
<1>2. CASE Sigterm
  BY <1>1, <1>2 DEF Sigterm
<1>3. CASE Crash
  BY <1>3, GoneInOnePlace DEF Crash
<1>4. CASE Restart
  BY <1>4 DEF Restart, CInv, CTyped, InOnePlace
<1>5. ASSUME NEW c \in Clients, SendHeader(c) \/ ReadReply(c) \/ Leave(c) PROVE CInv'
  BY <1>1, <1>5 DEF SendHeader, ReadReply, Leave, others
<1>6. CASE UNCHANGED vars
  BY <1>1, <1>6 DEF vars
<1> QED
  BY <1>2, <1>3, <1>4, <1>5, <1>6, MainKeepsConnections, ThreadKeepsConnections,
     ConnectKeepsConnections DEF Next

-----------------------------------------------------------------------------
StreamsTyped ==
  /\ DOMAIN resampler = Clients /\ DOMAIN received = Clients /\ DOMAIN produced = Clients
  /\ resampler = [c \in Clients |-> resampler[c]]
  /\ received = [c \in Clients |-> received[c]]
  /\ produced = [c \in Clients |-> produced[c]]

StreamsExact == \A c \in Clients : Exact(resampler[c], received[c], produced[c])

SInv == StreamsTyped /\ StreamsExact

LEMMA ClosesExact ==
  ASSUME SInv, NEW c \in Clients, Close(c)
  PROVE  SInv'
BY NewIsExact DEF SInv, StreamsTyped, StreamsExact, Close

LEMMA StreamsKept ==
  ASSUME CInv, SInv, [Next]_vars
  PROVE  SInv'
<1>1. CASE UNCHANGED stream
  BY <1>1 DEF stream, SInv, StreamsTyped, StreamsExact
<1>2. ASSUME NEW c \in Clients, Close(c) PROVE SInv'
  BY <1>2, ClosesExact
<1>3. ASSUME NEW c \in Clients, NEW len \in Lens, Payload(c, len) PROVE SInv'
  <2> DEFINE frames == len \div ClientFrame
  <2>1. frames \in Nat
    BY DivBounds, ServerAssumption
  <2> HIDE DEF frames
  <2>2. Exact(Resample(resampler[c], frames), received[c] + frames,
              produced[c] + Outputs(resampler[c], frames))
    BY <2>1, ResampleIsExact DEF SInv, StreamsExact
  <2>3. /\ resampler' = [resampler EXCEPT ![c] = Resample(resampler[c], frames)]
        /\ received' = [received EXCEPT ![c] = received[c] + frames]
        /\ produced' = [produced EXCEPT ![c] = produced[c] + Outputs(resampler[c], frames)]
    BY <1>3 DEF Payload, frames
  <2> QED
    BY <2>2, <2>3 DEF SInv, StreamsTyped, StreamsExact
<1>4. CASE Gone
  BY <1>4, NewIsExact DEF Gone, SInv, StreamsTyped, StreamsExact
<1>5. CASE Main
  BY <1>1, <1>2, <1>4, <1>5
  DEF Main, CheckShutdown, Accept, Dispatch, HeaderFails, Exit, CInv, InOnePlace, stream
<1>6. ASSUME NEW c \in Clients, Thread(c) PROVE SInv'
  BY <1>1, <1>2, <1>6
  DEF Thread, Admit, Refuse, SeeShutdown, EndOfFile, WriteLed, Reply
<1>7. ASSUME NEW c \in Clients,
             Connect(c) \/ SendHeader(c) \/ StartFrame(c) \/ ReadReply(c) \/ Leave(c)
      PROVE  SInv'
  BY <1>1, <1>7 DEF Connect, SendHeader, StartFrame, ReadReply, Leave
<1>8. ASSUME NEW c \in Clients, FinishFrame(c) PROVE SInv'
  BY <1>1, <1>2, <1>3, <1>8 DEF FinishFrame, Store, Status, OtherCommand, BadCommand
<1>9. CASE Sigterm \/ Crash \/ Restart \/ UNCHANGED vars
  BY <1>1, <1>4, <1>9 DEF Sigterm, Crash, Restart, vars
<1> QED
  BY <1>5, <1>6, <1>7, <1>8, <1>9 DEF Next

LEMMA ServerInvariants == Spec => [](CInv /\ SInv)
<1>1. Init => SInv
  BY NewIsExact DEF Init, SInv, StreamsTyped, StreamsExact
<1>2. CInv /\ SInv /\ [Next]_vars => CInv' /\ SInv'
  BY ConnectionsKept, StreamsKept
<1> QED
  BY ConnectionsInit, <1>1, <1>2, PTL DEF Spec

(* Whatever the rates, the taps and the split of the input into payloads,  *)
(* the resampler has made as many frames as of one chunk, and goes on from *)
(* where the next one belongs (dsp.rs, chunk_split_invariance).            *)
THEOREM ChunksDoNotMatter == Spec => []OutputsExact
<1>1. ASSUME SInv, NEW c \in Clients
      PROVE  LET next == produced[c] * StepNum IN
             /\ produced[c] = Producible(0, received[c])
             /\ Base(resampler[c].pos) + (received[c] - resampler[c].hist) = Base(next)
             /\ Rem(resampler[c].pos) = Rem(next)
  <2>1. Exact(resampler[c], received[c], produced[c])
    BY <1>1 DEF SInv, StreamsExact
  <2>2. resampler[c].pos \in Nat
    BY <2>1, TimesMonotone, ResamplerAssumption DEF Exact
  <2>3. Base(resampler[c].pos) \in Nat
    BY <2>2, DivBounds, ResamplerAssumption DEF Base
  <2> QED
    BY <2>1, <2>3 DEF Exact
<1>2. SInv => OutputsExact
  BY <1>1 DEF OutputsExact
<1> QED
  BY ServerInvariants, <1>2, PTL

(* The history is never trimmed: it holds every frame a resampled client   *)
(* has sent (dsp.rs, line 181).                                            *)
HistoryKept == \A c \in Clients : resampler[c].hist = received[c]

THEOREM NothingIsTrimmed == Spec => []HistoryKept
<1>1. CInv /\ SInv => HistoryKept
  BY DEF SInv, StreamsExact, Exact, HistoryKept
<1> QED
  BY ServerInvariants, <1>1, PTL

-----------------------------------------------------------------------------
(* A command that is being applied alone is the one that muted follows.    *)
Alone ==
  settled =>
    /\ \A c, d \in Clients : ApplyingMute(c) /\ ApplyingMute(d) => c = d
    /\ \A c \in Clients : ApplyingMute(c) => muted = (thread[c] = "mute")
    /\ (\A c \in Clients : ~ApplyingMute(c)) => led = muted

MTyped == muted \in BOOLEAN /\ led \in BOOLEAN /\ settled \in BOOLEAN

MInv == MTyped /\ Alone

LEMMA IdleStepKeepsMute ==
  ASSUME MInv, UNCHANGED mute,
         \A c \in Clients : ApplyingMute(c) <=> ApplyingMute(c)',
         \A c \in Clients : ApplyingMute(c) => thread'[c] = thread[c]
  PROVE  MInv'
BY DEF MInv, MTyped, Alone, mute

(* A thread that applies no command goes on to a point where it applies    *)
(* none.                                                                   *)
LEMMA MoveKeepsMute ==
  ASSUME CTyped, MInv, UNCHANGED mute, NEW c \in Clients, ~ApplyingMute(c),
         NEW t \in {"none", "start", "idle", "reading", "reply"},
         thread' = [thread EXCEPT ![c] = t]
  PROVE  MInv'
<1>1. \A d \in Clients : d # c => thread'[d] = thread[d]
  BY DEF CTyped
<1>2. thread'[c] = t
  BY DEF CTyped
<1>3. \A d \in Clients : ApplyingMute(d)' <=> thread'[d] \in {"mute", "unmute"}
  BY DEF ApplyingMute
<1>4. \A d \in Clients : /\ ApplyingMute(d) <=> ApplyingMute(d)'
                         /\ ApplyingMute(d) => thread'[d] = thread[d]
  BY <1>1, <1>2, <1>3 DEF ApplyingMute
<1> QED
  BY <1>4, IdleStepKeepsMute

LEMMA CommandKeepsMute ==
  ASSUME CTyped, MInv, NEW c \in Clients,
         WriteLed(c) \/ \E on \in BOOLEAN : Store(c, on)
  PROVE  MInv'
<1> USE DEF CTyped, MInv, MTyped, Alone, ApplyingMute
<1>1. ASSUME NEW on \in BOOLEAN, Store(c, on) PROVE MInv'
  <2>1. /\ thread'[c] = IF on THEN "mute" ELSE "unmute"
        /\ \A d \in Clients : d # c => thread'[d] = thread[d]
        /\ muted' = on /\ led' = led
        /\ settled' = ~\E d \in Clients : ApplyingMute(d)
    BY <1>1 DEF Store
  <2>2. CASE on
    BY <2>1, <2>2
  <2>3. CASE ~on
    BY <2>1, <2>3
  <2> QED
    BY <2>2, <2>3
<1>2. CASE WriteLed(c)
  <2>1. /\ thread'[c] = "idle" /\ \A d \in Clients : d # c => thread'[d] = thread[d]
        /\ led' = (thread[c] = "mute") /\ muted' = muted /\ settled' = settled
        /\ ApplyingMute(c)
    BY <1>2 DEF WriteLed
  <2> QED
    BY <2>1
<1> QED
  BY <1>1, <1>2

(* A process that has ended has no threads, and the next one no commands.  *)
Ended == main = "down" => ~settled /\ \A c \in Clients : thread[c] = "none"

LEMMA EndedKept ==
  ASSUME Ended, [Next]_vars
  PROVE  Ended'
<1> USE DEF Ended
<1>1. CASE main' # "down"
  BY <1>1
<1>2. CASE UNCHANGED <<main, thread, settled>>
  BY <1>2
<1>3. CASE Gone
  BY <1>3 DEF Gone, None
<1>4. CASE Main
  BY <1>1, <1>3, <1>4 DEF Main, CheckShutdown, Accept, Dispatch, HeaderFails, NextClient, Exit
<1>5. ASSUME NEW c \in Clients, Thread(c) PROVE Ended'
  BY <1>5 DEF Thread, Admit, Refuse, SeeShutdown, EndOfFile, WriteLed, Reply, ApplyingMute, To,
            others
<1>6. ASSUME NEW c \in Clients, FinishFrame(c) PROVE Ended'
  BY <1>6 DEF FinishFrame, Store, Status, OtherCommand, BadCommand, Payload, To, others
<1>7. ASSUME NEW c \in Clients, StartFrame(c) PROVE Ended'
  BY <1>7 DEF StartFrame, To, others
<1>8. ASSUME NEW c \in Clients, Connect(c) \/ SendHeader(c) \/ ReadReply(c) \/ Leave(c)
      PROVE  Ended'
  BY <1>2, <1>8 DEF Connect, SendHeader, ReadReply, Leave, others, mute
<1>9. CASE Sigterm \/ Crash \/ Restart \/ UNCHANGED vars
  BY <1>1, <1>2, <1>3, <1>9 DEF Sigterm, Crash, Restart, vars, mute
<1> QED
  BY <1>4, <1>5, <1>6, <1>7, <1>8, <1>9 DEF Next

LEMMA MuteKept ==
  ASSUME CInv, MInv, Ended, [Next]_vars
  PROVE  MInv'
<1> USE DEF CInv
<1>1. CASE UNCHANGED <<thread, mute>>
  BY <1>1, IdleStepKeepsMute DEF ApplyingMute
<1>2. ASSUME NEW c \in Clients, Close(c), ~ApplyingMute(c), UNCHANGED mute PROVE MInv'
  BY <1>2, MoveKeepsMute DEF Close, None
<1>3. ASSUME NEW c \in Clients, NEW from, NEW to \in {"idle", "reading", "reply"},
             To(c, from, to), from \notin {"mute", "unmute"}, UNCHANGED mute
      PROVE  MInv'
  BY <1>3, MoveKeepsMute DEF To, ApplyingMute
<1>4. CASE Gone
  BY <1>4 DEF Gone, MInv, MTyped, Alone
<1>5. CASE Main
  <2>1. main = "header" => current \in Clients /\ ~ApplyingMute(current)
    BY DEF InOnePlace, ApplyingMute
  <2>2. CASE Dispatch
    BY <2>1, <2>2, <1>2, MoveKeepsMute DEF Dispatch
  <2>3. CASE CheckShutdown \/ Accept
    BY <1>1, <2>3 DEF CheckShutdown, Accept
  <2>4. CASE HeaderFails
    BY <2>1, <2>4, <1>2 DEF HeaderFails
  <2> QED
    BY <1>4, <1>5, <2>2, <2>3, <2>4 DEF Main, Exit
<1>6. ASSUME NEW c \in Clients, Thread(c) PROVE MInv'
  <2>1. CASE Admit(c) \/ Reply(c)
    BY <2>1, <1>3 DEF Admit, Reply
  <2>2. CASE Refuse(c) \/ SeeShutdown(c) \/ EndOfFile(c)
    BY <2>2, <1>2 DEF Refuse, SeeShutdown, EndOfFile, ApplyingMute
  <2>3. CASE WriteLed(c)
    BY <2>3, CommandKeepsMute
  <2> QED
    BY <1>6, <2>1, <2>2, <2>3 DEF Thread
<1>7. ASSUME NEW c \in Clients, FinishFrame(c) PROVE MInv'
  <2>1. CASE BadCommand(c)
    BY <2>1, <1>2 DEF BadCommand, ApplyingMute
  <2>2. CASE Status(c) \/ OtherCommand(c)
    BY <2>2, <1>3 DEF Status, OtherCommand
  <2>3. ASSUME NEW len \in Lens, Payload(c, len) PROVE MInv'
    BY <2>3, <1>3 DEF Payload
  <2> QED
    BY <1>7, <2>1, <2>2, <2>3, CommandKeepsMute DEF FinishFrame
<1>8. ASSUME NEW c \in Clients, StartFrame(c) PROVE MInv'
  BY <1>8, <1>3 DEF StartFrame
<1>9. ASSUME NEW c \in Clients, Connect(c) \/ SendHeader(c) \/ ReadReply(c) \/ Leave(c)
      PROVE  MInv'
  BY <1>9, <1>1 DEF Connect, SendHeader, ReadReply, Leave
<1>10. CASE Sigterm \/ UNCHANGED vars
  BY <1>10, <1>1 DEF Sigterm, vars
<1>11. CASE Restart
  BY <1>11 DEF Restart, Ended, MInv, MTyped, Alone
<1> QED
  BY <1>4, <1>5, <1>6, <1>7, <1>8, <1>9, <1>10, <1>11 DEF Next, Crash

(* "audiod ... writes it so the LED matches the real mute state": for any  *)
(* number of clients that mute and unmute, unless two commands overlapped. *)
THEOREM LedIsTruthful == Spec => []LedTruthful
<1>1. Init => MInv /\ Ended
  BY DEF Init, MInv, MTyped, Alone, Ended
<1>2. CInv /\ MInv /\ Ended /\ [Next]_vars => MInv' /\ Ended'
  BY MuteKept, EndedKept
<1>3. MInv => LedTruthful
  BY DEF MInv, Alone, LedTruthful
<1> QED
  BY ServerInvariants, <1>1, <1>2, <1>3, PTL DEF Spec

=============================================================================
