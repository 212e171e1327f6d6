-------------------------------- MODULE Ring --------------------------------
(***************************************************************************)
(* AudioRingBuffer (common/src/ring.rs): the bounded byte ring between one *)
(* producer thread and one consumer thread.  The shim's ring has the       *)
(* application as producer (push, clear, interrupt) and the drain thread   *)
(* as consumer (pop); a server stream's ring has the reader thread as      *)
(* producer (push) and the mixer as consumer (try_pop, clear).             *)
(*                                                                         *)
(* A critical section of the mutex is one step, with one exception: pop    *)
(* tests `interrupted` under the mutex but interrupt() sets it without, so *)
(* the consumer is given a state between its tests and Condvar::wait, in   *)
(* which it still holds the mutex.  notify_one after the unlock is a step  *)
(* of its own, as is each half of interrupt().                             *)
(***************************************************************************)
EXTENDS Integers, Sequences

CONSTANTS Cap,      (* cap: the capacity in bytes                          *)
          Byte,     (* the byte values                                     *)
          Chunks,   (* the data a push may be given                        *)
          Wants     (* the lengths of the buffer a pop may be given        *)

ASSUME RingAssumption ==
  /\ Cap \in Nat \ {0}
  /\ 0 \in Byte
  /\ Chunks \subseteq Seq(Byte) \ {<<>>}
  /\ Wants \subseteq Nat \ {0}

VARIABLES
  buf, read_pos, write_pos,  (* Inner, behind the mutex                    *)
  filled,                    (* AtomicUsize, written only under the mutex  *)
  interrupted,               (* AtomicBool, written by interrupt() outside *)
  producer, consumer,        (* what each thread is doing                  *)
  data,                      (* the argument of the push under way         *)
  want,                      (* buf.len() of the pop or try_pop under way  *)
  ret                        (* what the last pop or try_pop returned      *)

inner == <<buf, read_pos, write_pos, filled>>
vars == <<buf, read_pos, write_pos, filled, interrupted,
          producer, consumer, data, want, ret>>

Cells == 0 .. Cap - 1

Init ==
  /\ buf = [i \in Cells |-> 0]
  /\ read_pos = 0 /\ write_pos = 0 /\ filled = 0
  /\ interrupted = FALSE
  /\ producer = "idle" /\ consumer = "idle"
  /\ data = <<>> /\ want = 0 /\ ret = <<>>

(* The capacity `new` settles on: cap.next_power_of_two().                 *)
NextPowerOfTwo(n) ==
  CHOOSE p \in {2 ^ k : k \in 0 .. n} :
    p >= n /\ \A k \in 0 .. n : 2 ^ k >= n => p <= 2 ^ k

(* A position moved n cells on, wrapping at cap.                           *)
Advance(pos, n) == IF pos + n >= Cap THEN pos + n - Cap ELSE pos + n

(* Mutant of CopyIn: the part past the end is not wrapped.                 *)
CopyInNoWrap(pos, d) ==
  [i \in Cells |-> IF pos <= i /\ i < pos + Len(d) THEN d[i - pos + 1] ELSE buf[i]]

(* The buffer after d was copied in at pos, its tail wrapped to cell 0.    *)
CopyIn(pos, d) ==
  [i \in Cells |->
     IF pos <= i /\ i < pos + Len(d) THEN d[i - pos + 1]
     ELSE IF i + Cap < pos + Len(d) THEN d[i + Cap - pos + 1]
     ELSE buf[i]]

(* The bytes between read_pos and write_pos, oldest first.                 *)
Contents == [k \in 1 .. filled |-> buf[Advance(read_pos, k - 1)]]

MutexFree == consumer # "parking"

-----------------------------------------------------------------------------
(* push: `data` non-empty; an empty one returns at once and changes        *)
(* nothing.                                                                *)

PushCall(d) ==
  /\ producer = "idle"
  /\ producer' = "push" /\ data' = d
  /\ UNCHANGED <<inner, interrupted, consumer, want, ret>>

PushFits == filled + Len(data) <= Cap

PushWait ==
  /\ producer = "push" /\ MutexFree /\ ~PushFits
  /\ producer' = "blocked"
  /\ UNCHANGED <<inner, interrupted, consumer, data, want, ret>>

PushStore ==
  /\ producer = "push" /\ MutexFree /\ PushFits
  /\ buf' = CopyIn(write_pos, data)
  /\ write_pos' = Advance(write_pos, Len(data))
  /\ filled' = filled + Len(data)
  /\ producer' = "notify"
  /\ UNCHANGED <<read_pos, interrupted, consumer, data, want, ret>>

(* Mutant of PushNotify: nobody is woken.                                  *)
PushNotifySkipped ==
  /\ producer = "notify"
  /\ producer' = "idle" /\ data' = <<>>
  /\ UNCHANGED <<inner, interrupted, consumer, want, ret>>

(* data_avail.notify_one(), after the mutex was released.                  *)
PushNotify ==
  /\ producer = "notify"
  /\ producer' = "idle" /\ data' = <<>>
  /\ consumer' = IF consumer = "waiting" THEN "pop" ELSE consumer
  /\ UNCHANGED <<inner, interrupted, want, ret>>

-----------------------------------------------------------------------------
(* interrupt: neither step takes the mutex.                                *)

InterruptStore ==
  /\ producer = "idle"
  /\ interrupted' = TRUE
  /\ producer' = "interrupt"
  /\ UNCHANGED <<inner, consumer, data, want, ret>>

InterruptNotify ==
  /\ producer = "interrupt"
  /\ producer' = "idle"
  /\ consumer' = IF consumer = "waiting" THEN "pop" ELSE consumer
  /\ UNCHANGED <<inner, interrupted, data, want, ret>>

-----------------------------------------------------------------------------
(* pop and try_pop.                                                        *)

PopCall(n) ==
  /\ consumer = "idle"
  /\ consumer' = "pop" /\ want' = n
  /\ UNCHANGED <<inner, interrupted, producer, data, ret>>

TryPopCall(n) ==
  /\ consumer = "idle"
  /\ consumer' = "try_pop" /\ want' = n
  /\ UNCHANGED <<inner, interrupted, producer, data, ret>>

(* Both look at `interrupted` first and give up without copying.           *)
PopInterrupted ==
  /\ consumer \in {"pop", "try_pop"} /\ interrupted
  /\ interrupted' = FALSE
  /\ ret' = <<>>
  /\ consumer' = "idle"
  /\ UNCHANGED <<inner, producer, data, want>>

TryPopEmpty ==
  /\ consumer = "try_pop" /\ ~interrupted /\ filled = 0
  /\ ret' = <<>>
  /\ consumer' = "idle"
  /\ UNCHANGED <<inner, interrupted, producer, data, want>>

(* pop has seen neither an interrupt nor data; it holds the mutex ...      *)
PopFoundNothing ==
  /\ consumer = "pop" /\ ~interrupted /\ filled = 0
  /\ consumer' = "parking"
  /\ UNCHANGED <<inner, interrupted, producer, data, want, ret>>

(* ... until data_avail.wait releases it and parks the thread in one step. *)
PopWait ==
  /\ consumer = "parking"
  /\ consumer' = "waiting"
  /\ UNCHANGED <<inner, interrupted, producer, data, want, ret>>

ToRead == IF want < filled THEN want ELSE filled

(* copy_out, with the unlock that follows it.                              *)
PopCopy ==
  /\ consumer \in {"pop", "try_pop"} /\ ~interrupted /\ filled > 0
  /\ ret' = [k \in 1 .. ToRead |-> buf[Advance(read_pos, k - 1)]]
  /\ read_pos' = Advance(read_pos, ToRead)
  /\ filled' = filled - ToRead
  /\ consumer' = "notify"
  /\ UNCHANGED <<buf, write_pos, interrupted, producer, data, want>>

(* Mutant of PopNotify: nobody is woken.                                   *)
PopNotifySkipped ==
  /\ consumer = "notify"
  /\ consumer' = "idle"
  /\ UNCHANGED <<inner, interrupted, producer, data, want, ret>>

(* space_avail.notify_one(), after the mutex was released.                 *)
PopNotify ==
  /\ consumer = "notify"
  /\ consumer' = "idle"
  /\ producer' = IF producer = "blocked" THEN "push" ELSE producer
  /\ UNCHANGED <<inner, interrupted, data, want, ret>>

-----------------------------------------------------------------------------
(* clear, by whichever thread is free: its notify_all calls are made under *)
(* the mutex.  (The producer clears the shim's ring, the mixer a stream's.)*)
Clear ==
  /\ producer = "idle" \/ consumer = "idle"
  /\ MutexFree
  /\ read_pos' = 0 /\ write_pos' = 0 /\ filled' = 0
  /\ producer' = IF producer = "blocked" THEN "push" ELSE producer
  /\ consumer' = IF consumer = "waiting" THEN "pop" ELSE consumer
  /\ UNCHANGED <<buf, interrupted, data, want, ret>>

(* Condvar::wait may return unasked; both loops then test again.           *)
SpuriousWakeup ==
  \/ /\ producer = "blocked" /\ producer' = "push"
     /\ UNCHANGED <<inner, interrupted, consumer, data, want, ret>>
  \/ /\ consumer = "waiting" /\ consumer' = "pop"
     /\ UNCHANGED <<inner, interrupted, producer, data, want, ret>>

Push == PushWait \/ PushStore \/ PushNotify
Pop == \/ PopInterrupted \/ TryPopEmpty \/ PopFoundNothing \/ PopWait
       \/ PopCopy \/ PopNotify
Call == \/ \E d \in Chunks : PushCall(d)
        \/ \E n \in Wants : PopCall(n) \/ TryPopCall(n)

Next == \/ Call \/ Push \/ Pop
        \/ InterruptStore \/ InterruptNotify
        \/ Clear \/ SpuriousWakeup

Spec == Init /\ [][Next]_vars

(* A thread inside an operation keeps running, and one that keeps asking   *)
(* for the mutex gets it.  Starting an operation, and spurious wakeups,    *)
(* are left to chance, except in ConsumerLoops: the drain thread and the   *)
(* mixer call pop and try_pop again and again.                             *)
Fairness ==
  /\ SF_vars(Push) /\ SF_vars(Pop) /\ WF_vars(InterruptNotify)
ConsumerLoops == WF_vars(\E n \in Wants : PopCall(n) \/ TryPopCall(n))
FairSpec == Spec /\ Fairness /\ ConsumerLoops

-----------------------------------------------------------------------------
TypeOK ==
  /\ buf \in [Cells -> Byte]
  /\ read_pos \in Cells /\ write_pos \in Cells /\ filled \in 0 .. Cap
  /\ interrupted \in BOOLEAN
  /\ producer \in {"idle", "push", "blocked", "notify", "interrupt"}
  /\ consumer \in {"idle", "pop", "try_pop", "parking", "waiting", "notify"}
  /\ data \in Chunks \cup {<<>>} /\ (producer \in {"push", "blocked"} => data \in Chunks)
  /\ want \in Wants \cup {0} /\ (consumer \notin {"idle", "notify"} => want \in Wants)
  /\ ret \in Seq(Byte)

(* The two positions and the byte count, three variables updated by three  *)
(* operations with two ways to wrap, always describe the same region.      *)
RegionConsistent == write_pos = Advance(read_pos, filled)

(* No wakeup of a blocked push is lost: while it sleeps its data does not  *)
(* fit, or the pop that made room has its notify_one still to come.        *)
NoStrandedProducer ==
  producer = "blocked" /\ PushFits => consumer = "notify"

(* No wakeup of a waiting pop is lost to the producer's pushes: nothing    *)
(* arrives between pop's tests and its wait, and while it sleeps the ring  *)
(* is empty, or the push that filled it has its notify_one still to come,  *)
(* although that call is made after the unlock.                            *)
NoStrandedConsumer ==
  /\ consumer = "parking" => filled = 0
  /\ consumer = "waiting" /\ filled > 0 => producer = "notify"

(* The ring is a bounded FIFO of bytes: every push appends its chunk whole *)
(* and in order, every pop and try_pop returns the oldest bytes, and they  *)
(* return nothing only from an empty or interrupted ring.                  *)
Fifo == INSTANCE BoundedFifo WITH queue <- Contents, out <- ret
RingIsFifo == Fifo!Spec

(* Backpressure ends: as long as the consumer keeps popping, a blocked     *)
(* push returns (snd_pcm_writei and the reader thread rely on it).         *)
PushReturns == producer \in {"push", "blocked"} ~> producer = "idle"

(* A consumer inside pop gets the data that is there, unless a clear takes *)
(* it away.                                                                *)
PopReturns ==
  consumer \in {"pop", "parking", "waiting"} /\ filled > 0
    ~> consumer \in {"notify", "idle"} \/ filled = 0

(* "Interrupt any blocked pop() call, making it return empty."  (ring.rs,  *)
(* the comment on interrupt.)  snd_pcm_close joins the drain thread on the *)
(* strength of it.                                                         *)
InterruptEndsPop ==
  interrupted /\ consumer \in {"pop", "parking", "waiting"}
    ~> consumer \in {"notify", "idle"}

=============================================================================
