---------------------------- MODULE BoundedFifo ----------------------------
(***************************************************************************)
(* What AudioRingBuffer (common/src/ring.rs) promises its two users: a     *)
(* bounded first-in first-out queue of bytes.  A chunk enters whole or not *)
(* yet, a reader takes a prefix, a reset forgets everything, and a reader  *)
(* comes back empty-handed only when the queue is empty or it was          *)
(* interrupted.                                                            *)
(***************************************************************************)
EXTENDS Integers, Sequences

CONSTANTS Cap,      (* capacity in bytes                                   *)
          Chunks,   (* the byte sequences a producer may push              *)
          Wants     (* the sizes of the buffers a consumer may offer       *)

VARIABLES queue,        (* bytes pushed and neither taken nor reset        *)
          out,          (* what the last completed take returned           *)
          interrupted   (* an interrupt no take has answered yet           *)

vars == <<queue, out, interrupted>>

Init == queue = <<>> /\ out = <<>> /\ interrupted = FALSE

Put(d) ==
  /\ Len(queue) + Len(d) <= Cap
  /\ queue' = queue \o d
  /\ UNCHANGED <<out, interrupted>>

Take(n) ==
  LET m == IF n < Len(queue) THEN n ELSE Len(queue) IN
  /\ queue # <<>>
  /\ out' = SubSeq(queue, 1, m)
  /\ queue' = SubSeq(queue, m + 1, Len(queue))
  /\ UNCHANGED interrupted

TakeNothing ==
  /\ \/ interrupted /\ interrupted' = FALSE
     \/ queue = <<>> /\ UNCHANGED interrupted
  /\ out' = <<>>
  /\ UNCHANGED queue

Reset == queue' = <<>> /\ UNCHANGED <<out, interrupted>>

Interrupt == interrupted' = TRUE /\ UNCHANGED <<queue, out>>

Next ==
  \/ \E d \in Chunks : Put(d)
  \/ \E n \in Wants : Take(n)
  \/ TakeNothing
  \/ Reset
  \/ Interrupt

Spec == Init /\ [][Next]_vars
=============================================================================
