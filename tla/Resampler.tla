------------------------------ MODULE Resampler ------------------------------
(***************************************************************************)
(* The position arithmetic of the streaming resampler (Resampler,          *)
(* server/src/dsp.rs): which input frames each output frame is made of.    *)
(* The coefficients it weighs them with follow from `pos` alone and are    *)
(* left out.                                                               *)
(*                                                                         *)
(* An output is <<base, rem>>: interpolated from the Taps frames of `hist` *)
(* from base on, rem / StepDen of a frame further.                         *)
(***************************************************************************)
EXTENDS Integers, FiniteSets

CONSTANTS StepNum, StepDen,  (* src / gcd and dst / gcd: input frames an   *)
                             (* output frame advances by                   *)
          Taps,              (* TAPS                                       *)
          Keep               (* TAPS - 1 (sinc) or 1 (linear)              *)

ASSUME ResamplerAssumption ==
  /\ StepNum \in Nat \ {0} /\ StepDen \in Nat \ {0}
  /\ Taps \in Nat \ {0} /\ Keep \in 1 .. Taps

(* Resampler::new                                                          *)
NewResampler == [pos |-> 0, hist |-> 0, off |-> 0]

(* The index of the frame that a position falls into, and how far.         *)
Base(pos) == pos \div StepDen
Rem(pos) == pos % StepDen

(* Output frames that can be made from `pos` on with so many in hist.      *)
Producible(pos, frames) ==
  Cardinality({k \in 0 .. frames * StepDen : Base(pos + k * StepNum) + Taps <= frames})

MinOf(a, b) == IF a < b THEN a ELSE b
MaxOf(a, b) == IF a < b THEN b ELSE a

(* Mutant of Trims: as the comment puts it, both sides counted in frames.  *)
TrimsDeadPrefix(off, frames) == off > frames - off

(* `off * 2 > hist.len()`, where hist holds two samples a frame.           *)
Trims(off, frames) == off * 2 > frames * 2

(* resample(): append, produce, retire.                                    *)
Resample(r, input) ==
  LET frames == r.hist + input
      pos == r.pos + Producible(r.pos, frames) * StepNum
      off == MaxOf(r.off, MinOf(Base(pos), MaxOf(frames - Keep, 0)))
  IN  IF Trims(off, frames)
      THEN [pos |-> pos, hist |-> frames - off, off |-> 0]
      ELSE [pos |-> pos, hist |-> frames, off |-> off]

(* Outputs of one call.                                                    *)
Outputs(r, input) == Producible(r.pos, r.hist + input)

=============================================================================
