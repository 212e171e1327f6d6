------------------------------- MODULE MCMixer -------------------------------
(* Two clients, a limit of one, rings of two frames of two bytes each, a   *)
(* DMA ring of four frames filled to two in writes of one.                 *)
EXTENDS Mixer, TLC

MCSymmetry == Permutations(Clients)
=============================================================================
