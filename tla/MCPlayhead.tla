----------------------------- MODULE MCPlayhead -----------------------------
(* Playhead with a buffer of four units, half of it the server's baseline, *)
(* and a ring and a pipeline that hold more than the buffer advertised.    *)
EXTENDS Playhead
=============================================================================
