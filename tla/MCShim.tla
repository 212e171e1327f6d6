------------------------------- MODULE MCShim -------------------------------
(* Writes of two frames, drained one at a time through a ring of two, so   *)
(* that a write waits for a ring that is half empty; a socket buffer that  *)
(* holds three items, enough for a header between two commands.            *)
EXTENDS Shim
=============================================================================
