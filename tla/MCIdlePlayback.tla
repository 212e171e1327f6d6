--------------------------- MODULE MCIdlePlayback ---------------------------
(* IdlePlayback with the proportions of the code, a target below the idle  *)
(* time below the ring, in as few units as keep them apart.                *)
EXTENDS IdlePlayback
=============================================================================
