------------------------------- MODULE MCRing -------------------------------
(* Ring on a capacity of four bytes (three asked for), two byte values,    *)
(* chunks of one, two and four bytes and offers of one and three bytes.    *)
EXTENDS Ring

MCCap == NextPowerOfTwo(3)
MCChunks == {<<1>>, <<0, 1>>, <<0, 1, 1, 1>>}
MCWants == {1, 3}

(* The liveness runs tell sizes apart, not contents.                       *)
MCLiveChunks == {<<0>>, <<0, 0, 0>>, <<0, 0, 0, 0>>}
MCLiveWants == {1, 3}
=============================================================================
