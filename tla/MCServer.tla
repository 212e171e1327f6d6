------------------------------ MODULE MCServer ------------------------------
(* Two clients that come and go, and a socket that holds one reply; 3:2    *)
(* downsampling over two taps, payloads of no, one and two whole frames    *)
(* and a byte more.                                                        *)
EXTENDS Server
=============================================================================
