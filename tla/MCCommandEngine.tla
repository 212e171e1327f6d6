-------------------------- MODULE MCCommandEngine --------------------------
(* Two codecs and rings of three entries: few enough to fill up and to     *)
(* overrun, enough for two responses to arrive at once.                    *)
EXTENDS CommandEngine
=============================================================================
