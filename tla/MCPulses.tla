------------------------------- MODULE MCPulses ------------------------------
(* Two motors; a timer that counts once in 4 microseconds, as the mega2560's. *)
EXTENDS Pulses
=============================================================================
