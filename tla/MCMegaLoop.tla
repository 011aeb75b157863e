----------------------------- MODULE MCMegaLoop ------------------------------
(* The mega2560 firmware on a small ring. *)
EXTENDS MegaLoop
=============================================================================
