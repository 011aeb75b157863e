------------------------------ MODULE MCHandoff ------------------------------
(* The four firmwares on a small ring. *)
EXTENDS Handoff
=============================================================================
