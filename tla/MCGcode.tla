------------------------------- MODULE MCGcode -------------------------------
(* All texts of a few characters, with all that can follow them. *)
EXTENDS Gcode
=============================================================================
