------------------------------ MODULE MCConsole ------------------------------
(* The serial line, with a host of few and short lines. *)
EXTENDS Console
=============================================================================
