--------------------------- MODULE MCAcceleration ----------------------------
(* Lines of a few steps, with ramps of up to four. *)
EXTENDS Acceleration

SomeLengths == 1 .. 9
SomeFeeds == {0, 23, 32, 64, 90}
=============================================================================
