------------------------------- MODULE MCMoves -------------------------------
(* Lines and arcs in a small box. *)
EXTENDS Moves, TLC

Vector(a, b, c) == (0 :> a) @@ (1 :> b) @@ (2 :> c)

\* Every order of the axes, ties, odd and even lengths, an axis of no length.
SomeLineSteps == {d \in [Axes -> -2 .. 2] : d[0] \in 0 .. 2 /\ d[2] \in -1 .. 1}
LongLineSteps == [Axes -> -3 .. 3]

\* One axis or two at a time, and the jumps of two steps that rounding allows.
SomeArcSteps == {Vector(-1, 1, 0), Vector(0, 2, 0), Vector(0, -2, 0)}
=============================================================================
