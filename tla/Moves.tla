-------------------------------- MODULE Moves --------------------------------
(****************************************************************************)
(* One move at a time, tick by tick: core/control/moves/moves.c, the line   *)
(* of moves_line/line.c (Bresenham in three axes), the positions of         *)
(* moves_common/common.c and the endstop test of planner.c.                 *)
(*                                                                          *)
(* An arc (moves_arc/arc.c) computes its steps in floating point. Here it   *)
(* asks for some step of ArcSteps at each tick and ends at any tick: what   *)
(* moves.c does with the steps and with the endstops is modelled, where an  *)
(* arc goes is not.                                                         *)
(*                                                                          *)
(* Lengths are integers, not int32_t: err[i] * 2 of line.c overflows only   *)
(* for moves of 2^30 steps.                                                 *)
(****************************************************************************)
EXTENDS Integers

CONSTANTS
    LineSteps,   \* bound: the steps of a line, per axis
    Travel,      \* bound: moves start and end within -1 .. Travel on every axis
    ArcSteps     \* the steps an arc may ask for in one tick

Axes == 0 .. 2
Vectors == [Axes -> Int]
Zero == [i \in Axes |-> 0]

\* The endstops are at 0: a step beyond them, and Travel on the other side.
Box == -1 .. Travel

ASSUME LineStepsAssumption == LineSteps \subseteq Vectors
ASSUME TravelAssumption == Travel \in Nat
ASSUME ArcStepsAssumption == ArcSteps \subseteq Vectors

VARIABLES
    kind,       \* current_move_type: "none", "line", "arc"
    outcome,    \* "idle", "moving", or how the last move ended
    ready,      \* moves.c: pos has caught up with target
    x,          \* current_plan->x of the line
    steps,      \* current_plan->steps
    maxi,       \* current_plan->maxi: an axis with the most steps
    t,          \* current_state.acc.current_t: steps made
    err,        \* current_state.err: Bresenham's error, per axis
    target,     \* position.target_pos
    pos,        \* position.pos
    origin      \* history: target_pos when the move started

lineVars == <<x, steps, maxi, t, err>>
vars == <<kind, outcome, ready, lineVars, target, pos, origin>>

-----------------------------------------------------------------------------
(* Operators                                                                *)

Abs(a) == IF a < 0 THEN -a ELSE a
Sign(a) == IF a > 0 THEN 1 ELSE IF a < 0 THEN -1 ELSE 0

\* bresenham_plan: the first axis with the most steps.
MaxAxis(d) ==
    CHOOSE i \in Axes :
        /\ \A j \in Axes : Abs(d[j]) <= Abs(d[i])
        /\ \A j \in 0 .. i - 1 : Abs(d[j]) < Abs(d[i])

\* make_step of line.c. The longest axis steps at every tick; the others
\* accumulate their length and step when half of the longest is reached.
Reached(i) == 2 * (err[i] + Abs(x[i])) >= steps

Steps(i) == i = maxi \/ Reached(i)

\* Mutant: the error grows on.
NextErrGrows == [i \in Axes |-> IF i = maxi THEN err[i] ELSE err[i] + Abs(x[i])]

NextErr ==
    [i \in Axes |->
        IF i = maxi THEN err[i]
        ELSE IF Reached(i) THEN err[i] + Abs(x[i]) - steps
        ELSE err[i] + Abs(x[i])]

\* current_state.dir
Direction(i) == Sign(x[i])

NextTarget == [i \in Axes |-> target[i] + (IF Steps(i) THEN Direction(i) ELSE 0)]

\* The endstops are at 0 on every axis, closed below it (emulation, tests).
Stop(i) == pos[i] <= 0

\* Mutant: the direction the wrong way round.
break_on_endstops_up(dx, probe) ==
    \/ \E i \in Axes : Stop(i) /\ dx[i] > 0
    \/ probe /\ dx[2] >= 0

\* break_on_endstops: dx is the direction of the move, as the move gives it.
\* The probe, when it breaks moves, breaks those that do not go up.
break_on_endstops(dx, probe) ==
    \/ \E i \in Axes : Stop(i) /\ dx[i] < 0
    \/ probe /\ dx[2] >= 0

\* arc.c passes current_state.dir, which nothing assigns.
CheckedDirection == IF kind = "line" THEN x ELSE Zero

-----------------------------------------------------------------------------

Init ==
    /\ kind = "none"
    /\ outcome = "idle"
    /\ ready = TRUE
    /\ x = Zero
    /\ steps = 0
    /\ maxi = 0
    /\ t = 0
    /\ err = Zero
    /\ target = Zero
    /\ pos = Zero
    /\ origin = Zero

\* Mutant: the error of the line before is kept.
StartLineKeepsErr(d) ==
    /\ outcome # "moving"
    /\ d # Zero
    /\ \A i \in Axes : target[i] + d[i] \in Box
    /\ kind' = "line"
    /\ outcome' = "moving"
    /\ ready' = TRUE
    /\ x' = d
    /\ maxi' = MaxAxis(d)
    /\ steps' = Abs(d[maxi'])
    /\ t' = 0
    /\ origin' = target
    /\ UNCHANGED <<err, target, pos>>

\* planner_line_to drops a line of no length; moves_line_to, line_move_to.
StartLine(d) ==
    /\ outcome # "moving"
    /\ d # Zero
    /\ \A i \in Axes : target[i] + d[i] \in Box
    /\ kind' = "line"
    /\ outcome' = "moving"
    /\ ready' = TRUE
    /\ x' = d
    /\ maxi' = MaxAxis(d)
    /\ steps' = Abs(d[maxi'])
    /\ t' = 0
    /\ err' = Zero
    /\ origin' = target
    /\ UNCHANGED <<target, pos>>

\* moves_arc_to, arc_move_to
StartArc ==
    /\ outcome # "moving"
    /\ ArcSteps # {}
    /\ kind' = "arc"
    /\ outcome' = "moving"
    /\ ready' = TRUE
    /\ origin' = target
    /\ UNCHANGED <<lineVars, target, pos>>

\* moves_break, by a lock.
Break ==
    /\ outcome = "moving"
    /\ kind' = "none"
    /\ outcome' = "idle"
    /\ UNCHANGED <<ready, lineVars, target, pos, origin>>

-----------------------------------------------------------------------------
(* moves_step_tick                                                          *)

\* Mutant: always ready.
MakeStepsReady(goal) ==
    /\ target' = goal
    /\ pos' = [i \in Axes |-> pos[i] + Sign(goal[i] - pos[i])]
    /\ ready' = TRUE

\* moves_common_make_steps: every axis one step towards its target, ready when
\* none was further away.
MakeSteps(goal) ==
    /\ target' = goal
    /\ pos' = [i \in Axes |-> pos[i] + Sign(goal[i] - pos[i])]
    /\ ready' = (\A i \in Axes : goal[i] - pos[i] \in -1 .. 1)

\* endstops_touched of planner.c: an error that breaks the move, or its end.
TouchTick(probe, fail) ==
    /\ break_on_endstops(CheckedDirection, probe)
    /\ IF fail
       THEN kind' = "none" /\ outcome' = "failed"
       ELSE kind' = kind /\ outcome' = "cut"
    /\ UNCHANGED <<ready, lineVars, target, pos, origin>>

\* Mutant: nobody is told.
FinishSilent == UNCHANGED vars

\* line_finished of planner.c
Finish ==
    /\ outcome' = "done"
    /\ UNCHANGED <<kind, ready, lineVars, target, pos, origin>>

\* Mutant: a step too many.
LineTickLate ==
    /\ kind = "line" /\ ready
    /\ IF t > steps
       THEN Finish
       ELSE /\ t' = t + 1
            /\ err' = NextErr
            /\ MakeSteps(NextTarget)
            /\ UNCHANGED <<kind, outcome, x, steps, maxi, origin>>

\* line_step_tick, then the steps.
LineTick ==
    /\ kind = "line" /\ ready
    /\ IF t >= steps
       THEN Finish
       ELSE /\ t' = t + 1
            /\ err' = NextErr
            /\ MakeSteps(NextTarget)
            /\ UNCHANGED <<kind, outcome, x, steps, maxi, origin>>

\* arc_step_tick, then the steps.
ArcTick ==
    /\ kind = "arc" /\ ready
    /\ \/ Finish
       \/ \E d \in ArcSteps :
            /\ \A i \in Axes : target[i] + d[i] \in Box
            /\ MakeSteps([i \in Axes |-> target[i] + d[i]])
            /\ UNCHANGED <<kind, outcome, lineVars, origin>>

\* Not ready: move to target position.
CatchUpTick ==
    /\ ~ready
    /\ MakeSteps(target)
    /\ UNCHANGED <<kind, outcome, lineVars, origin>>

moves_step_tick ==
    /\ outcome = "moving"
    /\ \E probe, fail \in BOOLEAN :
        \/ TouchTick(probe, fail)
        \/ /\ ~break_on_endstops(CheckedDirection, probe)
           /\ LineTick \/ ArcTick \/ CatchUpTick

Next ==
    \/ \E d \in LineSteps : StartLine(d)
    \/ StartArc
    \/ Break
    \/ moves_step_tick

Spec == Init /\ [][Next]_vars

\* The timer goes on firing while a move runs.
FairSpec == Spec /\ WF_vars(moves_step_tick)

-----------------------------------------------------------------------------
(* Properties                                                               *)

TypeOK ==
    /\ kind \in {"none", "line", "arc"}
    /\ outcome \in {"idle", "moving", "done", "cut", "failed"}
    /\ ready \in BOOLEAN
    /\ x \in Vectors
    /\ steps \in Nat
    /\ maxi \in Axes
    /\ t \in 0 .. steps
    /\ err \in Vectors
    /\ target \in Vectors
    /\ pos \in Vectors
    /\ origin \in Vectors

OnLine == kind = "line" /\ outcome # "idle"

\* Bresenham in integers stays within half a step of the straight line, on
\* every axis and at every tick.
Straight ==
    OnLine => \A i \in Axes :
        2 * Abs(t * x[i] - steps * (target[i] - origin[i])) <= steps

\* A line that is not broken makes exactly the steps asked for.
Exact ==
    kind = "line" /\ outcome = "done" =>
        \A i \in Axes : target[i] = origin[i] + x[i]

\* A line never ends with steps still owed: the axes are where target_pos is,
\* whatever an earlier, broken arc had left behind.
Arrived == kind = "line" /\ outcome = "done" => pos = target

\* No axis steps down while its endstop is closed.
NeverThroughStop ==
    [][\A i \in Axes : pos'[i] < pos[i] => ~Stop(i)]_vars

\* A line that goes down never does, even while it makes the steps an earlier
\* arc has left behind.
LineStopsInTime ==
    [][kind = "line" => \A i \in Axes : x[i] < 0 /\ pos'[i] < pos[i] => ~Stop(i)]_vars

\* Every line comes to its end.
LineEnds == kind = "line" /\ outcome = "moving" ~> outcome # "moving"

=============================================================================
