---------------------------- MODULE Acceleration ----------------------------
(****************************************************************************)
(* The speed of a line: its profile from line_pre_calculate                 *)
(* (moves_line/line.c) and the state machine that follows it step by step   *)
(* (moves_common/acceleration.c).                                           *)
(*                                                                          *)
(* The line goes along one axis, so that its steps are equally long. Feeds  *)
(* are given by their squares: a step at an acceleration adds 2 * a * ds,   *)
(* here Gain, to the square of the feed, and the length of a ramp is a      *)
(* difference of squares over Gain. The code adds a * ds / v to v instead,  *)
(* that is Gain and Gain^2 / 4v^2 to the square; this is rounded either     *)
(* way to an integer. Over a ramp of a hundred steps and more these add up  *)
(* to more than a Gain (Surplus).                                           *)
(****************************************************************************)
EXTENDS Integers

CONSTANTS
    Lengths,     \* bound: the steps a line may have (current_t, a float, counts 2^24)
    Feeds,       \* bound: the feeds a command may ask for, squared
    FEED_BASE,   \* moves_common_def.feed_base, squared
    FEED_MAX,    \* moves_common_def.feed_max, squared; 0: no limit
    Gain,        \* 2 * acceleration * len / steps
    UINT         \* values of steps, acc_steps and dec_steps: 2^32

ASSUME AccelerationAssumption ==
    /\ Lengths \subseteq Nat \ {0} /\ \A n \in Lengths : 2 * n < UINT
    /\ Feeds \subseteq Nat
    /\ FEED_BASE \in Nat \ {0}
    /\ FEED_MAX \in Nat /\ (FEED_MAX = 0 \/ FEED_MAX >= FEED_BASE)
    /\ Gain \in Nat \ {0}
    /\ UINT \in Nat \ {0}

Unsigned == 0 .. UINT - 1
Wrap(n) == n % UINT

VARIABLES
    moving,                  \* between line_started and line_finished
    steps,                   \* the plan of the line ...
    feed, feed0, feed1,
    acc_steps, dec_steps,
    asked,                   \* history: how long its two ramps should be
    type,                    \* acceleration_state.type
    current_t,               \* acceleration_state.current_t
    speed                    \* acceleration_state.feed, squared

plan == <<steps, feed, feed0, feed1, acc_steps, dec_steps, asked>>
vars == <<moving, plan, type, current_t, speed>>

-----------------------------------------------------------------------------
(* line_pre_calculate                                                       *)

Clamp(f, low, high) == IF f < low THEN low ELSE IF f > high THEN high ELSE f

TargetFeed(f) == Clamp(f, FEED_BASE, IF FEED_MAX > 0 THEN FEED_MAX ELSE f)
EdgeFeed(f, target) == Clamp(f, FEED_BASE, target)

\* Conversion of n / d to uint32_t: towards zero, and undefined out of range, where
\* it wraps (x86) or gives the nearest value there is (ARM).
ToUnsigned(n, d) ==
    IF n < 0 THEN {0, Wrap(-((-n) \div d))}
    ELSE IF n \div d \in Unsigned THEN {n \div d}
    ELSE {UINT - 1, Wrap(n \div d)}

\* Mutants: a ramp of half the length; the ramp at the end from the first feed.
AccStepsHalf(f0, f) == ToUnsigned(f - f0, 2 * Gain)

DecStepsFirst(f0, f1, f, n) == ToUnsigned(n * Gain - (f - f0), Gain)

\* acceleration(feed0, feed, acc, len, 0, steps): the length of the first ramp.
AccSteps(f0, f) == ToUnsigned(f - f0, Gain)

\* acceleration(feed1, feed, acc, len, steps, 0): where the last ramp begins.
DecSteps(f0, f1, f, n) == ToUnsigned(n * Gain - (f - f1), Gain)

\* The sum of the two is compared with the length of the line, as if dec were a
\* length. What is done about negative ones is dead code: they are unsigned.
Balanced(acc, dec, n) ==
    LET sum == Wrap(acc + dec)
        d == (sum - n) \div 2
        rest == Wrap(Wrap(acc - d) + Wrap(dec - d))
    IN  IF sum <= n THEN <<acc, dec>>
        ELSE IF rest < n THEN <<Wrap(acc - d + n - rest), Wrap(dec - d)>>
        ELSE <<Wrap(acc - d), Wrap(dec - d)>>

-----------------------------------------------------------------------------

Init ==
    /\ moving = FALSE
    /\ steps = 0
    /\ feed = FEED_BASE /\ feed0 = FEED_BASE /\ feed1 = FEED_BASE
    /\ acc_steps = 0 /\ dec_steps = 0
    /\ asked = <<0, 0>>
    /\ type = "stop"
    /\ current_t = 0
    /\ speed = FEED_BASE

\* line_pre_calculate, line_move_to
Start(n, f, f0, f1) ==
    /\ ~moving
    /\ moving' = TRUE
    /\ steps' = n
    /\ feed' = TargetFeed(f)
    /\ feed0' = EdgeFeed(f0, feed')
    /\ feed1' = EdgeFeed(f1, feed')
    /\ \E acc \in AccSteps(feed0', feed'), dec \in DecSteps(feed0', feed1', feed', n) :
        /\ acc_steps' = Balanced(acc, dec, n)[1]
        /\ dec_steps' = Balanced(acc, dec, n)[2]
    /\ asked' = <<feed' - feed0', feed' - feed1'>>
    /\ type' = "acc"
    /\ current_t' = 0
    /\ speed' = feed0'

-----------------------------------------------------------------------------
(* acceleration_process, after the step of line_step_tick                   *)

\* Gain^2 / 4w, rounded either way.
Excess(w) == LET e == (Gain * Gain) \div (4 * w) IN {e, e + 1}

Faster(w) == {w + Gain + e : e \in Excess(w)}

\* A loss of more than there is: the feed is below zero, and below any other.
Slower(w) == IF Gain > 2 * w THEN {-1} ELSE {w - Gain + e : e \in Excess(w)}

Accelerate ==
    /\ type = "acc" /\ current_t' < acc_steps
    /\ speed' \in Faster(speed)
    /\ UNCHANGED type

ReachFeed ==
    /\ type = "acc" /\ current_t' >= acc_steps
    /\ IF current_t' < dec_steps
       THEN type' = "go" /\ speed' = feed
       ELSE type' = "dec" /\ UNCHANGED speed

\* Mutant: the last feed is taken at once.
BrakeAtOnce ==
    /\ type = "go"
    /\ IF current_t' >= dec_steps
       THEN type' = "dec" /\ speed' = feed1
       ELSE UNCHANGED <<type, speed>>

Go ==
    /\ type = "go"
    /\ type' = IF current_t' >= dec_steps THEN "dec" ELSE "go"
    /\ UNCHANGED speed

\* Mutant: no limit from below.
DecelerateOn ==
    /\ type = "dec"
    /\ speed' \in Slower(speed)
    /\ UNCHANGED type

Decelerate ==
    /\ type = "dec"
    /\ \E w \in Slower(speed) :
        IF w < feed1
        THEN speed' = feed1 /\ type' = "stop_completion"
        ELSE speed' = w /\ UNCHANGED type

Complete ==
    /\ type = "stop_completion"
    /\ UNCHANGED <<type, speed>>

acceleration_process ==
    IF current_t' >= steps
    THEN type' = "stop" /\ UNCHANGED speed
    ELSE Accelerate \/ ReachFeed \/ Go \/ Decelerate \/ Complete

Step ==
    /\ moving /\ current_t < steps
    /\ current_t' = current_t + 1
    /\ acceleration_process
    /\ UNCHANGED <<moving, plan>>

Finish ==
    /\ moving /\ current_t >= steps
    /\ moving' = FALSE
    /\ UNCHANGED <<plan, type, current_t, speed>>

Next ==
    \/ \E n \in Lengths, f, f0, f1 \in Feeds : Start(n, f, f0, f1)
    \/ Step
    \/ Finish

Spec == Init /\ [][Next]_vars

-----------------------------------------------------------------------------
(* Properties                                                               *)

TypeOK ==
    /\ moving \in BOOLEAN
    /\ steps \in Lengths \cup {0}
    /\ feed \in Nat /\ feed0 \in Nat /\ feed1 \in Nat
    /\ acc_steps \in Unsigned /\ dec_steps \in Unsigned
    /\ asked \in Nat \X Nat
    /\ type \in {"acc", "go", "dec", "stop", "stop_completion"}
    /\ current_t \in 0 .. steps
    /\ speed \in Int

\* The line is long enough for both ramps.
Fits == asked[1] + asked[2] <= steps * Gain

\* The line is long enough to brake; otherwise dec_steps is undefined.
CanBrake == asked[2] <= steps * Gain

\* What a step adds to the square of the feed besides Gain, at most.
Surplus == (Gain * Gain) \div (4 * FEED_BASE) + 1

\* The feed stays between the least feed of the machine and the feed that was
\* asked for, whether there is room to speed up or not, but for the surplus of
\* the first ramp, one step of which is left out.
FeedWithin ==
    CanBrake => /\ FEED_BASE <= speed
                /\ speed <= feed \/ speed <= feed + acc_steps * Surplus - Gain

\* A line that is long enough arrives with its last feed, but for the two steps
\* on which it changes over and stops, and the surplus.
ArrivesSlow ==
    moving /\ Fits /\ current_t = steps => speed <= feed1 + 2 * Gain + steps * Surplus

\* The feed never falls faster than the acceleration allows, but for what the
\* first ramp has gone too far.
BrakesGently ==
    [][moving => speed - speed' <= Gain \/ speed - speed' <= acc_steps * Surplus - Gain]_vars

RiseLimited == speed' - speed <= 2 * Gain \/ speed' - speed <= Gain + Surplus

\* Nor does it rise faster, but for the step on which it changes over, on a line
\* that is long enough ...
RisesGently == [][moving /\ Fits => RiseLimited]_vars

\* ... and whose first ramp is not longer than its last.
RisesGentlyFirst == [][moving /\ Fits /\ asked[1] <= asked[2] => RiseLimited]_vars

=============================================================================
