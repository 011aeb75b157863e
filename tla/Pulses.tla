-------------------------------- MODULE Pulses --------------------------------
(****************************************************************************)
(* Step pulses: steppers.c of the mega2560 and of the two stm32 boards.     *)
(*                                                                          *)
(* One timer does both ends of a pulse.  At its period an interrupt makes   *)
(* the next tick of the move, which sets STEP pins, sets the period to the  *)
(* delay the move asks for, and the counter to 0; at Compare an interrupt   *)
(* clears all STEP pins.  When both are due the period goes first: by the   *)
(* order of the vectors of the mega2560, by an "else if" on the stm32.      *)
(*                                                                          *)
(* Time is in counts of the timer.  A tick takes up to TickTime of them,    *)
(* and an interrupt may be kept waiting up to Latency (by another one, or   *)
(* by a critical section).  The driver of a motor makes a step when its pin *)
(* rises: a step made on a pin that is still set is lost.                   *)
(****************************************************************************)
EXTENDS Integers

CONSTANTS
    Axes,         \* the motors
    Compare,      \* OCR1B, CCR1: when the pins are cleared
    MinPeriod,    \* the least period
    MaxPeriod,    \* the greatest
    FTIMER,       \* counts of the timer per second ...
    MICROS,       \* ... and microseconds
    Wrap,         \* 2^32: unsigned long
    TickTime,     \* bound: counts that a tick of the move takes
    Latency,      \* bound: counts that an interrupt has to wait
    Delays        \* bound: the delays a move asks for, in microseconds

ASSUME NumbersAssumption ==
    /\ {MinPeriod, MaxPeriod, FTIMER, TickTime, Latency} \subseteq Nat
    /\ {Compare, MICROS, Wrap} \subseteq Nat \ {0}
    /\ Delays \subseteq Nat

-----------------------------------------------------------------------------

\* delay_us * FTIMER, of 32 bits.
Product(us) == (us * FTIMER) % Wrap

\* ... / 1000000UL, not below the least nor above the greatest.
Period(us) ==
    LET delay == Product(us) \div MICROS
    IN  IF delay < MinPeriod THEN MinPeriod
        ELSE IF delay > MaxPeriod THEN MaxPeriod ELSE delay

\* What the board and the host must see to: the slowest tick fits between two
\* steps, and so does the wait for the end of a pulse.
ASSUME TimingAssumption ==
    \A us \in Delays :
        /\ TickTime + Latency <= Period(us)
        /\ Compare + Latency <= Period(us)

\* A delay of 32 bits divided by MICROS is never above the greatest.
ASSUME ClampAssumption == (Wrap - 1) \div MICROS <= MaxPeriod

-----------------------------------------------------------------------------

VARIABLES
    separate,    \* two vectors (mega2560), or one (stm32)
    going,       \* a move runs
    on,          \* the timer counts
    count,       \* its counter
    period,      \* OCR1A, ARR
    update,      \* OCF1A, UIF: the period is over
    compare,     \* OCF1B, CC1IF: Compare has been passed
    cpu,         \* "main", in the "tick" of an interrupt, or in the "first"
    stepped,     \* that tick has made its steps
    pins,        \* the STEP pins that are set
    busy,        \* how long the tick has taken
    waited,      \* how long an interrupt has been waiting
    asked,       \* history: the delay last asked for
    elapsed,     \* history: counts since then, until the period is over
    lost         \* history: the axes that have lost a step

timerVars == <<on, count, period, update, compare>>
clockVars == <<busy, waited, asked, elapsed>>
vars == <<separate, going, timerVars, cpu, stepped, pins, clockVars, lost>>

Init ==
    /\ separate \in BOOLEAN
    /\ going = FALSE
    /\ on = FALSE
    /\ count = 0
    /\ period = 0
    /\ update = FALSE
    /\ compare = FALSE
    /\ cpu = "main"
    /\ stepped = FALSE
    /\ pins = {}
    /\ busy = 0
    /\ waited = 0
    /\ asked = 0
    /\ elapsed = 0
    /\ lost = {}

-----------------------------------------------------------------------------
(* The timer                                                                *)

Waits == cpu = "main" /\ (update \/ compare)

\* One count.
Clock ==
    /\ on
    /\ cpu # "first"
    /\ cpu = "tick" => busy < TickTime
    /\ Waits => waited < Latency
    /\ count' = IF count = period THEN 0 ELSE count + 1
    /\ update' = (update \/ count = period)
    /\ compare' = (compare \/ count' = Compare)
    /\ busy' = IF cpu = "tick" THEN busy + 1 ELSE busy
    /\ waited' = IF Waits THEN waited + 1 ELSE 0
    /\ elapsed' = IF update THEN elapsed ELSE elapsed + 1
    /\ UNCHANGED <<separate, going, on, period, cpu, stepped, pins, asked, lost>>

\* The period is over: the next tick, or with no move the timer stops.
UpdateInterrupt ==
    /\ cpu = "main"
    /\ update
    /\ update' = FALSE
    /\ waited' = 0
    /\ IF going
       THEN /\ cpu' = "tick"
            /\ stepped' = FALSE
            /\ busy' = 0
            /\ UNCHANGED <<on, compare>>
       ELSE /\ on' = FALSE
            /\ compare' = (separate /\ compare)
            /\ UNCHANGED <<cpu, stepped, busy>>
    /\ UNCHANGED <<separate, going, count, period, pins, asked, elapsed, lost>>

\* Mutants: the pin of one axis is forgotten; all are.
EndStepButOne == \E axis \in Axes : pins' = pins \cap {axis}
EndStepNot == pins' = pins

\* end_step
EndStep == pins' = {}

\* Compare has been passed: the end of the pulses.  With one vector and no move
\* the timer stops instead.
CompareInterrupt ==
    /\ cpu = "main"
    /\ compare
    /\ ~update
    /\ compare' = FALSE
    /\ waited' = 0
    /\ IF separate \/ going
       THEN EndStep /\ UNCHANGED on
       ELSE on' = FALSE /\ UNCHANGED pins
    /\ UNCHANGED <<separate, going, count, period, update, cpu, stepped, busy, asked,
                   elapsed, lost>>

-----------------------------------------------------------------------------
(* A tick of the move                                                       *)

\* make_step of some axes; the longest of a line is always among them, an arc
\* may have none.
MakeSteps ==
    /\ cpu # "main"
    /\ ~stepped
    /\ stepped' = TRUE
    /\ \E axes \in SUBSET Axes :
        /\ pins' = pins \cup axes
        /\ lost' = lost \cup (axes \cap pins)
    /\ UNCHANGED <<separate, going, timerVars, cpu, clockVars>>

\* Mutant: the timer keeps its period.
SetDelayNot ==
    /\ cpu # "main"
    /\ stepped
    /\ \E us \in Delays :
        /\ asked' = us
        /\ period' = IF period = 0 THEN Period(us) ELSE period
    /\ on' = TRUE
    /\ count' = 0
    /\ cpu' = "main"
    /\ waited' = 0
    /\ elapsed' = 0
    /\ UNCHANGED <<separate, going, update, compare, stepped, pins, busy, lost>>

\* The rest of make_tick, and of line_started for a first one.
SetDelay ==
    /\ cpu # "main"
    /\ stepped
    /\ \E us \in Delays :
        /\ asked' = us
        /\ period' = Period(us)
    /\ on' = TRUE
    /\ count' = 0
    /\ cpu' = "main"
    /\ waited' = 0
    /\ elapsed' = 0
    /\ UNCHANGED <<separate, going, update, compare, stepped, pins, busy, lost>>

\* line_finished, line_error out of a tick, with nothing to follow ...
LineFinished ==
    /\ cpu # "main"
    /\ ~stepped
    /\ on' = FALSE
    /\ going' = FALSE
    /\ EndStep
    /\ cpu' = "main"
    /\ UNCHANGED <<separate, count, period, update, compare, stepped, clockVars, lost>>

\* ... or with the next move: line_started from inside the tick.
NextStarted ==
    /\ cpu # "main"
    /\ ~stepped
    /\ on' = FALSE
    /\ EndStep
    /\ cpu' = "first"
    /\ UNCHANGED <<separate, going, count, period, update, compare, stepped, clockVars, lost>>

-----------------------------------------------------------------------------
(* The main context; with an interrupt due it does not run                  *)

\* line_started, from the command handler
LineStarted ==
    /\ cpu = "main"
    /\ ~Waits
    /\ ~going
    /\ going' = TRUE
    /\ EndStep
    /\ cpu' = "first"
    /\ stepped' = FALSE
    /\ UNCHANGED <<separate, timerVars, clockVars, lost>>

\* line_error, line_finished, from a lock of the host
Locked ==
    /\ cpu = "main"
    /\ ~Waits
    /\ going
    /\ on' = FALSE
    /\ going' = FALSE
    /\ EndStep
    /\ UNCHANGED <<separate, count, period, update, compare, cpu, stepped, clockVars, lost>>

-----------------------------------------------------------------------------

Board == Clock \/ UpdateInterrupt \/ CompareInterrupt
Tick == MakeSteps \/ SetDelay \/ LineFinished \/ NextStarted

Next == Board \/ Tick \/ LineStarted \/ Locked

Spec == Init /\ [][Next]_vars

\* The timer counts on, interrupts are served, and a tick comes to its end.
FairSpec == Spec /\ WF_vars(Clock) /\ WF_vars(UpdateInterrupt \/ CompareInterrupt)
                 /\ WF_vars(MakeSteps \/ SetDelay)

-----------------------------------------------------------------------------
(* Properties                                                               *)

TypeOK ==
    /\ separate \in BOOLEAN
    /\ going \in BOOLEAN
    /\ on \in BOOLEAN
    /\ count \in Nat
    /\ period \in Nat
    /\ update \in BOOLEAN
    /\ compare \in BOOLEAN
    /\ cpu \in {"main", "tick", "first"}
    /\ stepped \in BOOLEAN
    /\ pins \in SUBSET Axes
    /\ busy \in Nat
    /\ waited \in Nat
    /\ asked \in Nat
    /\ elapsed \in Nat
    /\ lost \in SUBSET Axes

\* Every step the program counts reaches the motor: no step is made on a pin
\* that still shows the step before, for delays and latencies within
\* TimingAssumption.  That excludes a period that is over with a pin still set, and
\* with it what the order of the two interrupts makes of that.
NoStepLost == lost = {}

\* With no move no pin is left set.
PinsAtRest == ~going => pins = {}

\* The next tick does not come before the delay of the last has passed, if that
\* is short enough for the product of 32 bits.
NotTooSoon ==
    update /\ going /\ asked * FTIMER < Wrap => elapsed * MICROS >= asked * FTIMER

\* Every pulse ends.
PulseEnds == pins # {} ~> pins = {}

=============================================================================
