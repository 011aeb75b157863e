----------------------------- MODULE PulsesProofs -----------------------------
(****************************************************************************)
(* Whatever the timer's constants are, no step is lost and none comes too   *)
(* soon, if the slowest tick and the longest wait fit into every period     *)
(* (TimingAssumption).                                                      *)
(*                                                                          *)
(* The argument: a tick sets the counter to 0, so the wait for the end of a *)
(* pulse begins at Compare at the latest and is over before the period is;  *)
(* the wait for the tick, and the tick, are over before the next period is. *)
(* So that update and compare are never due together with a pin set.        *)
(****************************************************************************)
EXTENDS Pulses, TLAPS

\* What the timer, the move and the processor have to do with each other.
Order ==
    /\ cpu = "first" => going /\ ~on
    /\ cpu = "tick" => going /\ on
    /\ cpu = "main" => (going <=> on)
    /\ on => asked \in Delays /\ period = Period(asked)
    /\ ~on => ~update
    /\ cpu = "tick" => ~update

\* How far the counter can have come.
Counts ==
    /\ cpu = "tick" => busy <= TickTime /\ count <= Latency + busy
    /\ cpu = "main" /\ on /\ update => waited <= Latency /\ count = waited
    /\ cpu = "main" /\ on /\ ~update /\ compare => waited <= Latency /\ count <= Compare + waited
    /\ cpu = "main" /\ on => count <= period

\* A pin is set only from a tick's steps to the first Compare after it.
Pulse ==
    /\ lost = {}
    /\ ~going => pins = {}
    /\ cpu # "main" /\ ~stepped => pins = {}
    /\ cpu = "main" /\ on /\ update => pins = {}
    /\ cpu = "main" /\ on /\ ~compare /\ pins # {} => count < Compare

Elapsed ==
    cpu = "main" /\ on => IF update THEN elapsed > period ELSE elapsed = count

Inv == TypeOK /\ Order /\ Counts /\ Pulse /\ Elapsed

-----------------------------------------------------------------------------
(* Periods                                                                  *)

\* Division with remainder.
LEMMA DivRange ==
    ASSUME NEW a \in Int, NEW q \in Nat \ {0}
    PROVE  /\ a % q \in 0 .. q - 1
           /\ a \div q \in Int
           /\ a = q * (a \div q) + (a % q)
  OBVIOUS

\* What fits has no part cut off.
LEMMA FitsWhole ==
    ASSUME NEW q \in Nat \ {0}, NEW a \in 0 .. q - 1
    PROVE  a % q = a
<1> DEFINE u == a \div q
<1>1. u \in Int /\ a % q \in 0 .. q - 1 /\ a = q * u + (a % q)
  BY DivRange
<1> HIDE DEF u
<1>2. ~(u > 0)
  <2> SUFFICES ASSUME u > 0 PROVE FALSE
    OBVIOUS
  <2>1. PICK d \in Nat : u = 1 + d
    <3>1. u - 1 \in Nat
      BY <1>1
    <3> QED BY <1>1, <3>1
  <2>2. q * u = q + q * d /\ q * d \in Nat
    BY <2>1
  <2> QED BY <1>1, <2>2
<1>3. ~(u < 0)
  <2> SUFFICES ASSUME u < 0 PROVE FALSE
    OBVIOUS
  <2>1. PICK d \in Nat : u = -1 - d
    <3>1. -1 - u \in Nat
      BY <1>1
    <3> QED BY <1>1, <3>1
  <2>2. q * u = -q - q * d /\ q * d \in Nat
    BY <2>1
  <2> QED BY <1>1, <2>2
<1> QED BY <1>1, <1>2, <1>3

LEMMA PeriodRoom ==
    ASSUME NEW us \in Delays
    PROVE  /\ Period(us) \in Nat
           /\ TickTime + Latency <= Period(us)
           /\ Compare + Latency <= Period(us)
<1>1. us * FTIMER \in Int
  BY NumbersAssumption
<1>2. Product(us) \in 0 .. Wrap - 1
  BY <1>1, NumbersAssumption, DivRange DEF Product
<1>3. Product(us) \div MICROS \in Int
  <2>1. Product(us) \in Int /\ MICROS \in Nat \ {0}
    BY <1>2, NumbersAssumption
  <2> QED BY <2>1, DivRange
<1>4. Period(us) \in Nat
  BY <1>3, NumbersAssumption DEF Period
<1> QED BY <1>4, TimingAssumption

\* A quotient of smaller numbers is not greater.
LEMMA QuotientGrows ==
    ASSUME NEW q \in Nat \ {0}, NEW a \in Nat, NEW b \in Nat, a <= b
    PROVE  a \div q <= b \div q
<1>1. /\ a % q \in 0 .. q - 1 /\ a \div q \in Int /\ a = q * (a \div q) + (a % q)
      /\ b % q \in 0 .. q - 1 /\ b \div q \in Int /\ b = q * (b \div q) + (b % q)
  BY DivRange
<1>2. ASSUME a \div q > b \div q PROVE FALSE
  <2>1. PICK d \in Nat : a \div q = (b \div q) + 1 + d
    <3>1. (a \div q) - (b \div q) - 1 \in Nat
      BY <1>1, <1>2
    <3> QED BY <3>1, <1>1
  <2>2. q * (a \div q) = q * (b \div q) + q + q * d
    BY <2>1, <1>1
  <2>3. q * d \in Nat
    OBVIOUS
  <2>4. q * (a \div q) \in Int /\ q * (b \div q) \in Int
    BY <1>1
  <2> QED BY <1>1, <2>2, <2>3, <2>4
<1> QED BY <1>1, <1>2

\* One count more than the period is not less than the delay.
LEMMA PeriodLongEnough ==
    ASSUME NEW us \in Delays, us * FTIMER < Wrap, NEW n \in Nat, n > Period(us)
    PROVE  n * MICROS >= us * FTIMER
<1> DEFINE x == us * FTIMER
           q == x \div MICROS
<1>1. x \in Nat /\ x \in 0 .. Wrap - 1
  BY NumbersAssumption
<1>2. Product(us) = x
  BY <1>1, NumbersAssumption, FitsWhole DEF Product
<1>3. /\ q \in Int
      /\ x % MICROS \in 0 .. MICROS - 1
      /\ x = MICROS * q + (x % MICROS)
  <2> HIDE DEF x
  <2>1. x \in Int /\ MICROS \in Nat \ {0}
    BY <1>1, NumbersAssumption
  <2> QED BY <2>1, DivRange
<1>4. q <= MaxPeriod
  <2>1. q <= (Wrap - 1) \div MICROS
    <3>1. Wrap - 1 \in Nat /\ x <= Wrap - 1 /\ MICROS \in Nat \ {0}
      BY <1>1, NumbersAssumption
    <3> QED BY <1>1, <3>1, QuotientGrows
  <2>2. (Wrap - 1) \div MICROS \in Int
    <3>1. Wrap - 1 \in Int /\ MICROS \in Nat \ {0}
      BY NumbersAssumption
    <3> QED BY <3>1, DivRange
  <2> QED BY <1>3, <2>1, <2>2, ClampAssumption, NumbersAssumption
<1>5. q <= Period(us) /\ Period(us) \in Nat
  BY <1>2, <1>3, <1>4, PeriodRoom, NumbersAssumption DEF Period
<1>6. n >= q + 1
  BY <1>3, <1>5
<1>7. PICK d \in Nat : n = q + 1 + d
  <2>1. n - q - 1 \in Nat
    BY <1>3, <1>6
  <2> QED BY <2>1, <1>3
<1>8. MICROS * n = MICROS * q + MICROS + MICROS * d
  BY <1>3, <1>7, NumbersAssumption
<1>9. MICROS * d \in Nat /\ MICROS * q \in Int /\ MICROS * n = n * MICROS
  BY <1>3, NumbersAssumption
<1> HIDE DEF x, q
<1>10. n * MICROS >= x
  BY <1>1, <1>3, <1>8, <1>9, NumbersAssumption
<1> QED BY <1>10 DEF x

-----------------------------------------------------------------------------
(* The invariant                                                            *)

LEMMA InitInv == Init => Inv
<1> SUFFICES ASSUME Init PROVE Inv
  OBVIOUS
<1>1. TypeOK
  BY DEF Init, TypeOK
<1>2. Order /\ Pulse
  BY DEF Init, Order, Pulse
<1>3. Counts /\ Elapsed
  BY DEF Init, Counts, Elapsed
<1> QED BY <1>1, <1>2, <1>3 DEF Inv

\* While an interrupt waits, and while a tick goes on, the period is not over.
LEMMA ClockInv == Inv /\ Clock => Inv'
<1> SUFFICES ASSUME Inv, Clock PROVE Inv'
  OBVIOUS
<1>0. /\ TickTime \in Nat /\ Latency \in Nat /\ Compare \in Nat \ {0}
      /\ period = Period(asked) /\ asked \in Delays
  BY NumbersAssumption DEF Inv, Order, Clock
<1>1. TickTime + Latency <= period /\ Compare + Latency <= period
  BY <1>0, PeriodRoom
<1>2. TypeOK'
  BY <1>0 DEF Inv, TypeOK, Clock
<1>3. CASE cpu = "tick"
  <2>1. count # period /\ ~update'
    BY <1>0, <1>1, <1>3 DEF Inv, TypeOK, Order, Counts, Clock
  <2> QED
    BY <1>0, <1>1, <1>2, <1>3, <2>1 DEF Inv, TypeOK, Order, Counts, Pulse, Elapsed, Clock
<1>4. CASE cpu = "main"
  <2>1. count = period => ~Waits /\ pins = {}
    BY <1>0, <1>1, <1>4 DEF Inv, TypeOK, Order, Counts, Pulse, Clock, Waits
  <2>2. Order'
    BY <1>4 DEF Inv, TypeOK, Order, Clock
  <2>3. Counts'
    BY <1>0, <1>1, <1>4, <2>1 DEF Inv, TypeOK, Order, Counts, Clock, Waits
  <2>4. Pulse'
    <3>1. /\ cpu' = "main" /\ on /\ on' /\ going' = going /\ pins' = pins /\ lost' = lost
          /\ update' => pins = {}
          /\ ~compare' => ~compare /\ (count # period => count' = count + 1 /\ count' # Compare)
      BY <1>4, <2>1 DEF Inv, Pulse, Clock
    <3>2. ~compare' /\ pins # {} => count' < Compare
      BY <1>0, <1>4, <2>1, <3>1 DEF Inv, TypeOK, Pulse
    <3> QED BY <3>1, <3>2 DEF Inv, Pulse
  <2>5. Elapsed'
    <3>1. /\ update' <=> (update \/ count = period)
          /\ count' = IF count = period THEN 0 ELSE count + 1
          /\ elapsed' = IF update THEN elapsed ELSE elapsed + 1
          /\ period' = period /\ on
      BY DEF Clock
    <3>2. CASE update
      BY <1>4, <3>1, <3>2 DEF Inv, Elapsed
    <3>3. CASE ~update /\ count = period
      BY <1>4, <3>1, <3>3 DEF Inv, TypeOK, Elapsed
    <3>4. CASE ~update /\ count # period
      BY <1>4, <3>1, <3>4 DEF Inv, TypeOK, Elapsed
    <3> QED BY <3>2, <3>3, <3>4
  <2> QED BY <1>2, <2>2, <2>3, <2>4, <2>5 DEF Inv
<1> QED BY <1>3, <1>4 DEF Inv, TypeOK, Clock

LEMMA UpdateInv == Inv /\ UpdateInterrupt => Inv'
<1> SUFFICES ASSUME Inv, UpdateInterrupt PROVE Inv'
  OBVIOUS
<1>1. on /\ going
  BY DEF Inv, TypeOK, Order, UpdateInterrupt
<1>2. TypeOK'
  <2>1. /\ cpu' = "tick" /\ stepped' = FALSE /\ busy' = 0 /\ waited' = 0 /\ update' = FALSE
        /\ UNCHANGED <<separate, going, on, count, period, compare, pins, asked, elapsed, lost>>
    BY <1>1 DEF UpdateInterrupt
  <2> QED BY <2>1 DEF Inv, TypeOK
<1>3. Order' /\ Elapsed'
  BY <1>1 DEF Inv, Order, Elapsed, UpdateInterrupt
<1>4. Pulse'
  BY <1>1 DEF Inv, Pulse, UpdateInterrupt
<1>5. Counts'
  BY <1>1, NumbersAssumption DEF Inv, TypeOK, Order, Counts, UpdateInterrupt
<1> QED BY <1>2, <1>3, <1>4, <1>5 DEF Inv

LEMMA CompareInv == Inv /\ CompareInterrupt => Inv'
<1> SUFFICES ASSUME Inv, CompareInterrupt PROVE Inv'
  OBVIOUS
<1>1. (on' <=> on) /\ pins' \in {{}, pins} /\ (going => pins' = {})
  BY DEF Inv, TypeOK, Order, CompareInterrupt, EndStep
<1>2. TypeOK'
  BY <1>1, NumbersAssumption DEF Inv, TypeOK, CompareInterrupt
<1>3. Order' /\ Counts' /\ Pulse' /\ Elapsed'
  BY <1>1 DEF Inv, TypeOK, Order, Counts, Pulse, Elapsed, CompareInterrupt
<1> QED BY <1>2, <1>3 DEF Inv

LEMMA TickInv == Inv /\ Tick => Inv'
<1> SUFFICES ASSUME Inv, Tick PROVE Inv'
  OBVIOUS
<1>1. CASE MakeSteps
  BY <1>1 DEF Inv, TypeOK, Order, Counts, Pulse, Elapsed, MakeSteps, timerVars, clockVars
<1>2. CASE SetDelay
  <2>1. PICK us \in Delays : asked' = us /\ period' = Period(us)
    BY <1>2 DEF SetDelay
  <2>2. us \in Nat /\ period' \in Nat /\ Compare \in Nat \ {0} /\ Latency \in Nat
    BY <2>1, PeriodRoom, NumbersAssumption
  <2>3. TypeOK' /\ Order'
    BY <1>2, <2>1, <2>2 DEF Inv, TypeOK, Order, SetDelay
  <2>4. Counts' /\ Pulse' /\ Elapsed'
    BY <1>2, <2>1, <2>2 DEF Inv, TypeOK, Order, Counts, Pulse, Elapsed, SetDelay
  <2> QED BY <2>3, <2>4 DEF Inv
<1>3. CASE LineFinished
  BY <1>3 DEF Inv, TypeOK, Order, Counts, Pulse, Elapsed, LineFinished, EndStep, clockVars
<1>4. CASE NextStarted
  BY <1>4 DEF Inv, TypeOK, Order, Counts, Pulse, Elapsed, NextStarted, EndStep, clockVars
<1> QED BY <1>1, <1>2, <1>3, <1>4 DEF Tick

LEMMA MainInv == Inv /\ (LineStarted \/ Locked) => Inv'
<1>1. ASSUME Inv, LineStarted PROVE Inv'
  BY <1>1 DEF Inv, TypeOK, Order, Counts, Pulse, Elapsed, LineStarted, EndStep, Waits,
              timerVars, clockVars
<1>2. ASSUME Inv, Locked PROVE Inv'
  BY <1>2 DEF Inv, TypeOK, Order, Counts, Pulse, Elapsed, Locked, EndStep, Waits, clockVars
<1> QED BY <1>1, <1>2

LEMMA NextInv == Inv /\ [Next]_vars => Inv'
<1>1. ASSUME Inv, UNCHANGED vars PROVE Inv'
  BY <1>1 DEF Inv, TypeOK, Order, Counts, Pulse, Elapsed, vars, timerVars, clockVars
<1> QED
  BY <1>1, ClockInv, UpdateInv, CompareInv, TickInv, MainInv DEF Next, Board

\* Everything there is to know about a pulse, for every timer.
THEOREM PulseInvariant == Spec => []Inv
<1> QED BY InitInv, NextInv, PTL DEF Spec

-----------------------------------------------------------------------------

\* The variables of steppers.c keep their types.
THEOREM TypeCorrect == Spec => []TypeOK
<1>1. Inv => TypeOK
  BY DEF Inv
<1> QED BY <1>1, PulseInvariant, PTL

\* Every step the program counts reaches its motor.
THEOREM EveryStepMade == Spec => []NoStepLost
<1>1. Inv => NoStepLost
  BY DEF Inv, Pulse, NoStepLost
<1> QED BY <1>1, PulseInvariant, PTL

\* With no move no STEP pin is set.
THEOREM PinsRest == Spec => []PinsAtRest
<1>1. Inv => PinsAtRest
  BY DEF Inv, Pulse, PinsAtRest
<1> QED BY <1>1, PulseInvariant, PTL

\* A pulse is over when the timer has counted to Compare and waited for the
\* processor: PulseEnds with a bound, for a timer that counts.
THEOREM PulseEndsInTime ==
    Spec => [](cpu = "main" /\ pins # {} => on /\ ~update /\ count <= Compare + Latency)
<1>1. Inv => (cpu = "main" /\ pins # {} => on /\ ~update /\ count <= Compare + Latency)
  <2> SUFFICES ASSUME Inv, cpu = "main", pins # {}
               PROVE  on /\ ~update /\ count <= Compare + Latency
    OBVIOUS
  <2>1. going /\ on
    BY DEF Inv, Order, Pulse
  <2>2. ~update
    BY <2>1 DEF Inv, Pulse
  <2>3. count \in Nat /\ waited \in Nat
    BY DEF Inv, TypeOK
  <2>4. CASE compare
    <3>1. waited <= Latency /\ count <= Compare + waited
      BY <2>1, <2>2, <2>4 DEF Inv, Counts
    <3> QED BY <2>1, <2>2, <2>3, <3>1, NumbersAssumption
  <2>5. CASE ~compare
    <3>1. count < Compare
      BY <2>1, <2>5 DEF Inv, Pulse
    <3> QED BY <2>1, <2>2, <2>3, <3>1, NumbersAssumption
  <2> QED BY <2>4, <2>5
<1> QED BY <1>1, PulseInvariant, PTL

\* No tick comes before the delay asked for, as long as the product of the delay
\* and the frequency of the timer fits its 32 bits.
THEOREM NeverTooSoon == Spec => []NotTooSoon
<1>1. ASSUME Inv, update, going, asked * FTIMER < Wrap
      PROVE  elapsed * MICROS >= asked * FTIMER
  <2>1. on /\ cpu = "main" /\ asked \in Delays /\ elapsed \in Nat /\ elapsed > Period(asked)
    BY <1>1 DEF Inv, TypeOK, Order, Elapsed
  <2> QED BY <1>1, <2>1, PeriodLongEnough
<1>2. Inv => NotTooSoon
  BY <1>1 DEF NotTooSoon
<1> QED BY <1>2, PulseInvariant, PTL

=============================================================================
