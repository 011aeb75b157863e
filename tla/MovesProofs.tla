----------------------------- MODULE MovesProofs -----------------------------
(****************************************************************************)
(* Bresenham in three axes is exact: for every line, however long, the axes *)
(* stay within half a step of the straight line and end on the steps asked  *)
(* for.  The invariant is the textbook one, per axis: the error is what the *)
(* axis should have made so far, in units of 1/steps, less what it has.     *)
(****************************************************************************)
EXTENDS Moves, TLAPS

\* Steps the longest axis has made, and what remains of the error bound.
ErrBound(i) == IF i = maxi THEN err[i] = 0 ELSE -steps <= 2 * err[i] /\ 2 * err[i] < steps

Balance(i) ==
    steps * (target[i] - origin[i]) = Direction(i) * (t * Abs(x[i]) - err[i])

LineInv ==
    kind = "line" /\ outcome # "idle" =>
        /\ steps > 0
        /\ Abs(x[maxi]) = steps
        /\ \A i \in Axes : Abs(x[i]) <= steps
        /\ \A i \in Axes : ErrBound(i) /\ Balance(i)
        /\ outcome = "done" => t = steps

Inv == TypeOK /\ LineInv

-----------------------------------------------------------------------------
(* Arithmetic                                                               *)

LEMMA AbsType ==
    ASSUME NEW a \in Int
    PROVE  /\ Abs(a) \in Nat
           /\ Sign(a) \in {-1, 0, 1}
           /\ a = Sign(a) * Abs(a)
           /\ Abs(a) = 0 => a = 0 /\ Sign(a) = 0
           /\ a # 0 => Sign(a) * Sign(a) = 1
           /\ a = 0 => Sign(a) = 0
  BY DEF Abs, Sign

\* A multiple of n within half of n of zero is zero.
LEMMA SmallMultiple ==
    ASSUME NEW n \in Nat, n > 0, NEW k \in Int, -n <= 2 * (n * k), 2 * (n * k) <= n
    PROVE  k = 0
<1>1. CASE k >= 1
  <2>1. PICK d \in Nat : k = 1 + d
    <3>1. k - 1 \in Nat
      BY <1>1
    <3> QED BY <3>1
  <2>2. n * k = n + n * d /\ n * d \in Nat
    BY <2>1
  <2> QED BY <2>2
<1>2. CASE k <= -1
  <2>1. PICK d \in Nat : k = -1 - d
    <3>1. -1 - k \in Nat
      BY <1>2
    <3> QED BY <3>1
  <2>2. n * k = -n - n * d /\ n * d \in Nat
    BY <2>1
  <2> QED BY <2>2
<1> QED BY <1>1, <1>2

\* The balance of the error when an axis steps.
LEMMA BalanceStep ==
    ASSUME NEW n \in Int, NEW w \in Int, NEW s \in Int, NEW k \in Int,
           NEW a \in Int, NEW e \in Int,
           n * w = s * (k * a - e)
    PROVE  n * (w + s) = s * ((k + 1) * a - (e + a - n))
<1> DEFINE m == k * a - e
<1>1. m \in Int /\ (k + 1) * a - (e + a - n) = m + n
  <2>1. k * a \in Int /\ (k + 1) * a = k * a + a
    OBVIOUS
  <2> QED BY <2>1
<1>2. n * w = s * m
  OBVIOUS
<1> HIDE DEF m
<1>3. s * (m + n) = s * m + s * n
  BY <1>1
<1>4. n * (w + s) = n * w + s * n
  OBVIOUS
<1> QED BY <1>1, <1>2, <1>3, <1>4

\* bresenham_plan picks an axis with the most steps: there is a first one.
LEMMA MaxAxisLongest ==
    ASSUME NEW d \in Vectors
    PROVE  /\ MaxAxis(d) \in Axes
           /\ \A j \in Axes : Abs(d[j]) <= Abs(d[MaxAxis(d)])
<1> DEFINE P(i) == /\ \A j \in Axes : Abs(d[j]) <= Abs(d[i])
                   /\ \A j \in 0 .. i - 1 : Abs(d[j]) < Abs(d[i])
<1>1. Axes = {0, 1, 2}
  BY DEF Axes
<1>2. Abs(d[0]) \in Nat /\ Abs(d[1]) \in Nat /\ Abs(d[2]) \in Nat
  BY <1>1, AbsType DEF Vectors
<1>3. \E i \in Axes : P(i)
  <2>1. CASE Abs(d[1]) <= Abs(d[0]) /\ Abs(d[2]) <= Abs(d[0])
    <3>1. P(0)
      BY <1>1, <1>2, <2>1
    <3> QED BY <1>1, <3>1
  <2>2. CASE Abs(d[0]) < Abs(d[1]) /\ Abs(d[2]) <= Abs(d[1])
    <3>1. P(1)
      BY <1>1, <1>2, <2>2
    <3> QED BY <1>1, <3>1
  <2>3. CASE Abs(d[0]) < Abs(d[2]) /\ Abs(d[1]) < Abs(d[2])
    <3>1. P(2)
      BY <1>1, <1>2, <2>3
    <3> QED BY <1>1, <3>1
  <2> QED BY <1>2, <2>1, <2>2, <2>3
<1>4. MaxAxis(d) \in Axes /\ P(MaxAxis(d))
  BY <1>3 DEF MaxAxis
<1> QED BY <1>4

\* One step of make_step of line.c, for one axis: the bound and the balance of
\* the error are kept.
LEMMA AxisStep ==
    ASSUME TypeOK, kind = "line", t < steps,
           Abs(x[maxi]) = steps,
           NEW i \in Axes,
           Abs(x[i]) <= steps, ErrBound(i), Balance(i)
    PROVE  /\ NextErr[i] \in Int
           /\ NextTarget[i] \in Int
           /\ IF i = maxi THEN NextErr[i] = 0
              ELSE -steps <= 2 * NextErr[i] /\ 2 * NextErr[i] < steps
           /\ steps * (NextTarget[i] - origin[i])
                = Direction(i) * ((t + 1) * Abs(x[i]) - NextErr[i])
<1>1. /\ steps \in Nat /\ t \in Nat /\ err[i] \in Int /\ x[i] \in Int
      /\ target[i] \in Int /\ origin[i] \in Int
  BY DEF TypeOK, Vectors
<1>2. Abs(x[i]) \in Nat /\ Direction(i) \in Int
  BY <1>1, AbsType DEF Direction
<1> DEFINE a == Abs(x[i])
           s == Direction(i)
           w == target[i] - origin[i]
           next(e, b) == /\ NextErr[i] = e
                         /\ NextTarget[i] = target[i] + b
<1>3. a \in Nat /\ s \in Int /\ w \in Int /\ a <= steps
  BY <1>1, <1>2
<1>4. steps * w = s * (t * a - err[i])
  BY DEF Balance
<1>5. CASE i = maxi
  <2>1. next(err[i], s) /\ err[i] = 0 /\ a = steps
    BY <1>5 DEF NextErr, NextTarget, Steps, ErrBound
  <2>2. NextTarget[i] - origin[i] = w + s
    BY <1>1, <1>3, <2>1
  <2> HIDE DEF a, s, w
  <2>3. steps * (w + s) = s * ((t + 1) * a - 0)
    BY <1>1, <1>3, <1>4, <2>1
  <2> QED BY <1>1, <1>3, <1>5, <2>1, <2>2, <2>3 DEF a, s
<1>6. CASE i # maxi /\ Reached(i)
  <2>1. next(err[i] + a - steps, s)
    BY <1>6 DEF NextErr, NextTarget, Steps
  <2>2. NextTarget[i] - origin[i] = w + s
    BY <1>1, <1>3, <2>1
  <2>3. 2 * (err[i] + a) >= steps /\ -steps <= 2 * err[i] /\ 2 * err[i] < steps
    BY <1>6 DEF Reached, ErrBound
  <2>4. -steps <= 2 * NextErr[i] /\ 2 * NextErr[i] < steps
    <3> HIDE DEF a
    <3> QED BY <1>1, <1>3, <2>1, <2>3
  <2> HIDE DEF a, s, w
  <2>5. steps * (w + s) = s * ((t + 1) * a - (err[i] + a - steps))
    <3> DEFINE e == err[i]
    <3>1. e \in Int /\ steps \in Int /\ t \in Int /\ a \in Int /\ s \in Int /\ w \in Int
      BY <1>1, <1>3
    <3>2. steps * w = s * (t * a - e)
      BY <1>4
    <3> HIDE DEF e
    <3>3. steps * (w + s) = s * ((t + 1) * a - (e + a - steps))
      BY ONLY <3>1, <3>2, BalanceStep
    <3> QED BY <3>3 DEF e
  <2> QED BY <1>1, <1>3, <1>6, <2>1, <2>2, <2>4, <2>5 DEF a, s
<1>7. CASE i # maxi /\ ~Reached(i)
  <2>1. next(err[i] + a, 0)
    BY <1>7 DEF NextErr, NextTarget, Steps
  <2>2. NextTarget[i] - origin[i] = w
    BY <1>1, <1>3, <2>1
  <2>3. ~(2 * (err[i] + a) >= steps) /\ -steps <= 2 * err[i] /\ 2 * err[i] < steps
    BY <1>7 DEF Reached, ErrBound
  <2>4. -steps <= 2 * NextErr[i] /\ 2 * NextErr[i] < steps
    <3> HIDE DEF a
    <3> QED BY <1>1, <1>3, <2>1, <2>3
  <2> HIDE DEF a, s, w
  <2>5. steps * w = s * ((t + 1) * a - (err[i] + a))
    BY <1>1, <1>3, <1>4
  <2> QED BY <1>1, <1>3, <1>7, <2>1, <2>2, <2>4, <2>5 DEF a, s
<1> QED BY <1>5, <1>6, <1>7

-----------------------------------------------------------------------------
(* The steps                                                                *)

LEMMA InitInv == Init => Inv
  BY DEF Init, Inv, TypeOK, LineInv, Vectors, Zero, Axes

\* Every axis moves by a step, whatever its target.
LEMMA MakeStepsType ==
    ASSUME pos \in Vectors, NEW goal \in Vectors, MakeSteps(goal)
    PROVE  pos' \in Vectors /\ target' = goal /\ ready' \in BOOLEAN
<1>1. \A i \in Axes : pos[i] + Sign(goal[i] - pos[i]) \in Int
  BY AbsType DEF Vectors
<1>2. pos' \in Vectors
  BY <1>1 DEF MakeSteps, Vectors
<1>3. target' = goal /\ ready' \in BOOLEAN
  BY Zenon DEF MakeSteps
<1> QED BY <1>2, <1>3

LEMMA StartLineInv ==
    ASSUME Inv, NEW d \in LineSteps, StartLine(d)
    PROVE  Inv'
<1>1. d \in Vectors /\ Zero \in Vectors
  <2>1. d \in Vectors
    BY LineStepsAssumption
  <2>2. Zero \in Vectors
    BY DEF Vectors, Zero
  <2> QED BY <2>1, <2>2
<1>2. /\ kind' = "line" /\ outcome' = "moving" /\ ready' = TRUE /\ x' = d
      /\ maxi' = MaxAxis(d) /\ steps' = Abs(d[MaxAxis(d)]) /\ t' = 0 /\ err' = Zero
      /\ origin' = target /\ target' = target /\ pos' = pos /\ d # Zero
  BY DEF StartLine
<1>3. maxi' \in Axes /\ \A j \in Axes : Abs(d[j]) <= steps'
  BY <1>1, <1>2, MaxAxisLongest
<1>4. steps' \in Nat
  BY <1>1, <1>2, <1>3, AbsType DEF Vectors
<1>5. steps' > 0
  <2>1. PICK j \in Axes : d[j] # 0
    BY <1>1, <1>2 DEF Vectors, Zero
  <2>2. Abs(d[j]) \in Nat /\ Abs(d[j]) # 0
    BY <1>1, <2>1, AbsType DEF Vectors
  <2>3. Abs(d[j]) <= steps'
    BY <1>3
  <2> QED BY <1>4, <2>2, <2>3
<1>6. TypeOK'
  <2>1. t' \in 0 .. steps'
    BY <1>2, <1>4
  <2> QED BY <1>1, <1>2, <1>3, <1>4, <2>1 DEF Inv, TypeOK
<1>7. \A i \in Axes : ErrBound(i)' /\ Balance(i)'
  <2> SUFFICES ASSUME NEW i \in Axes
               PROVE  ErrBound(i)' /\ Balance(i)'
    OBVIOUS
  <2>1. err'[i] = 0 /\ target'[i] - origin'[i] = 0
    BY <1>2 DEF Zero, Inv, TypeOK, Vectors
  <2>2. x'[i] \in Int /\ Abs(x'[i]) \in Nat /\ Sign(x'[i]) \in Int
    BY <1>1, <1>2, AbsType DEF Vectors
  <2>3. ErrBound(i)'
    <3>1. \A n \in Nat : n > 0 => -n <= 2 * 0 /\ 2 * 0 < n
      OBVIOUS
    <3>2. (-steps <= 2 * 0 /\ 2 * 0 < steps)'
      BY <1>4, <1>5, <3>1
    <3> QED BY <2>1, <3>2 DEF ErrBound
  <2>4. steps' * 0 = Sign(x'[i]) * (0 * Abs(x'[i]) - 0)
    BY <1>4, <2>2
  <2>5. Balance(i)'
    BY <1>2, <2>1, <2>4 DEF Balance, Direction
  <2> QED BY <2>3, <2>5
<1>8. LineInv'
  BY <1>2, <1>3, <1>5, <1>7 DEF LineInv
<1> QED BY <1>6, <1>8 DEF Inv

\* A tick that steps, of a line.
LEMMA LineStepInv ==
    ASSUME Inv, kind = "line", outcome = "moving", ready, ~(t >= steps), LineTick
    PROVE  Inv'
<1>1. /\ t' = t + 1 /\ err' = NextErr /\ MakeSteps(NextTarget)
      /\ UNCHANGED <<kind, outcome, x, steps, maxi, origin>>
  BY DEF LineTick
<1>2. /\ steps \in Nat /\ t \in 0 .. steps /\ t < steps
      /\ steps > 0 /\ Abs(x[maxi]) = steps /\ \A i \in Axes : Abs(x[i]) <= steps
      /\ \A i \in Axes : ErrBound(i) /\ Balance(i)
  BY DEF Inv, TypeOK, LineInv
<1>3. \A i \in Axes :
        /\ NextErr[i] \in Int
        /\ NextTarget[i] \in Int
        /\ IF i = maxi THEN NextErr[i] = 0
           ELSE -steps <= 2 * NextErr[i] /\ 2 * NextErr[i] < steps
        /\ steps * (NextTarget[i] - origin[i])
             = Direction(i) * ((t + 1) * Abs(x[i]) - NextErr[i])
  BY <1>2, AxisStep DEF Inv
<1>4. NextErr \in Vectors /\ NextTarget \in Vectors
  <2>1. NextErr = [i \in Axes |-> NextErr[i]] /\ NextTarget = [i \in Axes |-> NextTarget[i]]
    BY DEF NextErr, NextTarget
  <2> QED BY <1>3, <2>1 DEF Vectors
<1>5. pos' \in Vectors /\ target' = NextTarget /\ ready' \in BOOLEAN
  BY <1>1, <1>4, MakeStepsType DEF Inv, TypeOK
<1>6. t' \in 0 .. steps'
  BY <1>1, <1>2
<1>7. TypeOK'
  BY <1>1, <1>4, <1>5, <1>6 DEF Inv, TypeOK
<1>8. \A i \in Axes : ErrBound(i)' /\ Balance(i)'
  <2> SUFFICES ASSUME NEW i \in Axes
               PROVE  ErrBound(i)' /\ Balance(i)'
    OBVIOUS
  <2>1. ErrBound(i)'
    BY <1>1, <1>3 DEF ErrBound
  <2>2. Balance(i)'
    BY <1>1, <1>3, <1>5 DEF Balance, Direction
  <2> QED BY <2>1, <2>2
<1>9. LineInv'
  BY <1>1, <1>2, <1>8 DEF LineInv
<1> QED BY <1>7, <1>9 DEF Inv

LEMMA StepInv == Inv /\ [Next]_vars => Inv'
<1> SUFFICES ASSUME Inv, [Next]_vars
             PROVE  Inv'
  OBVIOUS
<1>1. ASSUME NEW d \in LineSteps, StartLine(d)
      PROVE  Inv'
  BY <1>1, StartLineInv
<1>2. CASE StartArc
  BY <1>2 DEF StartArc, Inv, TypeOK, LineInv, lineVars
<1>3. CASE Break
  BY <1>3 DEF Break, Inv, TypeOK, LineInv, lineVars
<1>4. CASE moves_step_tick
  <2>0. outcome = "moving"
    BY <1>4 DEF moves_step_tick
  <2>1. ASSUME NEW probe \in BOOLEAN, NEW fail \in BOOLEAN, TouchTick(probe, fail)
        PROVE  Inv'
    <3>1. /\ UNCHANGED <<ready, x, steps, maxi, t, err, target, pos, origin>>
          /\ kind' \in {"none", kind} /\ outcome' \in {"cut", "failed"}
      BY <2>1 DEF TouchTick, lineVars
    <3>2. TypeOK'
      BY <3>1 DEF Inv, TypeOK
    <3>3. LineInv'
      BY <2>0, <3>1 DEF Inv, LineInv, ErrBound, Balance, Direction
    <3> QED BY <3>2, <3>3 DEF Inv
  <2>2. CASE LineTick
    <3>1. CASE t >= steps
      <4>1. /\ UNCHANGED <<kind, ready, x, steps, maxi, t, err, target, pos, origin>>
            /\ outcome' = "done"
        BY <2>2, <3>1 DEF LineTick, Finish, lineVars
      <4>2. t = steps
        BY <3>1 DEF Inv, TypeOK
      <4>3. TypeOK'
        BY <4>1 DEF Inv, TypeOK
      <4>4. LineInv'
        BY <2>0, <4>1, <4>2 DEF Inv, LineInv, ErrBound, Balance, Direction
      <4> QED BY <4>3, <4>4 DEF Inv
    <3>2. CASE ~(t >= steps)
      <4>1. kind = "line" /\ ready
        BY <2>2 DEF LineTick
      <4> QED BY <2>0, <2>2, <3>2, <4>1, LineStepInv
    <3> QED BY <3>1, <3>2
  <2>3. CASE ArcTick
    <3>1. kind = "arc" /\ kind' = "arc"
      BY <2>3 DEF ArcTick, Finish
    <3>2. CASE Finish
      BY <3>1, <3>2 DEF Finish, Inv, TypeOK, LineInv, lineVars
    <3>3. ASSUME NEW d \in ArcSteps,
                 MakeSteps([i \in Axes |-> target[i] + d[i]]),
                 UNCHANGED <<kind, outcome, lineVars, origin>>
          PROVE  Inv'
      <4>1. [i \in Axes |-> target[i] + d[i]] \in Vectors
        BY ArcStepsAssumption DEF Inv, TypeOK, Vectors
      <4>2. pos' \in Vectors /\ target' \in Vectors /\ ready' \in BOOLEAN
        BY <3>3, <4>1, MakeStepsType DEF Inv, TypeOK
      <4>3. TypeOK'
        BY <3>3, <4>2 DEF Inv, TypeOK, lineVars
      <4> QED BY <3>1, <4>3 DEF Inv, LineInv
    <3> QED BY <2>3, <3>2, <3>3 DEF ArcTick
  <2>4. CASE CatchUpTick
    <3>1. MakeSteps(target) /\ UNCHANGED <<kind, outcome, x, steps, maxi, t, err, origin>>
      BY <2>4 DEF CatchUpTick, lineVars
    <3>2. pos' \in Vectors /\ target' = target /\ ready' \in BOOLEAN
      BY <3>1, MakeStepsType DEF Inv, TypeOK
    <3>3. TypeOK'
      BY <3>1, <3>2 DEF Inv, TypeOK
    <3>4. LineInv'
      BY <3>1, <3>2 DEF Inv, LineInv, ErrBound, Balance, Direction
    <3> QED BY <3>3, <3>4 DEF Inv
  <2> QED BY <1>4, <2>1, <2>2, <2>3, <2>4 DEF moves_step_tick
<1>5. CASE UNCHANGED vars
  BY <1>5 DEF vars, lineVars, Inv, TypeOK, LineInv, ErrBound, Balance, Direction
<1> QED BY <1>1, <1>2, <1>3, <1>4, <1>5 DEF Next

LEMMA Invariance == Spec => []Inv
  BY InitInv, StepInv, PTL DEF Spec

-----------------------------------------------------------------------------
(* Steps still owed                                                         *)

\* A line that is ready has made every step of its ticks so far, and one that is
\* done is ready. Only before its first tick may it still owe those of an arc.
Settled ==
    kind = "line" =>
        /\ outcome = "moving" /\ ready /\ t > 0 => pos = target
        /\ outcome = "done" => pos = target

\* Ready means that no axis was more than a step away.
LEMMA ReadyArrives ==
    ASSUME pos \in Vectors, NEW goal \in Vectors, MakeSteps(goal), ready'
    PROVE  pos' = target'
<1>1. \A i \in Axes : pos[i] + Sign(goal[i] - pos[i]) = goal[i]
  <2> SUFFICES ASSUME NEW i \in Axes
               PROVE  pos[i] + Sign(goal[i] - pos[i]) = goal[i]
    OBVIOUS
  <2>1. pos[i] \in Int /\ goal[i] \in Int
    BY DEF Vectors
  <2>2. goal[i] - pos[i] \in -1 .. 1
    BY Zenon DEF MakeSteps
  <2> QED BY <2>1, <2>2 DEF Sign
<1>2. pos' = [i \in Axes |-> goal[i]]
  BY <1>1 DEF MakeSteps
<1>3. goal = [i \in Axes |-> goal[i]]
  BY DEF Vectors
<1> QED BY <1>2, <1>3 DEF MakeSteps

LEMMA SettledStep == Inv /\ Settled /\ [Next]_vars => Settled'
<1> SUFFICES ASSUME Inv, Settled, [Next]_vars
             PROVE  Settled'
  OBVIOUS
<1>1. ASSUME NEW d \in LineSteps, StartLine(d)
      PROVE  Settled'
  BY <1>1 DEF StartLine, Settled
<1>2. CASE StartArc
  BY <1>2 DEF StartArc, Settled
<1>3. CASE Break
  BY <1>3 DEF Break, Settled
<1>4. CASE moves_step_tick
  <2>0. outcome = "moving"
    BY <1>4 DEF moves_step_tick
  <2>1. ASSUME NEW probe \in BOOLEAN, NEW fail \in BOOLEAN, TouchTick(probe, fail)
        PROVE  Settled'
    BY <2>1 DEF TouchTick, Settled
  <2>2. CASE LineTick
    <3>1. CASE t >= steps
      <4>1. kind = "line" /\ ready /\ t > 0
        BY <2>0, <2>2, <3>1 DEF LineTick, Inv, TypeOK, LineInv
      <4>2. pos = target
        BY <2>0, <4>1 DEF Settled
      <4> QED BY <2>2, <3>1, <4>2 DEF LineTick, Finish, Settled
    <3>2. CASE ~(t >= steps)
      <4>1. MakeSteps(NextTarget) /\ UNCHANGED <<kind, outcome>>
        BY <2>2, <3>2 DEF LineTick
      <4>2. NextTarget \in Vectors
        <5>1. \A i \in Axes : NextTarget[i] \in Int
          BY AbsType DEF NextTarget, Direction, Inv, TypeOK, Vectors
        <5> QED BY <5>1 DEF NextTarget, Vectors
      <4>3. ready' => pos' = target'
        BY <4>1, <4>2, ReadyArrives DEF Inv, TypeOK
      <4> QED BY <2>0, <4>1, <4>3 DEF Settled
    <3> QED BY <3>1, <3>2
  <2>3. CASE ArcTick
    BY <2>3 DEF ArcTick, Finish, Settled
  <2>4. CASE CatchUpTick
    <3>1. MakeSteps(target) /\ UNCHANGED <<kind, outcome>>
      BY <2>4 DEF CatchUpTick
    <3>2. ready' => pos' = target'
      BY <3>1, ReadyArrives DEF Inv, TypeOK
    <3> QED BY <2>0, <3>1, <3>2 DEF Settled
  <2> QED BY <1>4, <2>1, <2>2, <2>3, <2>4 DEF moves_step_tick
<1>5. CASE UNCHANGED vars
  BY <1>5 DEF vars, lineVars, Settled
<1> QED BY <1>1, <1>2, <1>3, <1>4, <1>5 DEF Next

LEMMA SettledAlways == Spec => []Settled
<1>1. Init => Settled
  BY DEF Init, Settled
<1> QED BY <1>1, SettledStep, Invariance, PTL DEF Spec

\* An axis that a tick moves down was not shown to the endstop check with its
\* endstop closed.
LEMMA TickStopsInTime ==
    ASSUME Inv, Next, kind = "line", NEW i \in Axes, x[i] < 0, pos'[i] < pos[i]
    PROVE  ~Stop(i)
<1>0. pos[i] \in Int
  BY DEF Inv, TypeOK, Vectors
<1>1. moves_step_tick
  <2>1. ASSUME pos' = pos PROVE FALSE
    BY <1>0, <2>1
  <2> QED BY <2>1 DEF Next, StartLine, StartArc, Break
<1>2. PICK probe \in BOOLEAN, fail \in BOOLEAN :
        TouchTick(probe, fail) \/ ~break_on_endstops(x, probe)
  BY <1>1 DEF moves_step_tick, CheckedDirection
<1>3. CASE TouchTick(probe, fail)
  BY <1>0, <1>3 DEF TouchTick
<1>4. CASE ~break_on_endstops(x, probe)
  BY <1>4 DEF break_on_endstops
<1> QED BY <1>2, <1>3, <1>4

-----------------------------------------------------------------------------
(* Ticks still to come                                                      *)

\* Steps an axis still owes.
Owed(i) == Abs(target[i] - pos[i])

\* The ticks that a line has still to make for itself, and the steps that wait to
\* be made.
ToGo == (steps - t) + (Owed(0) + Owed(1) + Owed(2))

\* What is not ready owes a step.
Behind == ~ready => pos # target

\* A step towards the goal, or none at the goal.
LEMMA Nearer ==
    ASSUME NEW p \in Int, NEW g \in Int
    PROVE  /\ p + Sign(g - p) \in Int
           /\ p # g => Abs(g - (p + Sign(g - p))) = Abs(g - p) - 1
           /\ p = g => Abs(g - (p + Sign(g - p))) = 0
           /\ g - p \notin -1 .. 1 => p + Sign(g - p) # g
  BY DEF Abs, Sign

\* A goal one step further away is no further away after the step.
LEMMA NoFurther ==
    ASSUME NEW p \in Int, NEW g \in Int, NEW s \in {-1, 0, 1}
    PROVE  Abs((g + s) - (p + Sign((g + s) - p))) <= Abs(g - p)
  BY DEF Abs, Sign

\* The goals of the three kinds of ticks.
LEMMA Goals ==
    ASSUME Inv
    PROVE  /\ target \in Vectors /\ NextTarget \in Vectors
           /\ \A d \in ArcSteps : [i \in Axes |-> target[i] + d[i]] \in Vectors
           /\ \A i \in Axes : \E s \in {-1, 0, 1} : NextTarget[i] = target[i] + s
<1>1. target \in Vectors /\ x \in Vectors
  BY DEF Inv, TypeOK
<1>2. \A i \in Axes : Direction(i) \in {-1, 0, 1} /\ target[i] \in Int
  BY <1>1, AbsType DEF Direction, Vectors
<1>3. \A i \in Axes : NextTarget[i] \in Int /\ \E s \in {-1, 0, 1} : NextTarget[i] = target[i] + s
  <2> SUFFICES ASSUME NEW i \in Axes
               PROVE  \E s \in {-1, 0, 1} : NextTarget[i] = target[i] + s
    BY <1>2
  <2> DEFINE s == IF Steps(i) THEN Direction(i) ELSE 0
  <2>1. s \in {-1, 0, 1}
    BY <1>2
  <2>2. NextTarget[i] = target[i] + s
    BY DEF NextTarget
  <2> QED BY <2>1, <2>2
<1>4. NextTarget \in Vectors
  BY <1>3 DEF Vectors, NextTarget
<1>5. \A d \in ArcSteps : [i \in Axes |-> target[i] + d[i]] \in Vectors
  BY <1>2, ArcStepsAssumption DEF Vectors
<1> QED BY <1>1, <1>3, <1>4, <1>5

LEMMA BehindStep == Inv /\ Behind /\ [Next]_vars => Behind'
<1> SUFFICES ASSUME Inv, Behind, [Next]_vars
             PROVE  Behind'
  OBVIOUS
<1>1. ASSUME NEW goal \in Vectors, MakeSteps(goal)
      PROVE  Behind'
  <2> SUFFICES ASSUME ~ready' PROVE pos' # target'
    BY DEF Behind
  <2>1. PICK i \in Axes : goal[i] - pos[i] \notin -1 .. 1
    BY <1>1 DEF MakeSteps
  <2>2. target' = goal /\ pos'[i] = pos[i] + Sign(goal[i] - pos[i])
    BY <1>1, <2>1 DEF MakeSteps
  <2>3. pos[i] \in Int /\ goal[i] \in Int
    BY DEF Inv, TypeOK, Vectors
  <2>4. pos'[i] # goal[i]
    BY <2>1, <2>2, <2>3, Nearer
  <2> QED BY <2>2, <2>4
<1>2. CASE UNCHANGED <<ready, pos, target>>
  BY <1>2 DEF Behind
<1>3. CASE ready' = TRUE
  BY <1>3 DEF Behind
<1>4. CASE moves_step_tick
  <2>1. CASE LineTick
    BY <1>1, <1>2, <2>1, Goals DEF LineTick, Finish
  <2>2. CASE ArcTick
    BY <1>1, <1>2, <2>2, Goals DEF ArcTick, Finish
  <2>3. CASE CatchUpTick
    BY <1>1, <2>3, Goals DEF CatchUpTick
  <2> QED BY <1>2, <1>4, <2>1, <2>2, <2>3 DEF moves_step_tick, TouchTick
<1> QED BY <1>2, <1>3, <1>4 DEF Next, vars, StartLine, StartArc, Break

LEMMA BehindAlways == Spec => []Behind
<1>1. Init => Behind
  BY DEF Init, Behind
<1> QED BY <1>1, BehindStep, Invariance, PTL DEF Spec

\* What three axes owe together.
LEMMA Together ==
    ASSUME NEW a \in Nat, NEW b \in Nat, NEW c \in Nat, NEW k \in Nat,
           NEW a1 \in Nat, NEW b1 \in Nat, NEW c1 \in Nat,
           a1 <= a, b1 <= b, c1 <= c
    PROVE  /\ (k - 1) + (a1 + b1 + c1) < k + (a + b + c)
           /\ a1 < a \/ b1 < b \/ c1 < c => k + (a1 + b1 + c1) < k + (a + b + c)
  OBVIOUS

LEMMA ToGoType == Inv => ToGo \in Nat
<1> SUFFICES ASSUME Inv PROVE ToGo \in Nat
  OBVIOUS
<1>1. \A i \in Axes : Owed(i) \in Nat
  <2> SUFFICES ASSUME NEW i \in Axes PROVE Owed(i) \in Nat
    OBVIOUS
  <2>1. target[i] - pos[i] \in Int
    BY DEF Inv, TypeOK, Vectors
  <2> QED BY <2>1, AbsType DEF Owed
<1>2. Owed(0) \in Nat /\ Owed(1) \in Nat /\ Owed(2) \in Nat
  BY <1>1 DEF Axes
<1>3. steps - t \in Nat
  BY DEF Inv, TypeOK
<1> QED BY <1>2, <1>3 DEF ToGo

\* A tick that does not end the line brings its end nearer.
LEMMA TickRunsDown ==
    ASSUME Inv, Inv', Behind, kind = "line", moves_step_tick, outcome' = "moving"
    PROVE  ToGo' < ToGo
<1>1. /\ steps \in Nat /\ t \in 0 .. steps /\ steps - t \in Nat
      /\ \A i \in Axes : pos[i] \in Int /\ target[i] \in Int
      /\ \A i \in Axes : pos'[i] \in Int /\ target'[i] \in Int
  BY DEF Inv, TypeOK, Vectors
<1>2. /\ Owed(0) \in Nat /\ Owed(1) \in Nat /\ Owed(2) \in Nat
      /\ Owed(0)' \in Nat /\ Owed(1)' \in Nat /\ Owed(2)' \in Nat
  <2>1. \A i \in Axes : Abs(target[i] - pos[i]) \in Nat /\ Abs(target'[i] - pos'[i]) \in Nat
    <3> SUFFICES ASSUME NEW i \in Axes
                 PROVE  Abs(target[i] - pos[i]) \in Nat /\ Abs(target'[i] - pos'[i]) \in Nat
      OBVIOUS
    <3>1. target[i] - pos[i] \in Int /\ target'[i] - pos'[i] \in Int
      BY <1>1
    <3> QED BY <3>1, AbsType
  <2> QED BY <2>1 DEF Owed, Axes
<1>3. CASE LineTick
  <2>1. t' = t + 1 /\ steps' = steps /\ MakeSteps(NextTarget) /\ t < steps
    BY <1>1, <1>3 DEF LineTick, Finish
  <2>2. \A i \in Axes : Abs(target'[i] - pos'[i]) <= Abs(target[i] - pos[i])
    <3> SUFFICES ASSUME NEW i \in Axes
                 PROVE  Abs(target'[i] - pos'[i]) <= Abs(target[i] - pos[i])
      OBVIOUS
    <3>1. PICK s \in {-1, 0, 1} : NextTarget[i] = target[i] + s
      BY Goals
    <3>2. target'[i] = target[i] + s /\ pos'[i] = pos[i] + Sign((target[i] + s) - pos[i])
      BY <2>1, <3>1 DEF MakeSteps
    <3>3. pos[i] \in Int /\ target[i] \in Int
      BY <1>1
    <3>4. Abs((target[i] + s) - (pos[i] + Sign((target[i] + s) - pos[i]))) <= Abs(target[i] - pos[i])
      BY <3>3, NoFurther
    <3> QED BY <3>2, <3>4
  <2>3. Owed(0)' <= Owed(0) /\ Owed(1)' <= Owed(1) /\ Owed(2)' <= Owed(2)
    BY <2>2 DEF Owed, Axes
  <2>4. steps' - t' = (steps - t) - 1
    BY <1>1, <2>1
  <2>5. ((steps - t) - 1) + (Owed(0)' + Owed(1)' + Owed(2)')
          < (steps - t) + (Owed(0) + Owed(1) + Owed(2))
    BY <1>1, <1>2, <2>3, Together
  <2> QED BY <2>4, <2>5 DEF ToGo
<1>4. CASE CatchUpTick
  <2>1. t' = t /\ steps' = steps /\ MakeSteps(target) /\ ~ready
    BY <1>4 DEF CatchUpTick, lineVars
  <2>2. \A i \in Axes : /\ Abs(target'[i] - pos'[i]) <= Abs(target[i] - pos[i])
                        /\ pos[i] # target[i]
                             => Abs(target'[i] - pos'[i]) < Abs(target[i] - pos[i])
    <3> SUFFICES ASSUME NEW i \in Axes
                 PROVE  /\ Abs(target'[i] - pos'[i]) <= Abs(target[i] - pos[i])
                        /\ pos[i] # target[i]
                             => Abs(target'[i] - pos'[i]) < Abs(target[i] - pos[i])
      OBVIOUS
    <3>1. target'[i] = target[i] /\ pos'[i] = pos[i] + Sign(target[i] - pos[i])
      BY <2>1 DEF MakeSteps
    <3>2. pos[i] \in Int /\ target[i] \in Int /\ target[i] - pos[i] \in Int
      BY <1>1
    <3>3. Abs(target[i] - pos[i]) \in Nat
      BY <3>2, AbsType
    <3>4. /\ pos[i] # target[i] => Abs(target'[i] - pos'[i]) = Abs(target[i] - pos[i]) - 1
          /\ pos[i] = target[i] => Abs(target'[i] - pos'[i]) = 0
      BY <3>1, <3>2, Nearer
    <3> QED BY <3>3, <3>4
  <2>3. \E i \in Axes : pos[i] # target[i]
    <3>1. pos # target
      BY <2>1 DEF Behind
    <3>2. pos \in [Axes -> Int] /\ target \in [Axes -> Int]
      BY DEF Inv, TypeOK, Vectors
    <3> QED BY <3>1, <3>2
  <2>4. Owed(0)' <= Owed(0) /\ Owed(1)' <= Owed(1) /\ Owed(2)' <= Owed(2)
    BY <2>2 DEF Owed, Axes
  <2>5. Owed(0)' < Owed(0) \/ Owed(1)' < Owed(1) \/ Owed(2)' < Owed(2)
    BY <2>2, <2>3 DEF Owed, Axes
  <2>6. (steps - t) + (Owed(0)' + Owed(1)' + Owed(2)')
          < (steps - t) + (Owed(0) + Owed(1) + Owed(2))
    BY <1>1, <1>2, <2>4, <2>5, Together
  <2> QED BY <2>1, <2>6 DEF ToGo
<1>5. LineTick \/ CatchUpTick
  BY DEF moves_step_tick, TouchTick, ArcTick
<1> QED BY <1>3, <1>4, <1>5

-----------------------------------------------------------------------------
(* Theorems                                                                 *)

THEOREM TypeCorrect == Spec => []TypeOK
<1>1. Inv => TypeOK
  BY DEF Inv
<1> QED BY <1>1, Invariance, PTL

\* Bresenham stays within half a step of the straight line (line.c, make_step).
THEOREM StaysStraight == Spec => []Straight
<1>1. Inv => Straight
  <2> SUFFICES ASSUME Inv, OnLine, NEW i \in Axes
               PROVE  2 * Abs(t * x[i] - steps * (target[i] - origin[i])) <= steps
    BY DEF Straight
  <2> DEFINE a == Abs(x[i])
             s == Sign(x[i])
             e == err[i]
             w == steps * (target[i] - origin[i])
  <2>1. steps \in Nat /\ t \in Nat /\ e \in Int /\ x[i] \in Int
    BY DEF Inv, TypeOK, Vectors
  <2>2. a \in Nat /\ s \in {-1, 0, 1} /\ x[i] = s * a
    BY <2>1, AbsType
  <2>3. ErrBound(i) /\ Balance(i) /\ steps > 0
    BY DEF Inv, LineInv, OnLine
  <2>4. w = s * (t * a - e)
    BY <2>3 DEF Balance, Direction
  <2>5. -steps <= 2 * e /\ 2 * e <= steps
    BY <2>1, <2>3 DEF ErrBound
  <2>6. t * x[i] - w = s * e
    <3> HIDE DEF a, s, e, w
    <3>1. t * a \in Int
      BY <2>1, <2>2
    <3> DEFINE q == t * a
    <3>2. t * x[i] = s * q
      BY <2>1, <2>2
    <3>3. w = s * (q - e) /\ q \in Int
      BY <2>4, <3>1
    <3> HIDE DEF q
    <3> QED BY <2>1, <2>2, <3>2, <3>3
  <2>7. 2 * Abs(s * e) <= steps
    <3> HIDE DEF a, s, e, w
    <3> QED BY <2>1, <2>2, <2>5 DEF Abs
  <2> QED BY <2>6, <2>7
<1> QED BY <1>1, Invariance, PTL

\* A line that is not broken makes exactly the steps asked for.
THEOREM EndsExactly == Spec => []Exact
<1>1. Inv => Exact
  <2> SUFFICES ASSUME Inv, kind = "line", outcome = "done", NEW i \in Axes
               PROVE  target[i] = origin[i] + x[i]
    BY DEF Exact
  <2> DEFINE a == Abs(x[i])
             s == Sign(x[i])
             e == err[i]
             w == target[i] - origin[i]
             k == x[i] - w
  <2>1. /\ steps \in Nat /\ e \in Int /\ x[i] \in Int
        /\ target[i] \in Int /\ origin[i] \in Int
    BY DEF Inv, TypeOK, Vectors
  <2>2. a \in Nat /\ s \in {-1, 0, 1} /\ x[i] = s * a
    BY <2>1, AbsType
  <2>3. ErrBound(i) /\ Balance(i) /\ steps > 0 /\ t = steps
    BY DEF Inv, LineInv
  <2>4. steps * w = s * (steps * a - e)
    BY <2>3 DEF Balance, Direction
  <2>5. -steps <= 2 * e /\ 2 * e <= steps
    BY <2>1, <2>3 DEF ErrBound
  <2>6. steps * k = s * e
    <3>1. w \in Int
      BY <2>1
    <3> DEFINE q == steps * a
    <3>2. q \in Int /\ steps * x[i] = s * q
      <4> HIDE DEF a, s
      <4> QED BY <2>1, <2>2
    <3>3. steps * (x[i] - w) = steps * x[i] - steps * w
      <4> HIDE DEF w
      <4> QED BY <2>1, <3>1
    <3>4. steps * w = s * (q - e)
      BY <2>4
    <3>5. s * (q - e) = s * q - s * e
      <4> HIDE DEF a, s, e, q
      <4> QED BY <2>1, <2>2, <3>2
    <3>6. s * q \in Int /\ s * e \in Int
      <4> HIDE DEF a, s, e, q
      <4> QED BY <2>1, <2>2, <3>2
    <3> HIDE DEF a, s, e, w, q
    <3> QED BY <3>2, <3>3, <3>4, <3>5, <3>6 DEF k
  <2>7. -steps <= 2 * (s * e) /\ 2 * (s * e) <= steps
    <3> HIDE DEF a, s, e, w, k
    <3> QED BY <2>1, <2>2, <2>5
  <2>8. k = 0
    <3>1. k \in Int
      BY <2>1
    <3> HIDE DEF k, s, e
    <3> QED BY <2>1, <2>3, <2>6, <2>7, <3>1, SmallMultiple
  <2> QED BY <2>1, <2>8
<1> QED BY <1>1, Invariance, PTL

\* A line never ends with steps still owed, whatever a broken arc has left behind
\* (moves_common_make_steps, and the test of ready in moves_step_tick).
THEOREM LineArrives == Spec => []Arrived
<1>1. Settled => Arrived
  BY DEF Settled, Arrived
<1> QED BY <1>1, SettledAlways, PTL

\* A line never steps down through a closed endstop, not even to catch up
\* (line_check_endstops comes before every step of moves_step_tick).
THEOREM LineStops == Spec => LineStopsInTime
<1>1. Inv /\ [Next]_vars =>
        [kind = "line" => \A i \in Axes : x[i] < 0 /\ pos'[i] < pos[i] => ~Stop(i)]_vars
  BY TickStopsInTime DEF vars
<1> QED BY <1>1, Invariance, PTL DEF Spec, LineStopsInTime

\* A tick of a line that does not end it lowers ToGo, a natural number, so that a
\* line ends after at most ToGo ticks and one: the steps of the longest axis and
\* those an arc has left behind (line_step_tick, and the catch-up steps of
\* moves_step_tick). LineEnds is this and the timer going on.
THEOREM LineRunsDown ==
    Spec => /\ [](ToGo \in Nat)
            /\ [][kind = "line" /\ moves_step_tick
                    => outcome' # "moving" \/ ToGo' < ToGo]_vars
<1>1. Inv => ToGo \in Nat
  BY ToGoType
<1>2. Inv /\ Inv' /\ Behind /\ [Next]_vars =>
        [kind = "line" /\ moves_step_tick => outcome' # "moving" \/ ToGo' < ToGo]_vars
  BY TickRunsDown
<1> QED BY <1>1, <1>2, BehindAlways, Invariance, PTL DEF Spec

=============================================================================
