-------------------------- MODULE AccelerationProofs --------------------------
(****************************************************************************)
(* The speed of a line, for lines of any length, any feeds and any          *)
(* acceleration.                                                            *)
(*                                                                          *)
(* What the plan owes to the 32 bits it is made of is in Profile: a first   *)
(* ramp that is no longer than asked for, or one so long that the line ends *)
(* before it, and then only on a line that is too short to brake.  On a     *)
(* line that has room for both ramps the first ends before the last begins, *)
(* and the last begins early enough.                                        *)
(*                                                                          *)
(* The limits of the feed are not inductive.  Following says how far the    *)
(* feed has come on the first ramp, and what is left of it on the last.     *)
(****************************************************************************)
EXTENDS Acceleration, TLAPS

Profile ==
    /\ steps \in Nat /\ acc_steps \in Unsigned /\ dec_steps \in Unsigned
    /\ feed \in Nat /\ feed0 \in FEED_BASE .. feed /\ feed1 \in FEED_BASE .. feed
    /\ asked = <<feed - feed0, feed - feed1>>
    /\ acc_steps * Gain <= asked[1] \/ (~CanBrake /\ acc_steps >= steps)
    /\ Fits => /\ acc_steps <= dec_steps /\ dec_steps <= steps
               /\ asked[2] <= (steps - dec_steps) * Gain
    /\ Fits /\ asked[1] <= asked[2] => asked[1] < acc_steps * Gain + Gain

\* Not above the feed, but for the surplus of the first ramp.
Within == speed <= feed \/ speed <= feed + acc_steps * Surplus - Gain

Following ==
    /\ current_t \in 0 .. steps /\ speed \in Nat /\ speed >= FEED_BASE
    /\ type \in {"acc", "go", "dec", "stop", "stop_completion"}
    /\ type = "acc" =>
          /\ current_t = 0 \/ current_t < acc_steps
          /\ feed0 + current_t * Gain <= speed
          /\ speed <= feed0 + current_t * Gain + current_t * Surplus
    /\ type = "go" => speed = feed /\ current_t < dec_steps
    /\ type = "dec" /\ Fits =>
          /\ current_t >= dec_steps
          /\ speed + (current_t - dec_steps) * Gain <= feed + Gain + current_t * Surplus
    /\ type = "stop_completion" => speed = feed1
    /\ type = "stop" => current_t = steps
    /\ Within \/ (type \in {"acc", "stop"} /\ ~CanBrake)
    /\ Fits /\ current_t = steps => speed <= feed1 + 2 * Gain + steps * Surplus
    /\ asked[1] <= asked[2] => speed >= feed1

AccelerationInv == Profile /\ Following

-----------------------------------------------------------------------------
(* Products, quotients and remainders                                       *)

LEMMA Times ==
    ASSUME NEW a \in Nat, NEW g \in Nat
    PROVE  /\ a * g \in Nat
           /\ (a + 1) * g = a * g + g
           /\ \A b \in Nat : a <= b => a * g <= b * g
<1>1. a * g \in Nat /\ (a + 1) * g = a * g + g
  OBVIOUS
<1>2. ASSUME NEW b \in Nat, a <= b PROVE a * g <= b * g
  <2>1. PICK d \in Nat : b = a + d
    <3>1. b - a \in Nat /\ b = a + (b - a)
      BY <1>2
    <3> QED BY <3>1
  <2>2. b * g = a * g + d * g /\ d * g \in Nat
    BY <2>1
  <2> QED BY <1>1, <2>2
<1> QED BY <1>1, <1>2

\* The quotient is the number of times that the divisor goes in.
LEMMA Quotient ==
    ASSUME NEW a \in Nat, NEW g \in Nat \ {0}
    PROVE  /\ a \div g \in Nat
           /\ (a \div g) * g <= a
           /\ a < (a \div g) * g + g
           /\ \A q \in Nat : q * g <= a => q <= a \div g
<1>1. /\ a % g \in 0 .. g - 1 /\ a \div g \in Int
      /\ a = g * (a \div g) + (a % g)
  OBVIOUS
<1> DEFINE p == a \div g
<1>2. p \in Int /\ p * g <= a /\ a < p * g + g
  BY <1>1
<1> HIDE DEF p
<1>3. p \in Nat
  <2> SUFFICES ASSUME p < 0 PROVE FALSE
    BY <1>2
  <2>1. (0 - p - 1) \in Nat
    BY <1>2
  <2>2. (0 - p - 1) * g \in Nat
    BY <2>1, Times
  <2>3. (0 - p - 1) * g = 0 - p * g - g
    BY <1>2
  <2> QED BY <1>2, <2>2, <2>3
<1>4. ASSUME NEW q \in Nat, q * g <= a PROVE q <= p
  <2> SUFFICES ASSUME p + 1 <= q PROVE FALSE
    BY <1>3
  <2>1. (p + 1) * g <= q * g /\ (p + 1) * g = p * g + g /\ p * g \in Nat /\ q * g \in Nat
    BY <1>3, Times
  <2> QED BY <1>2, <1>4, <2>1
<1> QED BY <1>2, <1>3, <1>4 DEF p

\* What wraps.
LEMMA WrapIs ==
    ASSUME NEW x \in Int
    PROVE  /\ Wrap(x) \in Unsigned
           /\ x \in Unsigned => Wrap(x) = x
           /\ x < 0 /\ x + UINT >= 0 => Wrap(x) = x + UINT
           /\ x >= UINT /\ x < 2 * UINT => Wrap(x) = x - UINT
<1> DEFINE r == x % UINT
           k == x \div UINT
<1>1. UINT \in Nat \ {0}
  BY AccelerationAssumption
<1>2. r \in 0 .. UINT - 1 /\ k \in Int /\ x = UINT * k + r
  BY <1>1
<1> HIDE DEF r, k
<1>3. k = 0 \/ k = 1 \/ k = -1 \/ k >= 2 \/ k <= -2
  BY <1>2
<1>4. k >= 2 => UINT * k >= 2 * UINT
  <2> SUFFICES ASSUME k >= 2 PROVE UINT * k >= 2 * UINT
    OBVIOUS
  <2>1. k - 2 \in Nat /\ UINT * (k - 2) \in Nat /\ UINT * k = UINT * (k - 2) + 2 * UINT
    BY <1>1, <1>2
  <2> QED BY <1>1, <2>1
<1>5. k <= -2 => UINT * k <= -(2 * UINT)
  <2> SUFFICES ASSUME k <= -2 PROVE UINT * k <= -(2 * UINT)
    OBVIOUS
  <2>1. -2 - k \in Nat /\ UINT * (-2 - k) \in Nat /\ UINT * k = -(2 * UINT) - UINT * (-2 - k)
    BY <1>1, <1>2
  <2> QED BY <1>1, <1>2, <2>1
<1>6. /\ k = 0 => UINT * k = 0
      /\ k = 1 => UINT * k = UINT
      /\ k = -1 => UINT * k = -UINT
  BY <1>1
<1> DEFINE m == UINT * k
<1>7. m \in Int /\ x = m + r
  BY <1>1, <1>2
<1>8. m = 0 \/ m = UINT \/ m = -UINT \/ m >= 2 * UINT \/ m <= -(2 * UINT)
  BY <1>3, <1>4, <1>5, <1>6
<1> HIDE DEF m
<1>9. Wrap(x) = r
  BY DEF Wrap, r
<1> QED BY <1>1, <1>2, <1>7, <1>8, <1>9 DEF Unsigned

-----------------------------------------------------------------------------
(* The plan                                                                 *)

\* What becomes of the two ramps when their sum is compared with the line.
LEMMA BalancedIs ==
    ASSUME NEW n \in Lengths, NEW acc \in Unsigned, NEW dec \in Unsigned
    PROVE  LET b == Balanced(acc, dec, n)
           IN  /\ b[1] \in Unsigned /\ b[2] \in Unsigned
               /\ b[1] <= acc \/ b[1] >= n
               /\ dec <= n => b[1] <= acc
               /\ acc <= dec /\ dec <= n => b[1] <= b[2] /\ b[2] <= dec
               /\ acc + dec <= n => b[1] = acc
<1>1. n \in Nat \ {0} /\ 2 * n < UINT /\ UINT \in Nat \ {0}
  BY AccelerationAssumption
<1>2. acc \in Nat /\ dec \in Nat /\ acc < UINT /\ dec < UINT
  BY <1>1 DEF Unsigned
<1> DEFINE sum == Wrap(acc + dec)
           d == (sum - n) \div 2
           rest == Wrap(Wrap(acc - d) + Wrap(dec - d))
<1>0. Balanced(acc, dec, n) =
          IF sum <= n THEN <<acc, dec>>
          ELSE IF rest < n THEN <<Wrap(acc - d + n - rest), Wrap(dec - d)>>
          ELSE <<Wrap(acc - d), Wrap(dec - d)>>
  BY DEF Balanced
<1> HIDE DEF rest
<1>3. /\ sum \in Unsigned /\ sum \in Nat /\ sum < UINT
      /\ sum = acc + dec \/ (sum = acc + dec - UINT /\ acc + dec >= UINT)
  BY <1>1, <1>2, WrapIs DEF Unsigned
<1>4. CASE sum <= n
  <2>1. Balanced(acc, dec, n) = <<acc, dec>>
    BY <1>0, <1>4
  <2> QED BY <1>2, <2>1
<1>5. CASE sum > n
  <2>1. d \in Nat /\ 2 * d <= sum - n /\ sum - n <= 2 * d + 1
    BY <1>1, <1>3, <1>5
  <2> HIDE DEF d
  <2>2. acc + dec <= n => FALSE
    BY <1>1, <1>2, <1>3, <1>5
  <2> HIDE DEF sum
  <2> DEFINE wa == Wrap(acc - d)
             wd == Wrap(dec - d)
  <2>3. /\ wa \in Nat /\ wa < UINT
        /\ acc >= d => wa = acc - d
        /\ acc < d => wa = acc - d + UINT
    BY <1>1, <1>2, <1>3, <2>1, WrapIs DEF Unsigned
  <2>4. /\ wd \in Nat /\ wd < UINT
        /\ dec >= d => wd = dec - d
        /\ dec < d => wd = dec - d + UINT
    BY <1>1, <1>2, <1>3, <2>1, WrapIs DEF Unsigned
  <2>5. rest = Wrap(wa + wd)
    BY DEF rest
  <2>6. Balanced(acc, dec, n) = IF rest < n THEN <<Wrap(acc - d + n - rest), wd>> ELSE <<wa, wd>>
    BY <1>0, <1>1, <1>3, <1>5 DEF sum
  <2> HIDE DEF wa, wd
  <2>7. /\ wa + wd < UINT => rest = wa + wd
        /\ wa + wd >= UINT => rest = wa + wd - UINT
    BY <1>1, <2>3, <2>4, <2>5, WrapIs DEF Unsigned
  <2>8. rest >= n
    BY <1>1, <1>2, <1>3, <2>1, <2>3, <2>4, <2>7
  <2>9. Balanced(acc, dec, n) = <<wa, wd>>
    <3>1. rest \in Int
      BY <1>1, <2>3, <2>4, <2>7
    <3> QED BY <1>1, <2>6, <2>8, <3>1
  <2>10. wa <= acc \/ wa >= n
    BY <1>1, <1>2, <1>3, <2>1, <2>3
  <2>11. dec <= n => d <= acc
    BY <1>1, <1>2, <1>3, <1>5, <2>1
  <2>12. wa \in Unsigned /\ wd \in Unsigned
    BY <1>1, <2>3, <2>4 DEF Unsigned
  <2> QED BY <1>1, <1>2, <2>1, <2>2, <2>3, <2>4, <2>9, <2>10, <2>11, <2>12
<1> QED BY <1>1, <1>3, <1>4, <1>5

\* The length of a ramp, in 32 bits.
LEMMA ToUnsignedIs ==
    ASSUME NEW x \in Int, NEW q \in ToUnsigned(x, Gain)
    PROVE  /\ q \in Unsigned
           /\ x >= 0 => q * Gain <= x
           /\ x >= 0 /\ x \div Gain \in Unsigned => q = x \div Gain
<1>1. Gain \in Nat \ {0} /\ UINT \in Nat \ {0}
  BY AccelerationAssumption
<1>2. CASE x < 0
  <2>1. -((-x) \div Gain) \in Int
    BY <1>1
  <2>2. q = 0 \/ q = Wrap(-((-x) \div Gain))
    BY <1>2 DEF ToUnsigned
  <2>3. q \in Unsigned
    BY <1>1, <2>1, <2>2, WrapIs DEF Unsigned
  <2> QED BY <1>2, <2>3
<1>3. CASE x >= 0
  <2> DEFINE p == x \div Gain
  <2>1. p \in Nat /\ p * Gain <= x
    BY <1>1, <1>3, Quotient
  <2>2. \/ p \in Unsigned /\ q = p
        \/ p \notin Unsigned /\ (q = UINT - 1 \/ q = Wrap(p))
    BY <1>3 DEF ToUnsigned
  <2> HIDE DEF p
  <2>3. q \in Unsigned
    BY <1>1, <2>1, <2>2, WrapIs DEF Unsigned
  <2>4. q \in Nat /\ q <= p
    BY <1>1, <2>1, <2>2, <2>3 DEF Unsigned
  <2>5. q * Gain <= p * Gain /\ q * Gain \in Nat /\ p * Gain \in Nat
    BY <1>1, <2>1, <2>4, Times
  <2> QED BY <1>3, <2>1, <2>2, <2>3, <2>5 DEF p
<1> QED BY <1>2, <1>3

\* The feeds of a plan.
LEMMA FeedsIs ==
    ASSUME NEW f \in Feeds, NEW f0 \in Feeds, NEW f1 \in Feeds
    PROVE  LET target == TargetFeed(f)
           IN  /\ target \in Nat /\ target >= FEED_BASE
               /\ EdgeFeed(f0, target) \in FEED_BASE .. target
               /\ EdgeFeed(f1, target) \in FEED_BASE .. target
<1>1. /\ FEED_BASE \in Nat \ {0} /\ FEED_MAX \in Nat /\ (FEED_MAX = 0 \/ FEED_MAX >= FEED_BASE)
      /\ f \in Nat /\ f0 \in Nat /\ f1 \in Nat
  BY AccelerationAssumption
<1> DEFINE target == TargetFeed(f)
<1>2. target \in Nat /\ target >= FEED_BASE
  BY <1>1 DEF TargetFeed, Clamp
<1> HIDE DEF target
<1>3. EdgeFeed(f0, target) \in FEED_BASE .. target /\ EdgeFeed(f1, target) \in FEED_BASE .. target
  BY <1>1, <1>2 DEF EdgeFeed, Clamp
<1> QED BY <1>2, <1>3 DEF target

\* line_pre_calculate: a is how long the first ramp should be, in squares of the
\* feed, and b the last.
LEMMA RampsAre ==
    ASSUME NEW n \in Lengths, NEW a \in Nat, NEW b \in Nat,
           NEW acc \in ToUnsigned(a, Gain), NEW dec \in ToUnsigned(n * Gain - b, Gain)
    PROVE  LET r == Balanced(acc, dec, n)
           IN  /\ r[1] \in Unsigned /\ r[2] \in Unsigned
               /\ r[1] * Gain <= a \/ (~(b <= n * Gain) /\ r[1] >= n)
               /\ a + b <= n * Gain => /\ r[1] <= r[2] /\ r[2] <= n
                                       /\ b <= (n - r[2]) * Gain
               /\ a + b <= n * Gain /\ a <= b => a < r[1] * Gain + Gain
<1>1. Gain \in Nat \ {0} /\ UINT \in Nat \ {0} /\ n \in Nat \ {0} /\ 2 * n < UINT
  BY AccelerationAssumption
<1> DEFINE whole == n * Gain
<1>2. whole \in Nat
  BY <1>1
<1>3. /\ acc \in Unsigned /\ acc * Gain <= a
      /\ a \div Gain \in Unsigned => acc = a \div Gain
  BY ToUnsignedIs
<1>4. /\ dec \in Unsigned
      /\ whole - b >= 0 => dec * Gain <= whole - b
      /\ whole - b >= 0 /\ (whole - b) \div Gain \in Unsigned => dec = (whole - b) \div Gain
  BY <1>2, ToUnsignedIs
<1>5. acc \in Nat /\ dec \in Nat
  BY <1>1, <1>3, <1>4 DEF Unsigned
<1> DEFINE r == Balanced(acc, dec, n)
<1>6. /\ r[1] \in Unsigned /\ r[2] \in Unsigned
      /\ r[1] <= acc \/ r[1] >= n
      /\ dec <= n => r[1] <= acc
      /\ acc <= dec /\ dec <= n => r[1] <= r[2] /\ r[2] <= dec
      /\ acc + dec <= n => r[1] = acc
  BY <1>3, <1>4, BalancedIs
<1> DEFINE r1 == r[1]
           r2 == r[2]
<1> HIDE DEF r
<1>7. r1 \in Nat /\ r2 \in Nat
  BY <1>1, <1>6 DEF Unsigned
\* What is not too long for the line is in range.
<1>8. ASSUME NEW x \in Nat, x <= whole
      PROVE  /\ x \div Gain \in Unsigned /\ x \div Gain \in Nat /\ x \div Gain <= n
             /\ (x \div Gain) * Gain <= x /\ x < (x \div Gain) * Gain + Gain
  <2> DEFINE p == x \div Gain
  <2>1. p \in Nat /\ p * Gain <= x /\ x < p * Gain + Gain
    BY <1>1, Quotient
  <2> HIDE DEF p
  <2>2. p <= n
    <3> SUFFICES ASSUME n + 1 <= p PROVE FALSE
      BY <1>1, <2>1
    <3>1. (n + 1) * Gain <= p * Gain /\ (n + 1) * Gain = whole + Gain /\ p * Gain \in Nat
      BY <1>1, <2>1, Times
    <3> QED BY <1>1, <1>2, <1>8, <2>1, <3>1
  <2> QED BY <1>1, <2>1, <2>2 DEF p, Unsigned
<1>9. r1 <= acc => r1 * Gain <= a
  <2> SUFFICES ASSUME r1 <= acc PROVE r1 * Gain <= a
    OBVIOUS
  <2>1. r1 * Gain <= acc * Gain /\ r1 * Gain \in Nat /\ acc * Gain \in Nat
    BY <1>1, <1>5, <1>7, Times
  <2> QED BY <1>3, <2>1
<1>10. b <= whole => dec <= n
  BY <1>2, <1>4, <1>8
<1>11. r1 * Gain <= a \/ (~(b <= whole) /\ r1 >= n)
  BY <1>6, <1>9, <1>10
<1>12. ASSUME a + b <= whole
       PROVE  /\ r1 <= r2 /\ r2 <= n /\ b <= (n - r2) * Gain
              /\ a <= b => a < r1 * Gain + Gain
  <2> DEFINE rest == whole - b
  <2>1. rest \in Nat /\ rest <= whole /\ a <= rest /\ a <= whole /\ b <= whole
    BY <1>2, <1>12
  <2>2. /\ dec = rest \div Gain /\ dec * Gain <= rest /\ rest < dec * Gain + Gain /\ dec <= n
    BY <1>4, <1>8, <2>1
  <2>3. acc = a \div Gain /\ a < acc * Gain + Gain
    BY <1>3, <1>8, <2>1
  <2>4. acc <= dec
    <3>1. acc * Gain <= rest
      BY <1>1, <1>3, <1>5, <2>1
    <3> QED BY <1>1, <1>5, <2>1, <2>2, <3>1, Quotient
  <2>5. r1 <= r2 /\ r2 <= dec
    BY <1>6, <2>2, <2>4
  <2>6. b <= (n - r2) * Gain
    <3>1. r2 * Gain <= dec * Gain /\ r2 * Gain \in Nat /\ dec * Gain \in Nat
      BY <1>1, <1>5, <1>7, <2>5, Times
    <3>2. (n - r2) * Gain = n * Gain - r2 * Gain
      BY <1>1, <1>7
    <3> QED BY <1>2, <2>2, <3>1, <3>2
  <2>7. a <= b => acc + dec <= n
    <3> SUFFICES ASSUME a <= b PROVE acc + dec <= n
      OBVIOUS
    <3>1. acc * Gain \in Nat /\ dec * Gain \in Nat /\ (acc + dec) * Gain = acc * Gain + dec * Gain
      BY <1>1, <1>5
    <3>2. (acc + dec) * Gain <= whole
      BY <1>2, <1>3, <2>2, <3>1
    <3> SUFFICES ASSUME n + 1 <= acc + dec PROVE FALSE
      BY <1>1, <1>5
    <3>3. (n + 1) * Gain <= (acc + dec) * Gain /\ (n + 1) * Gain = whole + Gain
      BY <1>1, <1>5, Times
    <3> QED BY <1>1, <1>2, <3>1, <3>2, <3>3
  <2>8. r2 <= n
    BY <1>1, <1>5, <1>7, <2>2, <2>5
  <2> QED BY <1>6, <2>3, <2>5, <2>6, <2>7, <2>8
<1> QED BY <1>6, <1>11, <1>12 DEF r

\* line_pre_calculate and line_move_to make a plan, and begin to follow it.
LEMMA StartInv ==
    ASSUME NEW n \in Lengths, NEW f \in Feeds, NEW f0 \in Feeds, NEW f1 \in Feeds,
           Start(n, f, f0, f1)
    PROVE  AccelerationInv'
<1>1. /\ Gain \in Nat \ {0} /\ UINT \in Nat \ {0} /\ n \in Nat \ {0} /\ FEED_BASE \in Nat
      /\ Surplus \in Nat
  BY AccelerationAssumption, Quotient DEF Surplus
<1>2. /\ feed' \in Nat /\ feed0' \in FEED_BASE .. feed' /\ feed1' \in FEED_BASE .. feed'
      /\ steps' = n /\ asked' = <<feed' - feed0', feed' - feed1'>>
      /\ type' = "acc" /\ current_t' = 0 /\ speed' = feed0'
  BY FeedsIs DEF Start
<1>9. feed0' \in Nat /\ feed1' \in Nat /\ feed0' <= feed' /\ feed1' <= feed'
  BY <1>1, <1>2
<1> DEFINE a == feed' - feed0'
           b == feed' - feed1'
<1>3. a \in Nat /\ b \in Nat
  <2>1. \A x, y \in Nat : y <= x => x - y \in Nat
    OBVIOUS
  <2> QED BY <1>2, <1>9, <2>1
<1>4. PICK acc \in ToUnsigned(a, Gain), dec \in ToUnsigned(n * Gain - b, Gain) :
          acc_steps' = Balanced(acc, dec, n)[1] /\ dec_steps' = Balanced(acc, dec, n)[2]
  BY DEF Start, AccSteps, DecSteps
<1>5. /\ asked'[1] = a /\ asked'[2] = b
      /\ Fits' <=> a + b <= n * Gain
      /\ CanBrake' <=> b <= n * Gain
  BY <1>2 DEF Fits, CanBrake
<1> HIDE DEF a, b
<1>6. /\ acc_steps' \in Unsigned /\ dec_steps' \in Unsigned
      /\ acc_steps' * Gain <= a \/ (~(b <= n * Gain) /\ acc_steps' >= n)
      /\ a + b <= n * Gain => /\ acc_steps' <= dec_steps' /\ dec_steps' <= n
                              /\ b <= (n - dec_steps') * Gain
      /\ a + b <= n * Gain /\ a <= b => a < acc_steps' * Gain + Gain
  BY <1>3, <1>4, RampsAre
<1>7. Profile'
  BY <1>1, <1>2, <1>5, <1>6 DEF Profile
<1>8. Following'
  <2>1. current_t' * Gain = 0 /\ current_t' * Surplus = 0
    BY <1>1, <1>2
  <2>2. Within'
    BY <1>2, <1>9 DEF Within
  <2>3. asked'[1] <= asked'[2] => speed' >= feed1'
    <3>1. \A x, y, z \in Nat : x - y <= x - z => y >= z
      OBVIOUS
    <3> QED BY <1>2, <1>5, <1>9, <3>1 DEF a, b
  <2>4. /\ current_t' \in 0 .. steps' /\ current_t' # steps'
        /\ speed' \in Nat /\ speed' >= FEED_BASE
    BY <1>1, <1>2, <1>9
  <2>5. feed0' + current_t' * Gain <= speed' /\ speed' <= feed0' + current_t' * Gain + current_t' * Surplus
    BY <1>2, <1>9, <2>1
  <2> QED BY <1>2, <2>2, <2>3, <2>4, <2>5 DEF Following
<1> QED BY <1>7, <1>8 DEF AccelerationInv

-----------------------------------------------------------------------------
(* A step                                                                   *)

\* The surplus is a number.
LEMMA SurplusIsNat == Surplus \in Nat
<1>1. Gain \in Nat \ {0} /\ FEED_BASE \in Nat \ {0}
  BY AccelerationAssumption
<1>2. Gain * Gain \in Nat /\ 4 * FEED_BASE \in Nat \ {0}
  BY <1>1
<1>3. (Gain * Gain) \div (4 * FEED_BASE) \in Nat
  BY <1>2, Quotient
<1> QED BY <1>3 DEF Surplus

\* What a step adds besides Gain is no more than the surplus, and never makes up
\* for what it takes.
LEMMA ExcessIs ==
    ASSUME NEW w \in Nat, w >= FEED_BASE, NEW e \in Excess(w)
    PROVE  /\ e \in Nat /\ e <= Surplus
           /\ Gain <= 2 * w => e <= Gain
<1>1. Gain \in Nat \ {0} /\ FEED_BASE \in Nat \ {0}
  BY AccelerationAssumption
<1> DEFINE gg == Gain * Gain
           q == gg \div (4 * w)
<1>2. gg \in Nat
  BY <1>1
<1>3. 4 * w \in Nat \ {0} /\ 4 * FEED_BASE \in Nat \ {0} /\ 4 * FEED_BASE <= 4 * w
  BY <1>1
<1> HIDE DEF gg
<1>4. q \in Nat /\ q * (4 * w) <= gg
  BY <1>2, <1>3, Quotient
<1>5. (e = q \/ e = q + 1) /\ Surplus = gg \div (4 * FEED_BASE) + 1
  BY DEF Excess, Surplus, gg
<1> HIDE DEF q
<1>6. q <= gg \div (4 * FEED_BASE) /\ gg \div (4 * FEED_BASE) \in Nat
  <2>1. (4 * FEED_BASE) * q <= (4 * w) * q /\ (4 * FEED_BASE) * q \in Nat /\ (4 * w) * q \in Nat
    BY <1>3, <1>4, Times
  <2>2. (4 * FEED_BASE) * q = q * (4 * FEED_BASE) /\ (4 * w) * q = q * (4 * w)
    BY <1>1, <1>4
  <2>3. q * (4 * FEED_BASE) <= gg
    BY <1>2, <1>4, <2>1, <2>2
  <2> QED BY <1>2, <1>3, <1>4, <2>3, Quotient
<1>7. Gain <= 2 * w => 2 * q <= Gain
  <2> SUFFICES ASSUME Gain <= 2 * w, Gain + 1 <= 2 * q PROVE FALSE
    BY <1>1, <1>4
  <2>1. 2 * w \in Nat \ {0} /\ 2 * q \in Nat
    BY <1>3, <1>4
  <2>2. Gain * Gain <= (2 * w) * Gain /\ (2 * w) * Gain \in Nat
    BY <1>1, <2>1, Times
  <2>3. (Gain + 1) * (2 * w) <= (2 * q) * (2 * w) /\ (Gain + 1) * (2 * w) = Gain * (2 * w) + 2 * w
    BY <1>1, <2>1, Times
  <2>4. (2 * q) * (2 * w) = q * (4 * w) /\ Gain * (2 * w) = (2 * w) * Gain
    BY <1>1, <1>4, <2>1
  <2>5. (2 * q) * (2 * w) \in Nat
    BY <2>1
  <2> QED BY <1>2, <1>4, <2>1, <2>2, <2>3, <2>4, <2>5 DEF gg
<1> QED BY <1>1, <1>4, <1>5, <1>6, <1>7

\* What the profile says of the two ramps.
LEMMA ProfileIs ==
    ASSUME Profile
    PROVE  /\ steps \in Nat /\ acc_steps \in Nat /\ dec_steps \in Nat
           /\ feed \in Nat /\ feed0 \in Nat /\ feed1 \in Nat
           /\ feed0 >= FEED_BASE /\ feed0 <= feed /\ feed1 >= FEED_BASE /\ feed1 <= feed
           /\ asked[1] = feed - feed0 /\ asked[2] = feed - feed1
           /\ acc_steps * Gain \in Nat /\ steps * Gain \in Nat /\ acc_steps * Surplus \in Nat
           /\ CanBrake \/ acc_steps < steps => feed0 + acc_steps * Gain <= feed
           /\ Fits => /\ CanBrake /\ acc_steps <= dec_steps /\ dec_steps <= steps
                      /\ feed <= feed1 + (steps - dec_steps) * Gain
                      /\ feed + feed <= feed0 + feed1 + steps * Gain
           /\ Fits /\ asked[1] <= asked[2] => feed < feed0 + acc_steps * Gain + Gain
<1>1. /\ Gain \in Nat \ {0} /\ UINT \in Nat \ {0} /\ FEED_BASE \in Nat \ {0}
      /\ Surplus \in Nat
  BY AccelerationAssumption, SurplusIsNat
<1>2. /\ steps \in Nat /\ acc_steps \in Nat /\ dec_steps \in Nat
      /\ feed \in Nat /\ feed0 \in Nat /\ feed1 \in Nat
      /\ feed0 >= FEED_BASE /\ feed0 <= feed /\ feed1 >= FEED_BASE /\ feed1 <= feed
      /\ asked[1] = feed - feed0 /\ asked[2] = feed - feed1
  BY <1>1 DEF Profile, Unsigned
<1>3. acc_steps * Gain \in Nat /\ steps * Gain \in Nat /\ acc_steps * Surplus \in Nat
  BY <1>1, <1>2
<1>4. CanBrake \/ acc_steps < steps => feed0 + acc_steps * Gain <= feed
  BY <1>1, <1>2, <1>3 DEF Profile
<1>5. Fits => CanBrake
  BY <1>2, <1>3 DEF Fits, CanBrake
<1>6. Fits => /\ acc_steps <= dec_steps /\ dec_steps <= steps
              /\ feed <= feed1 + (steps - dec_steps) * Gain
  <2> SUFFICES ASSUME Fits
               PROVE  /\ acc_steps <= dec_steps /\ dec_steps <= steps
                      /\ feed <= feed1 + (steps - dec_steps) * Gain
    OBVIOUS
  <2>1. acc_steps <= dec_steps /\ dec_steps <= steps /\ asked[2] <= (steps - dec_steps) * Gain
    BY DEF Profile
  <2>2. steps - dec_steps \in Nat /\ (steps - dec_steps) * Gain \in Nat
    BY <1>1, <1>2, <2>1
  <2> QED BY <1>2, <2>1, <2>2
<1>7. Fits => feed + feed <= feed0 + feed1 + steps * Gain
  BY <1>2, <1>3 DEF Fits
<1>8. Fits /\ asked[1] <= asked[2] => feed < feed0 + acc_steps * Gain + Gain
  BY <1>1, <1>2, <1>3 DEF Profile
<1> QED BY <1>2, <1>3, <1>4, <1>5, <1>6, <1>7, <1>8

\* Step, whatever it does to the feed: products of the step that it counts to.
LEMMA StepIs ==
    ASSUME AccelerationInv, Step
    PROVE  /\ Profile /\ Profile'
           /\ current_t \in Nat /\ current_t < steps /\ current_t' = current_t + 1
           /\ current_t' \in 0 .. steps' /\ (current_t' < steps <=> current_t' # steps')
           /\ speed \in Nat /\ speed >= FEED_BASE
           /\ Gain \in Nat \ {0} /\ Surplus \in Nat
           /\ current_t * Gain \in Nat /\ current_t' * Gain = current_t * Gain + Gain
           /\ current_t * Surplus \in Nat /\ current_t' * Surplus = current_t * Surplus + Surplus
           /\ (Fits' <=> Fits) /\ (CanBrake' <=> CanBrake) /\ asked' = asked
           /\ UNCHANGED <<steps, feed, feed0, feed1, acc_steps, dec_steps>>
<1>1. /\ UNCHANGED <<steps, feed, feed0, feed1, acc_steps, dec_steps, asked>>
      /\ current_t < steps /\ current_t' = current_t + 1
  BY DEF Step, plan
<1>2. Profile /\ current_t \in 0 .. steps /\ speed \in Nat /\ speed >= FEED_BASE
  BY DEF AccelerationInv, Following
<1>3. (Fits' <=> Fits) /\ (CanBrake' <=> CanBrake)
  BY <1>1 DEF Fits, CanBrake
<1>4. Profile'
  BY <1>1, <1>2, <1>3 DEF Profile
<1>5. Gain \in Nat \ {0} /\ FEED_BASE \in Nat \ {0}
  BY AccelerationAssumption
<1>6. Surplus \in Nat
  BY SurplusIsNat
<1>7. steps \in Nat
  BY <1>2, ProfileIs
<1>8. current_t \in Nat /\ current_t' \in 0 .. steps' /\ (current_t' < steps <=> current_t' # steps')
  BY <1>1, <1>2, <1>7
<1>9. /\ current_t * Gain \in Nat /\ (current_t + 1) * Gain = current_t * Gain + Gain
      /\ current_t * Surplus \in Nat /\ (current_t + 1) * Surplus = current_t * Surplus + Surplus
  BY <1>5, <1>6, <1>8
<1> QED BY <1>1, <1>2, <1>3, <1>4, <1>5, <1>6, <1>8, <1>9

\* On the first ramp the feed is within its limits where the line can brake, and
\* wherever the ramp ends on the line.
LEMMA FirstRamp ==
    ASSUME Profile, Following, type = "acc", CanBrake \/ acc_steps < steps
    PROVE  Within
<1>1. /\ feed0 + acc_steps * Gain <= feed /\ acc_steps \in Nat /\ feed0 \in Nat /\ feed \in Nat
      /\ feed0 <= feed /\ acc_steps * Gain \in Nat /\ acc_steps * Surplus \in Nat /\ steps \in Nat
  BY ProfileIs
<1>2. Gain \in Nat \ {0} /\ FEED_BASE \in Nat \ {0}
  BY AccelerationAssumption
<1>3. Surplus \in Nat
  BY SurplusIsNat
<1>4. /\ current_t \in Nat /\ speed \in Nat
      /\ current_t = 0 \/ current_t < acc_steps
      /\ speed <= feed0 + current_t * Gain + current_t * Surplus
  BY <1>1 DEF Following
<1>5. CASE current_t = 0
  <2>1. current_t * Gain = 0 /\ current_t * Surplus = 0
    BY <1>2, <1>3, <1>5
  <2>2. speed <= feed0
    BY <1>1, <1>4, <2>1
  <2> QED BY <1>1, <1>4, <2>2 DEF Within
<1>6. CASE current_t < acc_steps
  <2>1. current_t + 1 <= acc_steps /\ current_t + 1 \in Nat
    BY <1>1, <1>4, <1>6
  <2>2. /\ (current_t + 1) * Gain <= acc_steps * Gain /\ (current_t + 1) * Gain = current_t * Gain + Gain
        /\ (current_t + 1) * Surplus <= acc_steps * Surplus
        /\ (current_t + 1) * Surplus = current_t * Surplus + Surplus
        /\ current_t * Gain \in Nat /\ current_t * Surplus \in Nat
    BY <1>1, <1>2, <1>3, <1>4, <2>1, Times
  <2>3. speed <= feed + acc_steps * Surplus - Gain
    BY <1>1, <1>2, <1>3, <1>4, <2>2
  <2> QED BY <2>3 DEF Within
<1> QED BY <1>4, <1>5, <1>6

\* The state machine is told to stop at the last step.
LEMMA LastStep ==
    ASSUME AccelerationInv, Step, current_t' >= steps, type' = "stop", speed' = speed
    PROVE  Following'
<1>1. /\ Profile /\ Profile'
      /\ current_t \in Nat /\ current_t < steps /\ current_t' = current_t + 1
      /\ current_t' \in 0 .. steps' /\ (current_t' < steps <=> current_t' # steps')
      /\ speed \in Nat /\ speed >= FEED_BASE
      /\ Gain \in Nat \ {0} /\ Surplus \in Nat
      /\ current_t * Gain \in Nat /\ current_t' * Gain = current_t * Gain + Gain
      /\ current_t * Surplus \in Nat /\ current_t' * Surplus = current_t * Surplus + Surplus
      /\ (Fits' <=> Fits) /\ (CanBrake' <=> CanBrake) /\ asked' = asked
      /\ UNCHANGED <<steps, feed, feed0, feed1, acc_steps, dec_steps>>
  BY StepIs
<1>2. /\ steps \in Nat /\ acc_steps \in Nat /\ dec_steps \in Nat
      /\ feed \in Nat /\ feed0 \in Nat /\ feed1 \in Nat /\ feed0 <= feed
      /\ acc_steps * Gain \in Nat /\ steps * Gain \in Nat
  BY <1>1, ProfileIs
<1>3. Following
  BY DEF AccelerationInv
<1>4. steps = current_t + 1 /\ current_t' = steps'
  BY <1>1, <1>2
<1>5. steps * Surplus = current_t * Surplus + Surplus /\ steps * Gain = current_t * Gain + Gain
  BY <1>1, <1>4
<1>6. ASSUME Fits PROVE speed <= feed1 + 2 * Gain + steps * Surplus
  <2>1. /\ CanBrake /\ acc_steps <= dec_steps /\ dec_steps <= steps
        /\ feed0 + acc_steps * Gain <= feed
        /\ feed <= feed1 + (steps - dec_steps) * Gain
        /\ feed + feed <= feed0 + feed1 + steps * Gain
    BY <1>1, <1>6, ProfileIs
  <2>2. CASE type = "acc" /\ current_t = 0
    <3>1. speed <= feed0 /\ steps * Gain = Gain /\ steps * Surplus = Surplus
      <4>1. current_t * Gain = 0 /\ current_t * Surplus = 0
        BY <1>1, <2>2
      <4> QED BY <1>1, <1>2, <1>3, <1>5, <2>2, <4>1 DEF Following
    <3> QED BY <1>1, <1>2, <2>1, <3>1
  <2>3. CASE type = "acc" /\ current_t < acc_steps
    <3>1. acc_steps = steps /\ dec_steps = steps
      BY <1>1, <1>2, <1>4, <2>1, <2>3
    <3>2. (steps - dec_steps) * Gain = 0
      BY <1>1, <1>2, <3>1
    <3>3. speed <= feed0 + current_t * Gain + current_t * Surplus
      BY <1>3, <2>3 DEF Following
    <3> QED BY <1>1, <1>2, <1>5, <2>1, <3>1, <3>2, <3>3
  <2>4. CASE type = "go"
    <3>1. speed = feed /\ current_t < dec_steps
      BY <1>3, <2>4 DEF Following
    <3>2. dec_steps = steps
      BY <1>1, <1>2, <1>4, <2>1, <3>1
    <3>3. (steps - dec_steps) * Gain = 0
      BY <1>1, <1>2, <3>2
    <3> QED BY <1>1, <1>2, <1>5, <2>1, <3>1, <3>3
  <2>5. CASE type = "dec"
    <3>1. /\ current_t >= dec_steps
          /\ speed + (current_t - dec_steps) * Gain <= feed + Gain + current_t * Surplus
      BY <1>3, <1>6, <2>5 DEF Following
    <3>2. current_t - dec_steps \in Nat /\ steps - dec_steps = (current_t - dec_steps) + 1
      BY <1>1, <1>2, <1>4, <3>1
    <3>3. /\ (current_t - dec_steps) * Gain \in Nat
          /\ (steps - dec_steps) * Gain = (current_t - dec_steps) * Gain + Gain
      BY <1>1, <3>2, Times
    <3> QED BY <1>1, <1>2, <1>5, <2>1, <3>1, <3>3
  <2>6. CASE type = "stop_completion"
    <3>1. speed = feed1
      BY <1>3, <2>6 DEF Following
    <3> QED BY <1>1, <1>2, <1>5, <3>1
  <2>7. type # "stop"
    BY <1>1, <1>2, <1>3 DEF Following
  <2> QED BY <1>3, <2>2, <2>3, <2>4, <2>5, <2>6, <2>7 DEF Following
<1>7. Within' \/ (type' \in {"acc", "stop"} /\ ~CanBrake')
  <2>1. CASE CanBrake
    <3>1. Within
      BY <1>1, <1>3, <2>1, FirstRamp DEF Following
    <3> QED BY <1>1, <3>1 DEF Within, Surplus
  <2> QED BY <1>1, <2>1
<1>8. asked'[1] <= asked'[2] => speed' >= feed1'
  BY <1>1, <1>3 DEF Following
<1>9. /\ current_t' \in 0 .. steps' /\ speed' \in Nat /\ speed' >= FEED_BASE
      /\ type' = "stop" /\ current_t' = steps'
  BY <1>1, <1>4
<1>10. Fits' /\ current_t' = steps' => speed' <= feed1' + 2 * Gain + steps' * Surplus
  BY <1>1, <1>6
<1> QED BY <1>7, <1>8, <1>9, <1>10 DEF Following

\* Everything that a step keeps but the last.
LEMMA MiddleStep ==
    ASSUME AccelerationInv, Step, current_t' < steps,
           Accelerate \/ ReachFeed \/ Go \/ Decelerate \/ Complete
    PROVE  Following'
<1>1. /\ Profile /\ Profile'
      /\ current_t \in Nat /\ current_t < steps /\ current_t' = current_t + 1
      /\ current_t' \in 0 .. steps' /\ (current_t' < steps <=> current_t' # steps')
      /\ speed \in Nat /\ speed >= FEED_BASE
      /\ Gain \in Nat \ {0} /\ Surplus \in Nat
      /\ current_t * Gain \in Nat /\ current_t' * Gain = current_t * Gain + Gain
      /\ current_t * Surplus \in Nat /\ current_t' * Surplus = current_t * Surplus + Surplus
      /\ (Fits' <=> Fits) /\ (CanBrake' <=> CanBrake) /\ asked' = asked
      /\ UNCHANGED <<steps, feed, feed0, feed1, acc_steps, dec_steps>>
  BY StepIs
<1>2. /\ steps \in Nat /\ acc_steps \in Nat /\ dec_steps \in Nat
      /\ feed \in Nat /\ feed0 \in Nat /\ feed1 \in Nat
      /\ feed0 >= FEED_BASE /\ feed0 <= feed /\ feed1 >= FEED_BASE /\ feed1 <= feed
      /\ asked[1] = feed - feed0 /\ asked[2] = feed - feed1
      /\ acc_steps * Gain \in Nat /\ acc_steps * Surplus \in Nat
  BY <1>1, ProfileIs
<1>3. Following /\ FEED_BASE \in Nat \ {0}
  BY AccelerationAssumption DEF AccelerationInv
<1>4. /\ current_t' \in 0 .. steps' /\ current_t' # steps'
  BY <1>1
<1>5. Within' <=> speed' <= feed \/ speed' <= feed + acc_steps * Surplus - Gain
  BY <1>1 DEF Within, Surplus
\* The feed does not rise.
<1>6. ASSUME speed' \in Nat, speed' <= speed, Within PROVE Within'
  <2> HIDE DEF Within
  <2>1. speed <= feed \/ speed <= feed + acc_steps * Surplus - Gain
    BY <1>6 DEF Within
  <2> QED BY <1>1, <1>2, <1>5, <1>6, <2>1
<1>7. CASE Accelerate
  <2>1. type = "acc" /\ type' = "acc" /\ current_t' < acc_steps
    BY <1>7 DEF Accelerate
  <2>2. PICK e \in Excess(speed) : speed' = speed + Gain + e
    BY <1>7 DEF Accelerate, Faster
  <2>3. e \in Nat /\ e <= Surplus
    BY <1>1, ExcessIs
  <2>4. /\ feed0 + current_t * Gain <= speed
        /\ speed <= feed0 + current_t * Gain + current_t * Surplus
    BY <1>3, <2>1 DEF Following
  <2>5. /\ feed0 + current_t' * Gain <= speed'
        /\ speed' <= feed0 + current_t' * Gain + current_t' * Surplus
    BY <1>1, <1>2, <2>2, <2>3, <2>4
  <2>6. speed' \in Nat /\ speed' >= FEED_BASE /\ speed' >= speed
    BY <1>1, <1>3, <2>2, <2>3
  <2>7. asked'[1] <= asked'[2] => speed' >= feed1'
    BY <1>1, <1>2, <1>3, <2>6 DEF Following
  <2>8. Within' \/ ~CanBrake'
    <3> SUFFICES ASSUME CanBrake PROVE Within'
      BY <1>1
    <3>1. feed0 + acc_steps * Gain <= feed
      BY <1>1, ProfileIs
    <3>2. /\ (current_t' + 1) * Gain <= acc_steps * Gain
          /\ (current_t' + 1) * Gain = current_t' * Gain + Gain /\ current_t' * Gain \in Nat
      <4>1. current_t' \in Nat /\ current_t' + 1 \in Nat /\ current_t' + 1 <= acc_steps
        BY <1>1, <1>2, <2>1
      <4> QED BY <1>1, <1>2, <4>1, Times
    <3>3. current_t' * Surplus <= acc_steps * Surplus /\ current_t' * Surplus \in Nat
      <4>1. current_t' \in Nat /\ current_t' <= acc_steps
        BY <1>1, <1>2, <2>1
      <4> QED BY <1>1, <1>2, <4>1, Times
    <3>4. speed' <= feed + acc_steps * Surplus - Gain
      BY <1>1, <1>2, <2>5, <2>6, <3>1, <3>2, <3>3
    <3> QED BY <1>5, <3>4
  <2> QED BY <1>1, <1>4, <2>1, <2>5, <2>6, <2>7, <2>8 DEF Following
<1>8. CASE ReachFeed
  <2>1. type = "acc" /\ current_t' >= acc_steps
    BY <1>8 DEF ReachFeed
  <2>2. acc_steps < steps
    BY <1>1, <1>2, <2>1
  <2>3. Within
    BY <1>1, <1>3, <2>1, <2>2, FirstRamp
  <2>4. CASE current_t' < dec_steps
    <3>1. type' = "go" /\ speed' = feed
      BY <1>8, <2>4 DEF ReachFeed
    <3>2. Within'
      BY <1>1, <1>2, <1>5, <3>1
    <3>3. speed' \in Nat /\ speed' >= FEED_BASE /\ speed' = feed' /\ speed' >= feed1'
      BY <1>1, <1>2, <1>3, <3>1
    <3> QED BY <1>1, <1>4, <2>4, <3>1, <3>2, <3>3 DEF Following
  <2>5. CASE ~(current_t' < dec_steps)
    <3>1. type' = "dec" /\ speed' = speed
      BY <1>8, <2>5 DEF ReachFeed
    <3>2. Within'
      BY <1>1, <1>6, <2>3, <3>1
    <3>3. current_t' >= dec_steps
      BY <1>1, <1>2, <2>5
    <3>4. ASSUME Fits
          PROVE  speed + (current_t' - dec_steps) * Gain <= feed + Gain + current_t' * Surplus
      <4>1. feed0 + acc_steps * Gain <= feed /\ acc_steps <= dec_steps
        BY <1>1, <3>4, ProfileIs
      <4>2. /\ current_t = 0 \/ current_t < acc_steps
            /\ speed <= feed0 + current_t * Gain + current_t * Surplus
        BY <1>3, <2>1 DEF Following
      <4>3. CASE current_t < acc_steps
        <5>1. current_t' = acc_steps /\ current_t' = dec_steps
          BY <1>1, <1>2, <2>1, <3>3, <4>1, <4>3
        <5>2. (current_t' - dec_steps) * Gain = 0 /\ acc_steps * Gain = current_t * Gain + Gain
          BY <1>1, <1>2, <5>1
        <5> QED BY <1>1, <1>2, <4>1, <4>2, <5>2
      <4>4. CASE current_t = 0
        <5>1. current_t' = 1 /\ (dec_steps = 0 \/ dec_steps = 1)
          BY <1>1, <1>2, <3>3, <4>4
        <5>2. (current_t' - dec_steps) * Gain \in {0, Gain}
          BY <1>1, <5>1
        <5>3. current_t * Gain = 0 /\ current_t * Surplus = 0
          BY <1>1, <4>4
        <5> QED BY <1>1, <1>2, <4>2, <5>2, <5>3
      <4> QED BY <4>2, <4>3, <4>4
    <3>5. asked'[1] <= asked'[2] => speed' >= feed1'
      BY <1>1, <1>3, <3>1 DEF Following
    <3>6. Fits' => /\ current_t' >= dec_steps'
                   /\ speed' + (current_t' - dec_steps') * Gain <= feed' + Gain + current_t' * Surplus
      BY <1>1, <3>1, <3>3, <3>4
    <3>7. speed' \in Nat /\ speed' >= FEED_BASE
      BY <1>1, <3>1
    <3> QED BY <1>4, <3>1, <3>2, <3>5, <3>6, <3>7 DEF Following
  <2> QED BY <2>4, <2>5
<1>9. CASE Go
  <2>1. type = "go" /\ speed' = speed /\ type' = IF current_t' >= dec_steps THEN "dec" ELSE "go"
    BY <1>9 DEF Go
  <2>2. speed = feed /\ current_t < dec_steps
    BY <1>3, <2>1 DEF Following
  <2>3. Within'
    BY <1>1, <1>2, <1>5, <2>1, <2>2
  <2>4. speed' \in Nat /\ speed' >= FEED_BASE /\ speed' = feed' /\ speed' >= feed1'
    BY <1>1, <1>2, <1>3, <2>1, <2>2
  <2>5. CASE current_t' >= dec_steps
    <3>1. type' = "dec"
      BY <2>1, <2>5
    <3>2. current_t' = dec_steps
      BY <1>1, <1>2, <2>2, <2>5
    <3>3. (current_t' - dec_steps') * Gain = 0
      BY <1>1, <1>2, <3>2
    <3>4. speed' + (current_t' - dec_steps') * Gain <= feed' + Gain + current_t' * Surplus
      BY <1>1, <1>2, <2>4, <3>3
    <3>5. current_t' >= dec_steps'
      BY <1>1, <2>5
    <3> QED BY <1>4, <2>3, <2>4, <3>1, <3>4, <3>5 DEF Following
  <2>6. CASE ~(current_t' >= dec_steps)
    <3>1. type' = "go" /\ current_t' < dec_steps'
      BY <1>1, <1>2, <2>1, <2>6
    <3> QED BY <1>4, <2>3, <2>4, <3>1 DEF Following
  <2> QED BY <2>5, <2>6
<1>10. CASE Decelerate
  <2>1. type = "dec"
    BY <1>10 DEF Decelerate
  <2>2. Within /\ (asked[1] <= asked[2] => speed >= feed1)
    BY <1>3, <2>1 DEF Following
  <2>3. PICK w \in Slower(speed) :
            IF w < feed1 THEN speed' = feed1 /\ type' = "stop_completion" ELSE speed' = w /\ type' = type
    BY <1>10 DEF Decelerate
  <2>4. w = -1 \/ \E e \in Excess(speed) : w = speed - Gain + e /\ e \in Nat /\ e <= Surplus /\ e <= Gain
    <3>1. CASE Gain > 2 * speed
      BY <2>3, <3>1 DEF Slower
    <3>2. CASE ~(Gain > 2 * speed)
      <4>1. PICK e \in Excess(speed) : w = speed - Gain + e
        BY <2>3, <3>2 DEF Slower
      <4>2. Gain <= 2 * speed
        BY <1>1, <3>2
      <4> QED BY <1>1, <4>1, <4>2, ExcessIs
    <3> QED BY <3>1, <3>2
  <2>5. CASE w < feed1
    <3>1. speed' = feed1 /\ type' = "stop_completion"
      BY <2>3, <2>5
    <3>2. Within'
      BY <1>1, <1>2, <1>5, <3>1
    <3>3. speed' \in Nat /\ speed' >= FEED_BASE /\ speed' = feed1' /\ speed' >= feed1'
      BY <1>1, <1>2, <1>3, <3>1
    <3> QED BY <1>4, <3>1, <3>2, <3>3 DEF Following
  <2>6. CASE ~(w < feed1)
    <3>1. speed' = w /\ type' = "dec"
      BY <2>1, <2>3, <2>6
    <3>2. w # -1
      BY <1>2, <2>6
    <3>3. PICK e \in Nat : w = speed - Gain + e /\ e <= Surplus /\ e <= Gain
      BY <2>4, <3>2
    <3>4. speed' \in Nat /\ speed' >= feed1 /\ speed' <= speed /\ speed' <= speed - Gain + Surplus
      BY <1>1, <1>2, <2>6, <3>1, <3>3
    <3>5. Within'
      BY <1>6, <2>2, <3>4
    <3>6. ASSUME Fits
          PROVE  /\ current_t' >= dec_steps
                 /\ speed' + (current_t' - dec_steps) * Gain <= feed + Gain + current_t' * Surplus
      <4>1. /\ current_t >= dec_steps
            /\ speed + (current_t - dec_steps) * Gain <= feed + Gain + current_t * Surplus
        BY <1>3, <2>1, <3>6 DEF Following
      <4>2. current_t - dec_steps \in Nat /\ current_t' - dec_steps = (current_t - dec_steps) + 1
        BY <1>1, <1>2, <4>1
      <4>3. /\ (current_t - dec_steps) * Gain \in Nat
            /\ (current_t' - dec_steps) * Gain = (current_t - dec_steps) * Gain + Gain
        BY <1>1, <4>2, Times
      <4>4. current_t' >= dec_steps
        BY <1>1, <1>2, <4>1
      <4> DEFINE m == (current_t - dec_steps) * Gain
                 u == current_t * Surplus
      <4>5. m \in Nat /\ u \in Nat /\ speed + m <= feed + Gain + u
        BY <1>1, <4>1, <4>3
      <4>6. (current_t' - dec_steps) * Gain = m + Gain /\ current_t' * Surplus = u + Surplus
        BY <1>1, <4>3
      <4> HIDE DEF m, u
      <4>7. \A s, v, g, f, x, y, z \in Nat :
                v + g <= s + x /\ s + y <= f + g + z => v + (y + g) <= f + g + (z + x)
        OBVIOUS
      <4>8. speed' + Gain <= speed + Surplus
        <5>1. speed \in Nat /\ Gain \in Nat /\ Surplus \in Nat
          BY <1>1
        <5>2. \A s, v, g, x \in Nat : v <= s - g + x => v + g <= s + x
          OBVIOUS
        <5> QED BY <3>4, <5>1, <5>2
      <4>9. speed' + (m + Gain) <= feed + Gain + (u + Surplus)
        BY <1>1, <1>2, <3>4, <4>5, <4>7, <4>8
      <4> QED BY <4>4, <4>6, <4>9
    <3>7. Fits' => /\ current_t' >= dec_steps'
                   /\ speed' + (current_t' - dec_steps') * Gain <= feed' + Gain + current_t' * Surplus
      BY <1>1, <3>6
    <3>8. speed' >= FEED_BASE /\ speed' >= feed1'
      BY <1>1, <1>2, <1>3, <3>4
    <3> QED BY <1>4, <3>1, <3>4, <3>5, <3>7, <3>8 DEF Following
  <2> QED BY <2>5, <2>6
<1>11. CASE Complete
  <2>1. type = "stop_completion" /\ type' = "stop_completion" /\ speed' = speed
    BY <1>11 DEF Complete
  <2>2. speed = feed1
    BY <1>3, <2>1 DEF Following
  <2>3. Within'
    BY <1>1, <1>2, <1>5, <2>1, <2>2
  <2>4. speed' \in Nat /\ speed' >= FEED_BASE /\ speed' = feed1' /\ speed' >= feed1'
    BY <1>1, <1>2, <2>1, <2>2
  <2> QED BY <1>4, <2>1, <2>3, <2>4 DEF Following
<1> QED BY <1>7, <1>8, <1>9, <1>10, <1>11

\* No line has been planned yet.
LEMMA InitInv == Init => AccelerationInv
<1> SUFFICES ASSUME Init PROVE AccelerationInv
  OBVIOUS
<1>1. Gain \in Nat \ {0} /\ UINT \in Nat \ {0} /\ FEED_BASE \in Nat \ {0} /\ Surplus \in Nat
  BY AccelerationAssumption, SurplusIsNat
<1>2. /\ steps = 0 /\ feed = FEED_BASE /\ feed0 = FEED_BASE /\ feed1 = FEED_BASE
      /\ acc_steps = 0 /\ dec_steps = 0 /\ asked = <<0, 0>> /\ asked[1] = 0 /\ asked[2] = 0
      /\ type = "stop" /\ current_t = 0 /\ speed = FEED_BASE
  BY DEF Init
<1>3. acc_steps * Gain = 0 /\ (steps - dec_steps) * Gain = 0 /\ steps * Surplus = 0
  BY <1>1, <1>2
<1>4. asked = <<feed - feed0, feed - feed1>>
  BY <1>1, <1>2
<1>5. Profile
  BY <1>1, <1>2, <1>3, <1>4 DEF Profile, Unsigned
<1>6. Following
  BY <1>1, <1>2, <1>3 DEF Following, Within
<1> QED BY <1>5, <1>6 DEF AccelerationInv

\* So every step follows the profile.
LEMMA StepInv ==
    ASSUME AccelerationInv, Step
    PROVE  AccelerationInv'
<1>1. Profile' /\ (current_t' >= steps \/ current_t' < steps)
  <2>1. Profile /\ current_t \in Nat /\ current_t' = current_t + 1 /\ Profile'
    BY StepIs
  <2>2. steps \in Nat
    BY <2>1, ProfileIs
  <2> QED BY <2>1, <2>2
<1>2. CASE current_t' >= steps
  <2>1. type' = "stop" /\ speed' = speed
    BY <1>2 DEF Step, acceleration_process
  <2>2. Following'
    BY <1>2, <2>1, LastStep
  <2> QED BY <1>1, <2>2 DEF AccelerationInv
<1>3. CASE ~(current_t' >= steps)
  <2>1. Accelerate \/ ReachFeed \/ Go \/ Decelerate \/ Complete
    BY <1>3 DEF Step, acceleration_process
  <2>2. Following'
    BY <1>1, <1>3, <2>1, MiddleStep
  <2> QED BY <1>1, <2>2 DEF AccelerationInv
<1> QED BY <1>2, <1>3

\* What a line leaves behind when it has finished.
LEMMA SameInv ==
    ASSUME AccelerationInv, UNCHANGED <<plan, type, current_t, speed>>
    PROVE  AccelerationInv'
<1>1. (Fits' <=> Fits) /\ (CanBrake' <=> CanBrake) /\ (Within' <=> Within)
  BY DEF plan, Fits, CanBrake, Within, Surplus
<1> QED BY <1>1 DEF AccelerationInv, Profile, Following, plan

\* The invariant is kept by every action.
LEMMA NextInv == AccelerationInv /\ [Next]_vars => AccelerationInv'
<1> SUFFICES ASSUME AccelerationInv, [Next]_vars PROVE AccelerationInv'
  OBVIOUS
<1>1. ASSUME NEW n \in Lengths, NEW f \in Feeds, NEW f0 \in Feeds, NEW f1 \in Feeds,
             Start(n, f, f0, f1)
      PROVE  AccelerationInv'
  BY <1>1, StartInv
<1>2. CASE Step
  BY <1>2, StepInv
<1>3. CASE Finish
  BY <1>3, SameInv DEF Finish
<1>4. CASE UNCHANGED vars
  BY <1>4, SameInv DEF vars
<1> QED BY <1>1, <1>2, <1>3, <1>4 DEF Next

\* Every line follows its profile, at every step.
THEOREM AlwaysFollowing == Spec => []AccelerationInv
  BY InitInv, NextInv, PTL DEF Spec

\* The variables keep their types; the two ramps are numbers of 32 bits.
THEOREM TypeCorrect == Spec => []TypeOK
<1> DEFINE Started == moving \in BOOLEAN /\ steps \in Lengths \cup {0}
<1>1. Init => Started
  BY DEF Init
<1>2. Started /\ [Next]_vars => Started'
  BY DEF Started, Next, Start, Step, Finish, vars, plan
<1>3. AccelerationInv /\ Started => TypeOK
  <2> SUFFICES ASSUME AccelerationInv, Started PROVE TypeOK
    OBVIOUS
  <2>1. Profile /\ Following
    BY DEF AccelerationInv
  <2>2. /\ feed \in Nat /\ feed0 \in Nat /\ feed1 \in Nat
        /\ feed - feed0 \in Nat /\ feed - feed1 \in Nat
    BY <2>1, ProfileIs
  <2>3. asked \in Nat \X Nat /\ acc_steps \in Unsigned /\ dec_steps \in Unsigned
    BY <2>1, <2>2 DEF Profile
  <2> QED BY <2>1, <2>2, <2>3 DEF TypeOK, Following
<1> QED BY <1>1, <1>2, <1>3, AlwaysFollowing, PTL DEF Spec

-----------------------------------------------------------------------------
(* What a line promises                                                     *)

\* The feed of a line that is long enough to brake stays within its limits at
\* every step, for any conversion of the plan to 32 bits.
THEOREM FeedStaysWithin == Spec => []FeedWithin
<1>1. AccelerationInv => FeedWithin
  <2> SUFFICES ASSUME AccelerationInv, CanBrake PROVE FEED_BASE <= speed /\ Within
    BY DEF FeedWithin, Within
  <2>1. Profile /\ Following /\ speed \in Nat /\ speed >= FEED_BASE
    BY DEF AccelerationInv, Following
  <2>2. FEED_BASE <= speed
    BY <2>1, AccelerationAssumption
  <2> QED BY <2>1, <2>2 DEF Following
<1> QED BY <1>1, AlwaysFollowing, PTL

\* A line that has room for both of its ramps arrives with its last feed, but for
\* the two steps on which it changes over and stops, and the surplus.
THEOREM LineArrivesSlow == Spec => []ArrivesSlow
<1>1. AccelerationInv => ArrivesSlow
  BY DEF AccelerationInv, Following, ArrivesSlow
<1> QED BY <1>1, AlwaysFollowing, PTL

\* No step of a line takes more from the feed than the acceleration allows, but for
\* what the first ramp has gone too far, on lines that are too short as well.
THEOREM NeverBrakesHard == Spec => BrakesGently
<1> DEFINE Gently == moving => speed - speed' <= Gain \/ speed - speed' <= acc_steps * Surplus - Gain
<1>1. ASSUME AccelerationInv, [Next]_vars PROVE [Gently]_vars
  <2> SUFFICES ASSUME moving, speed' # speed PROVE Gently
    <3>1. ASSUME speed' = speed PROVE Gently
      <4>1. speed \in Nat /\ Gain \in Nat
        BY <1>1, AccelerationAssumption DEF AccelerationInv, Following
      <4>2. speed - speed' = 0
        BY <3>1, <4>1
      <4> QED BY <4>1, <4>2
    <3> QED BY <3>1
  <2>1. Step
    BY <1>1 DEF Next, Start, Finish, vars
  <2>2. /\ Profile /\ speed \in Nat /\ speed >= FEED_BASE /\ current_t \in Nat
        /\ current_t' = current_t + 1 /\ Gain \in Nat \ {0} /\ Surplus \in Nat
    BY <1>1, <2>1, StepIs
  <2>3. /\ steps \in Nat /\ acc_steps \in Nat /\ feed \in Nat /\ feed1 \in Nat
        /\ acc_steps * Surplus \in Nat
    BY <2>2, ProfileIs
  <2>4. Accelerate \/ ReachFeed \/ Decelerate
    BY <2>1 DEF Step, acceleration_process, Go, Complete
  <2>5. CASE Accelerate
    <3>1. PICK e \in Excess(speed) : speed' = speed + Gain + e
      BY <2>5 DEF Accelerate, Faster
    <3>2. e \in Nat
      BY <2>2, ExcessIs
    <3>3. speed - speed' <= Gain
      BY <2>2, <3>1, <3>2
    <3> QED BY <3>3
  <2>6. CASE ReachFeed
    <3>1. type = "acc" /\ current_t' >= acc_steps /\ speed' = feed
      BY <2>6 DEF ReachFeed
    <3>2. current_t' < steps
      BY <2>1, <2>2, <2>3, <3>1, <1>1 DEF Step, acceleration_process, ReachFeed
    <3>3. acc_steps < steps
      BY <2>2, <2>3, <3>1, <3>2
    <3>4. Within
      BY <1>1, <3>1, <3>3, FirstRamp DEF AccelerationInv
    <3>5. speed <= feed \/ speed <= feed + acc_steps * Surplus - Gain
      BY <3>4 DEF Within
    <3> QED BY <2>2, <2>3, <3>1, <3>5
  <2>7. CASE Decelerate
    <3>1. PICK w \in Slower(speed) : IF w < feed1 THEN speed' = feed1 ELSE speed' = w
      BY <2>7 DEF Decelerate
    <3>2. w \in Int /\ speed - w <= Gain
      <4>1. CASE Gain > 2 * speed
        BY <2>2, <3>1, <4>1 DEF Slower
      <4>2. CASE ~(Gain > 2 * speed)
        <5>1. PICK e \in Excess(speed) : w = speed - Gain + e
          BY <3>1, <4>2 DEF Slower
        <5>2. e \in Nat
          BY <2>2, ExcessIs
        <5> QED BY <2>2, <5>1, <5>2
      <4> QED BY <4>1, <4>2
    <3>3. speed - speed' <= Gain
      BY <2>2, <2>3, <3>1, <3>2
    <3> QED BY <3>3
  <2> QED BY <2>4, <2>5, <2>6, <2>7
<1>2. AccelerationInv /\ [Next]_vars => [Gently]_vars
  BY <1>1
<1>3. Spec => [][Gently]_vars
  BY <1>2, AlwaysFollowing, PTL DEF Spec
<1> QED BY <1>3 DEF BrakesGently

\* Nor does one add more than twice what the acceleration allows, or the surplus,
\* on a line that has room for both of its ramps and whose first is not the longer.
THEOREM NeverRisesHardFirst == Spec => RisesGentlyFirst
<1> DEFINE Gently == moving /\ Fits /\ asked[1] <= asked[2] => RiseLimited
<1>1. ASSUME AccelerationInv, [Next]_vars PROVE [Gently]_vars
  <2> SUFFICES ASSUME moving, Fits, asked[1] <= asked[2], speed' # speed PROVE RiseLimited
    <3>1. ASSUME speed' = speed PROVE RiseLimited
      <4>1. speed \in Nat /\ Gain \in Nat
        BY <1>1, AccelerationAssumption DEF AccelerationInv, Following
      <4>2. speed' - speed = 0
        BY <3>1, <4>1
      <4> QED BY <4>1, <4>2 DEF RiseLimited
    <3> QED BY <3>1
  <2>1. Step
    BY <1>1 DEF Next, Start, Finish, vars
  <2>2. /\ Profile /\ speed \in Nat /\ speed >= FEED_BASE /\ current_t \in Nat
        /\ current_t' = current_t + 1 /\ Gain \in Nat \ {0} /\ Surplus \in Nat
        /\ current_t * Gain \in Nat /\ current_t' * Gain = current_t * Gain + Gain
    BY <1>1, <2>1, StepIs
  <2>3. /\ steps \in Nat /\ acc_steps \in Nat /\ feed \in Nat /\ feed0 \in Nat /\ feed1 \in Nat
        /\ feed0 <= feed /\ acc_steps * Gain \in Nat
        /\ feed < feed0 + acc_steps * Gain + Gain
    BY <2>2, ProfileIs
  <2>4. Accelerate \/ ReachFeed \/ Decelerate
    BY <2>1 DEF Step, acceleration_process, Go, Complete
  <2>5. CASE Accelerate
    <3>1. PICK e \in Excess(speed) : speed' = speed + Gain + e
      BY <2>5 DEF Accelerate, Faster
    <3>2. e \in Nat /\ e <= Surplus
      BY <2>2, ExcessIs
    <3>3. speed' - speed <= Gain + Surplus
      BY <2>2, <3>1, <3>2
    <3> QED BY <3>3 DEF RiseLimited
  <2>6. CASE ReachFeed
    <3>1. type = "acc" /\ current_t' >= acc_steps /\ speed' = feed
      BY <2>6 DEF ReachFeed
    <3>2. feed0 + current_t * Gain <= speed
      BY <1>1, <3>1 DEF AccelerationInv, Following
    <3>3. acc_steps * Gain <= current_t * Gain + Gain
      <4>1. current_t' \in Nat /\ acc_steps <= current_t'
        BY <2>2, <2>3, <3>1
      <4>2. acc_steps * Gain <= current_t' * Gain
        BY <2>2, <2>3, <4>1, Times
      <4> QED BY <2>2, <4>2
    <3>4. speed' - speed <= 2 * Gain
      BY <2>2, <2>3, <3>1, <3>2, <3>3
    <3> QED BY <3>4 DEF RiseLimited
  <2>7. CASE Decelerate
    <3>1. PICK w \in Slower(speed) : IF w < feed1 THEN speed' = feed1 ELSE speed' = w
      BY <2>7 DEF Decelerate
    <3>2. speed >= feed1
      BY <1>1 DEF AccelerationInv, Following
    <3>3. w = -1 \/ (w \in Int /\ w <= speed - Gain + Surplus)
      <4>1. CASE Gain > 2 * speed
        BY <3>1, <4>1 DEF Slower
      <4>2. CASE ~(Gain > 2 * speed)
        <5>1. PICK e \in Excess(speed) : w = speed - Gain + e
          BY <3>1, <4>2 DEF Slower
        <5>2. e \in Nat /\ e <= Surplus
          BY <2>2, ExcessIs
        <5> QED BY <2>2, <5>1, <5>2
      <4> QED BY <4>1, <4>2
    <3>4. speed' - speed <= Gain + Surplus
      BY <2>2, <2>3, <3>1, <3>2, <3>3
    <3> QED BY <3>4 DEF RiseLimited
  <2> QED BY <2>4, <2>5, <2>6, <2>7
<1>2. AccelerationInv /\ [Next]_vars => [Gently]_vars
  BY <1>1
<1>3. Spec => [][Gently]_vars
  BY <1>2, AlwaysFollowing, PTL DEF Spec
<1> QED BY <1>3 DEF RisesGentlyFirst

=============================================================================
