------------------------- MODULE VehicleArithProofs -------------------------
(***************************************************************************)
(* Lemmas about the arithmetic of the control manager.                      *)
(***************************************************************************)
EXTENDS VehicleArith, TLAPS

\* A clamped value is within its bounds.
LEMMA ClampInRange ==
    ASSUME NEW v \in Int, NEW lo \in Int, NEW hi \in Int, lo <= hi
    PROVE  Clamp(v, lo, hi) \in lo..hi
BY DEF Clamp

\* A clamped request is a normalised one.
LEMMA ClampAxisInRange ==
    ASSUME NEW v \in Int
    PROVE  ClampAxis(v) \in Axis
BY DEF ClampAxis, Clamp, Axis, AXIS_MAX

\* Normalised requests are integers, and zero is one.
LEMMA AxisIsInt == Axis \subseteq Int /\ 0 \in Axis
BY DEF Axis, AXIS_MAX

\* CalculateStep always returns a step of 1 to 100 points.
LEMMA StepInRange ==
    ASSUME NEW rate \in Nat, NEW dt \in Nat
    PROVE  CalculateStep(rate, dt) \in 1..100
<1>. DEFINE points == (rate * dt) \div 1000
<1>1. points \in Int
    <2>1. rate * dt \in Nat
        OBVIOUS
    <2>. QED BY <2>1
<1>2. Clamp(points, 1, 100) \in 1..100
    <2>. HIDE DEF points
    <2>. QED BY <1>1 DEF Clamp
<1>. QED BY <1>2 DEF CalculateStep

\* A longer period never gives a smaller step.
LEMMA StepIsMonotone ==
    ASSUME NEW rate \in Nat, NEW d \in Nat, NEW e \in Nat, d <= e
    PROVE  CalculateStep(rate, d) <= CalculateStep(rate, e)
<1>. DEFINE p == rate * d  q == rate * e
<1>1. p \in Nat /\ q \in Nat /\ p <= q
    OBVIOUS
<1>2. p \div 1000 \in Int /\ q \div 1000 \in Int /\ p \div 1000 <= q \div 1000
    <2>. HIDE DEF p, q
    <2>. QED BY <1>1
<1>. DEFINE pd == p \div 1000  qd == q \div 1000
<1>3. Clamp(pd, 1, 100) <= Clamp(qd, 1, 100)
    <2>. HIDE DEF pd, qd
    <2>. QED BY <1>2 DEF pd, qd, Clamp
<1>. QED BY <1>3 DEF CalculateStep

\* The slew limiter never reverses a wheel in one step, stays between where it
\* was and where it goes (or zero), and moves by at most the step of its kind.
LEMMA SlewIsGentle ==
    ASSUME NEW c \in Int, NEW t \in Int,
           NEW up \in Nat \ {0}, NEW down \in Nat \ {0}
    PROVE  LET r == SlewLimitMotorPct(c, t, up, down)
           IN  /\ r \in Int
               /\ ~DifferentSignNonzero(c, r)
               /\ Abs(r) <= Abs(c) \/ Abs(r) <= Abs(t)
               /\ Abs(r) > Abs(c) => Abs(r) - Abs(c) <= up
               /\ Abs(r) <= Abs(c) => Abs(c) - Abs(r) <= down
BY DEF SlewLimitMotorPct, MoveToward, Clamp, DifferentSignNonzero, Abs

\* Toward zero every step makes progress, until it is there.
LEMMA SlewArrives ==
    ASSUME NEW c \in Int, NEW up \in Nat \ {0}, NEW down \in Nat \ {0}
    PROVE  LET r == SlewLimitMotorPct(c, 0, up, down)
           IN  r = 0 \/ Abs(r) + 1 <= Abs(c)
BY DEF SlewLimitMotorPct, MoveToward, Clamp, DifferentSignNonzero, Abs

\* A quotient is at most k when the dividend is at most k divisors.
LEMMA DivBound ==
    ASSUME NEW a \in Nat, NEW b \in Nat \ {0}, NEW k \in Nat, a <= k * b
    PROVE  a \div b \in 0..k
OBVIOUS

\* The same for C's signed division.
LEMMA TruncDivBound ==
    ASSUME NEW a \in Int, NEW b \in Nat \ {0}, NEW k \in Nat,
           Abs(a) <= k * b
    PROVE  TruncDiv(a, b) \in Int /\ Abs(TruncDiv(a, b)) <= k
<1>1. CASE a >= 0
    BY <1>1, DivBound DEF TruncDiv, Abs
<1>2. CASE a < 0
    <2>1. -a \in Nat /\ -a <= k * b
        BY <1>2 DEF Abs
    <2>2. (-a) \div b \in 0..k
        BY <2>1, DivBound
    <2>. QED BY <1>2, <2>2 DEF TruncDiv, Abs
<1>. QED BY <1>1, <1>2

\* A share of a normalised request never exceeds the limit.
LEMMA ScaleBound ==
    ASSUME NEW v \in Int, Abs(v) <= AXIS_MAX, NEW limit \in 0..100
    PROVE  ScaleToLimit(v, limit) \in -100..100 /\ Abs(ScaleToLimit(v, limit)) <= limit
<1>. DEFINE a == v * limit
            q == TruncDiv(a, AXIS_MAX)
<1>1. a \in Int /\ Abs(a) <= limit * AXIS_MAX
    BY DEF Abs, AXIS_MAX
<1>2. q \in Int /\ Abs(q) <= limit
    <2>1. AXIS_MAX \in Nat \ {0} /\ limit \in Nat
        BY DEF AXIS_MAX
    <2>. HIDE DEF a
    <2>. QED BY <1>1, <2>1, TruncDivBound
<1>3. ScaleToLimit(v, limit) = Clamp(q, -100, 100)
    BY DEF ScaleToLimit
<1>. HIDE DEF q
<1>. QED BY <1>2, <1>3 DEF Clamp, Abs

\* Normalising brings a value of at most maxAbs to at most AXIS_MAX.
LEMMA NormalizeBound ==
    ASSUME NEW v \in Int, NEW m \in Nat, Abs(v) <= m
    PROVE  Normalize(v, m) \in Int /\ Abs(Normalize(v, m)) <= AXIS_MAX
<1>1. CASE m > AXIS_MAX
    <2>1. v * AXIS_MAX \in Int /\ Abs(v * AXIS_MAX) <= AXIS_MAX * m
        BY DEF Abs, AXIS_MAX
    <2>. QED BY <1>1, <2>1, TruncDivBound DEF Normalize, AXIS_MAX
<1>2. CASE ~(m > AXIS_MAX)
    BY <1>2 DEF Normalize, Abs, AXIS_MAX
<1>. QED BY <1>1, <1>2

\* The mixer asks no side for more than the speed limit.
LEMMA TargetsWithinLimit ==
    ASSUME NEW linear \in Int, NEW angular \in Int, NEW limit \in 0..100
    PROVE  LET t == DifferentialTargets(linear, angular, limit)
           IN  t \in [Side -> -100..100] /\ \A s \in Side : Abs(t[s]) <= limit
<1>. DEFINE m == IF Abs(linear + angular) > Abs(linear - angular)
                 THEN Abs(linear + angular) ELSE Abs(linear - angular)
            n(s) == Normalize(Mix(linear, angular, s), m)
<1>1. \A s \in Side : /\ Mix(linear, angular, s) \in Int
                       /\ Abs(Mix(linear, angular, s)) <= m
    BY DEF Mix, Abs
<1>2. m \in Nat
    BY DEF Abs
<1>3. \A s \in Side : n(s) \in Int /\ Abs(n(s)) <= AXIS_MAX
    <2>. HIDE DEF m
    <2>. QED BY <1>1, <1>2, NormalizeBound
<1>4. \A s \in Side : /\ ScaleToLimit(n(s), limit) \in -100..100
                       /\ Abs(ScaleToLimit(n(s), limit)) <= limit
    <2>. HIDE DEF n
    <2>. QED BY <1>3, ScaleBound
<1>5. DifferentialTargets(linear, angular, limit)
          = [s \in Side |-> ScaleToLimit(n(s), limit)]
    BY DEF DifferentialTargets
<1>. HIDE DEF n
<1>. QED BY <1>4, <1>5
-----------------------------------------------------------------------------
(* The wrapping clock *)

\* Division with remainder.
LEMMA DivMod ==
    ASSUME NEW a \in Int, NEW M \in Nat \ {0}
    PROVE  /\ a \div M \in Int /\ a % M \in 0..M-1
           /\ a = M * (a \div M) + (a % M)
OBVIOUS

\* A remainder is unique: what lies within 0..M-1 is its own.
LEMMA UniqueRemainder ==
    ASSUME NEW q \in Int, NEW r \in Int, NEW t \in Int, NEW M \in Nat \ {0},
           0 <= r, r < M, 0 <= t, t < M, M * q + r = t
    PROVE  r = t
<1>1. CASE q > 0
    <2>1. M * q >= M
        BY <1>1
    <2>. QED BY <2>1
<1>2. CASE q < 0
    <2>1. M * q <= -M
        BY <1>2
    <2>. QED BY <2>1
<1>. QED BY <1>1, <1>2

\* Unsigned subtraction of two readings of a wrapping counter gives the true
\* time between them when that is shorter than one turn of the counter.
LEMMA ClockDifference ==
    ASSUME NEW x \in Nat, NEW y \in Nat, NEW M \in Nat \ {0},
           0 <= x - y, x - y < M
    PROVE  ((x % M) - (y % M)) % M = x - y
<1>. DEFINE qx == x \div M
            qy == y \div M
            d  == (x % M) - (y % M)
            qd == d \div M
            q  == qd + qx - qy
            r  == d % M
            t  == x - y
<1>1. /\ qx \in Int /\ qy \in Int /\ d \in Int
      /\ x % M \in 0..M-1 /\ y % M \in 0..M-1
    BY DivMod
<1>2. x = M * qx + (x % M) /\ y = M * qy + (y % M)
    BY DivMod
<1>3. d = M * qd + r /\ qd \in Int /\ r \in 0..M-1
    BY <1>1, DivMod
<1>4. M * q + r = t
    <2>1. M * q = M * qd + M * qx - M * qy
        BY <1>1, <1>3
    <2>. QED BY <2>1, <1>1, <1>2, <1>3
<1>5. /\ q \in Int /\ t \in Int /\ r \in Int
      /\ 0 <= r /\ r < M /\ 0 <= t /\ t < M
    BY <1>1, <1>3
<1>6. r = t
    <2>. HIDE DEF q, r, t
    <2>. QED BY <1>4, <1>5, UniqueRemainder
<1>. QED BY <1>6

=============================================================================
