---------------------------- MODULE VehicleArith ----------------------------
(***************************************************************************)
(* The pure arithmetic of vehicle_control_manager.c: clamping, the slew     *)
(* limiter and the differential mixer.  The C code computes in int32_t and  *)
(* uint32_t on operands that never leave the range of those types (a rate   *)
(* and a period are uint16_t, so their product is below 2^32; the mixer's   *)
(* products are below 2 * 10^6), so unbounded integers are exact here.      *)
(***************************************************************************)
EXTENDS Integers

\* VEHICLE_AXIS_MAX; VEHICLE_AXIS_MIN is its opposite.
AXIS_MAX == 1000

\* A normalised motion request.
Axis == {n \in Int : -AXIS_MAX <= n /\ n <= AXIS_MAX}

\* The two motor groups of the chassis.
Side == {"left", "right"}

Clamp(v, lo, hi) == IF v < lo THEN lo ELSE IF v > hi THEN hi ELSE v

ClampAxis(v) == Clamp(v, -AXIS_MAX, AXIS_MAX)

Abs(v) == IF v < 0 THEN -v ELSE v

\* C's integer division, which rounds toward zero.
TruncDiv(a, b) == IF a >= 0 THEN a \div b ELSE -((-a) \div b)

DifferentSignNonzero(a, b) == (a > 0 /\ b < 0) \/ (a < 0 /\ b > 0)

\* Mutant: a step that would overshoot is left out instead of cut.
MoveTowardNotQuite(current, target, step) ==
    IF current + step < target THEN current + step
    ELSE IF current - step > target THEN current - step ELSE current

\* At least one point, so that a ramp always makes progress.
MoveToward(current, target, step) ==
    LET s == IF step = 0 THEN 1 ELSE step
    IN  IF current < target THEN Clamp(current + s, current, target)
                            ELSE Clamp(current - s, target, current)

\* The points a ramp of `rate` percent per second covers in dt ms: never none.
CalculateStep(rate, dt) == Clamp((rate * dt) \div 1000, 1, 100)

\* Mutant: the two ramps are swapped.
SlewSwapped(current, target, stepUp, stepDown) ==
    IF DifferentSignNonzero(current, target)
    THEN MoveToward(current, 0, stepUp)
    ELSE MoveToward(current, target,
                    IF Abs(target) > Abs(current) THEN stepDown ELSE stepUp)

\* A change of direction first ramps to zero.
SlewLimitMotorPct(current, target, stepUp, stepDown) ==
    IF DifferentSignNonzero(current, target)
    THEN MoveToward(current, 0, stepDown)
    ELSE MoveToward(current, target,
                    IF Abs(target) > Abs(current) THEN stepUp ELSE stepDown)

\* left = linear - angular, right = linear + angular.
Mix(linear, angular, side) ==
    IF side = "left" THEN linear - angular ELSE linear + angular

\* Mutant: a mix beyond the axis range is left as it is.
NormalizeSkipped(v, maxAbs) == v

\* Scale a mixed value down so that the larger of the two is AXIS_MAX.
Normalize(v, maxAbs) ==
    IF maxAbs > AXIS_MAX THEN TruncDiv(v * AXIS_MAX, maxAbs) ELSE v

\* The share `limit` percent of a normalised request, in percent.
ScaleToLimit(v, limit) == Clamp(TruncDiv(v * limit, AXIS_MAX), -100, 100)

\* The signed target percentage of each side for a clamped motion request.
DifferentialTargets(linear, angular, limit) ==
    LET maxAbs == IF Abs(linear + angular) > Abs(linear - angular)
                  THEN Abs(linear + angular) ELSE Abs(linear - angular)
    IN  [s \in Side |->
            ScaleToLimit(Normalize(Mix(linear, angular, s), maxAbs), limit)]

=============================================================================
