---------------------------- MODULE MotorDriver ----------------------------
(***************************************************************************)
(* motor_driver.c: signed percentages to the two direction pins and the PWM *)
(* duty of an L298N bridge per motor.  A call takes the motors one by one,   *)
(* each a sequence of hardware operations; any of them may fail, which ends  *)
(* the call (or, in stop_all, the work on that motor) where it happens to be. *)
(***************************************************************************)
EXTENDS Integers, Sequences

CONSTANTS
    MotorOrder,     \* the motors in the order of motor_id_t
    LeftMotors,     \* those of the left group
    Inverted,       \* the motors wired the other way round
    Requests        \* the percentages callers may ask for

Motor == {MotorOrder[i] : i \in DOMAIN MotorOrder}

ASSUME MotorAssumption ==
    /\ MotorOrder \in Seq(Motor) /\ MotorOrder # <<>>
    /\ \A i, j \in DOMAIN MotorOrder : MotorOrder[i] = MotorOrder[j] => i = j
    /\ LeftMotors \subseteq Motor /\ Inverted \subseteq Motor
ASSUME RequestAssumption == Requests \subseteq Int

VARIABLES
    in1, in2, duty,     \* the hardware of each motor
    configured,         \* the direction pins that are outputs: <<motor, 1 or 2>>
    current_pct,        \* what the driver believes each motor does
    call,               \* the call in progress or last made
    at,                 \* the place in MotorOrder it has come to
    todo,               \* the operations still to perform on that motor
    failed,             \* whether one of its operations failed
    \* history, never read by the code
    before,             \* how each motor was driven when the call began
    drove               \* the way each bridge last drove, until it has rested

hardwareVars == <<in1, in2, duty, configured>>
historyVars  == <<before, drove>>
vars == <<hardwareVars, current_pct, call, at, todo, failed, historyVars>>

\* Mutant: no clamp.
ClampMotorPctSkipped(pct) == pct

ClampMotorPct(pct) == IF pct > 100 THEN 100 ELSE IF pct < -100 THEN -100 ELSE pct

DifferentNonzeroDirection(old, new) == (old > 0 /\ new < 0) \/ (old < 0 /\ new > 0)

Sign(n) == IF n > 0 THEN 1 ELSE IF n < 0 THEN -1 ELSE 0

\* The sense in which the bridge of motor m turns the wheel: IN1 for forward.
PinSense(m) == IF m \in Inverted THEN in2[m] - in1[m] ELSE in1[m] - in2[m]

\* The signed percentage the hardware of motor m really applies.
Drive(m) == PinSense(m) * duty[m]

Init ==
    /\ in1 = [m \in Motor |-> 0] /\ in2 = [m \in Motor |-> 0]
    /\ duty = [m \in Motor |-> 0]
    /\ configured = {}
    /\ current_pct = [m \in Motor |-> 0]
    /\ call = [name |-> "none", left |-> 0, right |-> 0]
    /\ at = 1 /\ todo = <<>> /\ failed = FALSE
    /\ before = [m \in Motor |-> 0] /\ drove = [m \in Motor |-> 0]
-----------------------------------------------------------------------------
(* The operations of a call, in the order of the code *)

Op(kind, m, arg) == [kind |-> kind, motor |-> m, arg |-> arg]

\* Mutant: the invert flag is forgotten.
DirectionPinsAsWired(m, pct) ==
    IF pct = 0 THEN <<Op("in1", m, 0), Op("in2", m, 0)>>
    ELSE IF pct > 0 THEN <<Op("in1", m, 1), Op("in2", m, 0)>>
    ELSE <<Op("in1", m, 0), Op("in2", m, 1)>>

\* The percentage as the bridge sees it.
Turn(m, pct) == IF m \in Inverted THEN -pct ELSE pct

DirectionPins(m, pct) ==
    <<Op("in1", m, IF Turn(m, pct) > 0 THEN 1 ELSE 0),
      Op("in2", m, IF Turn(m, pct) < 0 THEN 1 ELSE 0)>>

StopOne(m) ==
    <<Op("pwm", m, 0)>> \o DirectionPins(m, 0) \o <<Op("commit", m, 0)>>

\* motor_set_pwm_percent caps it at 100 once more, which a clamped request never needs.
Magnitude(pct) == IF pct < 0 THEN -pct ELSE pct

\* Mutant: the pins are written with the old duty still on.
SetOneUnderPower(m, pct) ==
    (IF DifferentNonzeroDirection(current_pct[m], pct)
     THEN <<Op("deadtime", m, 0)>> ELSE <<>>)
    \o IF pct = 0 THEN StopOne(m)
       ELSE DirectionPins(m, pct)
            \o <<Op("pwm", m, Magnitude(pct)), Op("commit", m, pct)>>

\* Mutant: the dead time is spent before the power is taken away.
SetOneRestsTooEarly(m, pct) ==
    (IF DifferentNonzeroDirection(current_pct[m], pct)
     THEN <<Op("deadtime", m, 0), Op("pwm", m, 0)>> ELSE <<>>)
    \o IF pct = 0 THEN StopOne(m)
       ELSE <<Op("pwm", m, 0)>> \o DirectionPins(m, pct)
            \o <<Op("pwm", m, Magnitude(pct)), Op("commit", m, pct)>>

SetOne(m, pct) ==
    (IF DifferentNonzeroDirection(current_pct[m], pct)
     THEN <<Op("pwm", m, 0), Op("deadtime", m, 0)>> ELSE <<>>)
    \o IF pct = 0 THEN StopOne(m)
       ELSE <<Op("pwm", m, 0)>> \o DirectionPins(m, pct)
            \o <<Op("pwm", m, Magnitude(pct)), Op("commit", m, pct)>>

InitOne(m) ==
    <<Op("ready", m, 0), Op("configure", m, 1), Op("configure", m, 2)>>
    \o StopOne(m)

PctOf(m, left, right) ==
    ClampMotorPct(IF m \in LeftMotors THEN left ELSE right)

\* What call c does to motor m, from what the driver believes when it comes to m.
OperationsOn(m, c) ==
    CASE c.name = "init" -> InitOne(m)
      [] c.name = "stop_all" -> StopOne(m)
      [] c.name = "set_left_right" -> SetOne(m, PctOf(m, c.left, c.right))

\* A call begins: only the motor thread calls, at least 20 ms after its last.
Begin(name, left, right) ==
    /\ todo = <<>>
    /\ call' = [name |-> name, left |-> left, right |-> right]
    /\ at' = 1 /\ todo' = OperationsOn(MotorOrder[1], call')
    /\ failed' = FALSE
    /\ before' = [m \in Motor |-> Drive(m)]
    /\ drove' = [m \in Motor |-> Sign(Drive(m))]
    /\ UNCHANGED <<hardwareVars, current_pct>>

\* main initialises once and goes on even if that fails.
DriverInit == call.name = "none" /\ Begin("init", 0, 0)

SetLeftRight(left, right) == call.name # "none" /\ Begin("set_left_right", left, right)

StopAll == call.name # "none" /\ Begin("stop_all", 0, 0)

NextMotor ==
    IF at < Len(MotorOrder)
    THEN at' = at + 1 /\ todo' = OperationsOn(MotorOrder[at + 1], call)
    ELSE UNCHANGED at /\ todo' = <<>>
-----------------------------------------------------------------------------
(* Performing one operation *)

NextIs(kind) == todo # <<>> /\ Head(todo).kind = kind

Done == todo' = Tail(todo) /\ UNCHANGED <<call, at, failed, before>>

SetPwm ==
    LET m == Head(todo).motor IN
    /\ NextIs("pwm") /\ Done
    /\ duty' = [duty EXCEPT ![m] = Head(todo).arg]
    /\ drove' = [drove EXCEPT ![m] = IF Head(todo).arg > 0 THEN PinSense(m) ELSE @]
    /\ UNCHANGED <<in1, in2, configured, current_pct>>

\* Writing a pin that is not an output succeeds and has no effect.
SetIn1 ==
    LET m == Head(todo).motor IN
    /\ NextIs("in1") /\ Done
    /\ in1' = [in1 EXCEPT ![m] = IF <<m, 1>> \in configured THEN Head(todo).arg ELSE @]
    /\ UNCHANGED <<in2, duty, configured, current_pct, drove>>

SetIn2 ==
    LET m == Head(todo).motor IN
    /\ NextIs("in2") /\ Done
    /\ in2' = [in2 EXCEPT ![m] = IF <<m, 2>> \in configured THEN Head(todo).arg ELSE @]
    /\ UNCHANGED <<in1, duty, configured, current_pct, drove>>

\* GPIO_OUTPUT_INACTIVE: an output, and low.
ConfigureGpio ==
    LET m == Head(todo).motor IN
    /\ NextIs("configure") /\ Done
    /\ in1' = [in1 EXCEPT ![m] = IF Head(todo).arg = 1 THEN 0 ELSE @]
    /\ in2' = [in2 EXCEPT ![m] = IF Head(todo).arg = 2 THEN 0 ELSE @]
    /\ configured' = configured \cup {<<m, Head(todo).arg>>}
    /\ UNCHANGED <<duty, current_pct, drove>>

CheckReady == /\ NextIs("ready") /\ Done
              /\ UNCHANGED <<hardwareVars, current_pct, drove>>

\* k_msleep(5): every bridge that is off has rested.
DeadTime ==
    /\ NextIs("deadtime") /\ Done
    /\ drove' = [m \in Motor |-> IF duty[m] = 0 THEN 0 ELSE drove[m]]
    /\ UNCHANGED <<hardwareVars, current_pct>>

\* The driver's own record of a motor, once its operations have all succeeded.
Commit ==
    /\ NextIs("commit") /\ NextMotor
    /\ current_pct' = [current_pct EXCEPT ![Head(todo).motor] = Head(todo).arg]
    /\ UNCHANGED <<hardwareVars, call, failed, historyVars>>

MayFail == \E kind \in {"ready", "configure", "pwm", "in1", "in2"} : NextIs(kind)

\* Mutant: the error of an operation is not returned.
FailUnreported ==
    /\ MayFail /\ todo' = <<>>
    /\ UNCHANGED <<hardwareVars, current_pct, call, at, failed, historyVars>>

\* Mutant: every call goes on with the next motor.
FailGoesOn ==
    /\ MayFail /\ failed' = TRUE /\ NextMotor
    /\ UNCHANGED <<hardwareVars, current_pct, call, historyVars>>

\* A GPIO or PWM call that fails leaves the hardware alone.  init and
\* set_left_right return at once, stop_all goes on with the next motor.
Fail ==
    /\ MayFail /\ failed' = TRUE
    /\ IF call.name = "stop_all" THEN NextMotor ELSE todo' = <<>> /\ UNCHANGED at
    /\ UNCHANGED <<hardwareVars, current_pct, call, historyVars>>

Perform == \/ SetPwm \/ SetIn1 \/ SetIn2 \/ ConfigureGpio \/ CheckReady
           \/ DeadTime \/ Commit \/ Fail

Next == \/ DriverInit
        \/ \E left, right \in Requests : SetLeftRight(left, right)
        \/ StopAll
        \/ Perform

Spec == Init /\ [][Next]_vars

-----------------------------------------------------------------------------
(* What the driver must guarantee *)

\* Duties and beliefs stay in range whatever is asked for.
TypeOK ==
    /\ in1 \in [Motor -> 0..1] /\ in2 \in [Motor -> 0..1]
    /\ duty \in [Motor -> 0..100] /\ configured \subseteq Motor \X {1, 2}
    /\ current_pct \in [Motor -> -100..100]
    /\ failed \in BOOLEAN /\ at \in DOMAIN MotorOrder
    /\ before \in [Motor -> -100..100] /\ drove \in [Motor -> -1..1]

\* The motors init got as far as to wire.
Wired == {m \in Motor : {<<m, 1>>, <<m, 2>>} \subseteq configured}

\* What the driver believes of motor m, its last write taken as recorded.
Believed(m) == IF NextIs("commit") /\ Head(todo).motor = m
               THEN Head(todo).arg ELSE current_pct[m]

\* A motor under power does what the driver believes, in direction and in
\* strength, through every partial failure: the next reversal is recognised.  One
\* whose initialisation failed half way does that or nothing, never the opposite.
PoweredAsBelieved ==
    \A m \in Motor : duty[m] > 0 =>
        Drive(m) = Believed(m) \/ (m \notin Wired /\ Drive(m) = 0)

\* The direction pins of a bridge never change while it is under power.
PinsSwitchAtRest ==
    [][\A m \in Motor : <<in1[m], in2[m]>>' # <<in1[m], in2[m]>> => duty[m] = 0]_vars

\* A bridge that drove one way is not powered the other way before it has been
\* off for the dead time (or for the pause between two calls).
RestsBeforeReversing ==
    [][\A m \in Motor : duty'[m] > 0 => ~DifferentNonzeroDirection(drove[m], Drive(m)')]_vars

Returned == todo = <<>> /\ call.name # "none"

Requested(m) == PctOf(m, call.left, call.right)

\* A call that reports success has put every motor where it was asked to.
SuccessIsReal ==
    Returned /\ ~failed => \A m \in Wired : Drive(m) = Requested(m)

\* A set_left_right that fails has served the motors before the failing one,
\* left alone those after it, and the failing one drives as before or is off.
\* VehicleThreads takes its failing driver calls from here.
FailureIsPartial ==
    Returned /\ failed /\ call.name = "set_left_right" =>
        \E k \in DOMAIN MotorOrder : \A i \in DOMAIN MotorOrder :
            LET m == MotorOrder[i] IN
            m \in Wired => \/ i < k /\ Drive(m) = Requested(m)
                           \/ i = k /\ Drive(m) \in {before[m], 0}
                           \/ i > k /\ Drive(m) = before[m]

=============================================================================
