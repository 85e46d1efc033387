-------------------- MODULE VehicleControlManagerProofs --------------------
(***************************************************************************)
(* Theorems about VehicleControlManager, for every configuration, set of    *)
(* commands, clock width and time bound its assumptions allow.              *)
(***************************************************************************)
EXTENDS VehicleControlManager, VehicleArithProofs

\* init leaves a usable configuration, whatever it was given.
LEMMA ConfigIsUsable ==
    /\ DefaultSpeedLimit \in 0..SAFE_MAX_SPEED_LIMIT_PCT
    /\ DefaultTtl \in UInt16 /\ MaxDt \in UInt16 \ {0}
    /\ RampUp \in Nat /\ RampDown \in Nat
<1>1. Defaults \in ConfigType
    BY DEF Defaults, ConfigType, Percent, UInt16
<1>2. Given \in ConfigType
    BY <1>1, ConfigAssumption DEF Given
<1>3. /\ Given.default_speed_limit_pct \in Percent
      /\ Given.default_ttl_ms \in UInt16 /\ Given.max_update_dt_ms \in UInt16
      /\ Given.ramp_up_pct_per_sec \in UInt16
      /\ Given.ramp_down_pct_per_sec \in UInt16
    BY <1>2 DEF ConfigType
<1>4. DefaultSpeedLimit \in 0..SAFE_MAX_SPEED_LIMIT_PCT
    BY <1>3, SafeMaxAssumption
    DEF DefaultSpeedLimit, LimitSpeed, Clamp, Percent
<1>5. \A v \in UInt16, d \in UInt16 \ {0} : OrDefault(v, d) \in UInt16 \ {0}
    BY DEF OrDefault, UInt16
<1>6. /\ Defaults.default_ttl_ms \in UInt16 \ {0}
      /\ Defaults.max_update_dt_ms \in UInt16 \ {0}
      /\ Defaults.ramp_up_pct_per_sec \in UInt16 \ {0}
      /\ Defaults.ramp_down_pct_per_sec \in UInt16 \ {0}
    BY DEF Defaults, UInt16
<1>7. /\ DefaultTtl \in UInt16 \ {0} /\ MaxDt \in UInt16 \ {0}
      /\ RampUp \in UInt16 \ {0} /\ RampDown \in UInt16 \ {0}
    BY <1>3, <1>5, <1>6 DEF DefaultTtl, MaxDt, RampUp, RampDown
<1>. QED BY <1>4, <1>7 DEF UInt16

\* Every limit the manager stores is at most the safe maximum.
LEMMA LimitIsSafe ==
    ASSUME NEW pct \in Percent
    PROVE  LimitSpeed(pct) \in 0..SAFE_MAX_SPEED_LIMIT_PCT
BY SafeMaxAssumption DEF LimitSpeed, Clamp, Percent

\* The clock readings are within the counter.
LEMMA ClockReading ==
    ASSUME NEW x \in Int
    PROVE  x % TimeMod \in 0..TimeMod-1
BY ClockAssumption

\* What an update computes with: a positive step, and gentle new outputs.
LEMMA UpdateSteps ==
    ASSUME TypeOK
    PROVE  /\ UpdateDt \in 1..MaxDt
           /\ StepUp(UpdateDt) \in 1..100 /\ StepDown(UpdateDt) \in 1..100
<1>1. UpdateDt \in 1..MaxDt
    <2>. DEFINE since == IF last_update_time_ms = 0 THEN NowMs
                         ELSE last_update_time_ms
    <2>1. since \in Int
        BY ClockReading DEF TypeOK, NowMs
    <2>2. ElapsedMs(since) \in Int
        <3>1. NowMs - since \in Int
            BY <2>1, ClockReading DEF TypeOK, NowMs
        <3>. HIDE DEF since
        <3>. QED BY <3>1, ClockReading DEF ElapsedMs
    <2>3. UpdateDt = Clamp(ElapsedMs(since), 1, MaxDt)
        BY DEF UpdateDt
    <2>4. MaxDt \in Nat \ {0}
        BY ConfigIsUsable DEF UInt16
    <2>. HIDE DEF since
    <2>. QED BY <2>2, <2>3, <2>4 DEF Clamp
<1>2. UpdateDt \in Nat /\ RampUp \in Nat /\ RampDown \in Nat
    BY <1>1, ConfigIsUsable DEF UInt16
<1>. QED BY <1>1, <1>2, StepInRange DEF StepUp, StepDown

\* The facts about one side that the ramp of an update gives.
LEMMA SlewedIsGentle ==
    ASSUME TypeOK, target_pct' \in [Side -> -100..100]
    PROVE  /\ Slewed \in [Side -> -100..100]
           /\ \A s \in Side :
                /\ ~DifferentSignNonzero(current_pct[s], Slewed[s])
                /\ \/ Abs(Slewed[s]) <= Abs(current_pct[s])
                   \/ Abs(Slewed[s]) <= Abs(target_pct'[s])
                /\ Abs(Slewed[s]) > Abs(current_pct[s])
                     => Abs(Slewed[s]) - Abs(current_pct[s]) <= StepUp(UpdateDt)
                /\ Abs(Slewed[s]) <= Abs(current_pct[s])
                     => Abs(current_pct[s]) - Abs(Slewed[s]) <= StepDown(UpdateDt)
<1>. DEFINE up == StepUp(UpdateDt)  down == StepDown(UpdateDt)
<1>1. up \in Nat \ {0} /\ down \in Nat \ {0}
    BY UpdateSteps
<1>2. Slewed = [s \in Side |->
                   SlewLimitMotorPct(current_pct[s], target_pct'[s], up, down)]
    BY DEF Slewed
<1>. HIDE DEF up, down
<1>3. ASSUME NEW s \in Side
      PROVE  LET r == SlewLimitMotorPct(current_pct[s], target_pct'[s], up, down)
             IN  /\ r \in -100..100
                 /\ ~DifferentSignNonzero(current_pct[s], r)
                 /\ Abs(r) <= Abs(current_pct[s]) \/ Abs(r) <= Abs(target_pct'[s])
                 /\ Abs(r) > Abs(current_pct[s])
                      => Abs(r) - Abs(current_pct[s]) <= up
                 /\ Abs(r) <= Abs(current_pct[s])
                      => Abs(current_pct[s]) - Abs(r) <= down
    <2>. DEFINE c == current_pct[s]  t == target_pct'[s]
                r == SlewLimitMotorPct(c, t, up, down)
    <2>1. c \in -100..100 /\ t \in -100..100
        BY <1>3 DEF TypeOK
    <2>. HIDE DEF c, t
    <2>2. /\ r \in Int
          /\ ~DifferentSignNonzero(c, r)
          /\ Abs(r) <= Abs(c) \/ Abs(r) <= Abs(t)
          /\ Abs(r) > Abs(c) => Abs(r) - Abs(c) <= up
          /\ Abs(r) <= Abs(c) => Abs(c) - Abs(r) <= down
        <3>1. c \in Int /\ t \in Int
            BY <2>1
        <3>. QED BY <1>1, <3>1, SlewIsGentle, Zenon
    <2>. HIDE DEF r
    <2>3. r \in -100..100
        BY <2>1, <2>2 DEF Abs
    <2>. QED BY <2>2, <2>3 DEF r, c, t
<1>. QED BY <1>2, <1>3 DEF up, down
-----------------------------------------------------------------------------
(* Type correctness *)

\* Zero on both sides is an output.
LEMMA AtZeroType == AtZero \in [Side -> -100..100]
BY DEF AtZero

\* Whatever an update decides, its targets are within the safe limit.
LEMMA UpdateTargets ==
    ASSUME TypeOK
    PROVE  LET t == CalculateDifferentialTargets
           IN  /\ t \in [Side -> -100..100]
               /\ \A s \in Side : Abs(t[s]) <= SAFE_MAX_SPEED_LIMIT_PCT
<1>. DEFINE linear  == ClampAxis(active_cmd.linear_x)
            angular == ClampAxis(active_cmd.angular_z)
            limit   == LimitSpeed(current_speed_limit_pct)
<1>1. linear \in Int /\ angular \in Int
    BY ClampAxisInRange, AxisIsInt DEF TypeOK
<1>2. limit \in 0..SAFE_MAX_SPEED_LIMIT_PCT /\ limit \in 0..100
    BY SafeMaxAssumption DEF TypeOK, LimitSpeed, Clamp, Percent
<1>3. CalculateDifferentialTargets = DifferentialTargets(linear, angular, limit)
    BY DEF CalculateDifferentialTargets
<1>. HIDE DEF linear, angular, limit
<1>. DEFINE t == DifferentialTargets(linear, angular, limit)
<1>4. t \in [Side -> -100..100] /\ \A s \in Side : Abs(t[s]) <= limit
    BY <1>1, <1>2, TargetsWithinLimit, Zenon
<1>. HIDE DEF t
<1>5. ASSUME NEW s \in Side PROVE Abs(t[s]) <= SAFE_MAX_SPEED_LIMIT_PCT
    <2>1. t[s] \in -100..100 /\ Abs(t[s]) <= limit
        BY <1>4, <1>5
    <2>. QED BY <2>1, <1>2, SafeMaxAssumption DEF Abs, Percent
<1>. QED BY <1>3, <1>4, <1>5 DEF t

\* What an update changes: the clocks, the flag, the targets (within the safe
\* limit) and the output, which is zero under the latch and else one ramp step.
LEMMA UpdateEffect ==
    ASSUME TypeOK, Update
    PROVE  /\ last_update_time_ms' = NowMs /\ updated_at' = uptime
           /\ UNCHANGED <<commandVars, has_active_motion_cmd,
                          emergency_stop_latched, uptime>>
           /\ command_timeout_active' \in BOOLEAN
           /\ target_pct' \in [Side -> -100..100]
           /\ \A s \in Side : Abs(target_pct'[s]) <= SAFE_MAX_SPEED_LIMIT_PCT
           /\ current_pct' \in [Side -> -100..100]
           /\ current_pct' = AtZero \/ current_pct' = Slewed
<1>1. \A s \in Side : Abs(AtZero[s]) <= SAFE_MAX_SPEED_LIMIT_PCT
    BY SafeMaxAssumption DEF AtZero, Abs, Percent
<1>2. /\ target_pct' \in [Side -> -100..100]
      /\ \A s \in Side : Abs(target_pct'[s]) <= SAFE_MAX_SPEED_LIMIT_PCT
    BY <1>1, UpdateTargets, AtZeroType
    DEF Update, UpdateLatched, UpdateTimedOut, UpdateDriving
<1>3. Slewed \in [Side -> -100..100]
    BY <1>2, SlewedIsGentle
<1>. QED BY <1>2, <1>3, AtZeroType
         DEF Update, UpdateLatched, UpdateTimedOut, UpdateDriving, UpdateClock,
             TypeOK

\* An accepted command is normalised.
LEMMA AcceptedType ==
    ASSUME NEW cmd \in CommandType
    PROVE  Accepted(cmd) \in [linear_x : Axis, angular_z : Axis,
                              speed_limit_pct : Percent, ttl_ms : UInt16]
<1>1. /\ cmd.linear_x \in Int /\ cmd.angular_z \in Int
      /\ cmd.speed_limit_pct \in Percent /\ cmd.ttl_ms \in UInt16
    BY DEF CommandType, Int16
<1>2. /\ ClampAxis(cmd.linear_x) \in Axis
      /\ ClampAxis(cmd.angular_z) \in Axis
    BY <1>1, ClampAxisInRange
<1>3. DefaultTtl \in UInt16
    BY ConfigIsUsable
<1>. QED BY <1>1, <1>2, <1>3 DEF Accepted

\* Whatever limit a command asks for, what is stored of it is safe.
LEMMA LimitOfType ==
    ASSUME TypeOK, NEW cmd, cmd.speed_limit_pct \in Percent
    PROVE  /\ LimitOf(cmd) \in 0..SAFE_MAX_SPEED_LIMIT_PCT
           /\ LimitSpeed(cmd.speed_limit_pct) \in 0..SAFE_MAX_SPEED_LIMIT_PCT
BY LimitIsSafe DEF LimitOf, TypeOK

\* init leaves every field within its type.
LEMMA TypeInit == Init => TypeOK
<1>1. AtZero \in [Side -> -100..100]
    BY AtZeroType
<1>2. DefaultSpeedLimit \in 0..SAFE_MAX_SPEED_LIMIT_PCT
    BY ConfigIsUsable
<1>3. 0 \in 0..TimeMod-1 /\ 0 \in 0..MaxUptime
    BY ClockAssumption
<1>4. 0 \in Axis /\ 0 \in UInt16 /\ 0 \in Percent
    BY AxisIsInt DEF UInt16, Percent
<1>5. [linear_x |-> 0, angular_z |-> 0, speed_limit_pct |-> 0, ttl_ms |-> 0]
          \in [linear_x : Axis, angular_z : Axis, speed_limit_pct : Percent,
              ttl_ms : UInt16]
    BY <1>4
<1>6. 0 \in 0..0
    OBVIOUS
<1>. QED BY <1>1, <1>2, <1>3, <1>5, <1>6 DEF Init, TypeOK

\* A command keeps every field within its type, whoever submits it.
LEMMA HandleType ==
    ASSUME TypeOK, NEW cmd \in CommandType, HandleCommand(cmd)
    PROVE  TypeOK'
<1>. USE AtZeroType
<1>0. NowMs \in 0..TimeMod-1 /\ cmd.speed_limit_pct \in Percent
    BY ClockReading DEF TypeOK, NowMs, CommandType
<1>1. CASE SetSpeed(cmd)
    BY <1>0, <1>1, LimitOfType DEF SetSpeed, TypeOK, outputVars, updateVars
<1>2. CASE Stop(cmd)
    BY <1>2 DEF Stop, TypeOK, commandVars, updateVars
<1>3. CASE EmergencyStop(cmd)
    BY <1>3 DEF EmergencyStop, TypeOK, commandVars, updateVars
<1>4. CASE Motion(cmd)
    <2>1. uptime \in 0..uptime
        BY DEF TypeOK
    <2>. QED BY <1>0, <1>4, <2>1, AcceptedType, LimitOfType
             DEF Motion, TypeOK, outputVars, updateVars
<1>5. CASE UNCHANGED vars
    BY <1>5 DEF vars, TypeOK, commandVars, outputVars, updateVars
<1>. QED BY <1>1, <1>2, <1>3, <1>4, <1>5 DEF HandleCommand, Ignored

\* Every step keeps every field within its type.
LEMMA TypeNext == TypeOK /\ [Next]_vars => TypeOK'
<1>. SUFFICES ASSUME TypeOK, [Next]_vars PROVE TypeOK'
    OBVIOUS
<1>. USE AtZeroType
<1>0. NowMs \in 0..TimeMod-1
    BY ClockReading DEF TypeOK, NowMs
<1>1. ASSUME NEW cmd \in Commands, HandleCommand(cmd) PROVE TypeOK'
    BY <1>1, CommandAssumption, HandleType
<1>5. CASE UNCHANGED vars
    BY <1>5 DEF vars, TypeOK, commandVars, outputVars, updateVars
<1>6. ASSUME Update PROVE TypeOK'
    <2>1. uptime \in 0..uptime
        BY DEF TypeOK
    <2>. QED BY <1>0, <1>6, <2>1, UpdateEffect DEF TypeOK, commandVars
<1>7. ASSUME ClearEmergencyStop PROVE TypeOK'
    BY <1>7 DEF ClearEmergencyStop, TypeOK, commandVars, updateVars
<1>8. ASSUME NEW d \in UptimeSteps, Tick(d) PROVE TypeOK'
    <2>1. /\ uptime' \in 0..MaxUptime
          /\ accepted_at \in 0..uptime' /\ updated_at \in 0..uptime'
        BY <1>8, ClockAssumption DEF Tick, TypeOK
    <2>. QED BY <1>8, <2>1
             DEF Tick, TypeOK, commandVars, outputVars, updateVars
<1>. QED BY <1>1, <1>5, <1>6, <1>7, <1>8 DEF Next

\* In every reachable state every field of the manager is within its C type.
THEOREM TypeCorrect == Spec => []TypeOK
BY TypeInit, TypeNext, PTL DEF Spec
-----------------------------------------------------------------------------
(* The safety invariants *)

Within(f) == \A s \in Side : Abs(f[s]) <= SAFE_MAX_SPEED_LIMIT_PCT

LEMMA AtZeroWithin == Within(AtZero)
BY SafeMaxAssumption DEF Within, AtZero, Abs, Percent

LEMMA SafeLimitUpdate ==
    ASSUME TypeOK, OutputWithinSafeLimit, Update
    PROVE  OutputWithinSafeLimit'
<1>. USE DEF Within
<1>1. Within(target_pct')
    BY UpdateEffect
<1>2. ASSUME NEW s \in Side
      PROVE  Abs(Slewed[s]) <= SAFE_MAX_SPEED_LIMIT_PCT
    <2>1. /\ Slewed[s] \in Int
          /\ \/ Abs(Slewed[s]) <= Abs(current_pct[s])
             \/ Abs(Slewed[s]) <= Abs(target_pct'[s])
        BY <1>2, UpdateEffect, SlewedIsGentle
    <2>2. /\ Abs(current_pct[s]) <= SAFE_MAX_SPEED_LIMIT_PCT
          /\ Abs(target_pct'[s]) <= SAFE_MAX_SPEED_LIMIT_PCT
        BY <1>2, UpdateEffect DEF TypeOK, OutputWithinSafeLimit
    <2>3. /\ current_pct[s] \in Int /\ target_pct'[s] \in Int
          /\ SAFE_MAX_SPEED_LIMIT_PCT \in Int
        <3>1. target_pct'[s] \in -100..100
            BY <1>2, UpdateEffect
        <3>2. current_pct[s] \in -100..100
            BY <1>2 DEF TypeOK
        <3>. QED BY <3>1, <3>2, SafeMaxAssumption DEF Percent
    <2>. QED BY <2>1, <2>2, <2>3 DEF Abs
<1>3. Within(current_pct')
    BY <1>2, UpdateEffect, AtZeroWithin
<1>. QED BY <1>1, <1>3 DEF OutputWithinSafeLimit

\* Every other step keeps an output or sets it to zero.
LEMMA SafeLimitKept ==
    ASSUME OutputWithinSafeLimit,
           current_pct' = current_pct \/ current_pct' = AtZero,
           target_pct' = target_pct \/ target_pct' = AtZero
    PROVE  OutputWithinSafeLimit'
BY AtZeroWithin DEF OutputWithinSafeLimit, Within

\* No reachable state asks a side for more than the safe maximum, or drives it
\* there: not with any limit, mix, ramp rate or order of commands.
THEOREM SafeLimitCorrect == Spec => []OutputWithinSafeLimit
<1>1. Init => OutputWithinSafeLimit
    BY AtZeroWithin DEF Init, OutputWithinSafeLimit, Within
<1>2. TypeOK /\ OutputWithinSafeLimit /\ [Next]_vars => OutputWithinSafeLimit'
    <2>. SUFFICES ASSUME TypeOK, OutputWithinSafeLimit, [Next]_vars
                  PROVE  OutputWithinSafeLimit'
        OBVIOUS
    <2>1. CASE Update
        BY <2>1, SafeLimitUpdate
    <2>2. CASE ~Update
        <3>1. /\ current_pct' = current_pct \/ current_pct' = AtZero
              /\ target_pct' = target_pct \/ target_pct' = AtZero
            BY <2>2
            DEF Next, HandleCommand, Ignored, SetSpeed, Stop, EmergencyStop,
                Motion, ClearEmergencyStop, Tick, vars, outputVars
        <3>. QED BY <3>1, SafeLimitKept
    <2>. QED BY <2>1, <2>2
<1>. QED BY <1>1, <1>2, TypeCorrect, PTL DEF Spec

\* Under the latch everything is at zero and no command is left to resume.
THEOREM EStopCorrect == Spec => []EStopHolds
<1>1. Init => EStopHolds
    BY DEF Init, EStopHolds
<1>2. EStopHolds /\ [Next]_vars => EStopHolds'
    <2>. SUFFICES ASSUME EStopHolds, [Next]_vars PROVE EStopHolds'
        OBVIOUS
    <2>. USE DEF EStopHolds
    <2>1. ASSUME NEW cmd \in Commands, HandleCommand(cmd) PROVE EStopHolds'
        <3>1. CASE SetSpeed(cmd) BY <3>1 DEF SetSpeed, outputVars
        <3>2. CASE Stop(cmd) BY <3>2 DEF Stop
        <3>3. CASE EmergencyStop(cmd) BY <3>3 DEF EmergencyStop
        <3>4. CASE Motion(cmd) BY <3>4 DEF Motion
        <3>5. CASE Ignored(cmd) BY <3>5 DEF Ignored, vars, outputVars
        <3>. QED BY <2>1, <3>1, <3>2, <3>3, <3>4, <3>5 DEF HandleCommand
    <2>2. CASE UpdateLatched BY <2>2 DEF UpdateLatched
    <2>3. CASE UpdateTimedOut BY <2>3 DEF UpdateTimedOut
    <2>4. CASE UpdateDriving BY <2>4 DEF UpdateDriving
    <2>5. CASE ClearEmergencyStop BY <2>5 DEF ClearEmergencyStop
    <2>6. ASSUME NEW d \in UptimeSteps, Tick(d) PROVE EStopHolds'
        BY <2>6 DEF Tick, outputVars
    <2>7. CASE UNCHANGED vars BY <2>7 DEF vars, outputVars
    <2>. QED BY <2>1, <2>2, <2>3, <2>4, <2>5, <2>6, <2>7 DEF Next, Update
<1>. QED BY <1>1, <1>2, PTL DEF Spec

\* No step reverses a side without passing through zero.
THEOREM NoReversalCorrect == Spec => NoReversalJump
<1>. DEFINE Gentle == \A s \in Side :
                        ~DifferentSignNonzero(current_pct[s], current_pct'[s])
<1>1. TypeOK /\ [Next]_vars => [Gentle]_vars
    <2>. SUFFICES ASSUME TypeOK, [Next]_vars PROVE Gentle
        OBVIOUS
    <2>1. CASE current_pct' = AtZero
        BY <2>1 DEF AtZero, DifferentSignNonzero
    <2>2. CASE current_pct' = current_pct
        BY <2>2 DEF TypeOK, DifferentSignNonzero
    <2>3. CASE Update
        BY <2>1, <2>3, UpdateEffect, SlewedIsGentle
    <2>. QED BY <2>1, <2>2, <2>3
             DEF Next, HandleCommand, Ignored, SetSpeed, Stop, EmergencyStop,
                 Motion, ClearEmergencyStop, Tick, vars, outputVars
<1>. QED BY <1>1, TypeCorrect, PTL DEF Spec, NoReversalJump
-----------------------------------------------------------------------------
(* The ramp and the wrapping clock *)

\* The stamp of the last update is its time, as the counter shows it.
UpdateStampMatches == last_update_time_ms = updated_at % TimeMod

LEMMA UpdateStampCorrect == Spec => []UpdateStampMatches
<1>1. Init => UpdateStampMatches
    BY ClockAssumption DEF Init, UpdateStampMatches
<1>2. UpdateStampMatches /\ [Next]_vars => UpdateStampMatches'
    BY DEF UpdateStampMatches, NowMs, Next, HandleCommand, Ignored, SetSpeed, Stop,
           EmergencyStop, Motion, Update, UpdateLatched, UpdateTimedOut,
           UpdateDriving, UpdateClock, ClearEmergencyStop, Tick, vars, updateVars
<1>. QED BY <1>1, <1>2, PTL DEF Spec

\* An update never reckons with more time than has passed since the last one.
LEMMA UpdateDtIsTrue ==
    ASSUME TypeOK, UpdateStampMatches
    PROVE  UpdateDt <= Clamp(uptime - updated_at, 1, MaxDt)
<1>. DEFINE true  == uptime - updated_at
            since == IF last_update_time_ms = 0 THEN NowMs ELSE last_update_time_ms
            ms    == ElapsedMs(since)
<1>1. /\ uptime \in Nat /\ updated_at \in Nat /\ true \in Nat
      /\ TimeMod \in Nat \ {0} /\ MaxDt \in Nat \ {0}
    BY ClockAssumption, ConfigIsUsable DEF TypeOK, UInt16
<1>2. ms \in Int /\ ms <= true
    <2>1. CASE last_update_time_ms = 0
        <3>1. NowMs - NowMs = 0
            BY <1>1, ClockReading DEF NowMs
        <3>2. ms = 0 % TimeMod
            BY <2>1, <3>1 DEF ElapsedMs
        <3>3. 0 % TimeMod = 0
            BY <1>1
        <3>. HIDE DEF ms, true
        <3>. QED BY <1>1, <3>2, <3>3
    <2>2. CASE last_update_time_ms # 0
        <3>1. ms = ((uptime % TimeMod) - (updated_at % TimeMod)) % TimeMod
            BY <2>2 DEF ElapsedMs, NowMs, UpdateStampMatches
        <3>2. CASE true < TimeMod
            BY <1>1, <3>1, <3>2, ClockDifference
        <3>3. CASE true >= TimeMod
            <4>1. (uptime % TimeMod) - (updated_at % TimeMod) \in Int
                BY <1>1, ClockReading
            <4>2. ms \in 0..TimeMod-1
                BY <3>1, <4>1, ClockReading
            <4>. QED BY <1>1, <3>3, <4>2
        <3>. QED BY <1>1, <3>2, <3>3
    <2>. QED BY <2>1, <2>2
<1>3. UpdateDt = Clamp(ms, 1, MaxDt)
    BY DEF UpdateDt
<1>. HIDE DEF ms
<1>. QED BY <1>1, <1>2, <1>3 DEF Clamp

\* A gentle step moves a side by no more than the step of its kind.
LEMMA GentleDistance ==
    ASSUME NEW c \in Int, NEW r \in Int, r # 0, ~DifferentSignNonzero(c, r),
           NEW up \in Int, NEW down \in Int,
           Abs(r) > Abs(c) => Abs(r) - Abs(c) <= up,
           Abs(r) <= Abs(c) => Abs(c) - Abs(r) <= down
    PROVE  Abs(r - c) <= IF Abs(r) > Abs(c) THEN up ELSE down
BY DEF Abs, DifferentSignNonzero

\* Whatever the clock shows, an update ramps each side by no more than the time
\* since the last update allows, reckoned by a clock that never wraps.
THEOREM RampTimeCorrect == Spec => RampKeepsTime
<1>. DEFINE dt == Clamp(uptime - updated_at, 1, MaxDt)
            Timed == \A s \in Side :
                        \/ current_pct'[s] = 0
                        \/ Abs(current_pct'[s] - current_pct[s]) <=
                               IF Abs(current_pct'[s]) > Abs(current_pct[s])
                               THEN StepUp(dt) ELSE StepDown(dt)
<1>1. TypeOK /\ UpdateStampMatches /\ [Next]_vars => [Timed]_vars
    <2>. SUFFICES ASSUME TypeOK, UpdateStampMatches, Next, NEW s \in Side,
                         current_pct'[s] # 0
                  PROVE  Abs(current_pct'[s] - current_pct[s]) <=
                             IF Abs(current_pct'[s]) > Abs(current_pct[s])
                             THEN StepUp(dt) ELSE StepDown(dt)
        OBVIOUS
    <2>1. dt \in Nat \ {0} /\ UpdateDt \in Nat /\ UpdateDt <= dt
        BY UpdateSteps, UpdateDtIsTrue, ClockAssumption, ConfigIsUsable
        DEF TypeOK, UInt16, Clamp
    <2>. HIDE DEF dt
    <2>2. /\ StepUp(UpdateDt) \in Int /\ StepDown(UpdateDt) \in Int
          /\ StepUp(dt) \in Nat /\ StepDown(dt) \in Nat
          /\ StepUp(UpdateDt) <= StepUp(dt) /\ StepDown(UpdateDt) <= StepDown(dt)
        <3>1. RampUp \in Nat /\ RampDown \in Nat
            BY ConfigIsUsable
        <3>2. \A rate \in Nat : /\ CalculateStep(rate, UpdateDt) \in 1..100
                                /\ CalculateStep(rate, dt) \in 1..100
                                /\ CalculateStep(rate, UpdateDt) <= CalculateStep(rate, dt)
            BY <2>1, StepInRange, StepIsMonotone
        <3>. QED BY <3>1, <3>2 DEF StepUp, StepDown
    <2>3. current_pct[s] \in Int
        BY DEF TypeOK
    <2>4. CASE UNCHANGED current_pct
        <3>1. current_pct'[s] - current_pct[s] = 0
            BY <2>3, <2>4
        <3>. QED BY <2>2, <3>1 DEF Abs
    <2>5. CASE Update
        <3>1. current_pct'[s] = Slewed[s]
            BY <2>5, UpdateEffect DEF AtZero
        <3>2. /\ Slewed[s] \in Int
              /\ ~DifferentSignNonzero(current_pct[s], Slewed[s])
              /\ Abs(Slewed[s]) > Abs(current_pct[s])
                   => Abs(Slewed[s]) - Abs(current_pct[s]) <= StepUp(UpdateDt)
              /\ Abs(Slewed[s]) <= Abs(current_pct[s])
                   => Abs(current_pct[s]) - Abs(Slewed[s]) <= StepDown(UpdateDt)
            BY <2>5, UpdateEffect, SlewedIsGentle
        <3>3. Abs(Slewed[s] - current_pct[s]) <=
                  IF Abs(Slewed[s]) > Abs(current_pct[s])
                  THEN StepUp(UpdateDt) ELSE StepDown(UpdateDt)
            BY <2>2, <2>3, <3>1, <3>2, GentleDistance
        <3>4. Abs(Slewed[s] - current_pct[s]) \in Int
            BY <2>3, <3>2 DEF Abs
        <3>. QED BY <2>2, <3>1, <3>3, <3>4
    <2>6. current_pct' \in {current_pct, AtZero} \/ Update
        BY DEF Next, HandleCommand, Ignored, SetSpeed, Stop, EmergencyStop, Motion,
               ClearEmergencyStop, Tick, vars, outputVars
    <2>. QED BY <2>4, <2>5, <2>6 DEF AtZero
<1>. QED BY <1>1, TypeCorrect, UpdateStampCorrect, PTL DEF Spec, RampKeepsTime
-----------------------------------------------------------------------------
(* The dead-man rule *)

\* The age of the active command, as update computes it, is its true age when
\* that is below one turn of the counter.
LEMMA ElapsedIsAge ==
    ASSUME TypeOK, StampMatches, uptime - accepted_at < TimeMod
    PROVE  ElapsedMs(last_command_time_ms) = uptime - accepted_at
<1>1. uptime \in Nat /\ accepted_at \in Nat /\ 0 <= uptime - accepted_at
    BY ClockAssumption DEF TypeOK
<1>. QED BY <1>1, ClockAssumption, ClockDifference
         DEF ElapsedMs, NowMs, StampMatches

\* The stamp the manager keeps of the active command is the time it accepted it.
THEOREM StampCorrect == Spec => []StampMatches
<1>1. Init => StampMatches
    BY ClockAssumption DEF Init, StampMatches
<1>2. StampMatches /\ [Next]_vars => StampMatches'
    BY DEF StampMatches, NowMs, Next, HandleCommand, Ignored, SetSpeed, Stop,
           EmergencyStop, Motion, Update, UpdateLatched, UpdateTimedOut,
           UpdateDriving, ClearEmergencyStop, Tick, vars, commandVars
<1>. QED BY <1>1, <1>2, PTL DEF Spec

\* With a counter longer than any time-to-live, and 2^32 is, a command still
\* within its own is never judged expired, whenever the counter wraps.
THEOREM FreshCorrect ==
    ASSUME TimeMod > 65535
    PROVE  Spec => []FreshCommandNotExpired
<1>1. TypeOK /\ StampMatches => FreshCommandNotExpired
    <2>. SUFFICES ASSUME TypeOK, StampMatches, has_active_motion_cmd,
                         uptime - accepted_at <= active_cmd.ttl_ms
                  PROVE  ~CommandHasTimedOut
        BY DEF FreshCommandNotExpired
    <2>1. /\ active_cmd.ttl_ms \in Nat /\ active_cmd.ttl_ms <= 65535
          /\ uptime - accepted_at \in Int
        BY ClockAssumption DEF TypeOK, UInt16
    <2>2. uptime - accepted_at < TimeMod
        BY <2>1, ClockAssumption
    <2>3. ElapsedMs(last_command_time_ms) = uptime - accepted_at
        BY <2>2, ElapsedIsAge
    <2>. QED BY <2>1, <2>3 DEF CommandHasTimedOut
<1>. QED BY <1>1, TypeCorrect, StampCorrect, PTL

\* Until the counter wraps, an update that drives has a command within its
\* time-to-live, and one that finds it expired finds it older than that.
LEMMA TimeoutIsAge ==
    ASSUME MaxUptime < TimeMod, TypeOK, StampMatches
    PROVE  CommandHasTimedOut
               <=> \/ ~has_active_motion_cmd
                   \/ uptime - accepted_at > active_cmd.ttl_ms
<1>1. uptime - accepted_at < TimeMod
    BY ClockAssumption DEF TypeOK
<1>. QED BY <1>1, ElapsedIsAge DEF CommandHasTimedOut

\* A command disturbs no part of the dead-man rule, whoever submits it.
LEMMA HandleDeadMan ==
    ASSUME TypeOK, TypeOK', DeadManInvariant, NEW cmd, HandleCommand(cmd)
    PROVE  DeadManInvariant'
<1>. USE DEF DeadManInvariant, StampMatches, OnlyFreshCommandsDrive, LapsedStaysLapsed
<1>0. /\ uptime \in Nat /\ updated_at \in Nat /\ accepted_at \in Nat
      /\ updated_at <= uptime /\ accepted_at <= uptime
      /\ active_cmd.ttl_ms \in Nat /\ active_cmd'.ttl_ms \in Nat
    BY ClockAssumption DEF TypeOK, UInt16
<1>1. CASE SetSpeed(cmd)
    BY <1>1 DEF SetSpeed, outputVars, updateVars
<1>2. CASE Stop(cmd)
    BY <1>2 DEF Stop, commandVars, updateVars
<1>3. CASE EmergencyStop(cmd)
    BY <1>3 DEF EmergencyStop, commandVars, updateVars
<1>4. CASE Motion(cmd)
    BY <1>0, <1>4 DEF Motion, NowMs, outputVars, updateVars
<1>5. CASE Ignored(cmd)
    BY <1>5 DEF Ignored, vars, commandVars, outputVars, updateVars
<1>. QED BY <1>1, <1>2, <1>3, <1>4, <1>5 DEF HandleCommand

LEMMA DeadManNext ==
    ASSUME MaxUptime < TimeMod, TypeOK, TypeOK', DeadManInvariant, [Next]_vars
    PROVE  DeadManInvariant'
<1>. USE DEF OnlyFreshCommandsDrive, LapsedStaysLapsed
<1>0. /\ uptime \in Nat /\ updated_at \in Nat /\ accepted_at \in Nat
      /\ updated_at <= uptime /\ accepted_at <= uptime
      /\ active_cmd.ttl_ms \in Nat /\ active_cmd'.ttl_ms \in Nat
      /\ StampMatches /\ OnlyFreshCommandsDrive /\ LapsedStaysLapsed
    BY ClockAssumption DEF TypeOK, UInt16, DeadManInvariant
<1>1. ASSUME NEW cmd \in Commands, HandleCommand(cmd) PROVE DeadManInvariant'
    BY <1>1, HandleDeadMan
<1>2. CASE UpdateLatched
    BY <1>0, <1>2 DEF UpdateLatched, UpdateClock, commandVars, DeadManInvariant, StampMatches
<1>3. CASE UpdateTimedOut
    BY <1>0, <1>3, TimeoutIsAge
       DEF UpdateTimedOut, UpdateClock, commandVars, DeadManInvariant, StampMatches
<1>4. CASE UpdateDriving
    BY <1>0, <1>4, TimeoutIsAge
       DEF UpdateDriving, UpdateClock, commandVars, DeadManInvariant, StampMatches
<1>5. CASE ClearEmergencyStop
    BY <1>0, <1>5 DEF ClearEmergencyStop, commandVars, updateVars, DeadManInvariant, StampMatches
<1>6. ASSUME NEW d \in UptimeSteps, Tick(d) PROVE DeadManInvariant'
    BY <1>0, <1>6, ClockAssumption
       DEF Tick, commandVars, outputVars, updateVars, DeadManInvariant, StampMatches
<1>7. CASE UNCHANGED vars
    BY <1>0, <1>7 DEF vars, commandVars, outputVars, updateVars, DeadManInvariant, StampMatches
<1>. QED BY <1>1, <1>2, <1>3, <1>4, <1>5, <1>6, <1>7 DEF Next, Update

LEMMA DeadManInit == Init => DeadManInvariant
BY ClockAssumption
   DEF Init, DeadManInvariant, StampMatches, OnlyFreshCommandsDrive, LapsedStaysLapsed

\* Before the 32-bit counter first wraps (49 days after boot) the dead-man
\* rule holds: nothing drives on a command that has outlived its validity.
THEOREM DeadManCorrect ==
    ASSUME MaxUptime < TimeMod
    PROVE  Spec => []DeadManInvariant
<1>1. TypeOK /\ TypeOK' /\ DeadManInvariant /\ [Next]_vars => DeadManInvariant'
    BY DeadManNext
<1>. QED BY <1>1, DeadManInit, TypeCorrect, PTL DEF Spec
-----------------------------------------------------------------------------
(* The manager implements SafeVehicle *)

\* The ramp step of an update is at most that of the longest period it admits.
LEMMA StepIsBounded ==
    ASSUME TypeOK
    PROVE  /\ StepUp(MaxDt) \in Nat /\ StepDown(MaxDt) \in Nat
           /\ StepUp(UpdateDt) <= StepUp(MaxDt)
           /\ StepDown(UpdateDt) <= StepDown(MaxDt)
<1>1. /\ UpdateDt \in Nat /\ MaxDt \in Nat /\ UpdateDt <= MaxDt
      /\ RampUp \in Nat /\ RampDown \in Nat
    BY UpdateSteps, ConfigIsUsable DEF UInt16
<1>2. /\ CalculateStep(RampUp, MaxDt) \in Nat
      /\ CalculateStep(RampDown, MaxDt) \in Nat
      /\ CalculateStep(RampUp, UpdateDt) <= CalculateStep(RampUp, MaxDt)
      /\ CalculateStep(RampDown, UpdateDt) <= CalculateStep(RampDown, MaxDt)
    <2>1. /\ CalculateStep(RampUp, MaxDt) \in 1..100
          /\ CalculateStep(RampDown, MaxDt) \in 1..100
        BY <1>1, StepInRange
    <2>2. /\ CalculateStep(RampUp, UpdateDt) <= CalculateStep(RampUp, MaxDt)
          /\ CalculateStep(RampDown, UpdateDt) <= CalculateStep(RampDown, MaxDt)
        BY <1>1, StepIsMonotone
    <2>. QED BY <2>1, <2>2
<1>. QED BY <1>2 DEF StepUp, StepDown

\* SafeVehicle reads the same arithmetic.
LEMMA SafeOperators ==
    /\ Safe!Side = Side
    /\ \A v : Safe!Abs(v) = Abs(v)
    /\ \A v, w : Safe!DifferentSignNonzero(v, w) <=> DifferentSignNonzero(v, w)
BY DEF Safe!Side, Side, Safe!Abs, Abs, Safe!DifferentSignNonzero,
       DifferentSignNonzero

\* An update that does not zero the output is a gentle step of SafeVehicle.
LEMMA UpdateIsGentle ==
    ASSUME TypeOK, OutputWithinSafeLimit', Update, current_pct' = Slewed
    PROVE  Safe!Gentle
<1>1. ASSUME NEW s \in Side
      PROVE  /\ ~DifferentSignNonzero(current_pct[s], current_pct'[s])
             /\ Abs(current_pct'[s]) <= SAFE_MAX_SPEED_LIMIT_PCT
             /\ Abs(current_pct'[s]) > Abs(current_pct[s])
                  => Abs(current_pct'[s]) - Abs(current_pct[s]) <= StepUp(MaxDt)
             /\ ~(Abs(current_pct'[s]) > Abs(current_pct[s]))
                  => Abs(current_pct[s]) - Abs(current_pct'[s]) <= StepDown(MaxDt)
    <2>. DEFINE a == Abs(current_pct[s])  b == Abs(Slewed[s])
    <2>1. current_pct[s] \in -100..100 /\ Slewed[s] \in -100..100
        BY <1>1, UpdateEffect, SlewedIsGentle DEF TypeOK
    <2>2. a \in Int /\ b \in Int
        BY <2>1 DEF Abs
    <2>3. /\ ~DifferentSignNonzero(current_pct[s], Slewed[s])
          /\ b > a => b - a <= StepUp(UpdateDt)
          /\ b <= a => a - b <= StepDown(UpdateDt)
        BY <1>1, UpdateEffect, SlewedIsGentle
    <2>4. b <= SAFE_MAX_SPEED_LIMIT_PCT
        BY <1>1 DEF OutputWithinSafeLimit
    <2>5. StepUp(UpdateDt) \in Int /\ StepDown(UpdateDt) \in Int
        BY UpdateSteps
    <2>. HIDE DEF a, b
    <2>6. /\ b > a => b - a <= StepUp(MaxDt)
          /\ ~(b > a) => a - b <= StepDown(MaxDt)
        BY <2>2, <2>3, <2>5, StepIsBounded
    <2>. QED BY <2>3, <2>4, <2>6 DEF a, b
<1>. QED BY <1>1, SafeOperators DEF Safe!Gentle, Safe!Faster

\* All zeros is SafeVehicle at rest.
LEMMA AtZeroIsAtRest ==
    /\ AtZero = [s \in Safe!Side |-> 0]
    /\ current_pct = AtZero => Safe!AtRest
BY DEF AtZero, Safe!Side, Side, Safe!AtRest

\* A coasting step that keeps the speed is gentle.
LEMMA UnchangedIsGentle ==
    ASSUME TypeOK, OutputWithinSafeLimit, UNCHANGED current_pct
    PROVE  Safe!Gentle /\ \A s \in Safe!Side : ~Safe!Faster(s)
<1>1. ASSUME NEW s \in Side
      PROVE  /\ ~DifferentSignNonzero(current_pct[s], current_pct'[s])
             /\ Abs(current_pct'[s]) <= SAFE_MAX_SPEED_LIMIT_PCT
             /\ ~(Abs(current_pct'[s]) > Abs(current_pct[s]))
             /\ Abs(current_pct[s]) - Abs(current_pct'[s]) <= StepDown(MaxDt)
    <2>1. current_pct[s] \in -100..100 /\ current_pct'[s] = current_pct[s]
        BY <1>1 DEF TypeOK
    <2>2. Abs(current_pct[s]) \in Int
        BY <2>1 DEF Abs
    <2>3. StepDown(MaxDt) \in Nat
        BY StepIsBounded
    <2>4. ~DifferentSignNonzero(current_pct[s], current_pct'[s])
        BY <2>1 DEF DifferentSignNonzero
    <2>5. Abs(current_pct'[s]) <= SAFE_MAX_SPEED_LIMIT_PCT
        BY <1>1, <2>1 DEF OutputWithinSafeLimit
    <2>. HIDE DEF Abs
    <2>. QED BY <2>1, <2>2, <2>3, <2>4, <2>5
<1>. QED BY <1>1, SafeOperators DEF Safe!Gentle, Safe!Faster

\* Under a lapse the targets are zero, so no side gets faster.
LEMMA LapseOnlySlows ==
    ASSUME TypeOK, UpdateTimedOut
    PROVE  \A s \in Safe!Side : ~Safe!Faster(s)
<1>1. ASSUME NEW s \in Side
      PROVE  ~(Abs(current_pct'[s]) > Abs(current_pct[s]))
    <2>1. /\ current_pct' = Slewed /\ target_pct'[s] = 0
          /\ target_pct' \in [Side -> -100..100]
        BY <1>1, AtZeroType DEF UpdateTimedOut, AtZero
    <2>2. \/ Abs(Slewed[s]) <= Abs(current_pct[s])
          \/ Abs(Slewed[s]) <= Abs(target_pct'[s])
        BY <1>1, <2>1, SlewedIsGentle
    <2>3. current_pct[s] \in -100..100 /\ Slewed[s] \in -100..100
        BY <1>1, <2>1, SlewedIsGentle DEF TypeOK
    <2>4. current_pct[s] \in Int /\ Slewed[s] \in Int
        BY <2>3
    <2>. QED BY <2>1, <2>2, <2>4 DEF Abs
<1>. QED BY <1>1, SafeOperators DEF Safe!Faster

\* Every behaviour of the manager before the counter wraps is one that
\* SafeVehicle promises.
THEOREM ImplementsCorrect ==
    ASSUME MaxUptime < TimeMod
    PROVE  Spec => ImplementsSafeVehicle
<1>. DEFINE Inv == TypeOK /\ OutputWithinSafeLimit /\ EStopHolds
                     /\ StampMatches /\ LapsedStaysLapsed
<1>1. Init => Safe!Init
    BY AtZeroIsAtRest DEF Init, Safe!Init, Mode
<1>2. Inv /\ Inv' /\ [Next]_vars => [Safe!Next]_(Safe!vars)
    <2>. SUFFICES ASSUME Inv, Inv', [Next]_vars
                  PROVE  Safe!Next \/ UNCHANGED <<Mode, current_pct>>
        BY DEF Safe!vars
    <2>. USE DEF Mode
    <2>1. ASSUME NEW cmd \in Commands, HandleCommand(cmd)
          PROVE  Safe!Next \/ UNCHANGED <<Mode, current_pct>>
        <3>1. CASE SetSpeed(cmd)
            BY <3>1 DEF SetSpeed, outputVars
        <3>2. CASE Stop(cmd)
            <4>1. Mode' = "idle" /\ UNCHANGED current_pct
                BY <3>2 DEF Stop
            <4>2. CASE emergency_stop_latched
                BY <4>1, <4>2, AtZeroIsAtRest
                DEF EStopHolds, Safe!Next, Safe!Release
            <4>3. CASE ~emergency_stop_latched
                BY <4>1, <4>3, UnchangedIsGentle DEF Safe!Next, Safe!Coast
            <4>. QED BY <4>2, <4>3
        <3>3. CASE EmergencyStop(cmd)
            BY <3>3, AtZeroIsAtRest DEF EmergencyStop, Safe!Next, Safe!EStop
        <3>4. CASE Motion(cmd)
            BY <3>4 DEF Motion, outputVars, Safe!Next, Safe!Permit
        <3>5. CASE Ignored(cmd)
            BY <3>5 DEF Ignored, vars, outputVars
        <3>. QED BY <2>1, <3>1, <3>2, <3>3, <3>4, <3>5 DEF HandleCommand
    <2>2. CASE UpdateLatched
        BY <2>2 DEF UpdateLatched, EStopHolds
    <2>3. CASE UpdateTimedOut
        <3>1. Mode # "estopped" /\ Mode' = "idle"
            BY <2>3 DEF UpdateTimedOut
        <3>2. Safe!Gentle /\ \A s \in Safe!Side : ~Safe!Faster(s)
            BY <2>3, UpdateIsGentle, LapseOnlySlows DEF Update, UpdateTimedOut
        <3>. QED BY <3>1, <3>2 DEF Safe!Next, Safe!Coast
    <2>4. CASE UpdateDriving
        <3>1. Mode = "driving" /\ Mode' = "driving"
            <4>1. has_active_motion_cmd /\ ~emergency_stop_latched
                BY <2>4 DEF UpdateDriving, CommandHasTimedOut
            <4>2. ~command_timeout_active
                <5>1. uptime - accepted_at <= active_cmd.ttl_ms
                    <6>1. ~(uptime - accepted_at > active_cmd.ttl_ms)
                        BY <2>4, TimeoutIsAge DEF UpdateDriving
                    <6>2. /\ uptime - accepted_at \in Int
                          /\ active_cmd.ttl_ms \in Int
                        BY DEF TypeOK, UInt16
                    <6>. QED BY <6>1, <6>2
                <5>. QED BY <4>1, <5>1 DEF LapsedStaysLapsed, TypeOK, UInt16
            <4>. QED BY <2>4, <4>1, <4>2 DEF UpdateDriving
        <3>2. Safe!Gentle
            BY <2>4, UpdateIsGentle DEF Update, UpdateDriving
        <3>. QED BY <3>1, <3>2 DEF Safe!Next, Safe!Drive
    <2>5. CASE ClearEmergencyStop
        BY <2>5, AtZeroIsAtRest DEF ClearEmergencyStop, Safe!Next, Safe!Clear
    <2>6. ASSUME NEW d \in UptimeSteps, Tick(d)
          PROVE  UNCHANGED <<Mode, current_pct>>
        BY <2>6 DEF Tick, outputVars
    <2>7. CASE UNCHANGED vars
        BY <2>7 DEF vars, outputVars
    <2>. QED BY <2>1, <2>2, <2>3, <2>4, <2>5, <2>6, <2>7 DEF Next, Update
<1>. QED BY <1>1, <1>2, TypeCorrect, SafeLimitCorrect, EStopCorrect,
            StampCorrect, DeadManCorrect, PTL
         DEF Spec, ImplementsSafeVehicle, Safe!Spec, DeadManInvariant

=============================================================================
