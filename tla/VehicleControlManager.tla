----------------------- MODULE VehicleControlManager -----------------------
(***************************************************************************)
(* vehicle_control_manager.c: the state machine between the operators'      *)
(* commands and the motors.  Here every function of the manager is one      *)
(* atomic step, in any order; VehicleThreads has the same functions          *)
(* interleaved.                                                              *)
(***************************************************************************)
EXTENDS VehicleArith

CONSTANTS
    SAFE_MAX_SPEED_LIMIT_PCT,   \* hard cap on every speed limit
    Config,             \* what init is given: a configuration, or NULL
    NULL,
    Commands,           \* the commands operators may submit
    TimeMod,            \* k_uptime_get_32 counts modulo TimeMod (2^32)
    UptimeSteps,        \* by how much the clock may advance at once
    MaxUpdateGap,       \* the motor thread is never later than this, in ms
    MaxUptime           \* bound on the clock

Percent == 0..100
Int16   == {n \in Int : -32768 <= n /\ n <= 32767}
UInt16  == {n \in Nat : n <= 65535}

ConfigType ==
    [default_speed_limit_pct : Percent, default_ttl_ms : UInt16,
     ramp_up_pct_per_sec : UInt16, ramp_down_pct_per_sec : UInt16,
     max_update_dt_ms : UInt16]

VEHICLE_COMMAND_VERSION == 1

CommandTypes == {"MOTION", "STOP", "EMERGENCY_STOP", "SET_SPEED", "HEARTBEAT"}

CommandType ==
    [version : Nat, command_type : CommandTypes, linear_x : Int16,
     angular_z : Int16, speed_limit_pct : Percent, ttl_ms : UInt16]

ASSUME SafeMaxAssumption == SAFE_MAX_SPEED_LIMIT_PCT \in Percent
ASSUME ConfigAssumption  == Config \in ConfigType \/ Config = NULL
ASSUME CommandAssumption == Commands \subseteq CommandType
ASSUME ClockAssumption   == /\ TimeMod \in Nat \ {0}
                            /\ UptimeSteps \subseteq Nat \ {0}
                            /\ MaxUptime \in Nat
                            /\ MaxUpdateGap \in Nat
-----------------------------------------------------------------------------
\* vehicle_control_manager_init: the configuration it settles on.
Defaults ==
    [default_speed_limit_pct |-> 25, default_ttl_ms |-> 400,
     ramp_up_pct_per_sec |-> 80, ramp_down_pct_per_sec |-> 160,
     max_update_dt_ms |-> 100]

Given == IF Config = NULL THEN Defaults ELSE Config

OrDefault(value, default) == IF value = 0 THEN default ELSE value

\* Mutant: the cap is missing.
LimitSpeedUncapped(pct) == pct

LimitSpeed(pct) == Clamp(pct, 0, SAFE_MAX_SPEED_LIMIT_PCT)

DefaultSpeedLimit == LimitSpeed(Given.default_speed_limit_pct)
DefaultTtl  == OrDefault(Given.default_ttl_ms, Defaults.default_ttl_ms)
MaxDt       == OrDefault(Given.max_update_dt_ms, Defaults.max_update_dt_ms)
RampUp      == OrDefault(Given.ramp_up_pct_per_sec,
                         Defaults.ramp_up_pct_per_sec)
RampDown    == OrDefault(Given.ramp_down_pct_per_sec,
                         Defaults.ramp_down_pct_per_sec)
StepUp(dt)   == CalculateStep(RampUp, dt)
StepDown(dt) == CalculateStep(RampDown, dt)
-----------------------------------------------------------------------------
VARIABLES
    \* vehicle_control_manager_t; the two sides of a field are one function
    active_cmd, current_speed_limit_pct,
    has_active_motion_cmd, emergency_stop_latched, command_timeout_active,
    last_command_time_ms, last_update_time_ms,
    current_pct, target_pct,
    \* the environment
    uptime,         \* milliseconds since boot, as a 64-bit clock has them
    \* history, never read by the code
    accepted_at,    \* uptime at which active_cmd was accepted
    updated_at      \* uptime of the last update

commandVars == <<active_cmd, current_speed_limit_pct, last_command_time_ms,
                 accepted_at>>
outputVars  == <<current_pct, target_pct>>
updateVars  == <<last_update_time_ms, updated_at>>
vars == <<commandVars, outputVars, updateVars, has_active_motion_cmd,
          emergency_stop_latched, command_timeout_active, uptime>>

AtZero == [s \in Side |-> 0]

\* What k_uptime_get_32 returns.
NowMs == uptime % TimeMod

\* uint32_t subtraction of two clock readings.
ElapsedMs(since) == (NowMs - since) % TimeMod

\* memset to zero, then the configured speed limit.
Init ==
    /\ active_cmd = [linear_x |-> 0, angular_z |-> 0, speed_limit_pct |-> 0,
                     ttl_ms |-> 0]
    /\ current_speed_limit_pct = DefaultSpeedLimit
    /\ has_active_motion_cmd = FALSE
    /\ emergency_stop_latched = FALSE
    /\ command_timeout_active = FALSE
    /\ last_command_time_ms = 0 /\ last_update_time_ms = 0
    /\ current_pct = AtZero /\ target_pct = AtZero
    /\ uptime = 0 /\ accepted_at = 0 /\ updated_at = 0
-----------------------------------------------------------------------------
(* vehicle_control_manager_handle_command *)

SetSpeed(cmd) ==
    /\ cmd.command_type = "SET_SPEED"
    /\ current_speed_limit_pct' = LimitSpeed(cmd.speed_limit_pct)
    /\ UNCHANGED <<active_cmd, last_command_time_ms, accepted_at, outputVars,
                   updateVars, has_active_motion_cmd, emergency_stop_latched,
                   command_timeout_active, uptime>>

\* Releases the latch; the output ramps down in the updates that follow.
Stop(cmd) ==
    /\ cmd.command_type = "STOP"
    /\ emergency_stop_latched' = FALSE
    /\ has_active_motion_cmd' = FALSE
    /\ target_pct' = AtZero
    /\ UNCHANGED <<current_pct, commandVars, updateVars,
                   command_timeout_active, uptime>>

EmergencyStop(cmd) ==
    /\ cmd.command_type = "EMERGENCY_STOP"
    /\ emergency_stop_latched' = TRUE
    /\ has_active_motion_cmd' = FALSE
    /\ target_pct' = AtZero
    /\ current_pct' = AtZero
    /\ UNCHANGED <<commandVars, updateVars, command_timeout_active, uptime>>

\* active_cmd after the copy, the clamps and the default time-to-live.
Accepted(cmd) ==
    [linear_x  |-> ClampAxis(cmd.linear_x),
     angular_z |-> ClampAxis(cmd.angular_z),
     speed_limit_pct |-> cmd.speed_limit_pct,
     ttl_ms    |-> IF cmd.ttl_ms = 0 THEN DefaultTtl ELSE cmd.ttl_ms]

\* Mutant: the command's limit is stored as it comes.
LimitOfUnclamped(cmd) ==
    IF cmd.speed_limit_pct > 0 THEN cmd.speed_limit_pct
    ELSE current_speed_limit_pct

\* A motion command without a limit of its own keeps the current one.
LimitOf(cmd) == IF cmd.speed_limit_pct > 0 THEN LimitSpeed(cmd.speed_limit_pct)
                ELSE current_speed_limit_pct

\* Mutant: the latch is not consulted.
MotionDespiteLatch(cmd) ==
    /\ cmd.command_type = "MOTION"
    /\ active_cmd' = Accepted(cmd)
    /\ current_speed_limit_pct' = LimitOf(cmd)
    /\ last_command_time_ms' = NowMs
    /\ has_active_motion_cmd' = TRUE
    /\ command_timeout_active' = FALSE
    /\ accepted_at' = uptime
    /\ UNCHANGED <<outputVars, updateVars, emergency_stop_latched, uptime>>

\* Both senders stamp timestamp_ms with the uptime at which they submit.
Motion(cmd) ==
    /\ cmd.command_type = "MOTION"
    /\ ~emergency_stop_latched
    /\ active_cmd' = Accepted(cmd)
    /\ current_speed_limit_pct' = LimitOf(cmd)
    /\ last_command_time_ms' = NowMs
    /\ has_active_motion_cmd' = TRUE
    /\ command_timeout_active' = FALSE
    /\ accepted_at' = uptime
    /\ UNCHANGED <<outputVars, updateVars, emergency_stop_latched, uptime>>

\* A heartbeat, and what the manager refuses: the command leaves no trace.
Ignored(cmd) ==
    /\ \/ cmd.version # VEHICLE_COMMAND_VERSION
       \/ cmd.command_type = "HEARTBEAT"
       \/ cmd.command_type = "MOTION" /\ emergency_stop_latched
    /\ UNCHANGED vars

HandleCommand(cmd) ==
    \/ /\ cmd.version = VEHICLE_COMMAND_VERSION
       /\ SetSpeed(cmd) \/ Stop(cmd) \/ EmergencyStop(cmd) \/ Motion(cmd)
    \/ Ignored(cmd)
-----------------------------------------------------------------------------
(* vehicle_control_manager_update *)

\* The elapsed time an update works with; zero marks the first update.
UpdateDt ==
    LET since == IF last_update_time_ms = 0 THEN NowMs ELSE last_update_time_ms
    IN  Clamp(ElapsedMs(since), 1, MaxDt)

\* Mutant: the age of the last update is taken for the age of the command.
CommandHasTimedOutSinceUpdate ==
    \/ ~has_active_motion_cmd
    \/ ElapsedMs(last_update_time_ms) > active_cmd.ttl_ms

\* Mutant: a command of just its time-to-live is too old.
CommandHasTimedOutEarly ==
    \/ ~has_active_motion_cmd
    \/ ElapsedMs(last_command_time_ms) >= active_cmd.ttl_ms

CommandHasTimedOut ==
    \/ ~has_active_motion_cmd
    \/ ElapsedMs(last_command_time_ms) > active_cmd.ttl_ms

\* Mutant: every request is scaled to the configured default limit.
TargetsAtDefaultLimit ==
    DifferentialTargets(ClampAxis(active_cmd.linear_x),
                        ClampAxis(active_cmd.angular_z), DefaultSpeedLimit)

CalculateDifferentialTargets ==
    DifferentialTargets(ClampAxis(active_cmd.linear_x),
                        ClampAxis(active_cmd.angular_z),
                        LimitSpeed(current_speed_limit_pct))

\* The new output: each side one ramp step closer to its target.
Slewed == [s \in Side |-> SlewLimitMotorPct(current_pct[s], target_pct'[s],
                                            StepUp(UpdateDt),
                                            StepDown(UpdateDt))]

UpdateClock == last_update_time_ms' = NowMs /\ updated_at' = uptime

\* Mutant: the early return under the latch comes before the clock is noted down.
UpdateLatchedTooSoon ==
    /\ emergency_stop_latched
    /\ updated_at' = uptime
    /\ current_pct' = AtZero /\ target_pct' = AtZero
    /\ UNCHANGED <<commandVars, last_update_time_ms, has_active_motion_cmd,
                   emergency_stop_latched, command_timeout_active, uptime>>

UpdateLatched ==
    /\ emergency_stop_latched
    /\ UpdateClock
    /\ current_pct' = AtZero /\ target_pct' = AtZero
    /\ UNCHANGED <<commandVars, has_active_motion_cmd, emergency_stop_latched,
                   command_timeout_active, uptime>>

\* Mutant: a lapse is flagged but the targets are left standing.
UpdateTimedOutKeepsTargets ==
    /\ ~emergency_stop_latched /\ CommandHasTimedOut
    /\ UpdateClock
    /\ command_timeout_active' = TRUE
    /\ target_pct' = target_pct
    /\ current_pct' = Slewed
    /\ UNCHANGED <<commandVars, has_active_motion_cmd, emergency_stop_latched,
                   uptime>>

\* A command that expires is not forgotten: has_active_motion_cmd stays.
UpdateTimedOut ==
    /\ ~emergency_stop_latched /\ CommandHasTimedOut
    /\ UpdateClock
    /\ command_timeout_active' = TRUE
    /\ target_pct' = AtZero
    /\ current_pct' = Slewed
    /\ UNCHANGED <<commandVars, has_active_motion_cmd, emergency_stop_latched,
                   uptime>>

UpdateDriving ==
    /\ ~emergency_stop_latched /\ ~CommandHasTimedOut
    /\ UpdateClock
    /\ command_timeout_active' = FALSE
    /\ target_pct' = CalculateDifferentialTargets
    /\ current_pct' = Slewed
    /\ UNCHANGED <<commandVars, has_active_motion_cmd, emergency_stop_latched,
                   uptime>>

Update == UpdateLatched \/ UpdateTimedOut \/ UpdateDriving
-----------------------------------------------------------------------------
\* vehicle_control_manager_clear_emergency_stop
ClearEmergencyStop ==
    /\ emergency_stop_latched' = FALSE
    /\ has_active_motion_cmd' = FALSE
    /\ target_pct' = AtZero
    /\ current_pct' = AtZero
    /\ UNCHANGED <<commandVars, updateVars, command_timeout_active, uptime>>

\* Time passes, but the motor thread's 20 ms loop keeps its pace.
Tick(d) ==
    /\ uptime + d <= MaxUptime
    /\ uptime + d <= updated_at + MaxUpdateGap
    /\ uptime' = uptime + d
    /\ UNCHANGED <<commandVars, outputVars, updateVars, has_active_motion_cmd,
                   emergency_stop_latched, command_timeout_active>>

Next == \/ \E cmd \in Commands : HandleCommand(cmd)
        \/ Update
        \/ ClearEmergencyStop
        \/ \E d \in UptimeSteps : Tick(d)

Spec == Init /\ [][Next]_vars

\* k_msleep(20) always ends: the motor thread's loop never stops updating.
FairSpec == Spec /\ WF_vars(Update)
-----------------------------------------------------------------------------
(* What the manager must guarantee *)

\* Every field stays within its C type and the clocks within the counter.
TypeOK ==
    /\ active_cmd \in [linear_x : Axis, angular_z : Axis,
                       speed_limit_pct : Percent, ttl_ms : UInt16]
    /\ current_speed_limit_pct \in 0..SAFE_MAX_SPEED_LIMIT_PCT
    /\ has_active_motion_cmd \in BOOLEAN
    /\ emergency_stop_latched \in BOOLEAN
    /\ command_timeout_active \in BOOLEAN
    /\ last_command_time_ms \in 0..TimeMod-1
    /\ last_update_time_ms \in 0..TimeMod-1
    /\ current_pct \in [Side -> -100..100]
    /\ target_pct \in [Side -> -100..100]
    /\ uptime \in 0..MaxUptime /\ accepted_at \in 0..uptime
    /\ updated_at \in 0..uptime

\* Whatever limits, mixes and ramps the commands ask for, neither the request
\* nor the ramped output of a side ever exceeds the safe maximum.
OutputWithinSafeLimit ==
    \A s \in Side : /\ Abs(target_pct[s]) <= SAFE_MAX_SPEED_LIMIT_PCT
                    /\ Abs(current_pct[s]) <= SAFE_MAX_SPEED_LIMIT_PCT

\* While the emergency stop is latched nothing drives, nothing is about to
\* drive, and no earlier motion command is left to resume.
EStopHolds ==
    emergency_stop_latched => /\ current_pct = AtZero /\ target_pct = AtZero
                              /\ ~has_active_motion_cmd

\* No step takes a side from one direction straight to the other: the ramp
\* always passes through zero, whatever commands arrive in between.
NoReversalJump ==
    [][\A s \in Side : ~DifferentSignNonzero(current_pct[s], current_pct'[s])]_vars

\* Dead-man rule: a target other than zero belongs to a command that, when it
\* was last evaluated, had been accepted no longer ago than its time-to-live.
OnlyFreshCommandsDrive ==
    target_pct # AtZero => updated_at - accepted_at <= active_cmd.ttl_ms

\* A command the manager has let lapse stays lapsed: its age only grows.
LapsedStaysLapsed ==
    has_active_motion_cmd /\ command_timeout_active
        => uptime - accepted_at > active_cmd.ttl_ms

\* The stored stamp is the acceptance time as the 32-bit counter shows it.
StampMatches == last_command_time_ms = accepted_at % TimeMod

\* The inductive form of the dead-man rule: why the stamp can be trusted and
\* why a lapse is final, as long as the counter has not wrapped.
DeadManInvariant == StampMatches /\ OnlyFreshCommandsDrive /\ LapsedStaysLapsed

\* The other half of it: a command still within its time-to-live is never
\* judged expired, nor when the 32-bit clock wraps after its acceptance.
FreshCommandNotExpired ==
    has_active_motion_cmd /\ uptime - accepted_at <= active_cmd.ttl_ms
        => ~CommandHasTimedOut

\* An update ramps a side by no more than the time since the last one allows (a
\* started millisecond at least), as a clock that never wraps has it: neither the
\* wrap, nor a clock that shows the zero of the first update, nor the updates spent
\* under the latch give a side time it has not had.
RampKeepsTime ==
    [][LET dt == Clamp(uptime - updated_at, 1, MaxDt)
       IN  \A s \in Side :
               \/ current_pct'[s] = 0
               \/ Abs(current_pct'[s] - current_pct[s]) <=
                      IF Abs(current_pct'[s]) > Abs(current_pct[s])
                      THEN StepUp(dt) ELSE StepDown(dt)]_vars

Mode == IF emergency_stop_latched THEN "estopped"
        ELSE IF has_active_motion_cmd /\ ~command_timeout_active
             THEN "driving" ELSE "idle"

Safe == INSTANCE SafeVehicle
            WITH mode <- Mode, speed <- current_pct,
                 SafeMax <- SAFE_MAX_SPEED_LIMIT_PCT,
                 MaxStepUp <- StepUp(MaxDt), MaxStepDown <- StepDown(MaxDt)

\* The manager implements the promise of SafeVehicle: only an accepted motion
\* command starts the vehicle, ramps are gentle, a lapse only slows it down.
ImplementsSafeVehicle == Safe!Spec

\* Once its authority is gone (stopped, expired or latched) the vehicle comes
\* to rest unless a new motion command arrives.
ComesToRest == Safe!ComesToRest

\* A lowered speed limit is obeyed at last, also by wheels already faster.
LoweredLimitObeyed ==
    \A limit \in 0..SAFE_MAX_SPEED_LIMIT_PCT :
        <>[](current_speed_limit_pct <= limit)
            => <>[](\A s \in Side : Abs(current_pct[s]) <= limit)

\* If the target stays put, the ramp arrives at it, and never oscillates.
RampConverges ==
    <>[][UNCHANGED target_pct]_vars => <>[](current_pct = target_pct)

=============================================================================
