--------------------------- MODULE VehicleThreads ---------------------------
(***************************************************************************)
(* The control manager as it runs: one unprotected                         *)
(* vehicle_control_manager_t shared by the motor thread, which updates it  *)
(* every 20 ms and drives the motors, and by the threads that submit       *)
(* commands to it.  A step is one access to the shared structure; two      *)
(* are one step only where nobody else could tell (both sides zeroed by    *)
(* the motor thread: the others write nothing but zero).  Between two      *)
(* steps any thread the scheduler lets run may take one.                   *)
(***************************************************************************)
EXTENDS VehicleControlManager, Sequences, SequencesExt

CONSTANTS
    Submitters,     \* the threads that submit commands: "bt", "udp"
    CommandsOf,     \* the commands each of them may submit
    Priority,       \* Zephyr priorities; below zero is cooperative
    TimeSlicing,    \* whether preemptible equals interrupt each other
    MotorOrder,     \* the motors in the order the driver serves them
    LeftMotors,     \* those of the left group
    Jitter,         \* how late the motor thread may wake, and how long it works
    MaxCommands,    \* bound on the commands submitted
    MaxFaults       \* bound on the driver calls that fail

Thread == {"motor"} \cup Submitters
Motor  == {MotorOrder[i] : i \in DOMAIN MotorOrder}

ASSUME ThreadAssumption ==
    /\ "motor" \notin Submitters
    /\ \A t \in Submitters : CommandsOf[t] \subseteq CommandType
    /\ \A t \in Thread : Priority[t] \in Int
    /\ TimeSlicing \in BOOLEAN
ASSUME MotorAssumption == LeftMotors \subseteq Motor
ASSUME BoundAssumption == {Jitter, MaxCommands, MaxFaults} \subseteq Nat

LOOP_PERIOD_MS == 20    \* k_msleep(20)

VARIABLES
    pc,         \* where each thread is
    msg,        \* the command each submitter is handling, with its stamp
    local,      \* the locals of an update in progress
    wake_at,    \* uptime at which the motor thread's sleep ends
    last,       \* last_left_pct, last_right_pct and output_applied_once
    drive,      \* the signed percentage the driver has put on each motor
    submitted,  \* the number of commands submitted
    faults,     \* the number of driver calls that failed
    \* history, never read by the code
    estop_at,   \* uptime at which the emergency stop was last latched
    false_start \* the driver's last call failed, and was to leave rest

threadVars == <<pc, msg, local, wake_at, last, drive, submitted, faults, estop_at,
                false_start>>
allVars == <<vars, threadVars>>

NoLocals == [now |-> 0, dt |-> 1, elapsed |-> 0, linear |-> 0, angular |-> 0,
             mixed |-> AtZero, slewed |-> AtZero, out |-> AtZero]
NoMsg == [cmd |-> NULL, stamp |-> 0]

ThreadsInit ==
    /\ Init
    /\ pc = [t \in Thread |-> IF t = "motor" THEN "asleep" ELSE "idle"]
    /\ msg = [t \in Submitters |-> NoMsg]
    /\ local = NoLocals
    /\ wake_at = 0
    /\ last = [out |-> AtZero, applied_once |-> FALSE]
    /\ drive = [m \in Motor |-> 0]
    /\ submitted = 0 /\ faults = 0 /\ estop_at = 0 /\ false_start = FALSE

Busy(t) == pc[t] \notin {"asleep", "idle"}

\* The scheduler runs t: whoever else has work can be, or has been, preempted.
Scheduled(t) ==
    \A u \in Thread \ {t} : Busy(u) =>
        /\ Priority[u] >= 0
        /\ \/ Priority[t] < Priority[u]
           \/ Priority[t] = Priority[u] /\ TimeSlicing

At(t, label) == pc[t] = label /\ Scheduled(t)
Goto(t, label) == pc' = [pc EXCEPT ![t] = label]

clockAndCommand == <<commandVars, updateVars, uptime>>
flags == <<has_active_motion_cmd, emergency_stop_latched, command_timeout_active>>
driverSide == <<last, drive, faults, false_start>>
motorSide == <<local, wake_at, driverSide>>
submitSide == <<msg, submitted, estop_at>>
-----------------------------------------------------------------------------
(* The motor thread: vehicle_control_manager_update, access by access *)

\* k_uptime_get_32 is read before anything of the manager is.
Wake ==
    /\ At("motor", "asleep") /\ uptime >= wake_at
    /\ Goto("motor", "latch")
    /\ local' = [NoLocals EXCEPT !.now = NowMs, !.dt = UpdateDt]
    /\ UpdateClock
    /\ UNCHANGED <<commandVars, outputVars, flags, uptime, wake_at, driverSide,
                   submitSide>>

\* Mutant: the update relies on handle_command to have cleared the motion.
CheckLatchIgnored ==
    /\ At("motor", "latch")
    /\ UNCHANGED outputVars /\ Goto("motor", "active")
    /\ UNCHANGED <<clockAndCommand, flags, motorSide, submitSide>>

CheckLatch ==
    /\ At("motor", "latch")
    /\ IF emergency_stop_latched
       THEN current_pct' = AtZero /\ target_pct' = AtZero /\ Goto("motor", "apply")
       ELSE UNCHANGED outputVars /\ Goto("motor", "active")
    /\ UNCHANGED <<clockAndCommand, flags, motorSide, submitSide>>

CheckActive ==
    /\ At("motor", "active")
    /\ Goto("motor", IF has_active_motion_cmd THEN "age" ELSE "lapse")
    /\ UNCHANGED <<vars, motorSide, submitSide>>

\* Mutant: the difference is signed.
ReadAgeSigned ==
    /\ At("motor", "age")
    /\ local' = [local EXCEPT !.elapsed = local.now - last_command_time_ms]
    /\ Goto("motor", "ttl")
    /\ UNCHANGED <<vars, wake_at, driverSide, submitSide>>

\* elapsed_ms is unsigned: a stamp later than now makes it huge.
ReadAge ==
    /\ At("motor", "age")
    /\ local' = [local EXCEPT !.elapsed = (local.now - last_command_time_ms) % TimeMod]
    /\ Goto("motor", "ttl")
    /\ UNCHANGED <<vars, wake_at, driverSide, submitSide>>

\* Mutant: a command of just its time-to-live is too old.
CheckTtlEarly ==
    /\ At("motor", "ttl")
    /\ Goto("motor", IF local.elapsed >= active_cmd.ttl_ms THEN "lapse" ELSE "linear")
    /\ UNCHANGED <<vars, motorSide, submitSide>>

CheckTtl ==
    /\ At("motor", "ttl")
    /\ Goto("motor", IF local.elapsed > active_cmd.ttl_ms THEN "lapse" ELSE "linear")
    /\ UNCHANGED <<vars, motorSide, submitSide>>

Lapse ==
    /\ At("motor", "lapse")
    /\ command_timeout_active' = TRUE
    /\ target_pct' = AtZero
    /\ Goto("motor", "read_left")
    /\ UNCHANGED <<clockAndCommand, current_pct, has_active_motion_cmd,
                   emergency_stop_latched, motorSide, submitSide>>

ReadLinear ==
    /\ At("motor", "linear")
    /\ command_timeout_active' = FALSE
    /\ local' = [local EXCEPT !.linear = ClampAxis(active_cmd.linear_x)]
    /\ Goto("motor", "angular")
    /\ UNCHANGED <<clockAndCommand, outputVars, has_active_motion_cmd,
                   emergency_stop_latched, wake_at, driverSide, submitSide>>

ReadAngular ==
    /\ At("motor", "angular")
    /\ local' = [local EXCEPT !.angular = ClampAxis(active_cmd.angular_z)]
    /\ Goto("motor", "mix")
    /\ UNCHANGED <<vars, wake_at, driverSide, submitSide>>

\* The limit is read when the axes have been mixed ...
MixTargets ==
    /\ At("motor", "mix")
    /\ local' = [local EXCEPT !.mixed =
                    DifferentialTargets(local.linear, local.angular,
                                        LimitSpeed(current_speed_limit_pct))]
    /\ Goto("motor", "target_left")
    /\ UNCHANGED <<vars, wake_at, driverSide, submitSide>>

\* ... and the sides are written one after the other, over whatever a stop has
\* made of them.
WriteTarget(s, here, next) ==
    /\ At("motor", here)
    /\ target_pct' = [target_pct EXCEPT ![s] = local.mixed[s]]
    /\ Goto("motor", next)
    /\ UNCHANGED <<clockAndCommand, current_pct, flags, motorSide, submitSide>>

\* Mutant: no ramp, the target is the new output.
RampReadStraight(s, here, next) ==
    /\ At("motor", here)
    /\ local' = [local EXCEPT !.slewed[s] = target_pct[s]]
    /\ Goto("motor", next)
    /\ UNCHANGED <<vars, wake_at, driverSide, submitSide>>

\* The ramp reads a side of current_pct and target_pct ...
RampRead(s, here, next) ==
    /\ At("motor", here)
    /\ local' = [local EXCEPT !.slewed[s] =
                    SlewLimitMotorPct(current_pct[s], target_pct[s],
                                      StepUp(local.dt), StepDown(local.dt))]
    /\ Goto("motor", next)
    /\ UNCHANGED <<vars, wake_at, driverSide, submitSide>>

\* ... and writes the result over whatever current_pct has become.
RampWrite(s, here, next) ==
    /\ At("motor", here)
    /\ current_pct' = [current_pct EXCEPT ![s] = local.slewed[s]]
    /\ Goto("motor", next)
    /\ UNCHANGED <<clockAndCommand, target_pct, flags, motorSide, submitSide>>

\* What is returned is current_pct read again, or the values just written if the
\* compiler still holds them: nothing in the code decides which.
ReadOutput ==
    /\ At("motor", "output")
    /\ \E held \in SUBSET Side :
          local' = [local EXCEPT !.slewed = AtZero,
                       !.out = [s \in Side |-> IF s \in held THEN local.slewed[s]
                                               ELSE current_pct[s]]]
    /\ Goto("motor", "apply")
    /\ UNCHANGED <<vars, wake_at, driverSide, submitSide>>

SideOf(m) == IF m \in LeftMotors THEN "left" ELSE "right"

Position(m) == SelectInSeq(MotorOrder, LAMBDA other : other = m)

NeedsApplying == ~last.applied_once \/ last.out # local.out

\* The last call that succeeded stopped every motor.
AtRest == last = [out |-> AtZero, applied_once |-> TRUE]

\* motor_driver_set_left_right succeeds.
DriverSucceeds ==
    /\ drive' = [m \in Motor |-> local.out[SideOf(m)]]
    /\ last' = [out |-> local.out, applied_once |-> TRUE]
    /\ false_start' = FALSE
    /\ UNCHANGED faults

\* What a call that fails at the k-th motor leaves behind: that one drives as
\* before or not at all (MotorDriver!FailureIsPartial).
DrivesPartly ==
    \E k \in DOMAIN MotorOrder, off \in BOOLEAN :
       drive' = [m \in Motor |->
                   IF Position(m) < k THEN local.out[SideOf(m)]
                   ELSE IF m = MotorOrder[k] /\ off THEN 0 ELSE drive[m]]

\* Mutant: the output is noted down whether or not the driver took it.
DriverFailsUnnoticed ==
    /\ faults < MaxFaults /\ faults' = faults + 1
    /\ DrivesPartly
    /\ last' = [out |-> local.out, applied_once |-> TRUE]
    /\ false_start' = FALSE

\* It fails, and last keeps what it was.
DriverFails ==
    /\ faults < MaxFaults /\ faults' = faults + 1
    /\ DrivesPartly
    /\ false_start' = AtRest
    /\ UNCHANGED last

\* The rest of the loop: apply what differs from the last output, and sleep.
Apply ==
    /\ At("motor", "apply")
    /\ IF NeedsApplying THEN DriverSucceeds \/ DriverFails
                        ELSE UNCHANGED driverSide
    /\ wake_at' = uptime + LOOP_PERIOD_MS
    /\ local' = NoLocals
    /\ Goto("motor", "asleep")
    /\ UNCHANGED <<vars, submitSide>>

MotorStep ==
    \/ Wake \/ CheckLatch \/ CheckActive \/ ReadAge \/ CheckTtl \/ Lapse
    \/ ReadLinear \/ ReadAngular \/ MixTargets
    \/ WriteTarget("left", "target_left", "target_right")
    \/ WriteTarget("right", "target_right", "read_left")
    \/ RampRead("left", "read_left", "write_left")
    \/ RampWrite("left", "write_left", "read_right")
    \/ RampRead("right", "read_right", "write_right")
    \/ RampWrite("right", "write_right", "output")
    \/ ReadOutput \/ Apply
-----------------------------------------------------------------------------
(* The submitting threads: handle_command, access by access *)

\* The first access of each handler, or none for what it ignores.
Entry(cmd) ==
    IF cmd.version # VEHICLE_COMMAND_VERSION THEN "idle"
    ELSE CASE cmd.command_type = "SET_SPEED"      -> "set_speed"
           [] cmd.command_type = "STOP"           -> "unlatch"
           [] cmd.command_type = "EMERGENCY_STOP" -> "latch_estop"
           [] cmd.command_type = "MOTION"         -> "check_latch"
           [] OTHER                               -> "idle"

\* A command arrives: the thread wakes, stamps it and calls handle_command.
Submit(t, cmd) ==
    /\ At(t, "idle") /\ submitted < MaxCommands
    /\ submitted' = submitted + 1
    /\ msg' = IF Entry(cmd) = "idle" THEN msg
              ELSE [msg EXCEPT ![t] = [cmd |-> cmd, stamp |-> NowMs]]
    /\ Goto(t, Entry(cmd))
    /\ UNCHANGED <<vars, motorSide, estop_at>>

Finish(t) == Goto(t, "idle") /\ msg' = [msg EXCEPT ![t] = NoMsg]

HandleSetSpeed(t) ==
    /\ At(t, "set_speed") /\ Finish(t)
    /\ current_speed_limit_pct' = LimitSpeed(msg[t].cmd.speed_limit_pct)
    /\ UNCHANGED <<active_cmd, last_command_time_ms, accepted_at, outputVars,
                   updateVars, flags, uptime, motorSide, submitted, estop_at>>

StopReleasesLatch(t) ==
    /\ At(t, "unlatch") /\ Goto(t, "deactivate")
    /\ emergency_stop_latched' = FALSE
    /\ UNCHANGED <<clockAndCommand, outputVars, has_active_motion_cmd,
                   command_timeout_active, motorSide, submitSide>>

EStopLatches(t) ==
    /\ At(t, "latch_estop") /\ Goto(t, "deactivate")
    /\ emergency_stop_latched' = TRUE
    /\ estop_at' = IF emergency_stop_latched THEN estop_at ELSE uptime
    /\ UNCHANGED <<clockAndCommand, outputVars, has_active_motion_cmd,
                   command_timeout_active, motorSide, msg, submitted>>

\* STOP and EMERGENCY_STOP go on in the same way ...
Deactivate(t) ==
    /\ At(t, "deactivate") /\ Goto(t, "zero_left")
    /\ has_active_motion_cmd' = FALSE
    /\ UNCHANGED <<clockAndCommand, outputVars, emergency_stop_latched,
                   command_timeout_active, motorSide, submitSide>>

GotoOrFinish(t, next) ==
    IF next = "done" THEN Finish(t) ELSE Goto(t, next) /\ UNCHANGED msg

ZeroTarget(t, s, here, next) ==
    /\ At(t, here) /\ GotoOrFinish(t, next)
    /\ target_pct' = [target_pct EXCEPT ![s] = 0]
    /\ UNCHANGED <<clockAndCommand, current_pct, flags, motorSide, submitted, estop_at>>

\* ... but only the latter also zeroes the output.
AfterTargets(t) ==
    IF msg[t].cmd.command_type = "EMERGENCY_STOP" THEN "output_left" ELSE "done"

ZeroOutput(t, s, here, next) ==
    /\ At(t, here) /\ GotoOrFinish(t, next)
    /\ current_pct' = [current_pct EXCEPT ![s] = 0]
    /\ UNCHANGED <<clockAndCommand, target_pct, flags, motorSide, submitted, estop_at>>

MotionChecksLatch(t) ==
    /\ At(t, "check_latch")
    /\ IF emergency_stop_latched THEN Finish(t)
       ELSE Goto(t, "copy") /\ UNCHANGED msg
    /\ UNCHANGED <<vars, motorSide, submitted, estop_at>>

\* The structure is copied in pieces, in the order the compiler chose.  The
\* clamps that follow in place are part of the copy: the only reader of an axis,
\* the mixer, clamps it again.
MotionCopiesLinear(t, here, next) ==
    /\ At(t, here) /\ Goto(t, next)
    /\ active_cmd' = [active_cmd EXCEPT !.linear_x = Accepted(msg[t].cmd).linear_x]
    /\ UNCHANGED <<current_speed_limit_pct, last_command_time_ms, accepted_at,
                   outputVars, updateVars, uptime, flags, motorSide, submitSide>>

\* A time-to-live of zero is there to be seen until the default replaces it.
MotionCopiesRest(t, here, next) ==
    /\ At(t, here) /\ Goto(t, next)
    /\ active_cmd' = [Accepted(msg[t].cmd) EXCEPT !.linear_x = active_cmd.linear_x,
                                                  !.ttl_ms = msg[t].cmd.ttl_ms]
    /\ UNCHANGED <<current_speed_limit_pct, last_command_time_ms, accepted_at,
                   outputVars, updateVars, uptime, flags, motorSide, submitSide>>

MotionDefaultsTtl(t) ==
    /\ At(t, "ttl") /\ Goto(t, "limit")
    /\ active_cmd' = [active_cmd EXCEPT !.ttl_ms = OrDefault(@, DefaultTtl)]
    /\ UNCHANGED <<current_speed_limit_pct, last_command_time_ms, accepted_at,
                   outputVars, updateVars, uptime, flags, motorSide, submitSide>>

\* The limit is read back from active_cmd, whoever has written it last.
MotionLimits(t) ==
    /\ At(t, "limit") /\ Goto(t, "stamp")
    /\ current_speed_limit_pct' = LimitOf(active_cmd)
    /\ UNCHANGED <<active_cmd, last_command_time_ms, accepted_at, outputVars,
                   updateVars, uptime, flags, motorSide, submitSide>>

MotionStamps(t) ==
    /\ At(t, "stamp") /\ Goto(t, "activate")
    /\ last_command_time_ms' = msg[t].stamp
    /\ UNCHANGED <<active_cmd, current_speed_limit_pct, accepted_at, outputVars,
                   updateVars, uptime, flags, motorSide, submitSide>>

\* The latch is not consulted again.
MotionActivates(t) ==
    /\ At(t, "activate") /\ Finish(t)
    /\ has_active_motion_cmd' = TRUE
    /\ command_timeout_active' = FALSE
    /\ accepted_at' = uptime
    /\ UNCHANGED <<active_cmd, current_speed_limit_pct, last_command_time_ms,
                   outputVars, updateVars, uptime, emergency_stop_latched,
                   motorSide, submitted, estop_at>>

SubmitterStep(t) ==
    \/ \E cmd \in CommandsOf[t] : Submit(t, cmd)
    \/ HandleSetSpeed(t)
    \/ StopReleasesLatch(t) \/ EStopLatches(t) \/ Deactivate(t)
    \/ ZeroTarget(t, "left", "zero_left", "zero_right")
    \/ ZeroTarget(t, "right", "zero_right", AfterTargets(t))
    \/ ZeroOutput(t, "left", "output_left", "output_right")
    \/ ZeroOutput(t, "right", "output_right", "done")
    \/ MotionChecksLatch(t)
    \/ MotionCopiesLinear(t, "copy", "copy_rest")
    \/ MotionCopiesRest(t, "copy_rest", "ttl")
    \/ MotionCopiesRest(t, "copy", "copy_linear")
    \/ MotionCopiesLinear(t, "copy_linear", "ttl")
    \/ MotionDefaultsTtl(t) \/ MotionLimits(t) \/ MotionStamps(t) \/ MotionActivates(t)
-----------------------------------------------------------------------------
\* Time passes between any two steps, as long as the motor thread, with its
\* wake-ups and its work, is within Jitter of its period.
Pass(d) ==
    /\ uptime + d <= MaxUptime
    /\ uptime + d <= Jitter + (IF Busy("motor") THEN updated_at ELSE wake_at)
    /\ uptime' = uptime + d
    /\ UNCHANGED <<commandVars, outputVars, updateVars, flags, threadVars>>

ThreadsNext == \/ MotorStep
               \/ \E t \in Submitters : SubmitterStep(t)
               \/ \E d \in UptimeSteps : Pass(d)

ThreadsSpec == ThreadsInit /\ [][ThreadsNext]_allVars
-----------------------------------------------------------------------------
(* What must hold of the threads together *)

\* Every location keeps its type, and every thread the locations it may be in.
ThreadsTypeOK ==
    /\ TypeOK
    /\ last.out \in [Side -> -100..100] /\ last.applied_once \in BOOLEAN
    /\ drive \in [Motor -> -100..100]
    /\ local.now \in 0..TimeMod-1 /\ local.elapsed \in 0..TimeMod-1
    /\ local.dt \in 1..MaxDt
    /\ submitted \in 0..MaxCommands /\ faults \in 0..MaxFaults
    /\ false_start \in BOOLEAN

\* A side whose request is torn between two commands, two handlers or two
\* updates still never exceeds the safe maximum on any motor.
MotorsWithinSafeLimit ==
    OutputWithinSafeLimit /\ \A m \in Motor : Abs(drive[m]) <= SAFE_MAX_SPEED_LIMIT_PCT

\* However the threads interleave, the manager's output is never written from
\* one direction straight to the other.
NoReversalUnderRaces ==
    [][\A s \in Side : ~DifferentSignNonzero(current_pct[s], current_pct'[s])]_allVars

\* The clock is read before the stamp, and a command accepted in between has a
\* stamp that is still to come: its age looks enormous.  Still an update (before
\* the counter wraps) takes a command for lapsed only if the command is older
\* than its time-to-live or was accepted after that update had begun, so that
\* the next one drives it.
LapseIsDeserved ==
    /\ pc["motor"] = "lapse" /\ \A t \in Submitters : ~Busy(t)
    /\ has_active_motion_cmd /\ ~emergency_stop_latched /\ uptime < TimeMod
    => \/ accepted_at >= updated_at
       \/ last_command_time_ms + active_cmd.ttl_ms < local.now

\* The longest time from a change of the shared state to a driver call that
\* follows it: the rest of the update in progress, a sleep, a late wake-up and
\* an update.  A call that fails is repeated one loop later.
ResponseTime == LOOP_PERIOD_MS + 3 * Jitter
RetryTime    == LOOP_PERIOD_MS + 2 * Jitter

\* A latched emergency stop has been at the motors for long enough, whatever
\* update or motion command was under way, and however many calls have failed.
StopIsDue ==
    emergency_stop_latched /\ uptime - estop_at > ResponseTime + faults * RetryTime

\* By then every motor is off, also one that a failed call has left driving: a
\* call that fails while the vehicle moves is repeated until the driver has stopped
\* every motor.  Excepted is the call that fails on leaving rest (false_start): the
\* stop's output is then the last one that succeeded, and RetriesUntilApplied fails.
EStopStopsInTime == StopIsDue /\ ~false_start => \A m \in Motor : drive[m] = 0

\* The motor thread's comment on a failed driver call, "We want to retry next
\* loop": an iteration that ends without a failure leaves the motors at the
\* output it computed, whatever failed before it.
RetriesUntilApplied ==
    [][pc["motor"] = "apply" /\ pc'["motor"] = "asleep" /\ faults' = faults
         => \A m \in Motor : drive'[m] = local.out[SideOf(m)]]_allVars

\* The comment on EMERGENCY_STOP, "Immediate. Latched. Motor output goes to
\* zero without normal ramp": once handled, it leaves the manager's output at
\* zero whenever no thread is in the middle of something.
EStopTakesEffect ==
    emergency_stop_latched /\ (\A t \in Thread : ~Busy(t)) => current_pct = AtZero

=============================================================================
